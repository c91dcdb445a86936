---------------------------- MODULE MCGroupCatalog ----------------------------
(* Instance of GroupCatalog for TLC: one stored group, and requests that   *)
(* meet on it, on its name or on an external id. *)
EXTENDS GroupCatalog, TLC

CONSTANTS o1, o2, g0

MCStored ==
  {[id |-> g0, organization |-> o1, name |-> "dev", description |-> "old",
    source |-> "platform", external |-> Absent]}

Create(org, name, source, external) ==
  [op |-> "create", organization |-> org, name |-> name, description |-> "new",
   source |-> source, external |-> external]
Update(g, name, description) ==
  [op |-> "update", id |-> g, name |-> name, description |-> description]

MCRequests ==
  {Create(o1, "dev", "platform", Absent), Create(o1, "ops", "platform", Blank),
   Create(o1, "web", "platform", Blank), Create(o2, "dev", "platform", Absent),
   Create(o1, "dev", "scim", "e1"), Create(o1, "ops", "scim", "e1"),
   Create(o1, "web", "scim", Blank), Create(o1, "Ops!", "platform", Absent)}
  \cup {Update(g0, "ops", Absent), Update(g0, Absent, "mid"), Update(g0, "web", "top"),
        Update(g0, Absent, Absent), Update(g0, "Ops!", Absent)}
  \cup {Update(c, "dev", Absent) : c \in Calls}
  \cup {[op |-> "delete", id |-> g] : g \in Calls \cup {g0}}

(* Requests treats all calls alike. *)
MCSymmetry == Permutations(Calls)
===============================================================================
