---------------------------- MODULE Authorization ----------------------------
(***************************************************************************)
(* The relationship tuples of the authorization service (OpenFGA), which   *)
(* is not part of the repository, as internal/server/tuples.go uses it.    *)
(* For every group g the service manages three kinds of tuple:             *)
(*    organization:o  org     group:g     o is the group's organization    *)
(*    identity:i      admin   group:g     i created the group              *)
(*    identity:i      member  group:g     i is a member                    *)
(* One Write call carries a set of writes and a set of deletes and is      *)
(* atomic: it is rejected as a whole when it writes a tuple that exists or *)
(* deletes one that does not.                                              *)
(***************************************************************************)
EXTENDS GroupStore

CONSTANTS Organizations,
          OrgOf,        \* the organization a group is created in
          CreatorOf     \* the caller that creates it

ASSUME LabelsAssumption ==
  /\ OrgOf \in [Groups -> Organizations]
  /\ CreatorOf \in [Groups -> Identities]

VARIABLE tuples         \* the tuples in the authorization service

OrgKey(g) == [relation |-> "org", group |-> g, user |-> OrgOf[g]]
AdminKey(g) == [relation |-> "admin", group |-> g, user |-> CreatorOf[g]]
MemberKey(g, m) == [relation |-> "member", group |-> g, user |-> m]
KeyOf(r) == MemberKey(r.group, r.member)

GroupKeys(g) == {OrgKey(g), AdminKey(g)}
TupleKeys ==
  (UNION {GroupKeys(g) : g \in Groups})
    \cup {MemberKey(g, m) : g \in Groups, m \in Identities}

(* Every tuple whose object is group g. *)
KeysOn(g) == {k \in tuples : k.group = g}
AdminsOf(g) == {k \in KeysOn(g) : k.relation = "admin"}

(* Whether the service accepts a Write, and the tuples it leaves. *)
Accepted(writes, deletes) ==
  /\ writes \cap tuples = {}
  /\ deletes \subseteq tuples
Written(writes, deletes) == (tuples \ deletes) \cup writes
==============================================================================
