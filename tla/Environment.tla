----------------------------- MODULE Environment -----------------------------
(***************************************************************************)
(* What the service's code meets when it calls out: the database, the      *)
(* authorization service, the identity service and the event stream, none  *)
(* of them in one transaction with another.                                *)
(*                                                                         *)
(* A call can fail.  A failed statement or Write may have taken effect all *)
(* the same: the connection broke, or the context's deadline passed,       *)
(* before the answer came.  MaxFaults bounds how many calls fail and       *)
(* crashes happen in a behaviour.  A failed read changes nothing and is    *)
(* not counted; a failed publish is only logged by the code (see the       *)
(* publish steps) and is not counted either.                               *)
(*                                                                         *)
(* Published events are kept as sets.  That a removal is not announced     *)
(* twice is a property of who is about to announce it (AnnouncedOnce in    *)
(* GroupsSystem).                                                          *)
(***************************************************************************)
EXTENDS Authorization, Naturals

CONSTANT MaxFaults

ASSUME MaxFaultsAssumption == MaxFaults \in Nat

VARIABLES identities,     \* the identity service's identities
          added,          \* rows announced by GroupMembershipAdded
          removed,        \* rows announced by GroupMembershipRemoved
          deletedGroups,  \* groups announced by GroupDeleted
          faults          \* failed calls and crashes so far

eventVars == <<added, removed, deletedGroups>>
worldVars == <<groups, memberships, tuples, identities, added, removed,
               deletedGroups, faults>>

WorldTypeOK ==
  /\ StoreTypeOK
  /\ tuples \subseteq TupleKeys
  /\ identities \subseteq Identities
  /\ added \subseteq Row
  /\ removed \subseteq Row
  /\ deletedGroups \subseteq Groups
  /\ faults \in 0..MaxFaults

Fault ==
  /\ faults < MaxFaults
  /\ faults' = faults + 1

(* A statement that leaves the tables as given, acknowledged or failed. *)
Execute(newGroups, newMemberships) ==
  /\ groups' = newGroups
  /\ memberships' = newMemberships
  /\ UNCHANGED faults
ExecuteFails(newGroups, newMemberships) ==
  /\ Fault
  /\ \/ groups' = newGroups /\ memberships' = newMemberships
     \/ UNCHANGED storeVars

(* A Write call on the authorization service, acknowledged or failed; the  *)
(* service's own rejection is no fault.                                    *)
Write(writes, deletes) ==
  /\ Accepted(writes, deletes)
  /\ tuples' = Written(writes, deletes)
  /\ UNCHANGED faults
WriteFails(writes, deletes) ==
  \/ /\ ~Accepted(writes, deletes)
     /\ UNCHANGED <<tuples, faults>>
  \/ /\ Fault
     /\ \/ Accepted(writes, deletes) /\ tuples' = Written(writes, deletes)
        \/ UNCHANGED tuples

(* An event is published or lost; the caller goes on either way. *)
PublishRemoved(r) ==
  /\ removed' \in {removed, removed \cup {r}}
  /\ UNCHANGED <<added, deletedGroups>>
PublishAdded(r) ==
  /\ added' \in {added, added \cup {r}}
  /\ UNCHANGED <<removed, deletedGroups>>
PublishGroupDeleted(g) ==
  /\ deletedGroups' \in {deletedGroups, deletedGroups \cup {g}}
  /\ UNCHANGED <<added, removed>>

(* An identity is deleted in the identity service. *)
IdentityRemoved(i) ==
  /\ i \in identities
  /\ identities' = identities \ {i}
  /\ UNCHANGED <<groups, memberships, tuples, added, removed, deletedGroups,
                 faults>>

(* What the authorization service ought to hold for a group. *)
Expected(g) ==
  IF g \in groups THEN GroupKeys(g) \cup {KeyOf(r) : r \in RowsOf(g)}
  ELSE {}
InSync(g) == KeysOn(g) = Expected(g)
==============================================================================
