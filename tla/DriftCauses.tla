----------------------------- MODULE DriftCauses -----------------------------
(***************************************************************************)
(* When do the database and the authorization service drift apart?  The    *)
(* handlers change the two one after the other, with rollbacks of the      *)
(* first change when the second fails, and no transaction around both.     *)
(* This module adds to GroupsService the history of what may excuse drift  *)
(* on a group, so that the property can say that nothing else causes it.   *)
(***************************************************************************)
EXTENDS GroupsService

VARIABLE disturbed      \* groups with an excuse for drift

(* Two running requests that the handlers do not keep apart: an AddMember  *)
(* beside a RemoveMember of the same pair or a DeleteGroup of the group,   *)
(* and a CreateGroup that others find before it has written its tuples.    *)
(* Two requests of the same kind are kept apart by the unique constraint,  *)
(* by the row that RETURNING hands to one of them only, and by the         *)
(* authorization service, which rejects the second of two equal Writes.    *)
Conflict(c, d) ==
  /\ G(c) = G(d)
  /\ \/ req[c].op = "add" /\ req[d].op = "remove" /\ M(c) = M(d)
     \/ req[c].op = "add" /\ req[d].op \in {"create", "delete"}
     \/ req[c].op = "create" /\ req[d].op = "delete"

(* A call that failed although it took effect, or that was the second half *)
(* of a change to both stores, where nothing is left to undo the first.    *)
Unrepaired(c) ==
  \/ /\ faults' > faults
     /\ \/ pc[c] \in {"add_rollback", "rm_tuple", "cr_rollback", "del_commit"}
        \/ storeVars' # storeVars
        \/ tuples' # tuples
  \/ pc[c] \in {"del_select", "del_rows"} /\ pc'[c] = "failed"

Excused(c) ==
  \/ Unrepaired(c)
  \/ \E d \in Calls : Busy(d) /\ (Conflict(c, d) \/ Conflict(d, c))

DriftInit == ServiceInit /\ disturbed = {}

CallStepD(c) ==
  /\ CallStep(c)
  /\ disturbed' = IF Excused(c) THEN disturbed \cup {G(c)} ELSE disturbed
CrashD ==
  /\ Crash
  /\ disturbed' = disturbed \cup {G(c) : c \in {d \in Calls : Busy(d)}}
RemoveIdentityD(i) == RemoveIdentity(i) /\ UNCHANGED disturbed

DriftNext ==
  \/ \E c \in Calls : CallStepD(c)
  \/ CrashD
  \/ \E i \in Identities : RemoveIdentityD(i)

DriftSpec == DriftInit /\ [][DriftNext]_<<serviceVars, disturbed>>

(* The authorization service holds exactly the tuples the database calls   *)
(* for, on every group at rest whose requests never conflicted, were never *)
(* cut short by a crash, and never met an unrepaired failure.  In          *)
(* particular a rejected or failed tuple write is rolled back without a    *)
(* trace (memberships.go:57, groups.go:50), and requests on one pair of    *)
(* the same kind may race.                                                 *)
DriftHasACause ==
  \A g \in Groups \ disturbed :
    (\A c \in Calls : G(c) = g => ~Busy(c)) => InSync(g)

(***************************************************************************)
(* The inductive invariant behind it: which difference between the two     *)
(* stores each running request of an undisturbed group accounts for.       *)
(***************************************************************************)
(* The row is there and its tuple is not yet; the group's tuples are gone  *)
(* and the group is not yet.                                               *)
Writing == {"add_tuple", "add_rollback"}
Emptied == {"del_select", "del_rows", "del_commit"}

(* The two tuples of a group come and go together, and are missing only    *)
(* between the steps of one request.                                       *)
GroupTuplesFit(g) ==
  /\ OrgKey(g) \in tuples <=> AdminKey(g) \in tuples
  /\ OrgKey(g) \in tuples => g \in groups
  /\ g \in groups /\ OrgKey(g) \notin tuples =>
       \E c \in Calls : G(c) = g /\ pc[c] \in CreateLabels \cup Emptied

(* A row without its tuple, or a tuple without its row, is in the hands of *)
(* a request.                                                              *)
MemberTupleFits(g, m) ==
  /\ RowsFor(g, m) # {} /\ MemberKey(g, m) \notin tuples =>
       \E c \in Calls : G(c) = g /\ (pc[c] \in Emptied \/ (pc[c] \in Writing /\ M(c) = m))
  /\ RowsFor(g, m) = {} /\ MemberKey(g, m) \in tuples =>
       \E c \in Calls : G(c) = g /\ M(c) = m /\ pc[c] = "rm_tuple"

(* What a request relies on at its next step. *)
StoresFit(c) ==
  /\ pc[c] \in CreateLabels =>
       G(c) \in groups /\ RowsOf(G(c)) = {} /\ KeysOn(G(c)) = {}
  /\ pc[c] \in Writing =>
       NewRow(c) \in memberships /\ MemberKey(G(c), M(c)) \notin tuples
  /\ pc[c] = "rm_tuple" => RowsFor(G(c), M(c)) = {}
  /\ pc[c] \in {"del_members", "del_tuples"} =>
       /\ OrgKey(G(c)) \in doomed[c]
       /\ AdminKey(G(c)) \in tuples => AdminKey(G(c)) \in doomed[c]
  /\ pc[c] = "del_tuples" => \A r \in RowsOf(G(c)) : KeyOf(r) \in doomed[c]
  /\ pc[c] \in Emptied =>
       /\ GroupKeys(G(c)) \cap tuples = {}
       /\ \A r \in RowsOf(G(c)) : KeyOf(r) \notin tuples

GroupFits(g) ==
  /\ \A c, d \in Calls : G(c) = g /\ Busy(c) /\ Busy(d) => ~Conflict(c, d)
  /\ GroupTuplesFit(g)
  /\ \A m \in Identities : MemberTupleFits(g, m)
  /\ \A c \in Calls : G(c) = g => StoresFit(c)

DriftIInv ==
  /\ IInv /\ ForeignKey /\ UniqueMember
  /\ \A c \in Calls :
       /\ LabelFits(c)
       /\ Busy(c) => G(c) \in issued
       /\ \A k \in doomed[c] : k.group = G(c)
       /\ pc[c] \in CreateLabels =>
            \A d \in Calls \ {c} : G(d) = G(c) => pc[d] \notin CreateLabels
  /\ \A k \in tuples : k.group \in issued
  /\ \A g \in Groups \ disturbed : GroupFits(g)
===============================================================================
