--------------------------- MODULE Acknowledgements ---------------------------
(***************************************************************************)
(* What a client may conclude from the answer OK.  The handlers take no    *)
(* lock and AddMember undoes its insert by group and member, so the row a  *)
(* client was told of can be taken by a request the client never heard of. *)
(* This module adds to DriftCauses what each client was told, and what     *)
(* removals were asked for and committed, so that the properties can say   *)
(* when an answer holds.                                                   *)
(***************************************************************************)
EXTENDS DriftCauses

VARIABLES told,       \* the membership each AddMember answered with
          before,     \* the pair's row when a RemoveMember read the group
          asked       \* rows that a RemoveMember or a DeleteGroup took

ackVars == <<serviceVars, disturbed, told, before, asked>>

AckInit ==
  /\ DriftInit
  /\ told = [c \in Calls |-> {}]
  /\ before = [c \in Calls |-> {}]
  /\ asked = {}

Answers(c) == pc[c] \notin Done /\ pc'[c] = "ok"

AckCall(c) ==
  /\ CallStepD(c)
  /\ told' = IF req[c].op = "add" /\ Answers(c)
               THEN [told EXCEPT ![c] =
                       IF pc[c] = "add_publish" THEN {NewRow(c)} ELSE RowsFor(G(c), M(c))]
               ELSE told
  /\ before' = IF req[c].op = "remove" /\ pc[c] = "start"
                 THEN [before EXCEPT ![c] = RowsFor(G(c), M(c))]
                 ELSE before
  /\ asked' = IF req[c].op \in {"remove", "delete"}
                THEN asked \cup (memberships \ memberships') ELSE asked

AckNext ==
  \/ \E c \in Calls : AckCall(c)
  \/ CrashD /\ UNCHANGED <<told, before, asked>>
  \/ \E i \in Identities : RemoveIdentityD(i) /\ UNCHANGED <<told, before, asked>>

AckSpec == AckInit /\ [][AckNext]_ackVars

(* A failed AddMember of row r's pair whose own row was removed by request *)
(* while it ran: its rollback takes the row that is there now.             *)
RolledBackOver(r) ==
  \E c \in Calls :
    /\ req[c].op = "add" /\ pc[c] = "failed"
    /\ NewRow(c) \in asked /\ KeyOf(NewRow(c)) = KeyOf(r)

(* A membership a client was told of stays until somebody asks for its     *)
(* removal.  Three races are the exceptions, each of them of requests that *)
(* overlap: the rollback of a CreateGroup takes a member added before the  *)
(* group had its tuples; a duplicate AddMember answers with the row of a   *)
(* request that is rolled back later (memberships.go:53); and a rollback   *)
(* whose own row was removed meanwhile takes the row of the AddMember that *)
(* came after (memberships.go:57).                                         *)
AcknowledgedMembersStay ==
  \A c \in Calls : \A r \in told[c] :
    \/ r \in memberships
    \/ r \in asked
    \/ \E d \in Calls : req[d].op = "create" /\ G(d) = r.group /\ pc[d] = "failed"
    \/ r.id # c /\ r.id \in Calls /\ pc[r.id] = "failed"
    \/ RolledBackOver(r)

(* Once RemoveMember answers OK, the membership there was when it began is *)
(* gone for good, whoever removed it and whatever was added since.         *)
AcknowledgedRemovalsHold ==
  \A c \in Calls : pc[c] = "ok" => before[c] \cap memberships = {}

(***************************************************************************)
(* The inductive invariants behind the two.                                *)
(***************************************************************************)
(* A row that a RemoveMember found is its pair's, and was inserted.  Once  *)
(* it has deleted, or found nothing to delete, the row is gone.            *)
RemovalFits(c) ==
  /\ before[c] # {} => req[c].op = "remove" /\ pc[c] # "start"
  /\ \A r \in before[c] :
       r.group = G(c) /\ r.member = M(c) /\ \A d \in Calls : Unborn(d) => r.id # d
  /\ pc[c] \in {"rm_tuple", "rm_publish", "ok"} => before[c] \cap memberships = {}

RemovalIInv ==
  /\ IInv /\ before \in [Calls -> SUBSET Row]
  /\ \A c \in Calls : LabelFits(c) /\ RemovalFits(c)

(* The exceptions that no longer go away. *)
Excepted(r) ==
  \/ r \in asked
  \/ \E d \in Calls : req[d].op = "create" /\ G(d) = r.group /\ pc[d] = "failed"
  \/ RolledBackOver(r)

(* The row of an AddMember under way is there, or an exception; and so is  *)
(* the row it has told of, unless that is another one's.                   *)
AdditionFits(c) ==
  /\ pc[c] \in Writing \cup {"add_publish"} =>
       NewRow(c) \in memberships \/ Excepted(NewRow(c))
  /\ \A r \in told[c] :
       /\ pc[c] = "ok"
       /\ \/ r \in memberships \/ Excepted(r)
          \/ r.id # c /\ r.id \in Calls /\ pc[r.id] = "failed"

AdditionIInv ==
  /\ ServiceTypeOK /\ UniqueMember /\ told \in [Calls -> SUBSET Row]
  /\ \A c \in Calls : LabelFits(c) /\ AdditionFits(c)
===============================================================================
