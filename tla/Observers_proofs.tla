--------------------------- MODULE Observers_proofs ---------------------------
(***************************************************************************)
(* Proofs about what others can tell of the service from outside.          *)
(*                                                                         *)
(* DriftCauses and Acknowledgements: what a client may conclude from the   *)
(* answer OK of AddMember and RemoveMember, and that the stores drift      *)
(* apart for no other reason than the listed ones.                         *)
(*                                                                         *)
(* EventStream: what a consumer of the events knows of the members.        *)
(***************************************************************************)
EXTENDS Acknowledgements, EventStream, GroupsSystem_proofs

-----------------------------------------------------------------------------
(* RemoveMember's answer.                                                  *)
LEMMA RemovalInit == AckInit => RemovalIInv
<1> SUFFICES ASSUME AckInit PROVE RemovalIInv
  OBVIOUS
<1>1. IInv
  BY InvInit DEF AckInit, DriftInit
<1>2. before \in [Calls -> SUBSET Row] /\ \A c \in Calls : LabelFits(c) /\ RemovalFits(c)
  BY DEF AckInit, DriftInit, ServiceInit, LabelFits, AddLabels, RemoveLabels, CreateLabels,
         DeleteLabels, RemovalFits
<1> QED
  BY <1>1, <1>2 DEF RemovalIInv

(* What the removal itself does to the rows it found. *)
LEMMA OwnRemoval ==
  ASSUME pc \in [Calls -> Labels], NEW c \in Calls, RemoveMember(c), pc[c] # "start",
         \A r \in before[c] : r.group = G(c) /\ r.member = M(c), RemovalFits(c)
  PROVE  pc'[c] \in {"rm_tuple", "rm_publish", "ok"} => before[c] \cap memberships' = {}
<1>1. \A r \in before[c] : r \in memberships => r \in RowsFor(G(c), M(c))
  BY DEF RowsFor, RowsOf
<1>2. CASE RemoveGetGroup(c)
  BY <1>2 DEF RemoveGetGroup, Starts
<1>3. CASE RemoveLookup(c)
  BY <1>1, <1>3 DEF RemoveLookup, Goto, worldVars
<1>4. CASE RemoveDelete(c)
  BY <1>1, <1>4 DEF RemoveDelete, Goto, Execute, ExecuteFails, storeVars
<1>5. CASE RemoveTuple(c) \/ RemovePublish(c)
  BY <1>5 DEF RemoveTuple, RemovePublish, RemovalFits, storeVars
<1> QED
  BY <1>2, <1>3, <1>4, <1>5 DEF RemoveMember

LEMMA RemovalCall ==
  ASSUME RemovalIInv, NEW c \in Calls, AckCall(c), IInv'
  PROVE  RemovalIInv'
<1>0. /\ CallStep(c) /\ IInv /\ ServiceTypeOK /\ pc \in [Calls -> Labels]
      /\ before \in [Calls -> SUBSET Row] /\ \A d \in Calls : LabelFits(d) /\ RemovalFits(d)
  BY DEF AckCall, CallStepD, RemovalIInv, IInv, ServiceTypeOK
<1>1. /\ \A d \in Calls : Unborn(d)' => Unborn(d)
      /\ \/ memberships' \subseteq memberships
         \/ Unborn(c) /\ memberships' \subseteq memberships \cup {NewRow(c)}
  BY <1>0, CallEffect
<1>2. /\ req' = req /\ pc[c] \notin Done /\ pc'[c] # "start"
      /\ \A d \in Calls \ {c} : pc'[d] = pc[d]
      /\ \A d \in Calls : LabelFits(d)'
  BY <1>0, LabelsStay
<1>3. ASSUME NEW d \in Calls, NEW r \in before[d], r \notin memberships
      PROVE  r \notin memberships'
  <2>1. Unborn(c) => r.id # c
    BY <1>0 DEF RemovalFits
  <2>2. NewRow(c).id = c
    BY DEF NewRow
  <2> QED
    BY <1>1, <1>3, <2>1, <2>2
<1>4. CASE req[c].op = "remove" /\ pc[c] = "start"
  <2>1. before' = [before EXCEPT ![c] = RowsFor(G(c), M(c))]
    BY <1>4 DEF AckCall
  <2>2. RemoveGetGroup(c)
    BY <1>0, <1>4, HandlerOps
       DEF CallStep, RemoveMember, RemoveLookup, RemoveDelete, RemoveTuple, RemovePublish
  <2>3. pc'[c] \in {"rm_lookup", "failed"} /\ memberships' = memberships
    BY <1>0, <2>2 DEF RemoveGetGroup, Goto, worldVars
  <2>4. \A r \in RowsFor(G(c), M(c)) :
          /\ r \in Row /\ r.group = G(c) /\ r.member = M(c)
          /\ \A d \in Calls : Unborn(d) => r.id # d
    BY <1>0 DEF RowsFor, RowsOf, IInv, RowsAreFresh, ServiceTypeOK, WorldTypeOK, StoreTypeOK
  <2>5. before' \in [Calls -> SUBSET Row]
    BY <1>0, <2>1, <2>4
  <2>6. RemovalFits(c)'
    BY <1>0, <1>1, <1>2, <1>4, <2>1, <2>3, <2>4 DEF RemovalFits, G, M
  <2>7. ASSUME NEW d \in Calls \ {c} PROVE RemovalFits(d)'
    BY <1>0, <1>1, <1>2, <1>3, <2>1 DEF RemovalFits, G, M
  <2> QED
    BY <1>2, <2>5, <2>6, <2>7 DEF RemovalIInv
<1>5. CASE ~(req[c].op = "remove" /\ pc[c] = "start")
  <2>1. before' = before
    BY <1>5 DEF AckCall
  <2>2. ASSUME NEW d \in Calls \ {c} PROVE RemovalFits(d)'
    BY <1>0, <1>1, <1>2, <1>3, <2>1 DEF RemovalFits, G, M
  <2>3. pc'[c] \in {"rm_tuple", "rm_publish", "ok"} => before[c] \cap memberships' = {}
    <3>1. CASE req[c].op = "remove"
      <4>1. RemoveMember(c) /\ pc[c] # "start"
        BY <1>0, <1>5, <3>1, HandlerOps DEF CallStep
      <4> QED
        BY <1>0, <4>1, OwnRemoval DEF RemovalFits
    <3>2. CASE req[c].op # "remove"
      BY <1>0, <3>2 DEF RemovalFits
    <3> QED
      BY <3>1, <3>2
  <2>4. RemovalFits(c)'
    BY <1>0, <1>1, <1>2, <2>1, <2>3 DEF RemovalFits, G, M
  <2> QED
    BY <1>0, <1>2, <2>1, <2>2, <2>4 DEF RemovalIInv
<1> QED
  BY <1>4, <1>5

LEMMA RemovalStep == RemovalIInv /\ [AckNext]_ackVars => RemovalIInv'
<1> SUFFICES ASSUME RemovalIInv, [AckNext]_ackVars PROVE RemovalIInv'
  OBVIOUS
<1>1. IInv'
  <2>1. [Next]_serviceVars
    BY DEF AckNext, AckCall, CallStepD, CrashD, RemoveIdentityD, Next, ackVars
  <2> QED
    BY <2>1, InvStep DEF RemovalIInv
<1>2. CASE \E c \in Calls : AckCall(c)
  BY <1>1, <1>2, RemovalCall
<1>3. CASE CrashD /\ UNCHANGED <<told, before, asked>>
  <2>1. Crash /\ before' = before
    BY <1>3 DEF CrashD
  <2>2. ASSUME NEW c \in Calls PROVE LabelFits(c)' /\ RemovalFits(c)'
    BY <2>1, CrashLabels DEF RemovalIInv, RemovalFits, Unborn, Busy, Done, G, M
  <2> QED
    BY <1>1, <2>1, <2>2 DEF RemovalIInv
<1>4. CASE \/ \E i \in Identities : RemoveIdentityD(i) /\ UNCHANGED <<told, before, asked>>
           \/ UNCHANGED ackVars
  <2>1. UNCHANGED <<before, pc, req, memberships>>
    BY <1>4 DEF RemoveIdentityD, RemoveIdentity, IdentityRemoved, callVars, ackVars,
                serviceVars, worldVars
  <2> QED
    BY <1>1, <2>1 DEF RemovalIInv, LabelFits, RemovalFits, Unborn, G, M
<1> QED
  BY <1>2, <1>3, <1>4 DEF AckNext

(* The rows that a RemoveMember found, and what it has done to them, in    *)
(* every reachable state of memberships.go's handlers.                     *)
THEOREM RemovalInvariance == AckSpec => []RemovalIInv
BY RemovalInit, RemovalStep, PTL DEF AckSpec

(* When RemoveMember answers OK, the membership that was there when it     *)
(* began is gone for good.                                                 *)
THEOREM RemovalsHold == AckSpec => []AcknowledgedRemovalsHold
<1>1. RemovalIInv => AcknowledgedRemovalsHold
  BY DEF RemovalIInv, RemovalFits, AcknowledgedRemovalsHold
<1> QED
  BY <1>1, RemovalInvariance, PTL

-----------------------------------------------------------------------------
(* AddMember's answer.                                                     *)
LEMMA AdditionInit == AckInit => AdditionIInv
<1> SUFFICES ASSUME AckInit PROVE AdditionIInv
  OBVIOUS
<1>1. ServiceTypeOK
  BY TypeInit DEF AckInit, DriftInit
<1> QED
  BY <1>1 DEF AckInit, DriftInit, ServiceInit, LabelFits, AddLabels, RemoveLabels, CreateLabels,
              DeleteLabels, AdditionIInv, AdditionFits, Writing

(* An exception stays one. *)
LEMMA ExceptedStays ==
  ASSUME req' = req, asked \subseteq asked', NEW r,
         \A d \in Calls : pc[d] = "failed" => pc'[d] = "failed"
  PROVE  Excepted(r) => Excepted(r)'
BY DEF Excepted, RolledBackOver, NewRow, G, M

(* A row that goes was asked for, or goes with its group's creation, or is *)
(* rolled back: by its own AddMember, or by one that is itself excepted.   *)
LEMMA RowsGoByException ==
  ASSUME AdditionIInv, NEW c \in Calls, AckCall(c), NEW r \in memberships
  PROVE  \/ r \in memberships' \/ Excepted(r)'
         \/ r = NewRow(c) /\ pc'[c] = "failed"
<1>0. /\ CallStep(c) /\ pc \in [Calls -> Labels] /\ UniqueMember
      /\ LabelFits(c) /\ AdditionFits(c)
  BY DEF AckCall, CallStepD, AdditionIInv, ServiceTypeOK
<1>1. /\ req' = req /\ pc[c] \notin Done /\ \A d \in Calls \ {c} : pc'[d] = pc[d]
  BY <1>0, LabelsStay
<1>2. Excepted(NewRow(c)) => Excepted(NewRow(c))'
  BY <1>1, ExceptedStays DEF AckCall, Done, Excepted, RolledBackOver, NewRow, G, M
<1>3. CASE memberships \subseteq memberships'
  BY <1>3
<1>4. CASE pc[c] \in {"rm_delete", "del_commit"}
  BY <1>0, <1>4 DEF AckCall, LabelFits, RemoveLabels, DeleteLabels, Excepted
<1>5. CASE /\ pc[c] = "add_rollback" /\ Goto(c, "failed")
           /\ memberships' = memberships \ RowsFor(G(c), M(c))
  <2>1. pc'[c] = "failed" /\ req[c].op = "add"
    BY <1>0, <1>5 DEF Goto, LabelFits, AddLabels
  <2>2. SUFFICES ASSUME r \in RowsFor(G(c), M(c)) PROVE Excepted(r)' \/ r = NewRow(c)
    BY <1>5, <2>1
  <2>3. /\ r.group = NewRow(c).group /\ r.member = NewRow(c).member
        /\ KeyOf(r) = KeyOf(NewRow(c)) /\ NewRow(c)' = NewRow(c)
    BY <1>1, <2>2 DEF RowsFor, RowsOf, NewRow, KeyOf, G, M
  <2>4. CASE NewRow(c) \in memberships
    BY <1>0, <2>3, <2>4 DEF UniqueMember
  <2>5. CASE Excepted(NewRow(c))
    <3>1. NewRow(c) \in asked => NewRow(c) \in asked'
      BY DEF AckCall
    <3>2. \A d \in Calls : /\ NewRow(d)' = NewRow(d) /\ G(d)' = G(d)
                           /\ pc[d] = "failed" => pc'[d] = "failed"
      BY <1>1 DEF NewRow, G, M, Done
    <3>3. asked \subseteq asked'
      BY DEF AckCall
    <3> QED
      BY <1>1, <2>1, <2>3, <2>5, <3>2, <3>3 DEF Excepted, RolledBackOver
  <2> QED
    BY <1>0, <1>5, <2>4, <2>5 DEF AdditionFits, Writing
<1>6. CASE /\ pc[c] = "cr_rollback" /\ Goto(c, "failed")
           /\ memberships' = memberships \ RowsOf(G(c))
  <2>1. pc'[c] = "failed" /\ req[c].op = "create"
    BY <1>0, <1>6 DEF Goto, LabelFits, CreateLabels
  <2> QED
    BY <1>1, <1>6, <2>1 DEF RowsOf, Excepted, G
<1> QED
  BY <1>0, <1>3, <1>4, <1>5, <1>6, RowsMove

(* What the AddMember itself has inserted, and what it tells. *)
LEMMA OwnAddition ==
  ASSUME AdditionIInv, NEW c \in Calls, AckCall(c)
  PROVE  /\ pc'[c] \in Writing \cup {"add_publish"} =>
              \/ NewRow(c) \in memberships'
              \/ pc[c] \in Writing /\ memberships' = memberships
         /\ req[c].op = "add" /\ pc'[c] = "ok" =>
              pc[c] \in {"add_publish", "add_readback"} /\ memberships' = memberships
<1>0. CallStep(c) /\ pc \in [Calls -> Labels] /\ LabelFits(c)
  BY DEF AckCall, CallStepD, AdditionIInv, ServiceTypeOK
<1>1. CASE AddMember(c)
  BY <1>0, <1>1
     DEF AddMember, AddGetGroup, AddValidate, AddInsert, AddReadback, AddWriteTuple, AddRollback,
         AddPublish, Goto, Writing, Execute, storeVars, worldVars
<1>2. CASE ~AddMember(c)
  <2>1. pc'[c] \notin AddLabels /\ req[c].op # "add"
    BY <1>0, <1>2, HandlerOps, LabelsStay DEF CallStep, LabelFits
  <2> QED
    BY <2>1 DEF Writing, AddLabels
<1> QED
  BY <1>1, <1>2

LEMMA AdditionCall ==
  ASSUME AdditionIInv, NEW c \in Calls, AckCall(c), ServiceTypeOK'
  PROVE  AdditionIInv'
<1>0. /\ CallStep(c) /\ pc \in [Calls -> Labels] /\ memberships \subseteq Row
      /\ told \in [Calls -> SUBSET Row] /\ \A d \in Calls : LabelFits(d) /\ AdditionFits(d)
  BY DEF AckCall, CallStepD, AdditionIInv, ServiceTypeOK, WorldTypeOK, StoreTypeOK
<1>1. /\ req' = req /\ pc[c] \notin Done /\ \A d \in Calls \ {c} : pc'[d] = pc[d]
      /\ \A d \in Calls : LabelFits(d)'
  BY <1>0, LabelsStay
<1>2. \A d \in Calls : /\ NewRow(d)' = NewRow(d) /\ NewRow(d).id = d
                       /\ pc[d] = "failed" => pc'[d] = "failed"
  BY <1>1 DEF NewRow, G, M, Done
<1>3. \A r : Excepted(r) => Excepted(r)'
  BY <1>1, <1>2, ExceptedStays DEF AckCall
<1>4. \A r \in memberships : r \in memberships' \/ Excepted(r)' \/ (r = NewRow(c) /\ pc'[c] = "failed")
  BY RowsGoByException
<1>5. UniqueMember'
  BY <1>0, UniqueStays DEF AdditionIInv
<1>6. NewRow(c) \in Row /\ RowsFor(G(c), M(c)) \subseteq memberships /\ told[c] = {}
  BY <1>0, <1>1, RequestTypes DEF AdditionIInv, AdditionFits, RowsFor, RowsOf, Done
<1>7. /\ told' \in [Calls -> SUBSET Row] /\ \A d \in Calls \ {c} : told'[d] = told[d]
      /\ \A r \in told'[c] :
           /\ req[c].op = "add" /\ pc'[c] = "ok"
           /\ IF pc[c] = "add_publish" THEN r = NewRow(c) ELSE r \in memberships
  BY <1>0, <1>6 DEF AckCall, Answers
<1>8. ASSUME NEW d \in Calls \ {c} PROVE AdditionFits(d)'
  <2>1. /\ AdditionFits(d) /\ pc'[d] = pc[d] /\ told'[d] = told[d] /\ NewRow(d) # NewRow(c)
    BY <1>0, <1>1, <1>2, <1>7
  <2>2. pc'[d] \in Writing \cup {"add_publish"} =>
          NewRow(d)' \in memberships' \/ Excepted(NewRow(d))'
    BY <1>2, <1>3, <1>4, <2>1 DEF AdditionFits
  <2>3. ASSUME NEW r \in told[d]
        PROVE  /\ pc'[d] = "ok"
               /\ \/ r \in memberships' \/ Excepted(r)'
                  \/ r.id # d /\ r.id \in Calls /\ pc'[r.id] = "failed"
    BY <1>2, <1>3, <1>4, <2>1, <2>3 DEF AdditionFits
  <2> QED
    BY <2>1, <2>2, <2>3 DEF AdditionFits
<1>9. AdditionFits(c)'
  <2>1. pc'[c] \in Writing \cup {"add_publish"} =>
          NewRow(c)' \in memberships' \/ Excepted(NewRow(c))'
    BY <1>0, <1>2, <1>3, OwnAddition DEF AdditionFits
  <2>2. ASSUME NEW r \in told'[c]
        PROVE  pc'[c] = "ok" /\ (r \in memberships' \/ Excepted(r)')
    BY <1>0, <1>2, <1>3, <1>7, <2>2, OwnAddition DEF AdditionFits
  <2> QED
    BY <2>1, <2>2 DEF AdditionFits
<1> QED
  BY <1>1, <1>5, <1>7, <1>8, <1>9 DEF AdditionIInv

LEMMA AdditionStep == AdditionIInv /\ [AckNext]_ackVars => AdditionIInv'
<1> SUFFICES ASSUME AdditionIInv, [AckNext]_ackVars PROVE AdditionIInv'
  OBVIOUS
<1>1. ServiceTypeOK'
  <2>1. [Next]_serviceVars
    BY DEF AckNext, AckCall, CallStepD, CrashD, RemoveIdentityD, Next, ackVars
  <2> QED
    BY <2>1, TypeStep DEF AdditionIInv
<1>2. CASE \E c \in Calls : AckCall(c)
  BY <1>1, <1>2, AdditionCall
<1>3. CASE CrashD /\ UNCHANGED <<told, before, asked>>
  <2>1. Crash /\ told' = told /\ asked' = asked
    BY <1>3 DEF CrashD
  <2>2. /\ req' = req /\ memberships' = memberships
        /\ \A c \in Calls : pc'[c] = (IF Busy(c) THEN "failed" ELSE pc[c]) /\ NewRow(c)' = NewRow(c)
    <3>1. req' = req /\ memberships' = memberships
      BY <2>1 DEF Crash, callVars, storeVars
    <3> QED
      BY <2>1, <3>1, CrashLabels DEF NewRow, G, M
  <2>3. \A r : Excepted(r) => Excepted(r)'
    BY <2>1, <2>2, ExceptedStays DEF Busy, Done
  <2>4. ASSUME NEW c \in Calls PROVE LabelFits(c)' /\ AdditionFits(c)'
    <3>1. LabelFits(c)' /\ AdditionFits(c)
      BY <2>1, CrashLabels DEF AdditionIInv
    <3>2. pc'[c] \in Writing \cup {"add_publish"} => pc[c] = pc'[c]
      BY <2>2 DEF Writing
    <3>3. \A d \in Calls : pc[d] \in Done => pc'[d] = pc[d]
      BY <2>2 DEF Busy
    <3> QED
      BY <2>1, <2>2, <2>3, <3>1, <3>2, <3>3 DEF AdditionFits, Done
  <2> QED
    BY <1>1, <2>1, <2>2, <2>4 DEF AdditionIInv, UniqueMember
<1>4. CASE \/ \E i \in Identities : RemoveIdentityD(i) /\ UNCHANGED <<told, before, asked>>
           \/ UNCHANGED ackVars
  <2>1. UNCHANGED <<told, asked, pc, req, memberships>>
    BY <1>4 DEF RemoveIdentityD, RemoveIdentity, IdentityRemoved, callVars, ackVars,
                serviceVars, worldVars
  <2>2. \A r : Excepted(r)' <=> Excepted(r)
    BY <2>1 DEF Excepted, RolledBackOver, NewRow, G, M
  <2> QED
    BY <1>1, <2>1, <2>2 DEF AdditionIInv, LabelFits, AdditionFits, UniqueMember, NewRow, G, M
<1> QED
  BY <1>2, <1>3, <1>4 DEF AckNext

(* What has become of the row of each AddMember, and of the row it has     *)
(* told its client of, in every reachable state.                           *)
THEOREM AdditionInvariance == AckSpec => []AdditionIInv
BY AdditionInit, AdditionStep, PTL DEF AckSpec

(* A membership that AddMember has answered with stays until its removal   *)
(* is asked for, but for the three races of memberships.go.                *)
THEOREM MembersStay == AckSpec => []AcknowledgedMembersStay
<1>1. AdditionIInv => AcknowledgedMembersStay
  BY DEF AdditionIInv, AdditionFits, Excepted, AcknowledgedMembersStay
<1> QED
  BY <1>1, AdditionInvariance, PTL

-----------------------------------------------------------------------------
(* Drift.  The steps of a request that changes a store and is not excused, *)
(* one kind for each change; all others are quiet.                         *)
Quiet(c) ==
  /\ UNCHANGED <<groups, memberships, tuples>>
  /\ pc'[c] \in CreateLabels => pc[c] \in CreateLabels
  /\ pc'[c] \in Writing => pc[c] \in Writing
  /\ pc'[c] # "rm_tuple"
  /\ pc'[c] \in Emptied => pc[c] \in Emptied
  /\ pc[c] \in CreateLabels => pc'[c] \in CreateLabels
  /\ pc[c] \in Writing => pc'[c] \in Writing
  /\ pc[c] \in Emptied => pc'[c] \in Emptied
  /\ pc[c] = "rm_tuple" => MemberKey(G(c), M(c)) \notin tuples
  /\ pc'[c] = "del_members" => doomed'[c] = {OrgKey(G(c))} \cup AdminsOf(G(c))
  /\ pc'[c] = "del_tuples" =>
       /\ pc[c] = "del_members"
       /\ doomed'[c] = doomed[c] \cup {KeyOf(r) : r \in RowsOf(G(c))}
  /\ \A d \in Calls \ {c} : doomed'[d] = doomed[d]

Moves(c, from, to) == pc[c] = from /\ pc'[c] = to /\ doomed' = doomed
Inserts(c) ==
  /\ Moves(c, "add_insert", "add_tuple")
  /\ RowsFor(G(c), M(c)) = {} /\ G(c) \in groups
  /\ memberships' = memberships \cup {NewRow(c)} /\ UNCHANGED <<groups, tuples>>
Writes(c) ==
  /\ Moves(c, "add_tuple", "add_publish")
  /\ tuples' = tuples \cup {MemberKey(G(c), M(c))} /\ UNCHANGED <<groups, memberships>>
RollsBack(c) ==
  /\ Moves(c, "add_rollback", "failed")
  /\ memberships' = memberships \ RowsFor(G(c), M(c)) /\ UNCHANGED <<groups, tuples>>
Deletes(c) ==
  /\ Moves(c, "rm_delete", "rm_tuple")
  /\ memberships' = memberships \ RowsFor(G(c), M(c)) /\ UNCHANGED <<groups, tuples>>
Revokes(c) ==
  /\ Moves(c, "rm_tuple", "rm_publish")
  /\ tuples' = tuples \ {MemberKey(G(c), M(c))} /\ UNCHANGED <<groups, memberships>>
Opens(c) ==
  /\ Moves(c, "start", "cr_tuples") /\ G(c) \notin issued
  /\ groups' = groups \cup {G(c)} /\ UNCHANGED <<memberships, tuples>>
WritesGroup(c) ==
  /\ Moves(c, "cr_tuples", "ok")
  /\ tuples' = tuples \cup GroupKeys(G(c)) /\ UNCHANGED <<groups, memberships>>
Closes(c) ==
  /\ Moves(c, "cr_rollback", "failed") \/ Moves(c, "del_commit", "del_publish")
  /\ groups' = groups \ {G(c)} /\ memberships' = memberships \ RowsOf(G(c))
  /\ UNCHANGED tuples
Empties(c) ==
  /\ Moves(c, "del_tuples", "del_select")
  /\ doomed[c] \subseteq tuples /\ tuples' = tuples \ doomed[c]
  /\ UNCHANGED <<groups, memberships>>

LEMMA UnexcusedMoves ==
  ASSUME ServiceTypeOK, NEW c \in Calls, CallStep(c), ~Unrepaired(c)
  PROVE  \/ Quiet(c) \/ Inserts(c) \/ Writes(c) \/ RollsBack(c) \/ Deletes(c) \/ Revokes(c)
         \/ Opens(c) \/ WritesGroup(c) \/ Closes(c) \/ Empties(c)
<1> USE DEF Goto, Moves, Writing, Emptied, CreateLabels
<1>0. pc \in [Calls -> Labels] /\ doomed \in [Calls -> SUBSET TupleKeys] /\ faults \in Nat
  BY DEF ServiceTypeOK, WorldTypeOK
<1>1. Fault => faults' > faults
  BY <1>0 DEF Fault
<1>2. CASE AddMember(c)
  <2>1. CASE AddGetGroup(c) \/ AddValidate(c) \/ AddReadback(c) \/ AddPublish(c)
    BY <1>0, <2>1 DEF AddGetGroup, AddValidate, AddReadback, AddPublish, Starts, Quiet,
                      worldVars, callVars, storeVars
  <2>2. CASE AddInsert(c)
    BY <1>0, <1>1, <2>2 DEF AddInsert, Execute, ExecuteFails, Unrepaired, Quiet, Inserts,
                            storeVars, callVars
  <2>3. CASE AddWriteTuple(c)
    BY <1>0, <1>1, <2>3 DEF AddWriteTuple, Write, WriteFails, Written, Unrepaired, Quiet, Writes,
                            storeVars, callVars
  <2>4. CASE AddRollback(c)
    BY <1>0, <1>1, <2>4 DEF AddRollback, Execute, ExecuteFails, Unrepaired, RollsBack, callVars
  <2> QED
    BY <1>2, <2>1, <2>2, <2>3, <2>4 DEF AddMember
<1>3. CASE RemoveMember(c)
  <2>1. CASE RemoveGetGroup(c) \/ RemoveLookup(c) \/ RemovePublish(c)
    BY <1>0, <2>1 DEF RemoveGetGroup, RemoveLookup, RemovePublish, Starts, Quiet,
                      worldVars, callVars, storeVars
  <2>2. CASE RemoveDelete(c)
    BY <1>0, <1>1, <2>2 DEF RemoveDelete, Execute, ExecuteFails, Unrepaired, Quiet, Deletes,
                            storeVars
  <2>3. CASE RemoveTuple(c)
    BY <1>0, <1>1, <2>3 DEF RemoveTuple, Write, WriteFails, Written, Accepted, Unrepaired, Quiet,
                            Revokes, storeVars, callVars
  <2> QED
    BY <1>3, <2>1, <2>2, <2>3 DEF RemoveMember
<1>4. CASE CreateGroup(c)
  <2>1. CASE CreateInsert(c)
    BY <1>0, <1>1, <2>1 DEF CreateInsert, Starts, Execute, ExecuteFails, Unrepaired, Quiet, Opens,
                            storeVars
  <2>2. CASE CreateTuples(c)
    BY <1>0, <1>1, <2>2 DEF CreateTuples, Write, WriteFails, Written, Unrepaired, Quiet,
                            WritesGroup, storeVars, callVars
  <2>3. CASE CreateRollback(c)
    BY <1>0, <1>1, <2>3 DEF CreateRollback, Execute, ExecuteFails, Unrepaired, Closes, callVars
  <2> QED
    BY <1>4, <2>1, <2>2, <2>3 DEF CreateGroup
<1>5. CASE DeleteGroup(c)
  <2>1. CASE DeleteGetGroup(c) \/ DeleteListAdmins(c) \/ DeleteListMembers(c)
    BY <1>0, <2>1 DEF DeleteGetGroup, DeleteListAdmins, DeleteListMembers, Starts, Quiet,
                      worldVars, callVars
  <2>2. CASE DeleteTuples(c)
    BY <1>0, <1>1, <2>2 DEF DeleteTuples, Write, WriteFails, Written, Accepted, Unrepaired, Quiet,
                            Empties, storeVars, callVars
  <2>3. CASE DeleteSelectGroup(c) \/ DeleteSelectRows(c)
    BY <1>0, <2>3 DEF DeleteSelectGroup, DeleteSelectRows, Unrepaired, Quiet, worldVars, callVars
  <2>4. CASE DeleteCommit(c)
    BY <1>0, <1>1, <2>4 DEF DeleteCommit, Execute, ExecuteFails, Unrepaired, Closes, callVars
  <2>5. CASE DeletePublish(c)
    BY <1>0, <2>5 DEF DeletePublish, Quiet, storeVars
  <2> QED
    BY <1>5, <2>1, <2>2, <2>3, <2>4, <2>5 DEF DeleteGroup
<1> QED
  BY <1>2, <1>3, <1>4, <1>5 DEF CallStep

(* A step leaves every other group's rows, tuples and requests alone. *)
LEMMA OtherGroupsStay ==
  ASSUME ServiceTypeOK, NEW c \in Calls, CallStep(c), \A k \in doomed[c] : k.group = G(c)
  PROVE  /\ \A g \in Groups \ {G(c)} : g \in groups' <=> g \in groups
         /\ \A r : r.group # G(c) => (r \in memberships' <=> r \in memberships)
         /\ \A k : k.group # G(c) => (k \in tuples' <=> k \in tuples)
         /\ \A d \in Calls \ {c} : doomed'[d] = doomed[d]
         /\ \A k \in doomed'[c] : k.group = G(c)
<1>0. doomed \in [Calls -> SUBSET TupleKeys]
  BY DEF ServiceTypeOK
<1>1. /\ \A m : MemberKey(G(c), m).group = G(c)
      /\ \A k \in GroupKeys(G(c)) \cup AdminsOf(G(c)) : k.group = G(c)
      /\ \A r \in RowsOf(G(c)) : r.group = G(c) /\ KeyOf(r).group = G(c)
      /\ RowsFor(G(c), M(c)) \subseteq RowsOf(G(c)) /\ NewRow(c).group = G(c)
      /\ OrgKey(G(c)).group = G(c)
  BY DEF MemberKey, GroupKeys, OrgKey, AdminKey, AdminsOf, KeysOn, RowsOf, RowsFor, KeyOf, NewRow
<1>2. \A r : r.group # G(c) => (r \in memberships' <=> r \in memberships)
  BY <1>1, RowsMove
<1>3. CASE AddMember(c)
  BY <1>0, <1>1, <1>2, <1>3
     DEF AddMember, AddGetGroup, AddValidate, AddInsert, AddReadback, AddWriteTuple, AddRollback,
         AddPublish, Execute, ExecuteFails, Write, WriteFails, Written, worldVars, storeVars, callVars
<1>4. CASE RemoveMember(c)
  BY <1>0, <1>1, <1>2, <1>4
     DEF RemoveMember, RemoveGetGroup, RemoveLookup, RemoveDelete, RemoveTuple, RemovePublish,
         Execute, ExecuteFails, Write, WriteFails, Written, worldVars, storeVars, callVars
<1>5. CASE CreateGroup(c)
  BY <1>0, <1>1, <1>2, <1>5
     DEF CreateGroup, CreateInsert, CreateTuples, CreateRollback,
         Execute, ExecuteFails, Write, WriteFails, Written, worldVars, storeVars, callVars
<1>6. CASE DeleteGroup(c)
  BY <1>0, <1>1, <1>2, <1>6
     DEF DeleteGroup, DeleteGetGroup, DeleteListAdmins, DeleteListMembers, DeleteTuples,
         DeleteSelectGroup, DeleteSelectRows, DeleteCommit, DeletePublish,
         Execute, ExecuteFails, Write, WriteFails, Written, worldVars, storeVars, callVars
<1> QED
  BY <1>3, <1>4, <1>5, <1>6 DEF CallStep

(* A busy request is on a group that has been drawn, and so are the tuples. *)
LEMMA GroupsAreDrawn ==
  ASSUME IInv, NEW c \in Calls, CallStep(c), LabelFits(c), \A k \in doomed[c] : k.group = G(c),
         Busy(c) => G(c) \in issued, \A k \in tuples : k.group \in issued
  PROVE  /\ issued \subseteq issued'
         /\ Busy(c)' => G(c) \in issued'
         /\ \A k \in tuples' : k.group \in issued'
<1>1. /\ issued \subseteq issued'
      /\ pc[c] = "start" => tuples' = tuples /\ (Busy(c)' => G(c) \in issued')
  <2>0. pc \in [Calls -> Labels] /\ groups \subseteq issued
    BY DEF IInv, ServiceTypeOK, GroupsAreFresh
  <2>1. CASE AddMember(c)
    BY <2>0, <2>1 DEF AddMember, AddGetGroup, AddValidate, AddInsert, AddReadback, AddWriteTuple,
                      AddRollback, AddPublish, callVars, worldVars, Busy, Done, Goto
  <2>2. CASE RemoveMember(c)
    BY <2>0, <2>2 DEF RemoveMember, RemoveGetGroup, RemoveLookup, RemoveDelete, RemoveTuple,
                      RemovePublish, callVars, worldVars, Busy, Done, Goto
  <2>3. CASE CreateGroup(c)
    BY <2>0, <2>3 DEF CreateGroup, CreateInsert, CreateTuples, CreateRollback, callVars, Busy,
                      Done, Goto
  <2>4. CASE DeleteGroup(c)
    BY <2>0, <2>4 DEF DeleteGroup, DeleteGetGroup, DeleteListAdmins, DeleteListMembers,
                      DeleteTuples, DeleteSelectGroup, DeleteSelectRows, DeleteCommit,
                      DeletePublish, callVars, worldVars, Busy, Done, Goto
  <2> QED
    BY <2>1, <2>2, <2>3, <2>4 DEF CallStep
<1>2. pc[c] # "start" => G(c) \in issued
  <2>1. pc[c] \notin Done
    BY LabelsStay DEF IInv, ServiceTypeOK
  <2> QED
    BY <2>1 DEF Busy
<1>3. \A k \in tuples' : k.group = G(c) \/ k \in tuples
  BY OtherGroupsStay DEF IInv
<1> QED
  BY <1>1, <1>2, <1>3

LEMMA GroupStays ==
  ASSUME NEW g \in Groups, GroupFits(g), req' = req, g \in groups' <=> g \in groups,
         \A r : r.group = g => (r \in memberships' <=> r \in memberships),
         \A k : k.group = g => (k \in tuples' <=> k \in tuples),
         \A d \in Calls : G(d) = g => pc'[d] = pc[d] /\ doomed'[d] = doomed[d]
  PROVE  GroupFits(g)'
<1>1. /\ RowsOf(g)' = RowsOf(g) /\ KeysOn(g)' = KeysOn(g)
      /\ \A m : RowsFor(g, m)' = RowsFor(g, m)
      /\ \A m : MemberKey(g, m) \in tuples' <=> MemberKey(g, m) \in tuples
      /\ \A k \in GroupKeys(g) : k \in tuples' <=> k \in tuples
      /\ \A r \in RowsOf(g) : KeyOf(r) \in tuples' <=> KeyOf(r) \in tuples
  BY DEF RowsOf, RowsFor, KeysOn, MemberKey, GroupKeys, OrgKey, AdminKey, KeyOf
<1>2. \A d \in Calls : /\ G(d)' = G(d) /\ M(d)' = M(d) /\ NewRow(d)' = NewRow(d)
                       /\ NewRow(d).group = G(d)
                       /\ G(d) = g => (Busy(d)' <=> Busy(d))
  BY DEF G, M, NewRow, Busy
<1>3. \A c, d \in Calls : Conflict(c, d)' <=> Conflict(c, d)
  BY <1>2 DEF Conflict
<1>4. \A c, d \in Calls : Conflict(c, d) => G(c) = G(d)
  BY DEF Conflict
<1>5. GroupTuplesFit(g)'
  BY <1>1, <1>2 DEF GroupFits, GroupTuplesFit, GroupKeys
<1>6. \A m \in Identities : MemberTupleFits(g, m)'
  BY <1>1, <1>2 DEF GroupFits, MemberTupleFits
<1>7. ASSUME NEW c \in Calls, G(c) = g PROVE StoresFit(c)'
  <2>1. StoresFit(c) /\ (NewRow(c) \in memberships' <=> NewRow(c) \in memberships)
    BY <1>2, <1>7 DEF GroupFits
  <2>2. /\ pc'[c] = pc[c] /\ doomed'[c] = doomed[c] /\ G(c)' = G(c) /\ M(c)' = M(c)
        /\ NewRow(c)' = NewRow(c) /\ OrgKey(g)' = OrgKey(g) /\ AdminKey(g)' = AdminKey(g)
        /\ MemberKey(g, M(c))' = MemberKey(g, M(c)) /\ GroupKeys(g)' = GroupKeys(g)
        /\ \A r : KeyOf(r)' = KeyOf(r)
    BY <1>2, <1>7 DEF OrgKey, AdminKey, MemberKey, GroupKeys, KeyOf
  <2>3. /\ AdminKey(g) \in tuples' <=> AdminKey(g) \in tuples
        /\ GroupKeys(g) \cap tuples' = GroupKeys(g) \cap tuples
    BY <1>1 DEF GroupKeys
  <2> QED
    BY <1>1, <1>7, <2>1, <2>2, <2>3 DEF StoresFit
<1> QED
  BY <1>2, <1>3, <1>4, <1>5, <1>6, <1>7 DEF GroupFits

(* An unexcused request has no busy rival on its group. *)
LEMMA NoRival ==
  ASSUME DriftIInv, NEW c \in Calls, NEW d \in Calls \ {c}, G(d) = G(c), ~Excused(c)
  PROVE  /\ req[c].op = "add" =>
              /\ pc[d] \notin CreateLabels \cup DeleteLabels
              /\ M(d) = M(c) => pc[d] \notin RemoveLabels
         /\ req[c].op = "remove" /\ M(d) = M(c) => pc[d] \notin AddLabels
         /\ req[c].op = "create" => pc[d] \notin AddLabels \cup DeleteLabels
         /\ req[c].op = "delete" => pc[d] \notin AddLabels \cup CreateLabels
         /\ pc[c] \in CreateLabels => pc[d] \notin CreateLabels
<1>1. LabelFits(d) /\ (Busy(d) => ~Conflict(c, d) /\ ~Conflict(d, c))
  BY DEF DriftIInv, Excused
<1>2. pc[d] \in AddLabels \cup RemoveLabels \cup CreateLabels \cup DeleteLabels => Busy(d)
  BY DEF Busy, Done, AddLabels, RemoveLabels, CreateLabels, DeleteLabels
<1>3. pc[c] \in CreateLabels => pc[d] \notin CreateLabels
  BY DEF DriftIInv
<1> QED
  BY <1>1, <1>2, <1>3 DEF LabelFits, Conflict

(* Nor has anyone else one after its step. *)
LEMMA NoNewRival ==
  ASSUME NEW c \in Calls, req' = req, \A d \in Calls \ {c} : pc'[d] = pc[d], ~Excused(c),
         \A x, y \in Calls : G(x) = G(c) /\ Busy(x) /\ Busy(y) => ~Conflict(x, y)
  PROVE  \A x, y \in Calls : (G(x) = G(c) /\ Busy(x) /\ Busy(y))' => ~Conflict(x, y)'
<1>1. \A x, y \in Calls : (Conflict(x, y)' <=> Conflict(x, y)) /\ ~Conflict(x, x)
  BY DEF Conflict, G, M
<1>2. \A d \in Calls \ {c} : Busy(d)' <=> Busy(d)
  BY DEF Busy
<1>3. \A d \in Calls : Busy(d) => ~Conflict(c, d) /\ ~Conflict(d, c)
  BY DEF Excused
<1> QED
  BY <1>1, <1>2, <1>3 DEF G

(* The stores of a group fit what its requests are about to do.            *)
GroupStores(g) ==
  /\ GroupTuplesFit(g)
  /\ \A m \in Identities : MemberTupleFits(g, m)
  /\ \A d \in Calls : G(d) = g => StoresFit(d)

Undisturbed(c) ==
  /\ DriftIInv /\ GroupFits(G(c)) /\ ~Excused(c) /\ CallStep(c)
  /\ UniqueMember' /\ ForeignKey'

(* What each of the next lemmas needs of a step that nothing excuses. *)
LEMMA Frame ==
  ASSUME NEW c \in Calls, Undisturbed(c)
  PROVE  /\ GroupStores(G(c)) /\ LabelFits(c) /\ UniqueMember /\ ForeignKey
         /\ G(c) \in Groups /\ M(c) \in Identities
         /\ \A d \in Calls : G(d)' = G(d) /\ M(d)' = M(d) /\ NewRow(d)' = NewRow(d)
         /\ \A d \in Calls \ {c} : pc'[d] = pc[d] /\ doomed'[d] = doomed[d]
<1>1. /\ ServiceTypeOK /\ LabelFits(c) /\ \A k \in doomed[c] : k.group = G(c)
      /\ UniqueMember /\ ForeignKey /\ CallStep(c)
  BY DEF Undisturbed, DriftIInv, IInv
<1>2. G(c) \in Groups /\ M(c) \in Identities /\ pc \in [Calls -> Labels]
  BY <1>1 DEF ServiceTypeOK, Request, G, M
<1>3. GroupStores(G(c))
  BY DEF Undisturbed, GroupFits, GroupStores
<1>4. req' = req /\ \A d \in Calls \ {c} : pc'[d] = pc[d]
  BY <1>1, <1>2, LabelsStay
<1>5. \A d \in Calls \ {c} : doomed'[d] = doomed[d]
  BY <1>1, OtherGroupsStay
<1> QED
  BY <1>1, <1>2, <1>3, <1>4, <1>5 DEF G, M, NewRow

(* Tuples with different parts differ. *)
LEMMA KeysDiffer ==
  ASSUME NEW g, NEW m
  PROVE  /\ MemberKey(g, m) \notin GroupKeys(g) /\ OrgKey(g) # AdminKey(g)
         /\ \A n : MemberKey(g, n) = MemberKey(g, m) => n = m
BY DEF MemberKey, GroupKeys, OrgKey, AdminKey

LEMMA QuietFits ==
  ASSUME NEW c \in Calls, Undisturbed(c), Quiet(c)
  PROVE  GroupStores(G(c))'
<1> DEFINE g == G(c)
<1>0. /\ GroupStores(g) /\ UNCHANGED <<groups, memberships, tuples>>
      /\ \A d \in Calls : G(d)' = G(d) /\ M(d)' = M(d) /\ NewRow(d)' = NewRow(d)
      /\ \A d \in Calls \ {c} : pc'[d] = pc[d] /\ doomed'[d] = doomed[d]
  BY Frame DEF Quiet
<1>1. GroupTuplesFit(g)'
  BY <1>0 DEF GroupStores, GroupTuplesFit, Quiet, OrgKey, AdminKey
<1>2. ASSUME NEW m \in Identities PROVE MemberTupleFits(g, m)'
  BY <1>0 DEF GroupStores, MemberTupleFits, Quiet, RowsFor, RowsOf, MemberKey
<1>3. ASSUME NEW d \in Calls, G(d) = g, d # c PROVE StoresFit(d)'
  BY <1>0, <1>3 DEF GroupStores, StoresFit, RowsFor, RowsOf, KeysOn, GroupKeys, OrgKey, AdminKey,
                    MemberKey, KeyOf
<1>4. StoresFit(c)'
  <2>0. StoresFit(c)
    BY <1>0 DEF GroupStores
  <2>1. AdminKey(g) \in tuples => AdminKey(g) \in AdminsOf(g)
    BY DEF AdminsOf, KeysOn, AdminKey
  <2> QED
    BY <1>0, <2>0, <2>1 DEF StoresFit, Quiet, RowsFor, RowsOf, KeysOn, GroupKeys, OrgKey, AdminKey,
                    MemberKey, KeyOf
<1> QED
  BY <1>0, <1>1, <1>2, <1>3, <1>4 DEF GroupStores

LEMMA InsertFits ==
  ASSUME NEW c \in Calls, Undisturbed(c), Inserts(c)
  PROVE  GroupStores(G(c))'
<1> DEFINE g == G(c)
<1>0. /\ GroupStores(g) /\ g \in Groups /\ M(c) \in Identities
      /\ \A d \in Calls : G(d)' = G(d) /\ M(d)' = M(d) /\ NewRow(d)' = NewRow(d)
      /\ \A d \in Calls \ {c} : pc'[d] = pc[d]
  BY Frame
<1>1. /\ UNCHANGED <<groups, tuples, doomed>> /\ pc[c] = "add_insert" /\ pc'[c] = "add_tuple"
      /\ RowsFor(g, M(c)) = {} /\ memberships' = memberships \cup {NewRow(c)}
      /\ NewRow(c).group = g /\ NewRow(c).member = M(c)
  BY DEF Inserts, Moves, NewRow
<1>2. /\ \A d \in Calls \ {c} : G(d) = g =>
           /\ pc[d] \notin CreateLabels \cup DeleteLabels
           /\ M(d) = M(c) => pc[d] \notin RemoveLabels
      /\ \A d \in Calls : G(d) = g => pc'[d] \notin CreateLabels \cup DeleteLabels
  <2>1. req[c].op = "add"
    BY <1>1, Frame DEF LabelFits, AddLabels
  <2> QED
    BY <1>0, <1>1, <2>1, NoRival DEF Undisturbed, CreateLabels, DeleteLabels
<1>3. MemberKey(g, M(c)) \notin tuples
  BY <1>0, <1>1, <1>2 DEF GroupStores, MemberTupleFits, RemoveLabels
<1>4. GroupTuplesFit(g)'
  BY <1>0, <1>1 DEF GroupStores, GroupTuplesFit, OrgKey, AdminKey, Emptied, CreateLabels
<1>5. ASSUME NEW m \in Identities PROVE MemberTupleFits(g, m)'
  <2>1. CASE m = M(c)
    BY <1>0, <1>1, <1>3, <2>1 DEF MemberTupleFits, MemberKey, RowsFor, RowsOf, Writing
  <2>2. CASE m # M(c)
    <3>1. RowsFor(g, m)' = RowsFor(g, m) /\ MemberKey(g, m)' = MemberKey(g, m)
      BY <1>0, <1>1, <2>2 DEF RowsFor, RowsOf, MemberKey
    <3> QED
      BY <1>0, <1>1, <3>1 DEF GroupStores, MemberTupleFits, Writing, Emptied
  <2> QED
    BY <2>1, <2>2
<1>6. ASSUME NEW d \in Calls, G(d) = g, d # c PROVE StoresFit(d)'
  <2>1. StoresFit(d)
    BY <1>0, <1>6 DEF GroupStores
  <2>2. pc'[d] = "rm_tuple" => M(d) # M(c)
    BY <1>0, <1>2, <1>6 DEF RemoveLabels
  <2> QED
    BY <1>0, <1>1, <1>2, <1>6, <2>1, <2>2
       DEF StoresFit, RowsFor, RowsOf, MemberKey, CreateLabels, DeleteLabels, Emptied
<1>7. StoresFit(c)'
  BY <1>0, <1>1, <1>3 DEF StoresFit, MemberKey, Writing, Emptied, CreateLabels
<1> QED
  BY <1>0, <1>4, <1>5, <1>6, <1>7 DEF GroupStores

LEMMA WriteFits ==
  ASSUME NEW c \in Calls, Undisturbed(c), Writes(c)
  PROVE  GroupStores(G(c))'
<1> DEFINE g == G(c)
<1>0. /\ GroupStores(g) /\ g \in Groups /\ M(c) \in Identities /\ StoresFit(c) /\ UniqueMember
      /\ \A d \in Calls : G(d)' = G(d) /\ M(d)' = M(d) /\ NewRow(d)' = NewRow(d)
      /\ \A d \in Calls \ {c} : pc'[d] = pc[d]
  BY Frame DEF GroupStores
<1>1. /\ UNCHANGED <<groups, memberships, doomed>> /\ pc[c] = "add_tuple" /\ pc'[c] = "add_publish"
      /\ tuples' = tuples \cup {MemberKey(g, M(c))} /\ NewRow(c) \in memberships
      /\ NewRow(c).group = g /\ NewRow(c).member = M(c)
  BY <1>0 DEF Writes, Moves, NewRow, StoresFit, Writing
<1>2. \A d \in Calls : G(d) = g => pc'[d] \notin CreateLabels \cup DeleteLabels
  <2>1. req[c].op = "add"
    BY <1>1, Frame DEF LabelFits, AddLabels
  <2> QED
    BY <1>0, <1>1, <2>1, NoRival DEF Undisturbed, CreateLabels, DeleteLabels
<1>3. \A k \in GroupKeys(g) : k \in tuples' <=> k \in tuples
  BY <1>1, KeysDiffer
<1>4. GroupTuplesFit(g)'
  BY <1>0, <1>1, <1>3 DEF GroupStores, GroupTuplesFit, GroupKeys, OrgKey, AdminKey, Emptied,
                          CreateLabels
<1>5. ASSUME NEW m \in Identities PROVE MemberTupleFits(g, m)'
  <2>1. CASE m = M(c)
    BY <1>0, <1>1, <2>1 DEF MemberTupleFits, MemberKey, RowsFor, RowsOf
  <2>2. CASE m # M(c)
    <3>1. RowsFor(g, m)' = RowsFor(g, m) /\ MemberKey(g, m)' = MemberKey(g, m)
          /\ (MemberKey(g, m) \in tuples' <=> MemberKey(g, m) \in tuples)
      BY <1>0, <1>1, <2>2 DEF RowsFor, RowsOf, MemberKey
    <3> QED
      BY <1>0, <1>1, <2>2, <3>1 DEF GroupStores, MemberTupleFits, Writing, Emptied
  <2> QED
    BY <2>1, <2>2
<1>6. ASSUME NEW d \in Calls, G(d) = g, d # c PROVE StoresFit(d)'
  <2>1. StoresFit(d) /\ NewRow(d).id # NewRow(c).id /\ NewRow(d).group = g /\ NewRow(d).member = M(d)
    BY <1>0, <1>6 DEF GroupStores, NewRow
  <2>2. pc[d] \in Writing => M(d) # M(c)
    BY <1>0, <1>1, <2>1 DEF StoresFit, UniqueMember
  <2> QED
    BY <1>0, <1>1, <1>2, <1>6, <2>1, <2>2
       DEF StoresFit, RowsFor, RowsOf, MemberKey, CreateLabels, DeleteLabels, Emptied
<1>7. StoresFit(c)'
  BY <1>0, <1>1 DEF StoresFit, Writing, Emptied, CreateLabels
<1> QED
  BY <1>0, <1>4, <1>5, <1>6, <1>7 DEF GroupStores

LEMMA RollbackFits ==
  ASSUME NEW c \in Calls, Undisturbed(c), RollsBack(c)
  PROVE  GroupStores(G(c))'
<1> DEFINE g == G(c)
<1>0. /\ GroupStores(g) /\ StoresFit(c) /\ UniqueMember
      /\ \A d \in Calls : G(d)' = G(d) /\ M(d)' = M(d) /\ NewRow(d)' = NewRow(d)
      /\ \A d \in Calls \ {c} : pc'[d] = pc[d]
  BY Frame DEF GroupStores
<1>1. /\ UNCHANGED <<groups, tuples, doomed>> /\ pc[c] = "add_rollback" /\ pc'[c] = "failed"
      /\ memberships' = memberships \ RowsFor(g, M(c)) /\ MemberKey(g, M(c)) \notin tuples
      /\ NewRow(c) \in memberships /\ NewRow(c).group = g /\ NewRow(c).member = M(c)
  BY <1>0 DEF RollsBack, Moves, NewRow, StoresFit, Writing
<1>2. \A d \in Calls : G(d) = g => pc'[d] \notin CreateLabels \cup DeleteLabels
  <2>1. req[c].op = "add"
    BY <1>1, Frame DEF LabelFits, AddLabels
  <2> QED
    BY <1>0, <1>1, <2>1, NoRival DEF Undisturbed, CreateLabels, DeleteLabels
<1>3. GroupTuplesFit(g)'
  BY <1>0, <1>1, <1>2 DEF GroupStores, GroupTuplesFit, GroupKeys, OrgKey, AdminKey, Emptied,
                          CreateLabels
<1>4. ASSUME NEW m \in Identities PROVE MemberTupleFits(g, m)'
  <2>1. CASE m = M(c)
    BY <1>0, <1>1, <2>1 DEF MemberTupleFits, MemberKey, RowsFor, RowsOf
  <2>2. CASE m # M(c)
    <3>1. RowsFor(g, m)' = RowsFor(g, m) /\ MemberKey(g, m)' = MemberKey(g, m)
      BY <1>0, <1>1, <2>2 DEF RowsFor, RowsOf, MemberKey
    <3> QED
      BY <1>0, <1>1, <2>2, <3>1 DEF GroupStores, MemberTupleFits, Writing, Emptied
  <2> QED
    BY <2>1, <2>2
<1>5. ASSUME NEW d \in Calls, G(d) = g, d # c PROVE StoresFit(d)'
  <2>1. StoresFit(d) /\ NewRow(d).id # NewRow(c).id /\ NewRow(d).group = g /\ NewRow(d).member = M(d)
    BY <1>0, <1>5 DEF GroupStores, NewRow
  <2>2. pc[d] \in Writing => M(d) # M(c)
    BY <1>0, <1>1, <2>1 DEF StoresFit, UniqueMember
  <2> QED
    BY <1>0, <1>1, <1>2, <1>5, <2>1, <2>2
       DEF StoresFit, RowsFor, RowsOf, MemberKey, CreateLabels, DeleteLabels, Emptied
<1>6. StoresFit(c)'
  BY <1>0, <1>1 DEF StoresFit, Writing, Emptied, CreateLabels
<1> QED
  BY <1>0, <1>3, <1>4, <1>5, <1>6 DEF GroupStores

LEMMA DeleteFits ==
  ASSUME NEW c \in Calls, Undisturbed(c), Deletes(c)
  PROVE  GroupStores(G(c))'
<1> DEFINE g == G(c)
<1>0. /\ GroupStores(g)
      /\ \A d \in Calls : G(d)' = G(d) /\ M(d)' = M(d) /\ NewRow(d)' = NewRow(d)
      /\ \A d \in Calls \ {c} : pc'[d] = pc[d] /\ NewRow(d).group = G(d) /\ NewRow(d).member = M(d)
  BY Frame DEF NewRow
<1>1. /\ UNCHANGED <<groups, tuples, doomed>> /\ pc[c] = "rm_delete" /\ pc'[c] = "rm_tuple"
      /\ memberships' = memberships \ RowsFor(g, M(c))
  BY <1>0 DEF Deletes, Moves
<1>2. \A d \in Calls \ {c} : G(d) = g /\ M(d) = M(c) => pc[d] \notin AddLabels
  <2>1. req[c].op = "remove"
    BY <1>1, Frame DEF LabelFits, RemoveLabels
  <2> QED
    BY <2>1, NoRival DEF Undisturbed
<1>3. GroupTuplesFit(g)'
  BY <1>0, <1>1 DEF GroupStores, GroupTuplesFit, GroupKeys, OrgKey, AdminKey, Emptied, CreateLabels
<1>4. ASSUME NEW m \in Identities PROVE MemberTupleFits(g, m)'
  <2>1. CASE m = M(c)
    BY <1>0, <1>1, <2>1 DEF MemberTupleFits, MemberKey, RowsFor, RowsOf
  <2>2. CASE m # M(c)
    <3>1. RowsFor(g, m)' = RowsFor(g, m) /\ MemberKey(g, m)' = MemberKey(g, m)
      BY <1>0, <1>1, <2>2 DEF RowsFor, RowsOf, MemberKey
    <3> QED
      BY <1>0, <1>1, <2>2, <3>1 DEF GroupStores, MemberTupleFits, Writing, Emptied
  <2> QED
    BY <2>1, <2>2
<1>5. ASSUME NEW d \in Calls, G(d) = g, d # c PROVE StoresFit(d)'
  <2>1. StoresFit(d)
    BY <1>0, <1>5 DEF GroupStores
  <2>2. pc[d] \in Writing => M(d) # M(c)
    BY <1>2, <1>5 DEF Writing, AddLabels
  <2>3. pc[d] \in Writing => NewRow(d) \in memberships'
    BY <1>0, <1>1, <1>5, <2>1, <2>2 DEF StoresFit, RowsFor
  <2>4. /\ RowsOf(g)' \subseteq RowsOf(g) /\ KeysOn(g)' = KeysOn(g) /\ GroupKeys(g)' = GroupKeys(g)
        /\ RowsFor(g, M(d))' \subseteq RowsFor(g, M(d))
        /\ MemberKey(g, M(d))' = MemberKey(g, M(d)) /\ \A r : KeyOf(r)' = KeyOf(r)
        /\ OrgKey(g)' = OrgKey(g) /\ AdminKey(g)' = AdminKey(g)
    BY <1>0, <1>1 DEF RowsOf, KeysOn, GroupKeys, OrgKey, AdminKey, RowsFor, MemberKey, KeyOf
  <2> QED
    BY <1>0, <1>1, <1>5, <2>1, <2>3, <2>4 DEF StoresFit
<1>6. StoresFit(c)'
  BY <1>0, <1>1 DEF StoresFit, Writing, Emptied, CreateLabels, RowsFor, RowsOf
<1> QED
  BY <1>0, <1>3, <1>4, <1>5, <1>6 DEF GroupStores

LEMMA RevokeFits ==
  ASSUME NEW c \in Calls, Undisturbed(c), Revokes(c)
  PROVE  GroupStores(G(c))'
<1> DEFINE g == G(c)
<1>0. /\ GroupStores(g) /\ StoresFit(c)
      /\ \A d \in Calls : G(d)' = G(d) /\ M(d)' = M(d) /\ NewRow(d)' = NewRow(d)
      /\ \A d \in Calls \ {c} : pc'[d] = pc[d]
  BY Frame DEF GroupStores
<1>1. /\ UNCHANGED <<groups, memberships, doomed>> /\ pc[c] = "rm_tuple" /\ pc'[c] = "rm_publish"
      /\ tuples' = tuples \ {MemberKey(g, M(c))} /\ RowsFor(g, M(c)) = {}
  BY <1>0 DEF Revokes, Moves, StoresFit
<1>2. /\ \A k \in GroupKeys(g) : k \in tuples' <=> k \in tuples
      /\ \A m : m # M(c) => (MemberKey(g, m) \in tuples' <=> MemberKey(g, m) \in tuples)
  BY <1>1, KeysDiffer
<1>3. GroupTuplesFit(g)'
  BY <1>0, <1>1, <1>2 DEF GroupStores, GroupTuplesFit, GroupKeys, OrgKey, AdminKey, Emptied,
                          CreateLabels
<1>4. ASSUME NEW m \in Identities PROVE MemberTupleFits(g, m)'
  <2>0. RowsFor(g, m)' = RowsFor(g, m) /\ MemberKey(g, m)' = MemberKey(g, m)
    BY <1>0, <1>1 DEF RowsFor, RowsOf, MemberKey
  <2>1. CASE m = M(c)
    BY <1>0, <1>1, <2>0, <2>1 DEF MemberTupleFits
  <2>2. CASE m # M(c)
    BY <1>0, <1>1, <1>2, <2>0, <2>2 DEF GroupStores, MemberTupleFits, Writing, Emptied
  <2> QED
    BY <2>1, <2>2
<1>5. ASSUME NEW d \in Calls, G(d) = g, d # c PROVE StoresFit(d)'
  <2>1. StoresFit(d)
    BY <1>0, <1>5 DEF GroupStores
  <2>2. /\ RowsOf(g)' = RowsOf(g) /\ KeysOn(g)' \subseteq KeysOn(g) /\ GroupKeys(g)' = GroupKeys(g)
        /\ RowsFor(g, M(d))' = RowsFor(g, M(d))
        /\ MemberKey(g, M(d))' = MemberKey(g, M(d)) /\ \A r : KeyOf(r)' = KeyOf(r)
        /\ OrgKey(g)' = OrgKey(g) /\ AdminKey(g)' = AdminKey(g)
    BY <1>0, <1>1 DEF RowsOf, KeysOn, GroupKeys, OrgKey, AdminKey, RowsFor, MemberKey, KeyOf
  <2> QED
    BY <1>0, <1>1, <1>5, <2>1, <2>2 DEF StoresFit
<1>6. StoresFit(c)'
  BY <1>0, <1>1 DEF StoresFit, Writing, Emptied, CreateLabels
<1> QED
  BY <1>0, <1>3, <1>4, <1>5, <1>6 DEF GroupStores

LEMMA OpenFits ==
  ASSUME NEW c \in Calls, Undisturbed(c), Opens(c)
  PROVE  GroupStores(G(c))'
<1> DEFINE g == G(c)
<1>0. /\ GroupStores(g) /\ ForeignKey
      /\ \A d \in Calls : G(d)' = G(d) /\ M(d)' = M(d) /\ NewRow(d)' = NewRow(d)
      /\ \A d \in Calls \ {c} : pc'[d] = pc[d]
  BY Frame
<1>1. /\ UNCHANGED <<memberships, tuples, doomed>> /\ pc'[c] = "cr_tuples"
      /\ g \notin issued /\ groups' = groups \cup {g}
  BY DEF Opens, Moves
<1>2. /\ RowsOf(g) = {} /\ KeysOn(g) = {}
      /\ \A d \in Calls \ {c} : G(d) = g => ~Busy(d)
  BY <1>1 DEF Undisturbed, DriftIInv, IInv, GroupsAreFresh, ForeignKey, RowsOf, KeysOn
<1>3. OrgKey(g) \notin tuples /\ AdminKey(g) \notin tuples /\ \A m : MemberKey(g, m) \notin tuples
  BY <1>2 DEF KeysOn, OrgKey, AdminKey, MemberKey
<1>4. GroupTuplesFit(g)'
  BY <1>0, <1>1, <1>3 DEF GroupTuplesFit, OrgKey, AdminKey, CreateLabels
<1>5. ASSUME NEW m \in Identities PROVE MemberTupleFits(g, m)'
  BY <1>0, <1>1, <1>2, <1>3 DEF MemberTupleFits, MemberKey, RowsFor, RowsOf
<1>6. ASSUME NEW d \in Calls, G(d) = g, d # c PROVE StoresFit(d)'
  BY <1>0, <1>2, <1>6 DEF StoresFit, Busy, Done, Writing, Emptied, CreateLabels
<1>7. StoresFit(c)'
  BY <1>0, <1>1, <1>2 DEF StoresFit, Writing, Emptied, CreateLabels, RowsOf, KeysOn
<1> QED
  BY <1>0, <1>4, <1>5, <1>6, <1>7 DEF GroupStores

LEMMA WriteGroupFits ==
  ASSUME NEW c \in Calls, Undisturbed(c), WritesGroup(c)
  PROVE  GroupStores(G(c))'
<1> DEFINE g == G(c)
<1>0. /\ GroupStores(g) /\ StoresFit(c)
      /\ \A d \in Calls : G(d)' = G(d) /\ M(d)' = M(d) /\ NewRow(d)' = NewRow(d)
      /\ \A d \in Calls \ {c} : pc'[d] = pc[d]
  BY Frame DEF GroupStores
<1>1. /\ UNCHANGED <<groups, memberships, doomed>> /\ pc[c] = "cr_tuples" /\ pc'[c] = "ok"
      /\ tuples' = tuples \cup GroupKeys(g) /\ g \in groups /\ RowsOf(g) = {} /\ KeysOn(g) = {}
  BY <1>0 DEF WritesGroup, Moves, StoresFit, CreateLabels
<1>2. \A d \in Calls : G(d) = g => pc'[d] \notin CreateLabels \cup AddLabels \cup DeleteLabels
  <2>1. req[c].op = "create"
    BY <1>1, Frame DEF LabelFits, CreateLabels
  <2> QED
    BY <1>0, <1>1, <2>1, NoRival DEF Undisturbed, CreateLabels, AddLabels, DeleteLabels
<1>3. GroupTuplesFit(g)'
  BY <1>0, <1>1 DEF GroupTuplesFit, OrgKey, AdminKey, GroupKeys
<1>4. ASSUME NEW m \in Identities PROVE MemberTupleFits(g, m)'
  <2>1. MemberKey(g, m) \notin tuples'
    BY <1>1, KeysDiffer DEF KeysOn, MemberKey
  <2> QED
    BY <1>0, <1>1, <2>1 DEF MemberTupleFits, MemberKey, RowsFor, RowsOf
<1>5. ASSUME NEW d \in Calls, G(d) = g PROVE StoresFit(d)'
  BY <1>0, <1>1, <1>2, <1>5 DEF StoresFit, RowsFor, RowsOf, CreateLabels, DeleteLabels, AddLabels,
                                Writing, Emptied
<1> QED
  BY <1>0, <1>3, <1>4, <1>5 DEF GroupStores

LEMMA CloseFits ==
  ASSUME NEW c \in Calls, Undisturbed(c), Closes(c)
  PROVE  GroupStores(G(c))'
<1> DEFINE g == G(c)
<1> USE DEF CreateLabels, Emptied
<1>0. /\ GroupStores(g) /\ StoresFit(c)
      /\ \A d \in Calls : G(d)' = G(d) /\ M(d)' = M(d) /\ NewRow(d)' = NewRow(d)
      /\ \A d \in Calls \ {c} : pc'[d] = pc[d]
  BY Frame DEF GroupStores
<1>1. /\ UNCHANGED <<tuples, doomed>> /\ pc[c] \in {"cr_rollback", "del_commit"}
      /\ pc'[c] \in {"failed", "del_publish"}
      /\ groups' = groups \ {g} /\ memberships' = memberships \ RowsOf(g)
  BY DEF Closes, Moves
<1>2. \A d \in Calls \ {c} : G(d) = g => pc[d] \notin CreateLabels \cup AddLabels
  <2>1. req[c].op = "delete" \/ (req[c].op = "create" /\ pc[c] \in CreateLabels)
    BY <1>1, Frame DEF LabelFits, DeleteLabels
  <2> QED
    BY <2>1, NoRival DEF Undisturbed, CreateLabels, AddLabels, DeleteLabels
<1>3. /\ OrgKey(g) \notin tuples /\ AdminKey(g) \notin tuples
      /\ \A r \in RowsOf(g) : KeyOf(r) \notin tuples
  <2>1. KeysOn(g) = {} => OrgKey(g) \notin tuples /\ AdminKey(g) \notin tuples
    BY DEF KeysOn, OrgKey, AdminKey
  <2> QED
    BY <1>0, <1>1, <2>1 DEF StoresFit, GroupKeys
<1>4. RowsOf(g)' = {} /\ \A m : RowsFor(g, m)' = {}
  BY <1>0, <1>1 DEF RowsOf, RowsFor
<1>5. GroupTuplesFit(g)'
  BY <1>0, <1>1, <1>3 DEF GroupTuplesFit, OrgKey, AdminKey
<1>6. ASSUME NEW m \in Identities PROVE MemberTupleFits(g, m)'
  <2>1. MemberKey(g, m) \in tuples => RowsFor(g, m) = {}
    BY <1>3 DEF RowsFor, RowsOf, KeyOf
  <2> QED
    BY <1>0, <1>1, <1>4, <2>1 DEF GroupStores, MemberTupleFits, MemberKey
<1>7. ASSUME NEW d \in Calls, G(d) = g PROVE StoresFit(d)'
  <2>1. StoresFit(d) /\ GroupKeys(g)' = GroupKeys(g)
    BY <1>0, <1>7 DEF GroupStores, GroupKeys, OrgKey, AdminKey
  <2> QED
    BY <1>0, <1>1, <1>2, <1>3, <1>4, <1>7, <2>1
       DEF StoresFit, GroupKeys, OrgKey, AdminKey, AddLabels, Writing
<1> QED
  BY <1>0, <1>5, <1>6, <1>7 DEF GroupStores

LEMMA EmptyFits ==
  ASSUME NEW c \in Calls, Undisturbed(c), Empties(c)
  PROVE  GroupStores(G(c))'
<1> DEFINE g == G(c)
<1> USE DEF CreateLabels, Emptied
<1>0. /\ GroupStores(g) /\ StoresFit(c)
      /\ \A d \in Calls : G(d)' = G(d) /\ M(d)' = M(d) /\ NewRow(d)' = NewRow(d)
      /\ \A d \in Calls \ {c} : pc'[d] = pc[d]
  BY Frame DEF GroupStores
<1>1. /\ UNCHANGED <<groups, memberships, doomed>> /\ pc[c] = "del_tuples" /\ pc'[c] = "del_select"
      /\ doomed[c] \subseteq tuples /\ tuples' = tuples \ doomed[c]
  BY DEF Empties, Moves
<1>2. \A d \in Calls \ {c} : G(d) = g => pc[d] \notin CreateLabels \cup AddLabels
  <2>1. req[c].op = "delete"
    BY <1>1, Frame DEF LabelFits, DeleteLabels
  <2> QED
    BY <2>1, NoRival DEF Undisturbed, CreateLabels, AddLabels
<1>3. /\ OrgKey(g) \notin tuples' /\ AdminKey(g) \notin tuples'
      /\ \A r \in RowsOf(g) : KeyOf(r) \notin tuples'
  <2>1. OrgKey(g) \in doomed[c] /\ (AdminKey(g) \in tuples => AdminKey(g) \in doomed[c])
    BY <1>0, <1>1 DEF StoresFit
  <2>2. AdminKey(g) \in tuples
    BY <1>0, <1>1, <2>1 DEF GroupStores, GroupTuplesFit
  <2>3. \A r \in RowsOf(g) : KeyOf(r) \in doomed[c]
    BY <1>0, <1>1 DEF StoresFit
  <2> QED
    BY <1>1, <2>1, <2>2, <2>3
<1>4. /\ RowsOf(g)' = RowsOf(g) /\ \A m : RowsFor(g, m)' = RowsFor(g, m)
      /\ OrgKey(g)' = OrgKey(g) /\ AdminKey(g)' = AdminKey(g) /\ GroupKeys(g)' = GroupKeys(g)
      /\ \A r : KeyOf(r)' = KeyOf(r) /\ \A m : MemberKey(g, m)' = MemberKey(g, m)
  BY <1>0, <1>1 DEF RowsOf, RowsFor, OrgKey, AdminKey, GroupKeys, KeyOf, MemberKey
<1>5. GroupTuplesFit(g)'
  BY <1>0, <1>1, <1>3, <1>4 DEF GroupTuplesFit
<1>6. ASSUME NEW m \in Identities PROVE MemberTupleFits(g, m)'
  BY <1>0, <1>1, <1>4 DEF GroupStores, MemberTupleFits, Writing
<1>7. ASSUME NEW d \in Calls, G(d) = g PROVE StoresFit(d)'
  <2>1. StoresFit(d) /\ tuples' \subseteq tuples
    BY <1>0, <1>1, <1>7 DEF GroupStores
  <2> QED
    BY <1>0, <1>1, <1>2, <1>3, <1>4, <1>7, <2>1 DEF StoresFit, AddLabels, Writing, GroupKeys
<1> QED
  BY <1>0, <1>5, <1>6, <1>7 DEF GroupStores

-----------------------------------------------------------------------------
(* Together: a step of a request keeps the invariant. *)
LEMMA DriftCall ==
  ASSUME DriftIInv, NEW c \in Calls, CallStepD(c)
  PROVE  DriftIInv'
<1>0. /\ CallStep(c) /\ IInv /\ ServiceTypeOK /\ ForeignKey /\ UniqueMember
      /\ pc \in [Calls -> Labels] /\ req \in [Calls -> Request]
      /\ \A d \in Calls : LabelFits(d) /\ (Busy(d) => G(d) \in issued)
      /\ \A d \in Calls : \A k \in doomed[d] : k.group = G(d)
      /\ \A k \in tuples : k.group \in issued
  BY DEF DriftIInv, IInv, ServiceTypeOK, CallStepD
<1>1. IInv' /\ ForeignKey' /\ UniqueMember'
  <2>1. [Next]_serviceVars
    BY <1>0 DEF Next
  <2> QED
    BY <1>0, <2>1, InvStep, CallKeepsForeignKey, UniqueStays
<1>2. /\ req' = req /\ pc[c] \notin Done /\ pc'[c] # "start"
      /\ \A d \in Calls : LabelFits(d)'
      /\ \A d \in Calls \ {c} : pc'[d] = pc[d]
      /\ \A d \in Calls : G(d)' = G(d)
  BY <1>0, LabelsStay DEF G
<1>3. /\ issued \subseteq issued' /\ (Busy(c)' => G(c) \in issued')
      /\ \A k \in tuples' : k.group \in issued'
  BY <1>0, GroupsAreDrawn
<1>4. /\ \A g \in Groups \ {G(c)} : g \in groups' <=> g \in groups
      /\ \A r : r.group # G(c) => (r \in memberships' <=> r \in memberships)
      /\ \A k : k.group # G(c) => (k \in tuples' <=> k \in tuples)
      /\ \A d \in Calls \ {c} : doomed'[d] = doomed[d]
      /\ \A k \in doomed'[c] : k.group = G(c)
  BY <1>0, OtherGroupsStay
<1>5. ASSUME NEW d \in Calls
      PROVE  (Busy(d) => G(d) \in issued)' /\ (\A k \in doomed[d] : k.group = G(d))'
  BY <1>0, <1>2, <1>3, <1>4 DEF Busy
<1>6. ASSUME NEW d \in Calls, NEW e \in Calls \ {d}, G(e) = G(d), pc'[d] \in CreateLabels
      PROVE  pc'[e] \notin CreateLabels
  <2>1. pc[d] \in CreateLabels => pc[e] \notin CreateLabels
    BY <1>6 DEF DriftIInv
  <2>2. pc'[c] \in CreateLabels => pc[c] \in CreateLabels \/ G(c) \notin issued
    <3>1. CASE CreateGroup(c)
      BY <1>0, <3>1 DEF CreateGroup, CreateInsert, CreateTuples, CreateRollback, CreateLabels, Goto
    <3>2. CASE AddMember(c) \/ RemoveMember(c) \/ DeleteGroup(c)
      BY <1>0, <1>2, <3>2, HandlersMove
         DEF Goto, CreateLabels, AddLabels, RemoveLabels, DeleteLabels, Done
    <3> QED
      BY <1>0, <3>1, <3>2 DEF CallStep
  <2>3. \A x \in Calls : pc[x] \in CreateLabels => G(x) \in issued
    BY <1>0 DEF Busy, Done, CreateLabels
  <2>4. \A x \in Calls \ {c} : G(x) = G(c) /\ pc[x] \in CreateLabels => pc'[c] \notin CreateLabels
    BY <2>2, <2>3 DEF DriftIInv
  <2> QED
    BY <1>2, <1>6, <2>1, <2>4
<1>7. ASSUME NEW g \in Groups \ disturbed' PROVE GroupFits(g)'
  <2>0. GroupFits(g)
    BY <1>7 DEF DriftIInv, CallStepD
  <2>1. CASE g # G(c)
    BY <1>2, <1>4, <2>0, <2>1, GroupStays
  <2>2. CASE g = G(c)
    <3>1. ~Excused(c)
      BY <1>7, <2>2 DEF CallStepD
    <3>2. Undisturbed(c)
      BY <1>0, <1>1, <2>0, <2>2, <3>1 DEF Undisturbed
    <3>3. GroupStores(g)'
      <4>1. \/ Quiet(c) \/ Inserts(c) \/ Writes(c) \/ RollsBack(c) \/ Deletes(c) \/ Revokes(c)
            \/ Opens(c) \/ WritesGroup(c) \/ Closes(c) \/ Empties(c)
        BY <1>0, <3>1, UnexcusedMoves DEF Excused
      <4>2. GroupStores(G(c))'
        BY <3>2, <4>1, QuietFits, InsertFits, WriteFits, RollbackFits, DeleteFits, RevokeFits,
           OpenFits, WriteGroupFits, CloseFits, EmptyFits
      <4> QED
        BY <1>2, <2>2, <4>2
    <3>4. \A x, y \in Calls : (G(x) = g /\ Busy(x) /\ Busy(y))' => ~Conflict(x, y)'
      BY <1>2, <2>0, <2>2, <3>1, NoNewRival DEF GroupFits
    <3> QED
      BY <3>3, <3>4 DEF GroupFits, GroupStores
  <2> QED
    BY <2>1, <2>2
<1> QED
  BY <1>1, <1>2, <1>3, <1>5, <1>6, <1>7 DEF DriftIInv

LEMMA DriftStart == DriftInit => DriftIInv
<1> SUFFICES ASSUME DriftInit PROVE DriftIInv
  OBVIOUS
<1>1. IInv
  BY InvInit DEF DriftInit
<1>2. /\ ForeignKey /\ UniqueMember /\ pc = [c \in Calls |-> "start"]
      /\ \A c \in Calls : doomed[c] = {}
      /\ tuples = UNION {Expected(g) : g \in groups} /\ issued = groups
  BY DEF DriftInit, ServiceInit, ForeignKey
<1>3. \A k \in tuples : k.group \in groups /\ k \in Expected(k.group)
  <2>1. \A g \in groups : \A k \in Expected(g) : k.group = g
    BY DEF Expected, GroupKeys, OrgKey, AdminKey, KeyOf, MemberKey, RowsOf
  <2> QED
    BY <1>2, <2>1
<1>4. \A g \in groups : Expected(g) \subseteq tuples
  BY <1>2
<1>5. \A c \in Calls : LabelFits(c) /\ StoresFit(c) /\ ~Busy(c) /\ pc[c] \notin CreateLabels
  BY <1>2 DEF LabelFits, StoresFit, Busy, AddLabels, RemoveLabels, CreateLabels, DeleteLabels,
              Writing, Emptied
<1>6. ASSUME NEW g \in Groups PROVE GroupTuplesFit(g)
  <2>1. OrgKey(g).group = g /\ AdminKey(g).group = g
    BY DEF OrgKey, AdminKey
  <2>2. g \in groups => OrgKey(g) \in tuples /\ AdminKey(g) \in tuples
    BY <1>4 DEF Expected, GroupKeys
  <2> QED
    BY <1>3, <2>1, <2>2 DEF GroupTuplesFit
<1>7. ASSUME NEW g \in Groups, NEW m \in Identities PROVE MemberTupleFits(g, m)
  <2>1. RowsFor(g, m) # {} => MemberKey(g, m) \in tuples
    BY <1>2, <1>4 DEF Expected, RowsFor, RowsOf, KeyOf, ForeignKey
  <2>2. MemberKey(g, m) \in tuples => RowsFor(g, m) # {}
    <3>1. SUFFICES ASSUME MemberKey(g, m) \in tuples PROVE RowsFor(g, m) # {}
      OBVIOUS
    <3>2. MemberKey(g, m).group = g /\ MemberKey(g, m) \in Expected(g) /\ g \in groups
      BY <1>3, <3>1 DEF MemberKey
    <3>3. PICK r \in RowsOf(g) : KeyOf(r) = MemberKey(g, m)
      BY <3>2, KeysDiffer DEF Expected
    <3>4. r.member = m
      BY <3>3 DEF KeyOf, MemberKey
    <3> QED
      BY <3>3, <3>4 DEF RowsFor
  <2> QED
    BY <2>1, <2>2 DEF MemberTupleFits
<1> QED
  BY <1>1, <1>2, <1>3, <1>5, <1>6, <1>7 DEF DriftIInv, GroupFits

(* A crash disturbs the groups of the requests it cuts short. *)
LEMMA DriftCrash ==
  ASSUME DriftIInv, CrashD, IInv'
  PROVE  DriftIInv'
<1>1. /\ Crash /\ UNCHANGED <<storeVars, groups, memberships, tuples, doomed, issued, req>>
      /\ \A c \in Calls : pc'[c] = IF Busy(c) THEN "failed" ELSE pc[c]
      /\ \A c \in Calls : LabelFits(c)'
  BY CrashLabels DEF CrashD, Crash, callVars, storeVars, DriftIInv
<1>2. ForeignKey' /\ UniqueMember'
  BY <1>1 DEF DriftIInv, ForeignKey, UniqueMember
<1>3. \A c \in Calls : ~Busy(c)' /\ pc'[c] \notin CreateLabels /\ G(c)' = G(c)
  BY <1>1 DEF Busy, Done, CreateLabels, G
<1>4. ASSUME NEW g \in Groups \ disturbed' PROVE GroupFits(g)'
  <2>1. GroupFits(g) /\ \A c \in Calls : G(c) = g => ~Busy(c)
    BY <1>4 DEF CrashD, DriftIInv
  <2> QED
    BY <1>1, <2>1, GroupStays
<1> QED
  BY <1>1, <1>2, <1>3, <1>4 DEF DriftIInv

LEMMA DriftStep == DriftIInv /\ [DriftNext]_<<serviceVars, disturbed>> => DriftIInv'
<1> SUFFICES ASSUME DriftIInv, [DriftNext]_<<serviceVars, disturbed>> PROVE DriftIInv'
  OBVIOUS
<1>1. IInv'
  <2>1. [Next]_serviceVars
    BY DEF DriftNext, CallStepD, CrashD, RemoveIdentityD, Next
  <2> QED
    BY <2>1, InvStep DEF DriftIInv
<1>2. CASE \E c \in Calls : CallStepD(c)
  BY <1>2, DriftCall
<1>3. CASE CrashD
  BY <1>1, <1>3, DriftCrash
<1>4. CASE (\E i \in Identities : RemoveIdentityD(i)) \/ UNCHANGED <<serviceVars, disturbed>>
  <2>1. UNCHANGED <<groups, memberships, tuples, pc, req, doomed, issued, disturbed>>
    BY <1>4 DEF RemoveIdentityD, RemoveIdentity, IdentityRemoved, callVars, serviceVars, worldVars
  <2>2. ASSUME NEW g \in Groups \ disturbed' PROVE GroupFits(g)'
    <3>1. GroupFits(g)
      BY <2>1, <2>2 DEF DriftIInv
    <3> QED
      BY <2>1, <3>1, GroupStays
  <2>3. ForeignKey' /\ UniqueMember'
    BY <2>1 DEF DriftIInv, ForeignKey, UniqueMember
  <2>4. \A c \in Calls : LabelFits(c)' /\ (Busy(c)' <=> Busy(c)) /\ G(c)' = G(c)
    BY <2>1 DEF DriftIInv, LabelFits, Busy, G
  <2> QED
    BY <1>1, <2>1, <2>2, <2>3, <2>4 DEF DriftIInv
<1> QED
  BY <1>2, <1>3, <1>4 DEF DriftNext

(* Which difference between the two stores each running request accounts   *)
(* for, in every reachable state of the four handlers.                     *)
THEOREM DriftInvariance == DriftSpec => []DriftIInv
BY DriftStart, DriftStep, PTL DEF DriftSpec

(* A group at rest without a tuple too few or too many. *)
LEMMA RestInSync ==
  ASSUME DriftIInv, NEW g \in Groups, GroupFits(g), \A c \in Calls : G(c) = g => ~Busy(c)
  PROVE  InSync(g)
<1>1. \A c \in Calls : G(c) = g => pc[c] \notin CreateLabels \cup Emptied \cup Writing \cup {"rm_tuple"}
  BY DEF Busy, Done, CreateLabels, Emptied, Writing
<1>2. /\ g \in groups <=> OrgKey(g) \in tuples
      /\ g \in groups <=> AdminKey(g) \in tuples
  BY <1>1 DEF GroupFits, GroupTuplesFit
<1>3. \A m \in Identities : MemberKey(g, m) \in tuples <=> RowsFor(g, m) # {}
  BY <1>1 DEF GroupFits, MemberTupleFits
<1>4. /\ tuples \subseteq TupleKeys /\ memberships \subseteq Row /\ ForeignKey
      /\ OrgKey(g).group = g /\ AdminKey(g).group = g /\ \A m : MemberKey(g, m).group = g
  BY DEF DriftIInv, IInv, ServiceTypeOK, WorldTypeOK, StoreTypeOK, OrgKey, AdminKey, MemberKey
<1>5. ASSUME NEW k \in KeysOn(g) PROVE k \in Expected(g)
  <2>1. k \in tuples /\ k.group = g /\ k \in TupleKeys
    BY <1>4, <1>5 DEF KeysOn
  <2>2. CASE k \in GroupKeys(g)
    BY <1>2, <2>1, <2>2 DEF Expected, GroupKeys
  <2>3. CASE \E m \in Identities : k = MemberKey(g, m)
    <3>1. PICK m \in Identities : k = MemberKey(g, m)
      BY <2>3
    <3>2. PICK r \in RowsFor(g, m) : TRUE
      BY <1>3, <2>1, <3>1
    <3>3. r \in RowsOf(g) /\ KeyOf(r) = k /\ g \in groups
      BY <1>4, <3>1, <3>2 DEF RowsFor, RowsOf, KeyOf, ForeignKey
    <3> QED
      BY <3>3 DEF Expected
  <2>4. k \in GroupKeys(g) \/ \E m \in Identities : k = MemberKey(g, m)
    BY <2>1 DEF TupleKeys, GroupKeys, OrgKey, AdminKey, MemberKey
  <2> QED
    BY <2>2, <2>3, <2>4
<1>6. ASSUME NEW k \in Expected(g) PROVE k \in KeysOn(g)
  <2>1. CASE k \in GroupKeys(g)
    BY <1>2, <1>4, <1>6, <2>1 DEF Expected, GroupKeys, KeysOn
  <2>2. CASE \E r \in RowsOf(g) : k = KeyOf(r)
    <3>1. PICK r \in RowsOf(g) : k = KeyOf(r)
      BY <2>2
    <3>2. r.group = g /\ r.member \in Identities /\ r \in RowsFor(g, r.member)
      BY <1>4, <3>1 DEF RowsFor, RowsOf, Row
    <3> QED
      BY <1>3, <1>4, <3>1, <3>2 DEF KeyOf, KeysOn
  <2> QED
    BY <1>6, <2>1, <2>2 DEF Expected
<1> QED
  BY <1>5, <1>6 DEF InSync

(* The stores agree on every group at rest that has no excuse: rollbacks   *)
(* of failed tuple writes leave no trace, and requests of one kind on one  *)
(* pair may race (memberships.go, groups.go).                              *)
THEOREM DriftIsCaused == DriftSpec => []DriftHasACause
<1>1. DriftIInv => DriftHasACause
  BY RestInSync DEF DriftIInv, DriftHasACause
<1> QED
  BY <1>1, DriftInvariance, PTL

(* What clients are told is history that changes no step. *)
LEMMA AnswersAreHistory == AckSpec => DriftSpec
<1>1. AckInit => DriftInit
  BY DEF AckInit
<1>2. [AckNext]_ackVars => [DriftNext]_<<serviceVars, disturbed>>
  BY DEF AckNext, AckCall, DriftNext, ackVars
<1> QED
  BY <1>1, <1>2, PTL DEF AckSpec, DriftSpec

(* DriftHasACause holds beside the histories of what clients were told.    *)
COROLLARY DriftIsCausedBesideAnswers == AckSpec => []DriftHasACause
BY AnswersAreHistory, DriftIsCaused, PTL

-----------------------------------------------------------------------------
(***************************************************************************)
(* EventStream: what the consumers know.  For a pair that stays unblurred  *)
(* a step is quiet (PairStays), takes the pair's row away or announces     *)
(* that it is gone (PairGoes), or inserts or announces the pair's row.     *)
(***************************************************************************)
(* Pairs and rows *)
LEMMA PairShape ==
  /\ \A g, m : MemberKey(g, m).group = g
  /\ \A g \in Groups, m \in Identities : MemberKey(g, m) \in PairsOf(g)
  /\ \A g \in Groups : \A k \in PairsOf(g) : k.group = g /\ k \in Pairs
  /\ \A r \in Row : KeyOf(r) \in Pairs /\ KeyOf(r).group = r.group
  /\ \A k \in Pairs : k.group \in Groups /\ k \in PairsOf(k.group)
BY DEF MemberKey, PairsOf, Pairs, KeyOf, Row

(* What the consumer makes of a step, as to a pair that stays unblurred. *)
LEMMA ViewAfter ==
  ASSUME view \subseteq Pairs \ blurred, NEW s, Observe(s), NEW k \in Pairs \ blurred'
  PROVE  /\ k \notin blurred /\ k \notin s /\ k \notin Crossed'
         /\ k \in view' <=> /\ k \in view \/ k \in PairsIn(added' \ added)
                            /\ k \notin PairsIn(removed' \ removed)
                            /\ \A g \in deletedGroups' \ deletedGroups : k \notin PairsOf(g)
BY DEF Observe, AfterEvents

(* A pair that an AddMember runs on has nobody else but further AddMembers *)
(* run on it, unless the pair is blurred. *)
LEMMA AddsAlone ==
  ASSUME NEW k \in Pairs \ Crossed, NEW c \in Calls, Running(c, k), req[c].op = "add"
  PROVE  /\ k \notin OrphanInHand
         /\ \A d \in Calls : Running(d, k) => req[d].op = "add"
BY DEF Crossed

(* Who is at a step that accounts for a pair runs on it. *)
LEMMA AtWorkRuns ==
  ASSUME NEW c \in Calls, LabelFits(c), NEW k \in Pairs
  PROVE  /\ Adding(c, k) => Running(c, k) /\ req[c].op = "add"
         /\ RemoverOf(c, k) => Running(c, k) /\ req[c].op = "remove"
         /\ k \in PairsOf(G(c)) =>
              /\ pc[c] \in CreateLabels => Running(c, k) /\ req[c].op = "create"
              /\ pc[c] \in DeleteLabels => Running(c, k) /\ req[c].op = "delete"
         /\ Announces(c, k) => Running(c, k) /\ req[c].op # "add"
BY DEF Adding, RemoverOf, Announces, LabelFits, Running, Busy, Done, PairsTouched, Own,
       AddLabels, RemoveLabels, CreateLabels, DeleteLabels

-----------------------------------------------------------------------------
(* Nothing changes about the pair, and everybody stays accountable for it. *)
LEMMA PairStays ==
  ASSUME NEW k \in Pairs, PairFits(k), k \notin Crossed',
         Present(k)' <=> Present(k), k \in view' <=> k \in view,
         k \in OrphanInHand' <=> k \in OrphanInHand,
         \A d \in Calls : /\ Adding(d, k)' <=> Adding(d, k)
                          /\ Announces(d, k) => Announces(d, k)'
                          /\ RequestFits(d, k)' \/ (pc'[d] = pc[d] /\ seen'[d] = seen[d]),
         UNCHANGED req
  PROVE  PairFits(k)'
<1>1. ASSUME NEW d \in Calls, pc'[d] = pc[d], seen'[d] = seen[d]
      PROVE  RequestFits(d, k)'
  BY <1>1 DEF PairFits, RequestFits, RemoverOf, Own, G, M, PairsIn
<1>2. \A d \in Calls : RequestFits(d, k)'
  BY <1>1
<1> QED
  BY <1>2 DEF PairFits

(* No row of the pair is left, and the consumer knows it or will be told. *)
LEMMA PairGoes ==
  ASSUME NEW k \in Pairs, PairFits(k), k \notin Crossed', ~Present(k)',
         k \in view' => /\ k \in view
                        /\ k \in OrphanInHand' \/ \E d \in Calls : Announces(d, k)',
         \A d \in Calls : /\ ~Adding(d, k)'
                          /\ pc'[d] \in CreateLabels => pc[d] \in CreateLabels,
         UNCHANGED req
  PROVE  PairFits(k)'
<1>1. ASSUME NEW d \in Calls PROVE RequestFits(d, k)'
  BY DEF PairFits, RequestFits, G, CreateLabels
<1> QED
  BY <1>1 DEF PairFits

-----------------------------------------------------------------------------
(* The rows of a request's pair, and of its group. *)
LEMMA PairRows ==
  ASSUME memberships \subseteq Row, NEW c \in Calls, G(c) \in Groups, M(c) \in Identities
  PROVE  /\ Own(c) \in Pairs /\ Own(c) \in PairsOf(G(c)) /\ KeyOf(NewRow(c)) = Own(c)
         /\ RowsFor(G(c), M(c)) = {r \in memberships : KeyOf(r) = Own(c)}
         /\ RowsOf(G(c)) = {r \in memberships : KeyOf(r) \in PairsOf(G(c))}
<1>1. \A r \in Row : KeyOf(r) \in PairsOf(G(c)) <=> r.group = G(c)
  BY DEF KeyOf, PairsOf, MemberKey, Row
<1>2. \A r \in Row : KeyOf(r) = Own(c) <=> r.group = G(c) /\ r.member = M(c)
  BY DEF KeyOf, Own, MemberKey, Row
<1>3. Own(c) \in Pairs /\ Own(c) \in PairsOf(G(c)) /\ KeyOf(NewRow(c)) = Own(c)
  BY DEF Own, Pairs, PairsOf, KeyOf, NewRow
<1> QED
  BY <1>1, <1>2, <1>3 DEF RowsFor, RowsOf

(* A request's step has an excuse for a statement that failed after it     *)
(* took effect, a lost event, a rollback or a tuple that failed.           *)
LEMMA Excuses ==
  ASSUME NEW c \in Calls, NEW k \in PairsTouched(c), k \notin SilencedBy(c)
  PROVE  /\ faults' > faults => storeVars' = storeVars
         /\ pc[c] = "add_rollback" => ~(faults' > faults)
         /\ pc[c] = "rm_tuple" => pc'[c] # "failed"
         /\ pc[c] \in {"add_publish", "rm_publish"} => ~UNCHANGED eventVars
         /\ pc[c] = "del_publish" /\ UNCHANGED eventVars =>
              k \notin PairsIn(seen[c] \ seen'[c])
BY DEF SilencedBy, Silent

(* What every step of a request finds and leaves, as to a pair that stays  *)
(* unblurred. *)
CallFinds(c, k) ==
  /\ PairFits(k) /\ k \notin Crossed /\ k \notin Crossed' /\ k \notin SilencedBy(c)
  /\ OrphanInHand' = OrphanInHand /\ req' = req
  /\ \A d \in Calls : LabelFits(d) /\ LabelFits(d)' /\ HandFits(d)
  /\ \A d \in Calls \ {c} : pc'[d] = pc[d] /\ seen'[d] = seen[d]
  /\ memberships \subseteq Row /\ G(c) \in Groups /\ M(c) \in Identities /\ faults \in Nat
  /\ pc \in [Calls -> Labels] /\ seen \in [Calls -> SUBSET Row] /\ req \in [Calls -> Request]
  /\ k \in view' <=> /\ k \in view \/ k \in PairsIn(added' \ added)
                     /\ k \notin PairsIn(removed' \ removed)
                     /\ \A g \in deletedGroups' \ deletedGroups : k \notin PairsOf(g)

LEMMA CallContext ==
  ASSUME ConsumersIInv, NEW c \in Calls, StreamCall(c), NEW k \in Pairs \ blurred'
  PROVE  CallFinds(c, k)
<1>1. /\ CallStep(c) /\ UNCHANGED reconcilerVars /\ Observe(SilencedBy(c))
      /\ ServiceTypeOK /\ view \subseteq Pairs \ blurred
  BY DEF StreamCall, SystemCall, ConsumersIInv, ConsumersFit, SystemIInv, IInv
<1>2. /\ memberships \subseteq Row /\ pc \in [Calls -> Labels] /\ seen \in [Calls -> SUBSET Row]
      /\ req \in [Calls -> Request] /\ faults \in 0..MaxFaults
  BY <1>1 DEF ServiceTypeOK, WorldTypeOK, StoreTypeOK
<1>3. faults \in Nat /\ G(c) \in Groups /\ M(c) \in Identities
  BY <1>1, <1>2, RequestTypes, MaxFaultsAssumption
<1>4. PairFits(k) /\ \A d \in Calls : LabelFits(d) /\ HandFits(d)
  BY <1>1, ViewAfter DEF ConsumersIInv, ConsumersFit
<1>5. req' = req /\ \A d \in Calls : LabelFits(d)'
  BY <1>1, <1>2, <1>4, LabelsStay
<1>6. \A d \in Calls \ {c} : pc'[d] = pc[d] /\ seen'[d] = seen[d]
  BY <1>1, <1>2, <1>4, LabelsStay, HandsMove
<1>7. OrphanInHand' = OrphanInHand
  BY <1>1 DEF OrphanInHand, reconcilerVars, passVars
<1>8. k \notin Crossed
  BY <1>4 DEF PairFits
<1> QED
  BY <1>1, <1>2, <1>3, <1>4, <1>5, <1>6, <1>7, <1>8, ViewAfter DEF CallFinds

-----------------------------------------------------------------------------
(* A step of a request on another pair. *)
LEMMA CallElsewhere ==
  ASSUME NEW c \in Calls, CallStep(c), NEW k \in Pairs, CallFinds(c, k), k \notin PairsTouched(c)
  PROVE  PairFits(k)'
<1> USE DEF CallFinds
<1>1. LabelFits(c) /\ LabelFits(c)' /\ k \in Pairs'
  BY DEF Pairs, PairsOf
<1>2. ~Running(c, k) /\ ~Running(c, k)'
  BY DEF Running, PairsTouched, Own, G, M
<1>3. /\ ~Adding(c, k) /\ ~Announces(c, k) /\ ~RemoverOf(c, k)
      /\ k \in PairsOf(G(c)) => pc[c] \notin CreateLabels \cup DeleteLabels
  BY <1>1, <1>2, AtWorkRuns
<1>4. /\ ~Adding(c, k)' /\ ~Announces(c, k)' /\ ~RemoverOf(c, k)'
      /\ (k \in PairsOf(G(c)))' => pc'[c] \notin CreateLabels \cup DeleteLabels
  <2>1. Pairs' = Pairs /\ (PairsOf(G(c)))' = PairsOf(G(c)) /\ CreateLabels' = CreateLabels
        /\ DeleteLabels' = DeleteLabels
    BY DEF Pairs, PairsOf, G, CreateLabels, DeleteLabels
  <2>2. /\ Adding(c, k)' => Running(c, k)'
        /\ RemoverOf(c, k)' => Running(c, k)'
        /\ (k \in PairsOf(G(c)))' => (pc'[c] \in CreateLabels \cup DeleteLabels => Running(c, k)')
        /\ Announces(c, k)' => Running(c, k)'
    BY <1>1 DEF Adding, RemoverOf, Announces, LabelFits, Running, Busy, Done, PairsTouched, Own,
         AddLabels, RemoveLabels, CreateLabels, DeleteLabels
  <2> QED
    BY <1>2, <2>2
<1>5. RequestFits(c, k)'
  BY <1>4 DEF RequestFits, CreateLabels, DeleteLabels
<1>6. \A d \in Calls \ {c} : /\ Adding(d, k)' <=> Adding(d, k)
                             /\ Announces(d, k)' <=> Announces(d, k)
  BY DEF Adding, Announces, RemoverOf, Own, G, M, PairsIn, PairsOf
<1>7. Present(k)' <=> Present(k)
  <2>1. \A r \in (memberships \cup memberships') \ (memberships \cap memberships') : KeyOf(r) # k
    <3>1. /\ KeyOf(NewRow(c)) = Own(c)
          /\ RowsFor(G(c), M(c)) = {r \in memberships : KeyOf(r) = Own(c)}
          /\ RowsOf(G(c)) = {r \in memberships : KeyOf(r) \in PairsOf(G(c))}
      BY PairRows
    <3>2. pc[c] \in {"add_insert", "rm_delete", "add_rollback"} => k # Own(c)
      BY <1>1 DEF LabelFits, AddLabels, RemoveLabels, PairsTouched, Own
    <3>3. pc[c] \in {"cr_rollback", "del_commit"} => k \notin PairsOf(G(c))
      BY <1>3 DEF CreateLabels, DeleteLabels
    <3> QED
      BY <3>1, <3>2, <3>3, RowsMove
  <2> QED
    BY <2>1 DEF Present, PairsIn
<1>8. k \in view' <=> k \in view
  <2>1. HandFits(c) /\ LabelFits(c)
    OBVIOUS
  <2>2. pc[c] \in {"add_publish", "rm_publish"} => k # Own(c)
    BY <2>1 DEF LabelFits, AddLabels, RemoveLabels, PairsTouched, Own
  <2>3. pc[c] = "del_publish" => k \notin PairsOf(G(c))
    BY <1>3 DEF DeleteLabels
  <2>4. CASE UNCHANGED eventVars
    BY <2>4 DEF eventVars, PairsIn
  <2>5. CASE pc[c] = "add_publish" /\ added' = added \cup {NewRow(c)}
              /\ UNCHANGED <<removed, deletedGroups>>
    BY <2>2, <2>5, PairRows DEF PairsIn
  <2>6. CASE /\ pc[c] \in {"rm_publish", "del_publish"}
             /\ \E r \in seen[c] : removed' = removed \cup {r}
             /\ UNCHANGED <<added, deletedGroups>>
    BY <2>1, <2>2, <2>3, <2>6 DEF HandFits, PairsIn
  <2>7. CASE /\ pc[c] = "del_publish" /\ deletedGroups' = deletedGroups \cup {G(c)}
             /\ UNCHANGED <<added, removed>>
    BY <2>3, <2>7 DEF PairsIn
  <2> QED
    BY <2>4, <2>5, <2>6, <2>7, EventsMove
<1> QED
  BY <1>3, <1>4, <1>5, <1>6, <1>7, <1>8, PairStays

(* A step of a request that leaves the pair's row, its place in the view   *)
(* and who accounts for it as they are. *)
LEMMA CallQuiet ==
  ASSUME NEW c \in Calls, NEW k \in Pairs, CallFinds(c, k),
         Present(k)' <=> Present(k), UNCHANGED eventVars,
         Adding(c, k)' <=> Adding(c, k), Announces(c, k) => Announces(c, k)',
         RequestFits(c, k)'
  PROVE  PairFits(k)'
<1>1. k \in view' <=> k \in view
  BY DEF CallFinds, eventVars, PairsIn
<1>2. \A d \in Calls \ {c} : /\ Adding(d, k)' <=> Adding(d, k)
                             /\ Announces(d, k)' <=> Announces(d, k)
                             /\ pc'[d] = pc[d] /\ seen'[d] = seen[d]
  BY DEF CallFinds, Adding, Announces, RemoverOf, Own, G, M, PairsIn, PairsOf
<1> QED
  BY <1>1, <1>2, PairStays DEF CallFinds

(* Beside a running AddMember nobody else accounts for its pair. *)
LEMMA NoneBesideAdd ==
  ASSUME NEW c \in Calls, NEW k \in Pairs, CallFinds(c, k), Running(c, k), req[c].op = "add"
  PROVE  /\ k \notin OrphanInHand
         /\ \A d \in Calls : /\ ~RemoverOf(d, k) /\ ~Announces(d, k)
                             /\ k \in PairsOf(G(d)) => pc[d] \notin CreateLabels \cup DeleteLabels
<1>1. k \in Pairs \ Crossed /\ \A d \in Calls : LabelFits(d)
  BY DEF CallFinds
<1> QED
  BY <1>1, AddsAlone, AtWorkRuns

(* Beside another running request no AddMember accounts for its pair. *)
LEMMA NoAddBeside ==
  ASSUME NEW c \in Calls, NEW k \in Pairs, CallFinds(c, k), Running(c, k), req[c].op # "add"
  PROVE  \A d \in Calls : ~Adding(d, k)
<1>1. k \in Pairs \ Crossed /\ \A d \in Calls : LabelFits(d)
  BY DEF CallFinds
<1> QED
  BY <1>1, AddsAlone, AtWorkRuns

-----------------------------------------------------------------------------
(* AddMember *)
LEMMA AddMemberFits ==
  ASSUME NEW c \in Calls, AddMember(c), NEW k \in Pairs, CallFinds(c, k), k \in PairsTouched(c)
  PROVE  PairFits(k)'
<1> USE DEF CallFinds
<1>1. /\ req[c].op = "add" /\ k = Own(c) /\ k = (Own(c))' /\ LabelFits(c)'
      /\ KeyOf(NewRow(c)) = k /\ RowsFor(G(c), M(c)) = {r \in memberships : KeyOf(r) = k}
      /\ PairFits(k)
  BY HandlerOps, PairRows DEF PairsTouched, Own, G, M
<1>2. /\ pc[c] \in AddLabels => Running(c, k)
      /\ pc[c] \in AddLabels \cup {"start"}
  BY <1>1, HandlerOps DEF Running, Busy, Done, AddLabels
<1>3. /\ faults' > faults => storeVars' = storeVars
      /\ pc[c] = "add_rollback" => ~(faults' > faults)
      /\ pc[c] = "add_publish" => ~UNCHANGED eventVars
  BY Excuses
<1>4. ASSUME NEW l, Goto(c, l), pc[c] \in AddLabels \cup {"start"}
      PROVE  pc'[c] = l
  BY <1>4 DEF Goto
<1>5. CASE AddGetGroup(c) \/ AddValidate(c) \/ AddReadback(c) \/ AddWriteTuple(c)
  <2>1. UNCHANGED <<memberships, eventVars>>
    BY <1>5 DEF AddGetGroup, AddValidate, AddReadback, AddWriteTuple, worldVars, storeVars,
                eventVars
  <2>2. \/ pc'[c] \in {"add_validate", "add_insert", "ok", "failed"}
           /\ pc[c] \in {"start", "add_validate", "add_readback"}
        \/ pc'[c] \in {"add_publish", "add_rollback"} /\ pc[c] = "add_tuple"
    BY <1>2, <1>4, <1>5 DEF AddGetGroup, AddValidate, AddReadback, AddWriteTuple, Starts
  <2>3. (Present(k)' <=> Present(k)) /\ (k \in view' <=> k \in view)
    BY <2>1 DEF Present, PairsIn, eventVars
  <2>4. (Adding(c, k)' <=> Adding(c, k)) /\ ~Announces(c, k) /\ ~RemoverOf(c, k)'
    BY <1>1, <2>2 DEF Adding, Announces, RemoverOf
  <2>5. \A d \in Calls : Adding(d, k)' <=> Adding(d, k)
    BY <2>4 DEF Adding, Own, G, M
  <2>6. RequestFits(c, k)'
    BY <1>1, <2>2, <2>3, <2>4, <2>5 DEF RequestFits, PairFits
  <2> QED
    BY <2>1, <2>3, <2>4, <2>6, CallQuiet
<1>6. CASE AddInsert(c)
  <2>1. /\ pc[c] = "add_insert" /\ UNCHANGED eventVars /\ Running(c, k)
        /\ ~Announces(c, k) /\ ~Adding(c, k)
    BY <1>2, <1>6 DEF AddInsert, AddLabels, Announces, RemoverOf, Adding
  <2>2. CASE memberships' = memberships /\ pc'[c] # "add_tuple"
    <3>1. pc'[c] \in {"failed", "add_readback"}
      BY <1>4, <2>1, <2>2, <1>6 DEF AddInsert, AddLabels
    <3>2. (Present(k)' <=> Present(k)) /\ ~Adding(c, k)' /\ RequestFits(c, k)'
      BY <2>2, <3>1 DEF Present, PairsIn, Adding, RequestFits, RemoverOf
    <3> QED
      BY <2>1, <3>2, CallQuiet
  <2>3. CASE /\ pc'[c] = "add_tuple" /\ ~Present(k)
             /\ memberships' = memberships \cup {NewRow(c)}
    <3>1. /\ k \notin OrphanInHand
          /\ \A d \in Calls : /\ ~RemoverOf(d, k) /\ ~Announces(d, k)
                              /\ k \in PairsOf(G(d)) => pc[d] \notin CreateLabels \cup DeleteLabels
      BY <1>1, <2>1, NoneBesideAdd
    <3>2. Present(k)' /\ k \notin view /\ k \notin view'
      BY <1>1, <2>1, <2>3, <3>1 DEF Present, PairsIn, PairFits, eventVars
    <3>3. Adding(c, k)' /\ \A d \in Calls \ {c} : ~Adding(d, k)'
      BY <1>1, <2>3 DEF Adding, PairFits, RequestFits, Own, G, M
    <3>4. \A d \in Calls : RequestFits(d, k)'
      BY <2>3, <3>1, <3>2, <3>3
         DEF RequestFits, RemoverOf, CreateLabels, DeleteLabels, Own, G, M, PairsOf
    <3> QED
      BY <3>1, <3>2, <3>3, <3>4 DEF PairFits
  <2>4. RowsFor(G(c), M(c)) = {} => ~Present(k)
    BY <1>1 DEF Present, PairsIn
  <2>5. \/ memberships' = memberships /\ pc'[c] # "add_tuple"
        \/ /\ pc'[c] = "add_tuple" /\ ~Present(k)
           /\ memberships' = memberships \cup {NewRow(c)}
    <3>1. \/ Goto(c, "failed") /\ UNCHANGED storeVars
          \/ Goto(c, "add_readback") /\ UNCHANGED storeVars
          \/ /\ Goto(c, "add_tuple") /\ RowsFor(G(c), M(c)) = {}
             /\ memberships' = memberships \cup {NewRow(c)}
          \/ Goto(c, "failed") /\ faults' > faults
      BY <1>6 DEF AddInsert, Execute, ExecuteFails, Fault
    <3> QED
      BY <1>2, <1>3, <1>4, <2>4, <3>1 DEF storeVars
  <2> QED
    BY <2>2, <2>3, <2>5
<1>7. CASE AddRollback(c)
  <2>1. /\ pc[c] = "add_rollback" /\ Running(c, k) /\ UNCHANGED eventVars
        /\ pc'[c] = "failed" /\ Adding(c, k)
    BY <1>1, <1>2, <1>4, <1>7 DEF AddRollback, AddLabels, Adding
  <2>2. memberships' = memberships \ RowsFor(G(c), M(c))
    BY <1>3, <1>7 DEF AddRollback, Execute, ExecuteFails, Fault
  <2>3. ~Present(k)' /\ k \notin view'
    BY <1>1, <2>1, <2>2 DEF Present, PairsIn, PairFits, RequestFits, eventVars
  <2>4. \A d \in Calls : ~Adding(d, k)' /\ (pc'[d] \in CreateLabels => pc[d] \in CreateLabels)
    BY <1>1, <2>1 DEF Adding, PairFits, RequestFits, Own, G, M, CreateLabels
  <2> QED
    BY <1>1, <2>3, <2>4, PairGoes
<1>8. CASE AddPublish(c)
  <2>1. /\ pc[c] = "add_publish" /\ Running(c, k) /\ pc'[c] = "ok" /\ Adding(c, k)
        /\ memberships' = memberships
    BY <1>1, <1>2, <1>4, <1>8 DEF AddPublish, AddLabels, Adding, storeVars
  <2>2. added' = added \cup {NewRow(c)} /\ NewRow(c) \notin added
        /\ UNCHANGED <<removed, deletedGroups>>
    BY <1>3, <1>8, <2>1 DEF AddPublish, PublishAdded, eventVars
  <2>3. k \in view' /\ Present(k)'
    BY <1>1, <2>1, <2>2 DEF PairsIn, Present, PairFits, RequestFits
  <2>4. /\ k \notin OrphanInHand
        /\ \A d \in Calls : /\ ~RemoverOf(d, k) /\ ~Announces(d, k)
                            /\ k \in PairsOf(G(d)) => pc[d] \notin CreateLabels \cup DeleteLabels
    BY <1>1, <2>1, NoneBesideAdd
  <2>5. \A d \in Calls : ~Adding(d, k)'
    BY <1>1, <2>1 DEF Adding, PairFits, RequestFits, Own, G, M
  <2>6. \A d \in Calls : RequestFits(d, k)'
    BY <2>1, <2>4, <2>5 DEF RequestFits, RemoverOf, CreateLabels, DeleteLabels, Own, G, M, PairsOf
  <2> QED
    BY <1>1, <2>3, <2>4, <2>6 DEF PairFits
<1> QED
  BY <1>5, <1>6, <1>7, <1>8 DEF AddMember

-----------------------------------------------------------------------------
(* RemoveMember *)
LEMMA RemoveMemberFits ==
  ASSUME NEW c \in Calls, RemoveMember(c), NEW k \in Pairs, CallFinds(c, k), k \in PairsTouched(c)
  PROVE  PairFits(k)'
<1> USE DEF CallFinds
<1>1. /\ req[c].op = "remove" /\ k = Own(c) /\ k = (Own(c))' /\ LabelFits(c)' /\ HandFits(c)
      /\ RowsFor(G(c), M(c)) = {r \in memberships : KeyOf(r) = k} /\ PairFits(k)
  BY HandlerOps, PairRows DEF PairsTouched, Own, G, M
<1>2. /\ pc[c] \in RemoveLabels => Running(c, k)
      /\ pc[c] \in RemoveLabels \cup {"start"}
  BY <1>1, HandlerOps DEF Running, Busy, Done, RemoveLabels
<1>3. /\ faults' > faults => storeVars' = storeVars
      /\ pc[c] = "rm_tuple" => pc'[c] # "failed"
      /\ pc[c] = "rm_publish" => ~UNCHANGED eventVars
  BY Excuses
<1>4. ASSUME NEW l, Goto(c, l), pc[c] \in RemoveLabels \cup {"start"}
      PROVE  pc'[c] = l
  BY <1>4 DEF Goto
<1>5. ASSUME UNCHANGED <<memberships, eventVars>>,
             \/ pc[c] \notin {"rm_tuple", "rm_publish"} /\ pc'[c] \in {"rm_lookup", "rm_delete"} \cup Done
             \/ pc[c] = "rm_tuple" /\ pc'[c] = "rm_publish"
      PROVE  PairFits(k)'
  <2>1. Present(k)' <=> Present(k)
    BY <1>5 DEF Present, PairsIn
  <2>2. ~Adding(c, k) /\ ~Adding(c, k)' /\ (Announces(c, k) => Announces(c, k)')
    BY <1>1, <1>2, <1>5 DEF Adding, Announces, RemoverOf, RemoveLabels, Done
  <2>3. RequestFits(c, k)'
    BY <1>1, <1>5, <2>1, <2>2 DEF RequestFits, PairFits, RemoverOf, Done
  <2> QED
    BY <1>5, <2>1, <2>2, <2>3, CallQuiet
<1>6. CASE RemoveGetGroup(c) \/ RemoveLookup(c) \/ RemoveTuple(c)
  <2>1. UNCHANGED <<memberships, eventVars>>
    BY <1>6 DEF RemoveGetGroup, RemoveLookup, RemoveTuple, worldVars, storeVars, eventVars
  <2>2. \/ pc[c] \in {"start", "rm_lookup"} /\ pc'[c] \in {"rm_lookup", "rm_delete"} \cup Done
        \/ pc[c] = "rm_tuple" /\ pc'[c] = "rm_publish"
    BY <1>2, <1>3, <1>4, <1>6 DEF RemoveGetGroup, RemoveLookup, RemoveTuple, Starts, Done
  <2> QED
    BY <1>5, <2>1, <2>2
<1>7. CASE RemoveDelete(c)
  <2>1. pc[c] = "rm_delete" /\ UNCHANGED eventVars /\ Running(c, k)
    BY <1>2, <1>7 DEF RemoveDelete, RemoveLabels
  <2>2. CASE memberships' = memberships /\ pc'[c] \in Done
    BY <1>5, <2>1, <2>2
  <2>3. CASE pc'[c] = "rm_tuple" /\ memberships' = memberships \ RowsFor(G(c), M(c))
    <3>1. ~Present(k)' /\ Announces(c, k)' /\ (k \in view' => k \in view)
      BY <1>1, <2>1, <2>3 DEF Present, PairsIn, Announces, RemoverOf, eventVars
    <3>2. \A d \in Calls : ~Adding(d, k)
      BY <1>1, <2>1, NoAddBeside
    <3>3. \A d \in Calls : ~Adding(d, k)' /\ (pc'[d] \in CreateLabels => pc[d] \in CreateLabels)
      BY <2>3, <3>2 DEF Adding, Own, G, M, CreateLabels
    <3> QED
      BY <1>1, <3>1, <3>3, PairGoes
  <2>4. \/ Goto(c, "ok") /\ UNCHANGED storeVars
        \/ Goto(c, "rm_tuple") /\ memberships' = memberships \ RowsFor(G(c), M(c))
        \/ Goto(c, "failed") /\ faults' > faults
    BY <1>7 DEF RemoveDelete, Execute, ExecuteFails, Fault
  <2> QED
    BY <1>2, <1>3, <1>4, <2>2, <2>3, <2>4 DEF Done, storeVars
<1>8. CASE RemovePublish(c)
  <2>1. pc[c] = "rm_publish" /\ pc'[c] = "ok" /\ memberships' = memberships /\ RemoverOf(c, k)
    BY <1>1, <1>2, <1>4, <1>8 DEF RemovePublish, RemoverOf, storeVars
  <2>2. PICK r \in seen[c] : PublishRemoved(r)
    BY <1>8 DEF RemovePublish
  <2>3. r \in removed' \ removed /\ KeyOf(r) = k
    BY <1>1, <1>3, <2>1, <2>2 DEF PublishRemoved, eventVars, HandFits, PairsIn
  <2>4. k \notin view' /\ ~Present(k) /\ ~Present(k)'
    BY <1>1, <2>1, <2>3 DEF PairsIn, Present, PairFits, RequestFits
  <2>5. \A d \in Calls : ~Adding(d, k)' /\ (pc'[d] \in CreateLabels => pc[d] \in CreateLabels)
    BY <1>1, <2>1, <2>4 DEF Adding, PairFits, RequestFits, Own, G, M, CreateLabels
  <2> QED
    BY <1>1, <2>4, <2>5, PairGoes
<1> QED
  BY <1>6, <1>7, <1>8 DEF RemoveMember

-----------------------------------------------------------------------------
(* CreateGroup: nothing is known of a group whose id is yet to be drawn. *)
LEMMA CreateGroupFits ==
  ASSUME NEW c \in Calls, CreateGroup(c), NEW k \in Pairs, CallFinds(c, k), k \in PairsTouched(c),
         G(c) \notin issued => ~Present(k) /\ k \notin view
  PROVE  PairFits(k)'
<1> USE DEF CallFinds
<1>1. /\ req[c].op = "create" /\ k \in PairsOf(G(c)) /\ LabelFits(c)' /\ PairFits(k)
      /\ pc[c] \in CreateLabels \cup {"start"}
  BY HandlerOps DEF PairsTouched
<1>2. ASSUME NEW l, Goto(c, l), pc[c] \in CreateLabels \cup {"start"}
      PROVE  pc'[c] = l
  BY <1>2 DEF Goto
<1>3. UNCHANGED eventVars
  BY DEF CreateGroup, CreateInsert, CreateTuples, CreateRollback, eventVars
<1>4. ~Announces(c, k) /\ ~Adding(c, k)
  BY <1>1 DEF Announces, RemoverOf, Adding, CreateLabels
<1>5. pc'[c] \in CreateLabels \cup Done
  BY <1>1, <1>2 DEF CreateGroup, CreateInsert, CreateTuples, CreateRollback, CreateLabels, Done
<1>6. ~Adding(c, k)' /\ ~RemoverOf(c, k)'
  BY <1>5 DEF RemoverOf, Adding, CreateLabels, Done
<1>7. k \in view' <=> k \in view
  BY <1>3 DEF eventVars, PairsIn
<1>8. ASSUME memberships' = memberships,
             pc'[c] \in CreateLabels => ~Present(k) /\ k \notin view
      PROVE  PairFits(k)'
  <2>1. Present(k)' <=> Present(k)
    BY <1>8 DEF Present, PairsIn
  <2>2. RequestFits(c, k)'
    BY <1>5, <1>6, <1>7, <1>8, <2>1 DEF RequestFits, CreateLabels, Done
  <2> QED
    BY <1>3, <1>4, <1>6, <2>1, <2>2, CallQuiet
<1>9. CASE CreateInsert(c)
  <2>1. memberships' = memberships
    BY <1>9 DEF CreateInsert, Execute, ExecuteFails, storeVars
  <2>2. pc'[c] \in CreateLabels => G(c) \notin issued
    BY <1>1, <1>2, <1>9 DEF CreateInsert, CreateLabels
  <2> QED
    BY <1>8, <2>1, <2>2
<1>10. CASE CreateTuples(c)
  <2>1. memberships' = memberships /\ pc[c] = "cr_tuples"
    BY <1>10 DEF CreateTuples, storeVars
  <2>2. ~Present(k) /\ k \notin view
    BY <1>1, <2>1 DEF PairFits, RequestFits
  <2> QED
    BY <1>8, <2>1, <2>2
<1>11. CASE CreateRollback(c)
  <2>1. memberships' \subseteq memberships /\ pc[c] = "cr_rollback" /\ pc'[c] = "failed"
    BY <1>1, <1>2, <1>11 DEF CreateRollback, Execute, ExecuteFails, storeVars
  <2>2. ~Present(k) /\ k \notin view
    BY <1>1, <2>1 DEF PairFits, RequestFits
  <2>3. Present(k)' <=> Present(k)
    BY <2>1, <2>2 DEF Present, PairsIn
  <2>4. RequestFits(c, k)'
    BY <1>6, <2>1 DEF RequestFits
  <2> QED
    BY <1>3, <1>4, <1>6, <2>3, <2>4, CallQuiet
<1> QED
  BY <1>9, <1>10, <1>11 DEF CreateGroup

-----------------------------------------------------------------------------
(* DeleteGroup *)
LEMMA DeleteGroupFits ==
  ASSUME NEW c \in Calls, DeleteGroup(c), NEW k \in Pairs, CallFinds(c, k), k \in PairsTouched(c)
  PROVE  PairFits(k)'
<1> USE DEF CallFinds
<1>1. /\ req[c].op = "delete" /\ k \in PairsOf(G(c)) /\ (k \in PairsOf(G(c)))'
      /\ LabelFits(c)' /\ PairFits(k) /\ pc[c] \in DeleteLabels \cup {"start"}
      /\ RowsOf(G(c)) = {r \in memberships : KeyOf(r) \in PairsOf(G(c))}
  BY HandlerOps, PairRows DEF PairsTouched, PairsOf, G
<1>2. pc[c] \in DeleteLabels => Running(c, k)
  BY <1>1 DEF Running, Busy, Done, DeleteLabels
<1>3. /\ faults' > faults => storeVars' = storeVars
      /\ pc[c] = "del_publish" /\ UNCHANGED eventVars => k \notin PairsIn(seen[c] \ seen'[c])
  BY Excuses
<1>4. ASSUME NEW l, Goto(c, l), pc[c] \in DeleteLabels \cup {"start"}
      PROVE  pc'[c] = l
  BY <1>4 DEF Goto
<1>5. ASSUME UNCHANGED <<memberships, eventVars>>, pc[c] # "del_publish",
             pc'[c] \in (DeleteLabels \ {"del_publish"}) \cup Done,
             pc'[c] = "del_commit" /\ Present(k) => k \in PairsIn(seen'[c])
      PROVE  PairFits(k)'
  <2>1. Present(k)' <=> Present(k)
    BY <1>5 DEF Present, PairsIn
  <2>2. ~Adding(c, k) /\ ~Adding(c, k)' /\ ~Announces(c, k) /\ ~RemoverOf(c, k)'
    BY <1>1, <1>5 DEF Adding, Announces, RemoverOf, DeleteLabels, Done
  <2>3. RequestFits(c, k)'
    BY <1>5, <2>1, <2>2 DEF RequestFits, DeleteLabels, Done, PairsIn
  <2> QED
    BY <1>5, <2>1, <2>2, <2>3, CallQuiet
<1>6. CASE \/ DeleteGetGroup(c) \/ DeleteListAdmins(c) \/ DeleteListMembers(c)
           \/ DeleteTuples(c) \/ DeleteSelectGroup(c)
  <2>1. UNCHANGED <<memberships, eventVars>> /\ pc[c] # "del_publish"
    BY <1>6 DEF DeleteGetGroup, DeleteListAdmins, DeleteListMembers, DeleteTuples,
                DeleteSelectGroup, Starts, worldVars, storeVars, eventVars
  <2>2. pc'[c] \in {"del_admins", "del_members", "del_tuples", "del_select", "del_rows"} \cup Done
    BY <1>1, <1>4, <1>6 DEF DeleteGetGroup, DeleteListAdmins, DeleteListMembers, DeleteTuples,
                DeleteSelectGroup, Done
  <2> QED
    BY <1>5, <2>1, <2>2 DEF DeleteLabels, Done
<1>7. CASE DeleteSelectRows(c)
  <2>1. UNCHANGED <<memberships, eventVars>> /\ pc[c] = "del_rows"
    BY <1>7 DEF DeleteSelectRows, worldVars, eventVars
  <2>2. \/ pc'[c] = "failed"
        \/ pc'[c] = "del_commit" /\ seen'[c] = RowsOf(G(c))
    BY <1>1, <1>4, <1>7 DEF DeleteSelectRows
  <2>3. Present(k) => k \in PairsIn(RowsOf(G(c)))
    BY <1>1 DEF Present, PairsIn
  <2> QED
    BY <1>5, <2>1, <2>2, <2>3 DEF DeleteLabels, Done
<1>8. CASE DeleteCommit(c)
  <2>1. /\ pc[c] = "del_commit" /\ UNCHANGED eventVars /\ Running(c, k) /\ seen' = seen
        /\ k \in view' <=> k \in view
    BY <1>2, <1>8 DEF DeleteCommit, DeleteLabels, callVars, eventVars, PairsIn
  <2>2. CASE memberships' = memberships /\ pc'[c] = "failed"
    BY <1>5, <2>1, <2>2 DEF Done
  <2>3. CASE memberships' = memberships \ RowsOf(G(c)) /\ pc'[c] = "del_publish"
    <3>1. ~Present(k)'
      BY <1>1, <2>3 DEF Present, PairsIn
    <3>2. Present(k) => Announces(c, k)'
      BY <1>1, <2>1, <2>3 DEF PairFits, RequestFits, Announces
    <3>3. \A d \in Calls : Announces(d, k) => Announces(d, k)'
      <4>1. ~Announces(c, k)
        BY <2>1 DEF Announces, RemoverOf
      <4> QED
        BY <2>1, <4>1 DEF Announces, RemoverOf, Own, G, M, PairsIn, PairsOf
    <3>4. \A d \in Calls : ~Adding(d, k)
      BY <1>1, <2>1, NoAddBeside
    <3>5. \A d \in Calls : ~Adding(d, k)' /\ (pc'[d] \in CreateLabels => pc[d] \in CreateLabels)
      BY <2>3, <3>4 DEF Adding, Own, G, M, CreateLabels
    <3>6. k \in view' => k \in OrphanInHand' \/ \E d \in Calls : Announces(d, k)'
      BY <1>1, <2>1, <3>2, <3>3 DEF PairFits
    <3> QED
      BY <1>1, <2>1, <3>1, <3>5, <3>6, PairGoes
  <2>4. \/ Goto(c, "del_publish") /\ memberships' = memberships \ RowsOf(G(c))
        \/ Goto(c, "failed") /\ faults' > faults
    BY <1>8 DEF DeleteCommit, Execute, ExecuteFails, Fault
  <2> QED
    BY <1>1, <1>3, <1>4, <2>2, <2>3, <2>4 DEF storeVars
<1>9. CASE DeletePublish(c)
  <2>1. pc[c] = "del_publish" /\ memberships' = memberships
    BY <1>9 DEF DeletePublish, storeVars
  <2>2. ~Present(k) /\ ~Present(k)'
    BY <1>1, <2>1 DEF PairFits, RequestFits, Present, PairsIn
  <2>3. pc'[c] \in {"del_publish", "ok"}
    BY <1>1, <1>4, <1>9, <2>1 DEF DeletePublish
  <2>4. \A d \in Calls : ~Adding(d, k)' /\ (pc'[d] \in CreateLabels => pc[d] \in CreateLabels)
    BY <1>1, <2>2, <2>3 DEF Adding, PairFits, RequestFits, Own, G, M, CreateLabels
  <2>5. \A d \in Calls \ {c} : Announces(d, k) => Announces(d, k)'
    BY DEF Announces, RemoverOf, Own, G, M, PairsIn, PairsOf
  <2>6. k \in view' => k \in view /\ (Announces(c, k) => Announces(c, k)')
    <3>1. CASE \E r \in seen[c] : PublishRemoved(r) /\ seen' = [seen EXCEPT ![c] = @ \ {r}]
                                  /\ UNCHANGED pc
      <4>1. PICK r \in seen[c] : PublishRemoved(r) /\ seen' = [seen EXCEPT ![c] = @ \ {r}]
                                 /\ UNCHANGED pc
        BY <3>1
      <4>2. seen'[c] = seen[c] \ {r} /\ seen[c] \ seen'[c] = {r}
        BY <4>1
      <4>3. k \in view' => k \in view /\ KeyOf(r) # k
        <5>1. CASE UNCHANGED eventVars
          <6>1. KeyOf(r) # k
            BY <1>3, <2>1, <4>2, <5>1 DEF PairsIn
          <6> QED
            BY <5>1, <6>1 DEF eventVars, PairsIn
        <5>2. CASE ~UNCHANGED eventVars
          <6>1. removed' \ removed = {r} /\ added' = added
            BY <4>1, <5>2 DEF PublishRemoved, eventVars
          <6> QED
            BY <6>1 DEF PairsIn
        <5> QED
          BY <5>1, <5>2
      <4>4. k \in PairsIn(seen[c]) /\ KeyOf(r) # k => k \in PairsIn(seen'[c])
        BY <4>2 DEF PairsIn
      <4> QED
        BY <1>1, <2>1, <4>1, <4>3, <4>4 DEF Announces, RemoverOf
    <3>2. CASE seen[c] = {} /\ PublishGroupDeleted(G(c))
      <4>1. ~Announces(c, k)
        BY <2>1, <3>2 DEF Announces, RemoverOf, PairsIn
      <4> QED
        BY <3>2, <4>1 DEF PublishGroupDeleted, PairsIn
    <3> QED
      BY <1>9, <3>1, <3>2 DEF DeletePublish
  <2>7. k \in view' => k \in OrphanInHand' \/ \E d \in Calls : Announces(d, k)'
    BY <1>1, <2>2, <2>5, <2>6 DEF PairFits
  <2> QED
    BY <1>1, <2>2, <2>4, <2>6, <2>7, PairGoes
<1> QED
  BY <1>6, <1>7, <1>8, <1>9 DEF DeleteGroup

-----------------------------------------------------------------------------
(* The steps of a pass. *)
OrphanLabels == {"orphan_read", "orphan_write", "orphan_publish"}

(* All but two leave the rows and the events alone, and the orphan in hand *)
(* unless they end the pass. *)
LEMMA PassHolds ==
  ASSUME PassStep, ~DeleteOrphan, ~PublishOrphan
  PROVE  /\ UNCHANGED <<memberships, eventVars>>
         /\ \/ rpc' = "idle"
            \/ rpc \notin OrphanLabels /\ rpc' \notin OrphanLabels
            \/ rpc \in OrphanLabels /\ rpc' \in OrphanLabels /\ curRow' = curRow
<1> USE DEF OrphanLabels
<1>1. CASE ListGroups \/ ListMemberships
  BY <1>1 DEF ListGroups, ListMemberships, worldVars, eventVars
<1>2. CASE GroupLoop
  BY <1>2 DEF GroupLoop, NextGroup, EnsureOrg, ReadAdmins, CheckAdmin, GroupDone, GroupsDone,
              Abort, EndPass, worldVars, storeVars, eventVars
<1>3. CASE (\E r \in todoRows : NextRow(r)) \/ ReadRowTuple \/ EnsureRowTuple \/ RowsDone
  BY <1>3 DEF NextRow, ReadRowTuple, EnsureRowTuple, RowsDone, Abort, EndPass, worldVars,
              storeVars, eventVars
<1>4. CASE ReadOrphanTuple \/ DeleteOrphanTuple
  BY <1>4 DEF ReadOrphanTuple, DeleteOrphanTuple, Abort, EndPass, worldVars, storeVars,
              eventVars, passVars
<1>5. CASE Cleanup \/ ReadFails
  BY <1>5 DEF Cleanup, ScanPage, Sweep, ReadFails, Abort, EndPass, worldVars, storeVars, eventVars
<1> QED
  BY <1>1, <1>2, <1>3, <1>4, <1>5 DEF PassStep, RowLoop

LEMMA PassFits ==
  ASSUME ConsumersIInv, StreamPass, NEW k \in Pairs \ blurred'
  PROVE  PairFits(k)'
<1>1. /\ PassStep /\ UNCHANGED <<pc, callVars>> /\ Observe(SilencedByPass)
      /\ ServiceTypeOK /\ ReconcilerTypeOK /\ PassIsSound /\ view \subseteq Pairs \ blurred
      /\ \A d \in Calls : LabelFits(d)
  BY DEF StreamPass, SystemPass, ConsumersIInv, ConsumersFit, SystemIInv, SystemTypeOK, IInv
<1>2. memberships \subseteq Row /\ faults \in 0..MaxFaults
  BY <1>1 DEF ServiceTypeOK, WorldTypeOK, StoreTypeOK
<1>3. /\ k \notin blurred /\ k \notin SilencedByPass /\ k \notin Crossed'
      /\ k \in view' <=> /\ k \in view \/ k \in PairsIn(added' \ added)
                         /\ k \notin PairsIn(removed' \ removed)
                         /\ \A g \in deletedGroups' \ deletedGroups : k \notin PairsOf(g)
  BY <1>1, ViewAfter
<1>4. PairFits(k)
  BY <1>3 DEF ConsumersIInv, ConsumersFit
<1>5. /\ k \in OrphanInHand => rpc' # "idle"
      /\ k \in OrphanInHand /\ rpc = "orphan_publish" => ~UNCHANGED eventVars
      /\ faults' > faults => k \notin PairsIn(memberships \ memberships')
  BY <1>3 DEF SilencedByPass
<1>6. UNCHANGED <<pc, req, seen>>
  BY <1>1 DEF callVars
<1>7. \A d \in Calls : /\ Adding(d, k)' <=> Adding(d, k)
                       /\ Announces(d, k)' <=> Announces(d, k)
                       /\ Running(d, k)' <=> Running(d, k)
  BY <1>6 DEF Adding, Announces, RemoverOf, Running, Busy, Done, PairsTouched, Own, G, M,
              PairsIn, PairsOf
<1>8. ASSUME Present(k)' <=> Present(k), k \in view' <=> k \in view,
             k \in OrphanInHand' <=> k \in OrphanInHand
      PROVE  PairFits(k)'
  BY <1>3, <1>4, <1>6, <1>7, <1>8, PairStays
<1>9. ASSUME ~Present(k)', k \in view' => k \in view,
             k \in view' => k \in OrphanInHand' \/ \E d \in Calls : Announces(d, k)',
             \A d \in Calls : ~Adding(d, k)
      PROVE  PairFits(k)'
  <2>1. \A d \in Calls : ~Adding(d, k)' /\ (pc'[d] \in CreateLabels => pc[d] \in CreateLabels)
    BY <1>6, <1>7, <1>9 DEF CreateLabels
  <2> QED
    BY <1>3, <1>4, <1>6, <1>9, <2>1, PairGoes
<1>10. CASE DeleteOrphan
  <2> DEFINE rows == RowsFor(curRow.group, curRow.member)
  <2>1. rpc = "orphan_delete" /\ UNCHANGED eventVars /\ OrphanInHand = {}
    BY <1>10 DEF DeleteOrphan, OrphanInHand
  <2>2. k \in view' <=> k \in view
    BY <1>3, <2>1 DEF eventVars, PairsIn
  <2>3. CASE memberships' = memberships /\ rpc' \in {"rows", "idle"}
    <3>1. (Present(k)' <=> Present(k)) /\ k \notin OrphanInHand'
      BY <2>3 DEF Present, PairsIn, OrphanInHand
    <3> QED
      BY <1>8, <2>1, <2>2, <3>1
  <2>4. CASE \E r \in rows : /\ memberships' = memberships \ rows
                             /\ curRow' = r /\ rpc' = "orphan_read"
    <3>1. PICK r \in rows : /\ memberships' = memberships \ rows
                            /\ curRow' = r /\ rpc' = "orphan_read"
      BY <2>4
    <3>2. OrphanInHand' = {KeyOf(r)}
      BY <3>1 DEF OrphanInHand
    <3>3. rows = {s \in memberships : KeyOf(s) = KeyOf(r)}
      BY <1>2, <3>1 DEF RowsFor, RowsOf, KeyOf, MemberKey, Row
    <3>4. CASE k = KeyOf(r)
      <4>1. ~Present(k)'
        BY <3>1, <3>3, <3>4 DEF Present, PairsIn
      <4>2. \A d \in Calls : ~Adding(d, k)
        <5>1. k \in OrphanInHand' /\ k \in Pairs'
          BY <3>2, <3>4 DEF Pairs, PairsOf
        <5>2. \A d \in Calls : ~((Running(d, k) /\ req[d].op = "add")')
          BY <1>3, <5>1 DEF Crossed
        <5> QED
          BY <1>1, <1>6, <1>7, <5>2, AtWorkRuns
      <4> QED
        BY <1>9, <2>2, <3>2, <3>4, <4>1, <4>2
    <3>5. CASE k # KeyOf(r)
      <4>1. (Present(k)' <=> Present(k)) /\ k \notin OrphanInHand'
        BY <3>1, <3>2, <3>3, <3>5 DEF Present, PairsIn
      <4> QED
        BY <1>8, <2>1, <2>2, <4>1
    <3> QED
      BY <3>4, <3>5
  <2>5. CASE ExecuteFails(groups, memberships \ rows) /\ Abort
    <3>1. faults' > faults /\ memberships' \subseteq memberships /\ rpc' = "idle"
      BY <1>2, <2>5, MaxFaultsAssumption DEF ExecuteFails, Fault, Abort, EndPass, storeVars
    <3>2. (Present(k)' <=> Present(k)) /\ k \notin OrphanInHand'
      BY <1>5, <3>1 DEF Present, PairsIn, OrphanInHand
    <3> QED
      BY <1>8, <2>1, <2>2, <3>2
  <2> QED
    BY <1>10, <2>3, <2>4, <2>5 DEF DeleteOrphan, Execute, storeVars
<1>11. CASE PublishOrphan
  <2>1. /\ rpc = "orphan_publish" /\ rpc' = "rows" /\ memberships' = memberships
        /\ removed' \in {removed, removed \cup {curRow}} /\ UNCHANGED <<added, deletedGroups>>
    BY <1>11 DEF PublishOrphan, PublishRemoved, storeVars
  <2>2. OrphanInHand = {KeyOf(curRow)} /\ OrphanInHand' = {} /\ (Present(k)' <=> Present(k))
    BY <2>1 DEF OrphanInHand, Present, PairsIn
  <2>3. CASE k = KeyOf(curRow)
    <3>1. removed' \ removed = {curRow}
      BY <1>5, <2>1, <2>2, <2>3 DEF eventVars
    <3>2. k \notin view' /\ ~Present(k)
      BY <1>3, <1>4, <2>2, <2>3, <3>1 DEF PairsIn, PairFits
    <3>3. \A d \in Calls : ~Adding(d, k)
      BY <1>4, <3>2 DEF PairFits, RequestFits
    <3> QED
      BY <1>9, <2>2, <3>2, <3>3
  <2>4. CASE k # KeyOf(curRow)
    <3>1. k \in view' <=> k \in view
      BY <1>3, <2>1, <2>4 DEF PairsIn
    <3> QED
      BY <1>8, <2>2, <2>4, <3>1
  <2> QED
    BY <2>3, <2>4
<1>12. CASE ~DeleteOrphan /\ ~PublishOrphan
  <2>1. /\ UNCHANGED <<memberships, eventVars>>
        /\ \/ rpc' = "idle"
           \/ rpc \notin OrphanLabels /\ rpc' \notin OrphanLabels
           \/ rpc \in OrphanLabels /\ rpc' \in OrphanLabels /\ curRow' = curRow
    BY <1>1, <1>12, PassHolds
  <2>2. (Present(k)' <=> Present(k)) /\ (k \in view' <=> k \in view)
    BY <1>3, <2>1 DEF Present, PairsIn, eventVars
  <2>3. k \in OrphanInHand' <=> k \in OrphanInHand
    BY <1>5, <2>1 DEF OrphanInHand, OrphanLabels
  <2> QED
    BY <1>8, <2>2, <2>3
<1> QED
  BY <1>10, <1>11, <1>12

(* A crash or a panic blurs whatever somebody accounts for.                *)
LEMMA StopFits ==
  ASSUME ConsumersIInv, StreamPanic \/ StreamCrash, NEW k \in Pairs \ blurred'
  PROVE  PairFits(k)'
<1>1. /\ Observe(Interrupted) /\ KillCalls /\ rpc' = "idle"
      /\ UNCHANGED <<memberships, eventVars, callVars>>
      /\ view \subseteq Pairs \ blurred /\ \A d \in Calls : LabelFits(d)
  BY DEF StreamPanic, StreamCrash, SystemPanic, SystemCrash, Panic, Crash, Abort, EndPass,
         ConsumersIInv, ConsumersFit, worldVars, storeVars, eventVars
<1>2. /\ k \notin blurred /\ k \notin Interrupted /\ k \notin Crossed'
      /\ k \in view' <=> k \in view
  BY <1>1, ViewAfter DEF eventVars, PairsIn
<1>3. PairFits(k)
  BY <1>2 DEF ConsumersIInv, ConsumersFit
<1>4. k \notin OrphanInHand /\ k \notin OrphanInHand' /\ (Present(k)' <=> Present(k))
  BY <1>1, <1>2 DEF Interrupted, OrphanInHand, Present, PairsIn
<1>5. UNCHANGED <<req, seen>> /\ \A d \in Calls : pc'[d] = pc[d] \/ pc'[d] = "failed"
  BY <1>1 DEF callVars, KillCalls
<1>6. \A d \in Calls : ~Running(d, k)
  BY <1>2 DEF Interrupted
<1>7. \A d \in Calls : ~Adding(d, k) /\ ~Announces(d, k)
  BY <1>1, <1>6, AtWorkRuns
<1>8. \A d \in Calls : ~Adding(d, k)'
  BY <1>5, <1>7 DEF Adding, Own, G, M
<1>9. \A d \in Calls : RequestFits(d, k)' \/ (pc'[d] = pc[d] /\ seen'[d] = seen[d])
  BY <1>5 DEF RequestFits, Adding, RemoverOf
<1>10. PairFits(k)'
  BY <1>2, <1>3, <1>4, <1>5, <1>7, <1>8, <1>9, PairStays
<1> QED
  BY <1>10

LEMMA StopHands ==
  ASSUME ConsumersIInv, StreamPanic \/ StreamCrash
  PROVE  \A d \in Calls : LabelFits(d)' /\ HandFits(d)'
<1>1. /\ KillCalls /\ UNCHANGED callVars /\ \A d \in Calls : LabelFits(d) /\ HandFits(d)
  BY DEF StreamPanic, StreamCrash, SystemPanic, SystemCrash, Crash, ConsumersIInv, ConsumersFit
<1>2. UNCHANGED <<req, seen>> /\ \A d \in Calls : pc'[d] = pc[d] \/ pc'[d] = "failed"
  BY <1>1 DEF callVars, KillCalls
<1> QED
  BY <1>1, <1>2 DEF LabelFits, HandFits, Own, G, M, PairsIn, PairsOf, AddLabels, RemoveLabels,
       CreateLabels, DeleteLabels

-----------------------------------------------------------------------------
(* A request keeps every pair fit, and what it holds is of its pair.       *)
LEMMA CallFits ==
  ASSUME ConsumersIInv, NEW c \in Calls, StreamCall(c), NEW k \in Pairs \ blurred'
  PROVE  PairFits(k)'
<1>1. CallFinds(c, k) /\ CallStep(c)
  BY CallContext DEF StreamCall, SystemCall
<1>2. CASE k \notin PairsTouched(c)
  BY <1>1, <1>2, CallElsewhere
<1>3. CASE k \in PairsTouched(c)
  <2>1. CASE AddMember(c)
    BY <1>1, <1>3, <2>1, AddMemberFits
  <2>2. CASE RemoveMember(c)
    BY <1>1, <1>3, <2>2, RemoveMemberFits
  <2>3. CASE CreateGroup(c)
    <3>1. k.group = G(c)
      BY <1>1, <1>3, <2>3, HandlerOps, PairShape DEF CallFinds, PairsTouched
    <3>2. memberships \subseteq Row /\ groups \subseteq issued
      BY <1>1 DEF CallFinds, ConsumersIInv, ConsumersFit, SystemIInv, IInv, GroupsAreFresh
    <3>3. Present(k) \/ k \in view => G(c) \in issued
      BY <3>1, <3>2, PairShape DEF Present, PairsIn, ConsumersIInv, ConsumersFit, ForeignKey
    <3> QED
      BY <1>1, <1>3, <2>3, <3>3, CreateGroupFits
  <2>4. CASE DeleteGroup(c)
    BY <1>1, <1>3, <2>4, DeleteGroupFits
  <2> QED
    BY <1>1, <2>1, <2>2, <2>3, <2>4 DEF CallStep
<1> QED
  BY <1>2, <1>3

LEMMA CallHands ==
  ASSUME ConsumersIInv, NEW c \in Calls, StreamCall(c)
  PROVE  \A d \in Calls : LabelFits(d)' /\ HandFits(d)'
<1>1. /\ CallStep(c) /\ ServiceTypeOK /\ \A d \in Calls : LabelFits(d) /\ HandFits(d)
  BY DEF StreamCall, SystemCall, ConsumersIInv, ConsumersFit, SystemIInv, IInv
<1>2. /\ memberships \subseteq Row /\ pc \in [Calls -> Labels] /\ seen \in [Calls -> SUBSET Row]
  BY <1>1 DEF ServiceTypeOK, WorldTypeOK, StoreTypeOK
<1>3. req' = req /\ \A d \in Calls : LabelFits(d)'
  BY <1>1, <1>2, LabelsStay
<1>4. \A d \in Calls \ {c} : pc'[d] = pc[d] /\ seen'[d] = seen[d]
  BY <1>1, <1>2, LabelsStay, HandsMove
<1>5. /\ RowsFor(G(c), M(c)) = {r \in memberships : KeyOf(r) = Own(c)}
      /\ RowsOf(G(c)) = {r \in memberships : KeyOf(r) \in PairsOf(G(c))}
  BY <1>1, <1>2, RequestTypes, PairRows
<1>6. (Own(c))' = Own(c) /\ (PairsOf(G(c)))' = PairsOf(G(c))
  BY <1>3 DEF Own, G, M, PairsOf
<1>7. HandFits(c)'
  <2>1. CASE seen'[c] = seen[c] /\ pc'[c] \notin {"rm_tuple", "del_commit"}
    BY <1>1, <1>2, <1>6, <2>1, HandsMove DEF HandFits, PairsIn
  <2>2. CASE seen'[c] = RowsFor(G(c), M(c)) /\ pc'[c] = "rm_tuple"
    BY <1>5, <1>6, <2>2 DEF HandFits, PairsIn
  <2>3. CASE seen'[c] = RowsOf(G(c)) /\ pc'[c] = "del_commit"
    BY <1>5, <1>6, <2>3 DEF HandFits, PairsIn
  <2>4. CASE seen'[c] \subseteq seen[c] /\ pc[c] = "del_publish" /\ pc'[c] = "del_publish"
    BY <1>1, <1>6, <2>4 DEF HandFits, PairsIn
  <2> QED
    BY <1>1, <1>2, <2>1, <2>2, <2>3, <2>4, HandsMove
<1>8. \A d \in Calls \ {c} : HandFits(d)'
  BY <1>1, <1>3, <1>4 DEF HandFits, Own, G, M, PairsIn, PairsOf
<1> QED
  BY <1>3, <1>7, <1>8

(* Whoever stands still keeps its label and what it holds. *)
LEMMA IdleHands ==
  ASSUME ConsumersIInv, UNCHANGED <<pc, callVars>>
  PROVE  \A d \in Calls : LabelFits(d)' /\ HandFits(d)'
BY DEF ConsumersIInv, ConsumersFit, LabelFits, HandFits, Own, G, M, PairsIn, PairsOf, callVars, AddLabels,
       RemoveLabels, CreateLabels, DeleteLabels

(* The loss of an identity is nothing to a consumer. *)
LEMMA IdentityFits ==
  ASSUME ConsumersIInv, NEW i \in Identities, StreamIdentity(i), NEW k \in Pairs \ blurred'
  PROVE  PairFits(k)'
<1>1. /\ Observe({}) /\ UNCHANGED <<storeVars, eventVars, pc, callVars, reconcilerVars>>
      /\ view \subseteq Pairs \ blurred
  BY DEF StreamIdentity, SystemIdentity, RemoveIdentity, IdentityRemoved, ConsumersIInv, ConsumersFit,
         storeVars, eventVars
<1>2. /\ k \notin blurred /\ k \notin Crossed' /\ (k \in view' <=> k \in view)
  BY <1>1, ViewAfter DEF eventVars, PairsIn
<1>3. PairFits(k)
  BY <1>2 DEF ConsumersIInv, ConsumersFit
<1>4. UNCHANGED <<memberships, pc, req, seen, rpc, curRow>>
  BY <1>1 DEF storeVars, callVars, reconcilerVars, passVars
<1>5. (Present(k)' <=> Present(k)) /\ OrphanInHand' = OrphanInHand
  BY <1>4 DEF Present, PairsIn, OrphanInHand
<1>6. \A d \in Calls : (Adding(d, k)' <=> Adding(d, k)) /\ (Announces(d, k) => Announces(d, k)')
  BY <1>4 DEF Adding, Announces, RemoverOf, Own, G, M, PairsIn, PairsOf
<1> QED
  BY <1>2, <1>3, <1>4, <1>5, <1>6, PairStays

-----------------------------------------------------------------------------
(* A pair joins the view only when its AddMember announces it.             *)
LEMMA JoinsOnce ==
  ASSUME ConsumersIInv, StreamNext
  PROVE  \/ added' = added
         \/ \E c \in Calls : StreamCall(c) /\ pc[c] = "add_publish" /\ added' = added \cup {NewRow(c)}
<1>1. CASE \E c \in Calls : StreamCall(c)
  BY <1>1, EventsMove DEF StreamCall, SystemCall, eventVars
<1>2. CASE StreamPass
  BY <1>2, PassHolds DEF StreamPass, SystemPass, eventVars, DeleteOrphan, PublishOrphan,
                         PublishRemoved
<1>3. CASE StreamPanic \/ StreamCrash
  BY <1>3 DEF StreamPanic, StreamCrash, SystemPanic, SystemCrash, Panic, Crash, worldVars,
              eventVars
<1>4. CASE \E i \in Identities : StreamIdentity(i)
  BY <1>4 DEF StreamIdentity, SystemIdentity, RemoveIdentity, IdentityRemoved
<1> QED
  BY <1>1, <1>2, <1>3, <1>4 DEF StreamNext

LEMMA ViewStays ==
  ASSUME ConsumersIInv, StreamNext, SystemIInv'
  PROVE  /\ view' \subseteq Pairs \ blurred'
         /\ issued \subseteq issued' => \A k \in view' : k.group \in issued'
<1>1. added' \subseteq Row /\ memberships \subseteq Row
  BY DEF ConsumersIInv, ConsumersFit, SystemIInv, IInv, ServiceTypeOK, WorldTypeOK, StoreTypeOK
<1>2. PICK s : Observe(s)
  BY DEF StreamNext, StreamCall, StreamPass, StreamPanic, StreamCrash, StreamIdentity
<1>3. view' \subseteq (view \cup PairsIn(added' \ added)) \ blurred'
  BY <1>2 DEF Observe, AfterEvents
<1>4. PairsIn(added' \ added) \subseteq Pairs
  BY <1>1, PairShape DEF PairsIn
<1>5. view \subseteq Pairs \ blurred
  BY DEF ConsumersIInv, ConsumersFit
<1>6. view' \subseteq Pairs \ blurred'
  BY <1>3, <1>4, <1>5
<1>7. ASSUME NEW k \in view', k \notin view PROVE k.group \in issued
  <2>1. PICK c \in Calls : StreamCall(c) /\ pc[c] = "add_publish" /\ added' = added \cup {NewRow(c)}
    BY <1>3, <1>7, JoinsOnce DEF PairsIn
  <2>2. k = KeyOf(NewRow(c)) /\ k \in Pairs \ blurred'
    BY <1>3, <1>6, <1>7, <2>1 DEF PairsIn
  <2>3. CallFinds(c, k)
    BY <2>1, <2>2, CallContext
  <2>4. k = Own(c) /\ PairFits(k)
    BY <2>2, <2>3, PairRows DEF CallFinds
  <2>5. Present(k)
    BY <2>1, <2>4 DEF PairFits, RequestFits, Adding
  <2>6. \E r \in memberships : r.group = k.group
    BY <1>1, <2>5, PairShape DEF Present, PairsIn
  <2> QED
    BY <2>6 DEF ConsumersIInv, ConsumersFit, ForeignKey, SystemIInv, IInv, GroupsAreFresh
<1>8. \A k \in view : k.group \in issued
  BY DEF ConsumersIInv, ConsumersFit
<1> QED
  BY <1>6, <1>7, <1>8

LEMMA ConsumersInit == StreamInit => ConsumersIInv
<1> SUFFICES ASSUME StreamInit PROVE ConsumersIInv
  OBVIOUS
<1>1. SystemInit /\ SystemIInv /\ ServiceInit
  BY SystemInvInit DEF StreamInit, SystemInit
<1>2. /\ view = PairsIn(memberships) /\ blurred = {} /\ rpc = "idle" /\ issued = groups
      /\ memberships \subseteq Row /\ ForeignKey
      /\ \A c \in Calls : pc[c] = "start"
  BY <1>1 DEF StreamInit, SystemInit, ReconcilerInit, ServiceInit, SystemIInv, IInv,
              ServiceTypeOK, WorldTypeOK, StoreTypeOK, ForeignKey
<1>3. view \subseteq Pairs \ blurred /\ \A k \in view : k.group \in issued
  BY <1>2, PairShape DEF PairsIn, ForeignKey
<1>4. \A c \in Calls : LabelFits(c) /\ HandFits(c)
  BY <1>2 DEF LabelFits, HandFits, AddLabels, RemoveLabels, CreateLabels, DeleteLabels
<1>5. \A k \in Pairs : PairFits(k)
  BY <1>2 DEF PairFits, Crossed, Running, Busy, RequestFits, Adding, RemoverOf, OrphanInHand,
              Present
<1> QED
  BY <1>1, <1>2, <1>3, <1>4, <1>5 DEF ConsumersIInv, ConsumersFit

LEMMA ConsumersStep ==
  ASSUME ConsumersIInv, StreamNext
  PROVE  ConsumersIInv'
<1>1. SystemNext
  BY DEF StreamNext, StreamCall, StreamPass, StreamPanic, StreamCrash, StreamIdentity, SystemNext
<1>2. SystemIInv'
  BY <1>1, SystemInvStep DEF ConsumersIInv, ConsumersFit
<1>3. ForeignKey'
  <2>1. CASE \E c \in Calls : CallStep(c)
    BY <2>1, CallKeepsForeignKey DEF ConsumersIInv, ConsumersFit
  <2>2. CASE PassStep
    BY <2>2, PassKeepsForeignKey DEF ConsumersIInv, ConsumersFit
  <2>3. CASE UNCHANGED storeVars
    BY <2>3 DEF ConsumersIInv, ConsumersFit, ForeignKey, storeVars
  <2> QED
    BY <1>1, <2>1, <2>2, <2>3
       DEF SystemNext, SystemCall, SystemPass, SystemPanic, SystemCrash, SystemIdentity, Panic,
           Crash, RemoveIdentity, IdentityRemoved, worldVars, storeVars
<1>4. issued \subseteq issued'
  <2>1. CASE \E c \in Calls : CallStep(c)
    <3>1. pc \in [Calls -> Labels] /\ seen \in [Calls -> SUBSET Row]
      BY DEF ConsumersIInv, ConsumersFit, SystemIInv, IInv, ServiceTypeOK
    <3> QED
      BY <2>1, <3>1, HandsMove
  <2>2. CASE UNCHANGED callVars
    BY <2>2 DEF callVars
  <2> QED
    BY <1>1, <2>1, <2>2
       DEF SystemNext, SystemCall, SystemPass, SystemPanic, SystemCrash, SystemIdentity, Crash,
           RemoveIdentity
<1>5. \A c \in Calls : LabelFits(c)' /\ HandFits(c)'
  BY CallHands, StopHands, IdleHands
     DEF StreamNext, StreamPass, SystemPass, StreamIdentity, SystemIdentity, RemoveIdentity
<1>6. \A k \in Pairs \ blurred' : PairFits(k)'
  BY CallFits, PassFits, StopFits, IdentityFits DEF StreamNext
<1>7. Pairs' = Pairs
  BY DEF Pairs, PairsOf
<1> QED
  BY <1>2, <1>3, <1>4, <1>5, <1>6, <1>7, ViewStays DEF ConsumersIInv, ConsumersFit

(* The invariant of the whole process, and what ties a consumer's view to it. *)
THEOREM ConsumerInvariance == StreamSpec => []ConsumersIInv
<1>1. ConsumersIInv /\ [StreamNext]_streamVars => ConsumersIInv'
  <2>1. ASSUME ConsumersIInv, UNCHANGED streamVars PROVE ConsumersIInv'
    <3>1. SystemIInv'
      BY <2>1, SystemInvStep DEF ConsumersIInv, ConsumersFit, streamVars
    <3>2. UNCHANGED <<groups, memberships, pc, req, seen, issued, rpc, curRow, view, blurred>>
      BY <2>1 DEF streamVars, systemVars, serviceVars, worldVars, callVars, reconcilerVars, passVars
    <3>3. ForeignKey' /\ (view \subseteq Pairs \ blurred)' /\ (\A k \in view : k.group \in issued)'
      BY <2>1, <3>2 DEF ConsumersIInv, ConsumersFit, ForeignKey, Pairs, PairsOf
    <3>4. \A c \in Calls : LabelFits(c)' /\ HandFits(c)'
      BY <2>1, IdleHands DEF streamVars, systemVars, serviceVars
    <3>5. Crossed' = Crossed /\ OrphanInHand' = OrphanInHand /\ Pairs' = Pairs
      BY <3>2 DEF Crossed, OrphanInHand, Pairs, PairsOf, Running, Busy, Done, PairsTouched, G, M
    <3>6. ASSUME NEW k \in Pairs \ blurred PROVE PairFits(k)'
      <4>1. PairFits(k) /\ (Present(k)' <=> Present(k))
        BY <2>1, <3>2, <3>6 DEF ConsumersIInv, ConsumersFit, Present, PairsIn
      <4>2. \A d \in Calls : (Adding(d, k)' <=> Adding(d, k)) /\ (Announces(d, k) => Announces(d, k)')
        BY <3>2 DEF Adding, Announces, RemoverOf, Own, G, M, PairsIn, PairsOf
      <4>3. k \notin Crossed'
        BY <3>5, <4>1 DEF PairFits
      <4> QED
        BY <3>2, <3>5, <4>1, <4>2, <4>3, PairStays
    <3> QED
      BY <3>1, <3>2, <3>3, <3>4, <3>5, <3>6 DEF ConsumersIInv, ConsumersFit
  <2> QED
    BY <2>1, ConsumersStep
<1> QED
  BY ConsumersInit, <1>1, PTL DEF StreamSpec

(* Who accounts for every pair that consumers and database disagree on,    *)
(* and what each request and the pass rely on when they announce.          *)
THEOREM ConsumersFitAlways == StreamSpec => []ConsumersFit
<1>1. ConsumersIInv => ConsumersFit
  BY DEF ConsumersIInv
<1> QED
  BY ConsumerInvariance, <1>1, PTL

(* A consumer of the events knows the members of every group exactly, but  *)
(* for the pairs at work and those a crash, a lost event, a removal that   *)
(* failed half-way or a crossing of requests has blurred.                  *)
THEOREM ConsumersStayRight == StreamSpec => []ConsumersAreRight
<1>1. ConsumersIInv => ConsumersAreRight
  <2> SUFFICES ASSUME ConsumersIInv, NEW k \in Pairs \ blurred,
                      k \notin OrphanInHand, \A c \in Calls : ~Running(c, k)
               PROVE  k \in view <=> k \in PairsIn(memberships)
    BY DEF ConsumersAreRight
  <2>1. PairFits(k) /\ \A c \in Calls : LabelFits(c)
    BY DEF ConsumersIInv, ConsumersFit
  <2>2. \A c \in Calls : ~Adding(c, k) /\ ~Announces(c, k)
    BY <2>1, AtWorkRuns
  <2> QED
    BY <2>1, <2>2 DEF PairFits, Present
<1> QED
  BY ConsumerInvariance, <1>1, PTL
==============================================================================
