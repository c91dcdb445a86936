------------------------- MODULE GroupsSystem_proofs -------------------------
(***************************************************************************)
(* Proofs about GroupsSystem: the types, GrantsWereValidated and           *)
(* EventsAreTrue hold with the reconciler, its panic and restarts beside   *)
(* the requests.  A step of a request is covered by InvStep of             *)
(* GroupsService_proofs; what is left is that a pass keeps IInv and that   *)
(* everyone keeps PassIsSound.  From that invariant the second part proves *)
(* AnnouncedOnce, and the last that GroupsSystem implements Ledger: each   *)
(* step of a request, of a pass, of the panic, of a crash and of the       *)
(* identity service is a step of the ledger or none.                       *)
(***************************************************************************)
EXTENDS LedgerRefinement, GroupsService_proofs

-----------------------------------------------------------------------------
(* The pass is at rest after an abort, and nothing is asked of it. *)
LEMMA EndPassRests ==
  ASSUME NEW l \in {"idle", "complete"}, EndPass(l)
  PROVE  ReconcilerTypeOK' /\ PassIsSound'
BY DEF EndPass, ReconcilerTypeOK, RLabels, PassIsSound, Held

(* What the pass holds stays sound while it stands still and others work.  *)
LEMMA PassWaits ==
  ASSUME SystemTypeOK, PassIsSound, UNCHANGED reconcilerVars,
         admitted \subseteq admitted',
         \A d \in Calls : Unborn(d)' => Unborn(d),
         \A r \in memberships' :
           r \in memberships \/ \E c \in Calls : Unborn(c) /\ r.id = c
  PROVE  ReconcilerTypeOK' /\ PassIsSound'
<1>1. ReconcilerTypeOK'
  BY DEF SystemTypeOK, ReconcilerTypeOK, reconcilerVars, passVars
<1>2. rpc' = rpc /\ curRow' = curRow /\ curGroup' = curGroup /\ Held' = Held
  BY DEF reconcilerVars, passVars, Held
<1>3. \A r \in Held' :
        KeyOf(r) \in admitted' /\ \A c \in Calls : Unborn(c)' => r.id # c
  BY <1>2 DEF PassIsSound
<1>4. rpc \in {"orphan_read", "orphan_write", "orphan_publish"} =>
        curRow \in Held /\ curRow \notin memberships'
  BY DEF PassIsSound, Held
<1> QED
  BY <1>1, <1>2, <1>3, <1>4 DEF PassIsSound

-----------------------------------------------------------------------------
(* A step of the pass that takes no row from the tables and announces none *)
(* keeps IInv: it can only add the tuple of a row it holds, or a group's   *)
(* own.                                                                    *)
LEMMA PassQuiet ==
  ASSUME IInv, ServiceTypeOK', UNCHANGED <<pc, callVars, eventVars>>,
         groups' = groups, memberships' \subseteq memberships,
         \A k \in tuples' : k.relation = "member" => k \in tuples \cup admitted
  PROVE  IInv'
BY QuietStep DEF callVars, Unborn

(* Rows read from the tables are validated and not yet to be inserted. *)
LEMMA RowsReadAreSound ==
  ASSUME IInv, NEW r \in memberships
  PROVE  r \in Row /\ KeyOf(r) \in admitted /\ \A c \in Calls : Unborn(c) => r.id # c
BY DEF IInv, ServiceTypeOK, WorldTypeOK, StoreTypeOK, GrantsWereValidated, RowsAreFresh

(* The types of the world after a step of the pass that leaves it alone. *)
LEMMA PassReads ==
  ASSUME IInv, UNCHANGED <<worldVars, pc, callVars>>
  PROVE  IInv'
<1>1. ServiceTypeOK'
  BY DEF IInv, worldVars, callVars, ServiceTypeOK, WorldTypeOK, StoreTypeOK
<1> QED
  BY <1>1, PassQuiet DEF IInv, GrantsWereValidated, worldVars, eventVars

(* The types of the world after a Write of the pass. *)
LEMMA PassWrites ==
  ASSUME IInv, NEW w \in SUBSET TupleKeys, NEW d, Write(w, d) \/ WriteFails(w, d),
         \A k \in w : k.relation = "member" => k \in admitted,
         UNCHANGED <<storeVars, identities, eventVars, pc, callVars>>
  PROVE  IInv'
<1>1. ServiceTypeOK'
  <2>1. tuples' \subseteq TupleKeys /\ faults' \in 0..MaxFaults
    BY WriteTypes DEF IInv, ServiceTypeOK
  <2> QED
    BY <2>1 DEF IInv, ServiceTypeOK, WorldTypeOK, StoreTypeOK, storeVars, eventVars, callVars
<1>2. tuples' \subseteq tuples \cup w
  BY WriteEffect
<1> QED
  BY <1>1, <1>2, PassQuiet DEF storeVars

-----------------------------------------------------------------------------
(* The steps of a pass.                                                    *)
LEMMA StartKeeps ==
  ASSUME SystemIInv, UNCHANGED <<pc, callVars>>, ListGroups \/ ListMemberships
  PROVE  SystemIInv'
<1>1. IInv'
  BY PassReads DEF SystemIInv, ListGroups, ListMemberships
<1>2. ReconcilerTypeOK'
  BY DEF SystemIInv, IInv, SystemTypeOK, ServiceTypeOK, WorldTypeOK, StoreTypeOK,
         ReconcilerTypeOK, RLabels, ListGroups, ListMemberships
<1>3. UNCHANGED <<curRow, memberships, pc, admitted>>
  BY DEF ListGroups, ListMemberships, worldVars, callVars
<1>4. todoRows' \subseteq todoRows \cup memberships /\ rpc' \in {"list_rows", "groups"}
  BY DEF ListGroups, ListMemberships
<1>5. \A r \in Held' : KeyOf(r) \in admitted' /\ \A c \in Calls : Unborn(c)' => r.id # c
  BY <1>3, <1>4, RowsReadAreSound DEF SystemIInv, PassIsSound, Held, Unborn
<1>6. PassIsSound'
  BY <1>4, <1>5 DEF PassIsSound
<1> QED
  BY <1>1, <1>2, <1>6 DEF SystemIInv, SystemTypeOK, IInv

LEMMA GroupLoopKeeps ==
  ASSUME SystemIInv, UNCHANGED <<pc, callVars>>, GroupLoop
  PROVE  SystemIInv'
<1>0. /\ IInv /\ ReconcilerTypeOK /\ PassIsSound
  BY DEF SystemIInv, SystemTypeOK
<1>1. CASE EnsureOrg
  <2>1. IInv'
    <3>1. curGroup \in Groups
      BY <1>0, <1>1 DEF EnsureOrg, PassIsSound, ReconcilerTypeOK
    <3>2. OrgKey(curGroup) \in TupleKeys /\ OrgKey(curGroup).relation # "member"
      BY <3>1, KeyTypes DEF OrgKey
    <3> QED
      BY <1>0, <1>1, <3>2, PassWrites DEF EnsureOrg
  <2>2. CASE Abort
    BY <2>1, <2>2, EndPassRests DEF Abort, SystemIInv, SystemTypeOK, IInv
  <2>3. CASE rpc' = "admins" /\ UNCHANGED passVars
    <3>1. ReconcilerTypeOK'
      BY <1>0, <2>3 DEF ReconcilerTypeOK, RLabels, passVars
    <3>2. PassIsSound'
      BY <1>0, <1>1, <2>3 DEF PassIsSound, Held, passVars, Unborn, callVars, EnsureOrg
    <3> QED
      BY <2>1, <3>1, <3>2 DEF SystemIInv, SystemTypeOK, IInv
  <2> QED
    BY <1>1, <2>2, <2>3 DEF EnsureOrg
<1>2. CASE \/ \E g \in Groups : NextGroup(g)
           \/ ReadAdmins \/ GroupDone \/ GroupsDone
           \/ \E k \in TupleKeys : CheckAdmin(k)
  <2>1. UNCHANGED worldVars /\ UNCHANGED <<todoRows, curRow>>
    BY <1>2 DEF NextGroup, ReadAdmins, CheckAdmin, GroupDone, GroupsDone, passVars
  <2>2. IInv'
    BY <1>0, <2>1, PassReads
  <2>3. /\ rpc' \in {"groups", "org_write", "admins", "admin_check", "rows"}
        /\ rpc' \in {"org_write", "admins", "admin_check"} => curGroup' # None
    BY <1>0, <1>2, NoneAssumption
       DEF NextGroup, ReadAdmins, CheckAdmin, GroupDone, GroupsDone, PassIsSound
  <2>4. ReconcilerTypeOK'
    <3>1. CASE \E g \in Groups : NextGroup(g)
      BY <1>0, <3>1 DEF NextGroup, ReconcilerTypeOK, RLabels
    <3>2. CASE ReadAdmins
      BY <1>0, <3>2 DEF ReadAdmins, ReconcilerTypeOK, RLabels, AdminsOf, KeysOn,
                        IInv, ServiceTypeOK, WorldTypeOK
    <3>3. CASE \E k \in TupleKeys : CheckAdmin(k)
      BY <1>0, <3>3 DEF CheckAdmin, ReconcilerTypeOK, RLabels
    <3>4. CASE GroupDone \/ GroupsDone
      BY <1>0, <3>4 DEF GroupDone, GroupsDone, ReconcilerTypeOK, RLabels, passVars
    <3> QED
      BY <1>2, <3>1, <3>2, <3>3, <3>4
  <2>5. PassIsSound'
    BY <1>0, <2>1, <2>3 DEF PassIsSound, Held, Unborn, callVars
  <2> QED
    BY <2>2, <2>4, <2>5 DEF SystemIInv, SystemTypeOK, IInv
<1> QED
  BY <1>1, <1>2 DEF GroupLoop

LEMMA CleanupKeeps ==
  ASSUME SystemIInv, UNCHANGED <<pc, callVars>>, Cleanup
  PROVE  SystemIInv'
<1>0. /\ IInv /\ ReconcilerTypeOK /\ PassIsSound
  BY DEF SystemIInv, SystemTypeOK
<1>1. CASE \E p \in Pages : ScanPage(p)
  <2>1. IInv'
    BY <1>0, <1>1, PassReads DEF ScanPage
  <2>2. ReconcilerTypeOK'
    BY <1>0, <1>1 DEF ScanPage, ReconcilerTypeOK, RLabels, IInv, ServiceTypeOK, WorldTypeOK
  <2>3. PassIsSound'
    BY <1>0, <1>1 DEF ScanPage, PassIsSound, Held, Unborn, callVars
  <2> QED
    BY <2>1, <2>2, <2>3 DEF SystemIInv, SystemTypeOK, IInv
<1>2. CASE Sweep
  <2>1. IInv'
    <3>1. CASE UNCHANGED <<tuples, faults>>
      BY <1>0, <1>2, <3>1, PassReads DEF Sweep, worldVars, storeVars, eventVars
    <3>2. CASE Write({}, stale) \/ WriteFails({}, stale)
      BY <1>0, <1>2, <3>2, PassWrites DEF Sweep
    <3> QED
      BY <1>2, <3>1, <3>2 DEF Sweep
  <2>2. ReconcilerTypeOK' /\ PassIsSound'
    BY <1>2, EndPassRests DEF Sweep, Abort
  <2> QED
    BY <2>1, <2>2 DEF SystemIInv, SystemTypeOK, IInv
<1> QED
  BY <1>1, <1>2 DEF Cleanup

(* A failed read, like a crash, only counts and ends the pass. *)
LEMMA ReadFailsKeeps ==
  ASSUME SystemIInv, UNCHANGED <<pc, callVars>>, ReadFails
  PROVE  SystemIInv'
<1>1. ServiceTypeOK'
  BY MaxFaultsAssumption
     DEF ReadFails, Fault, SystemIInv, IInv, ServiceTypeOK, WorldTypeOK, StoreTypeOK,
         storeVars, eventVars, callVars
<1>2. IInv'
  BY <1>1, PassQuiet DEF ReadFails, SystemIInv, storeVars
<1>3. ReconcilerTypeOK' /\ PassIsSound'
  BY EndPassRests DEF ReadFails, Abort
<1> QED
  BY <1>2, <1>3 DEF SystemIInv, SystemTypeOK, IInv

(* The row of the loop, at the labels that use it. *)
LEMMA CurRowSound ==
  ASSUME SystemIInv, curRow # None
  PROVE  curRow \in Row /\ KeyOf(curRow) \in TupleKeys /\ KeyOf(curRow) \in admitted
         /\ \A c \in Calls : Unborn(c) => curRow.id # c
<1>1. curRow \in Row
  BY DEF SystemIInv, SystemTypeOK, ReconcilerTypeOK
<1>2. curRow \in Held
  BY DEF Held
<1>3. KeyOf(curRow) \in TupleKeys
  BY <1>1, KeyTypes DEF Row, KeyOf
<1> QED
  BY <1>1, <1>2, <1>3 DEF SystemIInv, PassIsSound

LEMMA RowReadsKeep ==
  ASSUME SystemIInv, UNCHANGED <<pc, callVars>>,
         \/ \E r \in todoRows : NextRow(r)
         \/ ReadRowTuple \/ ReadOrphanTuple \/ RowsDone
  PROVE  SystemIInv'
<1>0. /\ IInv /\ ReconcilerTypeOK /\ PassIsSound
  BY DEF SystemIInv, SystemTypeOK
<1>1. IInv'
  BY <1>0, PassReads DEF NextRow, ReadRowTuple, ReadOrphanTuple, RowsDone
<1>2. UNCHANGED <<memberships, pc, admitted>>
  BY DEF NextRow, ReadRowTuple, ReadOrphanTuple, RowsDone, worldVars, callVars
<1>3. CASE \E r \in todoRows : NextRow(r)
  <2>1. PICK r \in todoRows : NextRow(r)
    BY <1>3
  <2>2. r \in Row /\ r # None /\ Held' \subseteq Held
    BY <1>0, <2>1, NoneAssumption DEF NextRow, ReconcilerTypeOK, Held
  <2>3. ReconcilerTypeOK'
    BY <1>0, <2>1, <2>2 DEF NextRow, ReconcilerTypeOK, RLabels
  <2>4. PassIsSound'
    <3>1. rpc' \in {"row_read", "orphan_delete"} /\ curRow' # None
      BY <2>1, <2>2 DEF NextRow
    <3> QED
      BY <1>0, <1>2, <2>2, <3>1 DEF PassIsSound, Unborn
  <2> QED
    BY <1>1, <2>3, <2>4 DEF SystemIInv, SystemTypeOK, IInv
<1>4. CASE ReadRowTuple \/ ReadOrphanTuple \/ RowsDone
  <2>1. ReconcilerTypeOK'
    BY <1>0, <1>4
       DEF ReadRowTuple, ReadOrphanTuple, RowsDone, ReconcilerTypeOK, RLabels, passVars
  <2>2. curRow' = curRow /\ Held' = Held
    BY <1>4 DEF ReadRowTuple, ReadOrphanTuple, RowsDone, passVars, Held
  <2>3. \/ rpc' \in {"rows", "scan"}
        \/ rpc' = "row_write" /\ curRow # None
        \/ /\ rpc' \in {"orphan_write", "orphan_publish"}
           /\ curRow # None /\ curRow \notin memberships
    BY <1>0, <1>4 DEF ReadRowTuple, ReadOrphanTuple, RowsDone, PassIsSound
  <2>4. PassIsSound'
    BY <1>0, <1>2, <2>2, <2>3 DEF PassIsSound, Unborn
  <2> QED
    BY <1>1, <2>1, <2>4 DEF SystemIInv, SystemTypeOK, IInv
<1> QED
  BY <1>3, <1>4

LEMMA RowWritesKeep ==
  ASSUME SystemIInv, UNCHANGED <<pc, callVars>>, EnsureRowTuple \/ DeleteOrphanTuple
  PROVE  SystemIInv'
<1>0. /\ IInv /\ ReconcilerTypeOK /\ PassIsSound /\ curRow # None
  BY DEF SystemIInv, SystemTypeOK, PassIsSound, EnsureRowTuple, DeleteOrphanTuple
<1>1. IInv'
  <2>1. CASE EnsureRowTuple
    BY <1>0, <2>1, CurRowSound, PassWrites DEF EnsureRowTuple
  <2>2. CASE DeleteOrphanTuple
    BY <1>0, <2>2, PassWrites DEF DeleteOrphanTuple
  <2> QED
    BY <2>1, <2>2
<1>2. CASE Abort
  BY <1>1, <1>2, EndPassRests DEF Abort, SystemIInv, SystemTypeOK, IInv
<1>3. CASE ~Abort
  <2>1. /\ UNCHANGED passVars /\ rpc' \in {"rows", "orphan_publish"}
        /\ rpc' = "orphan_publish" => curRow \notin memberships
        /\ UNCHANGED <<memberships, pc, admitted>>
    BY <1>0, <1>3
       DEF EnsureRowTuple, DeleteOrphanTuple, PassIsSound, storeVars, callVars
  <2>2. ReconcilerTypeOK'
    BY <1>0, <2>1 DEF ReconcilerTypeOK, RLabels, passVars
  <2>3. PassIsSound'
    BY <1>0, <2>1 DEF PassIsSound, Held, Unborn, passVars
  <2> QED
    BY <1>1, <2>2, <2>3 DEF SystemIInv, SystemTypeOK, IInv
<1> QED
  BY <1>2, <1>3

LEMMA DeleteOrphanKeeps ==
  ASSUME SystemIInv, UNCHANGED <<pc, callVars>>, DeleteOrphan
  PROVE  SystemIInv'
<1> DEFINE rows == RowsFor(curRow.group, curRow.member)
<1>0. /\ IInv /\ ReconcilerTypeOK /\ PassIsSound /\ ServiceTypeOK
      /\ rows \subseteq memberships
  BY DEF SystemIInv, SystemTypeOK, IInv, RowsFor, RowsOf
<1>1. groups' = groups /\ memberships' \subseteq memberships
  BY DEF DeleteOrphan, Execute, ExecuteFails, storeVars
<1>2. IInv'
  <2>1. StoreTypeOK' /\ faults' \in 0..MaxFaults
    <3>1. groups \in SUBSET Groups /\ memberships \ rows \in SUBSET Row
      BY <1>0 DEF ServiceTypeOK, WorldTypeOK, StoreTypeOK
    <3>2. CASE UNCHANGED <<storeVars, faults>>
      BY <1>0, <3>2 DEF ServiceTypeOK, WorldTypeOK, StoreTypeOK, storeVars
    <3>3. CASE Execute(groups, memberships \ rows) \/ ExecuteFails(groups, memberships \ rows)
      BY <1>0, <3>1, <3>3, ExecuteTypes DEF ServiceTypeOK
    <3> QED
      BY <3>2, <3>3 DEF DeleteOrphan
  <2>2. ServiceTypeOK'
    BY <1>0, <2>1 DEF DeleteOrphan, ServiceTypeOK, WorldTypeOK, eventVars, callVars
  <2> QED
    BY <1>0, <1>1, <2>2, PassQuiet DEF DeleteOrphan
<1>3. CASE Abort
  BY <1>2, <1>3, EndPassRests DEF Abort, SystemIInv, SystemTypeOK, IInv
<1>4. CASE rpc' = "rows" /\ UNCHANGED passVars
  <2>1. ReconcilerTypeOK'
    BY <1>0, <1>4 DEF ReconcilerTypeOK, RLabels, passVars
  <2>2. PassIsSound'
    BY <1>0, <1>4 DEF PassIsSound, Held, Unborn, passVars, callVars
  <2> QED
    BY <1>2, <2>1, <2>2 DEF SystemIInv, SystemTypeOK, IInv
<1>5. CASE \E r \in rows :
             /\ memberships' = memberships \ rows
             /\ curRow' = r
             /\ ms' = {s \in ms : KeyOf(s) # KeyOf(r)}
             /\ rpc' = "orphan_read"
             /\ UNCHANGED <<gs, admins, todoGroups, curGroup, pending, todoRows,
                            unread, stale>>
  <2>1. PICK r \in rows :
             /\ memberships' = memberships \ rows
             /\ curRow' = r
             /\ ms' = {s \in ms : KeyOf(s) # KeyOf(r)}
             /\ rpc' = "orphan_read"
             /\ UNCHANGED <<gs, admins, todoGroups, curGroup, pending, todoRows,
                            unread, stale>>
    BY <1>5
  <2>2. /\ r \in Row /\ r # None /\ KeyOf(r) \in admitted
        /\ \A c \in Calls : Unborn(c) => r.id # c
    BY <1>0, RowsReadAreSound, NoneAssumption
  <2>3. ReconcilerTypeOK'
    BY <1>0, <2>1, <2>2 DEF ReconcilerTypeOK, RLabels
  <2>4. PassIsSound'
    BY <1>0, <2>1, <2>2 DEF PassIsSound, Held, Unborn, callVars
  <2> QED
    BY <1>2, <2>3, <2>4 DEF SystemIInv, SystemTypeOK, IInv
<1> QED
  BY <1>3, <1>4, <1>5 DEF DeleteOrphan, Execute

LEMMA PublishOrphanKeeps ==
  ASSUME SystemIInv, UNCHANGED <<pc, callVars>>, PublishOrphan
  PROVE  SystemIInv'
<1>0. /\ IInv /\ ServiceTypeOK /\ ReconcilerTypeOK /\ PassIsSound
      /\ curRow # None /\ curRow \notin memberships
  BY DEF SystemIInv, SystemTypeOK, IInv, PassIsSound, PublishOrphan
<1>1. /\ UNCHANGED <<storeVars, tuples, identities, faults, added, deletedGroups>>
      /\ removed' \subseteq removed \cup {curRow}
      /\ UNCHANGED passVars /\ rpc' = "rows"
  BY DEF PublishOrphan, PublishRemoved
<1>2. curRow \in Row /\ \A c \in Calls : Unborn(c) => curRow.id # c
  BY <1>0, CurRowSound
<1>3. ServiceTypeOK'
  BY <1>0, <1>1, <1>2
     DEF ServiceTypeOK, WorldTypeOK, StoreTypeOK, storeVars, callVars
<1>4. EventsAreTrue' /\ GroupsAreFresh' /\ GrantsWereValidated'
  BY <1>0, <1>1
     DEF IInv, EventsAreTrue, GroupsAreFresh, GrantsWereValidated, storeVars, callVars
<1>5. RowsAreFresh'
  BY <1>0, <1>1, <1>2 DEF IInv, RowsAreFresh, Unborn, storeVars, callVars
<1>6. \A c \in Calls : CallIsSound(c)'
  BY <1>0, <1>1 DEF IInv, CallIsSound, G, M, storeVars, callVars
<1>7. ReconcilerTypeOK' /\ PassIsSound'
  BY <1>0, <1>1
     DEF ReconcilerTypeOK, RLabels, PassIsSound, Held, Unborn, passVars, callVars
<1> QED
  BY <1>3, <1>4, <1>5, <1>6, <1>7 DEF SystemIInv, SystemTypeOK, IInv

LEMMA PassKeeps == SystemIInv /\ SystemPass => SystemIInv'
BY StartKeeps, GroupLoopKeeps, RowReadsKeep, RowWritesKeep, DeleteOrphanKeeps,
   PublishOrphanKeeps, CleanupKeeps, ReadFailsKeeps
   DEF SystemPass, PassStep, RowLoop

-----------------------------------------------------------------------------
(* The system as a whole.                                                  *)
LEMMA SystemInvInit == SystemInit => SystemIInv
BY InvInit
   DEF SystemInit, ReconcilerInit, SystemIInv, SystemTypeOK, IInv,
       ReconcilerTypeOK, RLabels, PassIsSound, Held

LEMMA SystemInvStep == SystemIInv /\ [SystemNext]_systemVars => SystemIInv'
<1> SUFFICES ASSUME SystemIInv, [SystemNext]_systemVars PROVE SystemIInv'
  OBVIOUS
<1>0. IInv /\ ServiceTypeOK /\ SystemTypeOK /\ PassIsSound
  BY DEF SystemIInv, SystemTypeOK
<1>1. CASE \E c \in Calls : SystemCall(c)
  <2>1. PICK c \in Calls : CallStep(c) /\ UNCHANGED reconcilerVars
    BY <1>1 DEF SystemCall
  <2>2. IInv'
    BY <1>0, <2>1, InvStep DEF Next
  <2>3. NewRow(c).id = c
    BY DEF NewRow
  <2>4. ReconcilerTypeOK' /\ PassIsSound'
    BY <1>0, <2>1, <2>3, CallEffect, PassWaits DEF ServiceTypeOK
  <2> QED
    BY <2>2, <2>4 DEF SystemIInv, SystemTypeOK, IInv
<1>2. CASE SystemPass
  BY <1>2, PassKeeps
<1>3. CASE SystemPanic \/ SystemCrash
  <2>1. /\ UNCHANGED <<storeVars, tuples, eventVars, callVars, identities>>
        /\ faults' \in 0..MaxFaults
        /\ KillCalls
        /\ EndPass("idle")
    BY <1>0, <1>3, MaxFaultsAssumption
       DEF SystemPanic, SystemCrash, Panic, Crash, Abort, Fault, worldVars, storeVars,
           eventVars, callVars, ServiceTypeOK, WorldTypeOK
  <2>2. ServiceTypeOK'
    BY <1>0, <2>1
       DEF KillCalls, storeVars, eventVars, callVars, ServiceTypeOK, WorldTypeOK,
           StoreTypeOK, Labels, Done
  <2>3. \A c \in Calls : pc'[c] = pc[c] \/ pc'[c] = "failed"
    BY <2>1 DEF KillCalls
  <2>4. IInv'
    BY <1>0, <2>1, <2>2, <2>3, QuietStep
       DEF storeVars, callVars, eventVars, Unborn, CallIsSound
  <2> QED
    BY <2>1, <2>4, EndPassRests DEF SystemIInv, SystemTypeOK, IInv
<1>4. CASE \E i \in Identities : SystemIdentity(i)
  <2>1. /\ \E i \in Identities : RemoveIdentity(i)
        /\ UNCHANGED <<reconcilerVars, memberships, admitted, pc>>
    BY <1>4 DEF SystemIdentity, RemoveIdentity, IdentityRemoved, callVars
  <2>2. IInv'
    BY <1>0, <2>1, InvStep DEF Next
  <2>3. ReconcilerTypeOK' /\ PassIsSound'
    BY <1>0, <2>1, PassWaits DEF Unborn
  <2> QED
    BY <2>2, <2>3 DEF SystemIInv, SystemTypeOK, IInv
<1>5. CASE UNCHANGED systemVars
  <2>1. UNCHANGED <<serviceVars, reconcilerVars, memberships, admitted, pc>>
    BY <1>5 DEF systemVars, serviceVars, worldVars, callVars
  <2>2. IInv'
    BY <1>0, <2>1, InvStep
  <2>3. ReconcilerTypeOK' /\ PassIsSound'
    BY <1>0, <2>1, PassWaits DEF Unborn
  <2> QED
    BY <2>2, <2>3 DEF SystemIInv, SystemTypeOK, IInv
<1> QED
  BY <1>1, <1>2, <1>3, <1>4, <1>5 DEF SystemNext

(* The inductive invariant of the process: what the handlers and the pass  *)
(* of reconciliation.go hold between two calls stays true of the tables.   *)
THEOREM SystemInvariance == SystemSpec => []SystemIInv
BY SystemInvInit, SystemInvStep, PTL DEF SystemSpec

(* Every reachable state of the requests and the reconciler is             *)
(* type-correct.                                                           *)
THEOREM SystemTypeCorrect == SystemSpec => []SystemTypeOK
<1>1. SystemIInv => SystemTypeOK
  BY DEF SystemIInv
<1> QED
  BY <1>1, SystemInvariance, PTL

(* Neither a handler nor the reconciler announces a removal that was not   *)
(* committed, though the reconciler decides from a snapshot.               *)
THEOREM SystemEventsCorrect == SystemSpec => []EventsAreTrue
<1>1. SystemIInv => EventsAreTrue
  BY DEF SystemIInv, IInv
<1> QED
  BY <1>1, SystemInvariance, PTL

(* The tuples the reconciler writes from its snapshot, too, are only of    *)
(* identities that validateMemberIdentity accepted for the group.          *)
THEOREM SystemGrantsCorrect == SystemSpec => []GrantsWereValidated
<1>1. SystemIInv => GrantsWereValidated
  BY DEF SystemIInv, IInv
<1> QED
  BY <1>1, SystemInvariance, PTL

-----------------------------------------------------------------------------
(***************************************************************************)
(* Who announces a removal: AnnouncedOnce.                                 *)
(***************************************************************************)
(* Rows just taken from the table. *)
Taken(rows) == rows \subseteq memberships /\ rows \cap memberships' = {}

(* A request holds the rows that it has just taken from the table, or else *)
(* those it held before.                                                   *)
LEMMA CallRemoves ==
  ASSUME pc \in [Calls -> Labels], DOMAIN seen = Calls,
         NEW c \in Calls, CallStep(c)
  PROVE  /\ pc' \in [Calls -> Labels] /\ DOMAIN seen' = Calls
         /\ \A d \in Calls \ {c} : pc'[d] = pc[d] /\ seen'[d] = seen[d]
         /\ Removing(c)' => \/ Removing(c) /\ seen'[c] = seen[c]
                            \/ seen'[c] \subseteq memberships /\ seen'[c] \cap memberships' = {}
<1> USE DEF Removing, Goto, Labels, Done
<1>1. CASE AddMember(c)
  BY <1>1 DEF AddMember, AddGetGroup, AddValidate, AddInsert, AddReadback, AddWriteTuple,
              AddRollback, AddPublish, callVars
<1>2. CASE CreateGroup(c)
  BY <1>2 DEF CreateGroup, CreateInsert, CreateTuples, CreateRollback, callVars
<1>3. CASE RemoveDelete(c)
  <2>1. RowsFor(G(c), M(c)) \subseteq memberships
    BY DEF RowsFor, RowsOf
  <2> QED
    BY <1>3, <2>1 DEF RemoveDelete, Execute
<1>4. CASE RemoveGetGroup(c) \/ RemoveLookup(c) \/ RemoveTuple(c) \/ RemovePublish(c)
  BY <1>4 DEF RemoveGetGroup, RemoveLookup, RemoveTuple, RemovePublish, callVars
<1>5. CASE DeleteGroup(c)
  BY <1>5
     DEF DeleteGroup, DeleteGetGroup, DeleteListAdmins, DeleteListMembers, DeleteTuples,
         DeleteSelectGroup, DeleteSelectRows, DeleteCommit, DeletePublish, callVars
<1> QED
  BY <1>1, <1>2, <1>3, <1>4, <1>5 DEF CallStep, RemoveMember

(* A pass, too, handles only a row that it has just taken from the table,  *)
(* or the one it handled before.                                           *)
LEMMA PassRemoves ==
  ASSUME PassStep
  PROVE  /\ memberships' \subseteq memberships
         /\ Handling(rpc') => \/ Handling(rpc) /\ curRow' = curRow
                              \/ curRow' \in memberships /\ curRow' \notin memberships'
<1> USE DEF Handling
<1>1. CASE ListGroups \/ ListMemberships \/ GroupLoop \/ Cleanup \/ ReadFails
  BY <1>1
     DEF ListGroups, ListMemberships, GroupLoop, NextGroup, EnsureOrg, ReadAdmins, CheckAdmin,
         GroupDone, GroupsDone, Cleanup, ScanPage, Sweep, ReadFails, Abort, EndPass,
         worldVars, storeVars
<1>2. CASE DeleteOrphan
  <2>1. RowsFor(curRow.group, curRow.member) \subseteq memberships
    BY DEF RowsFor, RowsOf
  <2> QED
    BY <1>2, <2>1 DEF DeleteOrphan, Execute, ExecuteFails, Abort, EndPass, storeVars
<1>3. CASE RowLoop /\ ~DeleteOrphan
  BY <1>3
     DEF RowLoop, NextRow, ReadRowTuple, EnsureRowTuple, ReadOrphanTuple, DeleteOrphanTuple,
         PublishOrphan, RowsDone, Abort, EndPass, worldVars, storeVars, passVars
<1> QED
  BY <1>1, <1>2, <1>3 DEF PassStep

(* The events of a request.                                                *)
LEMMA EventsMove ==
  ASSUME NEW c \in Calls, CallStep(c)
  PROVE  \/ UNCHANGED eventVars
         \/ /\ pc[c] = "add_publish" /\ added' = added \cup {NewRow(c)}
            /\ UNCHANGED <<removed, deletedGroups>>
         \/ /\ pc[c] \in {"rm_publish", "del_publish"}
            /\ \E r \in seen[c] : removed' = removed \cup {r}
            /\ UNCHANGED <<added, deletedGroups>>
         \/ /\ pc[c] = "del_publish" /\ deletedGroups' = deletedGroups \cup {G(c)}
            /\ UNCHANGED <<added, removed>>
<1>1. CASE AddMember(c)
  BY <1>1 DEF AddMember, AddGetGroup, AddValidate, AddInsert, AddReadback, AddWriteTuple,
              AddRollback, AddPublish, PublishAdded, eventVars, worldVars
<1>2. CASE RemoveMember(c)
  BY <1>2 DEF RemoveMember, RemoveGetGroup, RemoveLookup, RemoveDelete, RemoveTuple,
              RemovePublish, PublishRemoved, eventVars, worldVars
<1>3. CASE CreateGroup(c)
  BY <1>3 DEF CreateGroup, CreateInsert, CreateTuples, CreateRollback, eventVars, worldVars
<1>4. CASE DeleteGroup(c)
  BY <1>4 DEF DeleteGroup, DeleteGetGroup, DeleteListAdmins, DeleteListMembers, DeleteTuples,
              DeleteSelectGroup, DeleteSelectRows, DeleteCommit, DeletePublish,
              PublishRemoved, PublishGroupDeleted, eventVars, worldVars
<1> QED
  BY <1>1, <1>2, <1>3, <1>4 DEF CallStep

(* What a request holds: the rows it has taken, or read to be announced.   *)
LEMMA HandsMove ==
  ASSUME pc \in [Calls -> Labels], seen \in [Calls -> SUBSET Row],
         NEW c \in Calls, CallStep(c)
  PROVE  /\ \A d \in Calls \ {c} : seen'[d] = seen[d]
         /\ issued \subseteq issued'
         /\ \/ seen'[c] = seen[c] /\ pc'[c] \notin {"rm_tuple", "del_commit"}
            \/ seen'[c] = RowsFor(G(c), M(c)) /\ pc'[c] = "rm_tuple"
            \/ seen'[c] = RowsOf(G(c)) /\ pc'[c] = "del_commit"
            \/ seen'[c] \subseteq seen[c] /\ pc[c] = "del_publish" /\ pc'[c] = "del_publish"
         /\ pc'[c] = "rm_publish" => pc[c] = "rm_tuple"
         /\ pc'[c] = "del_publish" => pc[c] \in {"del_commit", "del_publish"}
<1>1. CASE AddMember(c)
  BY <1>1 DEF AddMember, AddGetGroup, AddValidate, AddInsert, AddReadback, AddWriteTuple,
              AddRollback, AddPublish, Goto, callVars
<1>2. CASE RemoveMember(c)
  BY <1>2 DEF RemoveMember, RemoveGetGroup, RemoveLookup, RemoveDelete, RemoveTuple,
              RemovePublish, Goto, callVars
<1>3. CASE CreateGroup(c)
  BY <1>3 DEF CreateGroup, CreateInsert, CreateTuples, CreateRollback, Goto, callVars
<1>4. CASE DeleteGroup(c)
  BY <1>4 DEF DeleteGroup, DeleteGetGroup, DeleteListAdmins, DeleteListMembers, DeleteTuples,
              DeleteSelectGroup, DeleteSelectRows, DeleteCommit, DeletePublish, Goto, callVars
<1> QED
  BY <1>1, <1>2, <1>3, <1>4 DEF CallStep

(* New groups are drawn, rows go to groups that are there, and a           *)
(* RemoveMember that has announced its row is done.                        *)
LEMMA CallGroups ==
  ASSUME pc \in [Calls -> Labels], NEW c \in Calls, CallStep(c)
  PROVE  /\ \A g \in groups' : g \in groups \/ g \notin issued
         /\ \A r \in memberships' : r \in memberships \/ r.group \in groups
         /\ pc[c] = "rm_publish" => pc'[c] = "ok"
<1> USE DEF Goto, Execute, ExecuteFails, storeVars
<1>1. CASE AddMember(c)
  BY <1>1 DEF AddMember, AddGetGroup, AddValidate, AddInsert, AddReadback, AddWriteTuple,
              AddRollback, AddPublish, Starts, NewRow, worldVars
<1>2. CASE RemoveMember(c)
  BY <1>2 DEF RemoveMember, RemoveGetGroup, RemoveLookup, RemoveDelete, RemoveTuple,
              RemovePublish, Starts, worldVars
<1>3. CASE CreateGroup(c)
  BY <1>3 DEF CreateGroup, CreateInsert, CreateTuples, CreateRollback, Starts
<1>4. CASE DeleteGroup(c)
  BY <1>4 DEF DeleteGroup, DeleteGetGroup, DeleteListAdmins, DeleteListMembers, DeleteTuples,
              DeleteSelectGroup, DeleteSelectRows, DeleteCommit, DeletePublish, Starts, worldVars
<1> QED
  BY <1>1, <1>2, <1>3, <1>4 DEF CallStep

(* What a hand holds is out of the table and of a group that was drawn;    *)
(* DeleteGroup's holds nothing of a group that lives.                      *)
LEMMA HandShape ==
  ASSUME HandsIInv
  PROVE  /\ \A c \in Calls : /\ Hand(c) \cap memberships = {}
                             /\ Hand(c) # {} => Removing(c)
         /\ Orphan \cap memberships = {} /\ removed \cap memberships = {}
<1>1. /\ EventsAreTrue /\ PassIsSound /\ \A c \in Calls : CallIsSound(c)
  BY DEF HandsIInv, SystemIInv, IInv
<1>2. \A c \in Calls : pc[c] = "del_publish" => Live(seen[c]) = {}
  BY <1>1 DEF HandsIInv, CallIsSound, Live
<1> QED
  BY <1>1, <1>2
     DEF Hand, Orphan, Live, Removing, Handling, CallIsSound, PassIsSound, EventsAreTrue

(* A request takes rows that nobody holds, and announces one that it held  *)
(* alone.                                                                  *)
LEMMA HandsCall ==
  ASSUME HandsIInv, SystemIInv', NEW c \in Calls, SystemCall(c)
  PROVE  HandsIInv'
<1>1. /\ CallStep(c) /\ UNCHANGED <<rpc, curRow>> /\ req' = req
      /\ pc \in [Calls -> Labels] /\ seen \in [Calls -> SUBSET Row] /\ DOMAIN seen = Calls
      /\ groups \subseteq issued /\ memberships \subseteq Row
      /\ \A d \in Calls : CallIsSound(d) /\ CallIsSound(d)'
  BY HandlersMove
     DEF SystemCall, reconcilerVars, passVars, HandsIInv, SystemIInv, IInv, ServiceTypeOK,
         WorldTypeOK, StoreTypeOK, GroupsAreFresh
<1>2. /\ \A d \in Calls \ {c} : pc'[d] = pc[d] /\ seen'[d] = seen[d]
      /\ Removing(c)' => \/ Removing(c) /\ seen'[c] = seen[c]
                         \/ seen'[c] \subseteq memberships
      /\ issued \subseteq issued'
      /\ pc'[c] = "del_publish" =>
           /\ pc[c] \in {"del_commit", "del_publish"}
           /\ seen'[c] \subseteq seen[c]
  <2>1. pc'[c] = "del_publish" => pc'[c] \notin {"rm_tuple", "del_commit"}
    OBVIOUS
  <2> QED
    BY <1>1, <2>1, CallRemoves, HandsMove
<1>3. /\ \A g \in groups' : g \in groups \/ g \notin issued
      /\ \A r \in memberships' : r \in memberships \/ r.group \in groups
      /\ pc[c] = "rm_publish" => pc'[c] = "ok"
  BY <1>1, CallGroups
<1>4. /\ \A r \in memberships' : r.group \in issued'
      /\ \A d \in Calls : Removing(d)' => \A r \in seen'[d] : r.group \in issued'
      /\ Handling(rpc') => curRow'.group \in issued'
  BY <1>1, <1>2, <1>3 DEF HandsIInv, Removing
<1>5. \A d \in Calls : pc'[d] = "del_publish" => \A r \in seen'[d] : r.group = G(d)'
  BY <1>1, <1>2 DEF HandsIInv, CallIsSound, G
<1>6. /\ \A d \in Calls \ {c} : Hand(d)' \subseteq Hand(d)
      /\ Orphan' \subseteq Orphan
      /\ Hand(c)' \subseteq Hand(c) \/ Hand(c)' \subseteq memberships
  <2>1. \A d \in Calls : pc'[d] = "del_publish" => Live(seen[d])' = {}
    BY <1>1, <1>5 DEF CallIsSound, Live
  <2>2. \A d \in Calls : Removing(d) /\ seen'[d] = seen[d] => Live(seen[d])' \subseteq Live(seen[d])
    BY <1>3 DEF HandsIInv, Live
  <2>3. Handling(rpc) => Live({curRow})' \subseteq Live({curRow})
    BY <1>1, <1>3 DEF HandsIInv, Live
  <2>4. \A d \in Calls \ {c} : Removing(d)' => Removing(d)
    BY <1>2 DEF Removing
  <2>5. Live(seen[c])' \subseteq seen'[c]
    BY DEF Live
  <2> QED
    BY <1>1, <1>2, <2>1, <2>2, <2>3, <2>4, <2>5 DEF Hand, Orphan
<1>7. \/ removed' = removed
      \/ \E r : /\ removed' = removed \cup {r} /\ r \notin Orphan' /\ r \notin Hand(c)'
                /\ \A d \in Calls : r \notin Hand(d)'
  <2>1. CASE removed' # removed
    <3>1. PICK r \in seen[c] : removed' = removed \cup {r} /\ pc[c] \in {"rm_publish", "del_publish"}
      BY <1>1, <2>1, EventsMove DEF eventVars
    <3>2. CASE pc[c] = "rm_publish"
      <4>1. Hand(c)' = {}
        BY <1>3, <3>2 DEF Hand, Removing
      <4>2. r.group \in groups => r \in Hand(c)
        BY <3>2 DEF Hand, Live, Removing
      <4>3. \A d \in Calls \ {c} : r \notin Hand(d)
        BY <4>2 DEF HandsIInv, AnnouncedOnce, Hand, Live
      <4>4. r \notin Orphan
        BY <4>2 DEF HandsIInv, AnnouncedOnce, Orphan, Live
      <4> QED
        BY <1>6, <3>1, <4>1, <4>3, <4>4
    <3>3. CASE pc[c] = "del_publish"
      <4>1. r.group \notin groups /\ r \notin memberships
        BY <1>1, <3>3 DEF HandsIInv, CallIsSound
      <4>2. r \notin Orphan /\ \A d \in Calls : r \notin Hand(d)
        BY <4>1 DEF Orphan, Hand, Live
      <4> QED
        BY <1>6, <3>1, <4>1, <4>2
    <3> QED
      BY <3>1, <3>2, <3>3
  <2> QED
    BY <2>1
<1>8. AnnouncedOnce'
  <2>1. /\ \A d, e \in Calls : d # e => Hand(d)' \cap Hand(e)' = {}
        /\ \A d \in Calls : Hand(d)' \cap (Orphan' \cup removed) = {}
        /\ Orphan' \cap removed = {}
    BY <1>6, HandShape DEF HandsIInv, AnnouncedOnce
  <2> QED
    BY <1>7, <2>1 DEF AnnouncedOnce
<1> QED
  BY <1>4, <1>5, <1>8 DEF HandsIInv

(* Nor does anybody else hold what a pass takes or announces; who is       *)
(* stopped holds nothing.                                                  *)
LEMMA HandsWorld ==
  ASSUME HandsIInv, SystemIInv', groups' = groups, memberships' \subseteq memberships,
         UNCHANGED callVars, \A c \in Calls : pc'[c] = pc[c] \/ pc'[c] = "failed",
         Handling(rpc') => \/ Handling(rpc) /\ curRow' = curRow
                           \/ curRow' \in memberships,
         \/ removed' = removed
         \/ Handling(rpc) /\ ~Handling(rpc') /\ removed' = removed \cup {curRow}
  PROVE  HandsIInv'
<1>1. /\ req' = req /\ seen' = seen /\ issued' = issued
      /\ \A c \in Calls : /\ Removing(c)' => Removing(c)
                          /\ pc'[c] = "del_publish" => pc[c] = "del_publish"
  BY DEF callVars, Removing
<1>2. /\ \A c \in Calls : Hand(c)' \subseteq Hand(c)
      /\ Orphan' \subseteq Orphan \/ Orphan' \subseteq memberships
  BY <1>1 DEF Hand, Orphan, Live
<1>3. \/ removed' = removed
      \/ /\ removed' = removed \cup {curRow} /\ Orphan' = {}
         /\ \A c \in Calls : curRow \notin Hand(c)
  BY DEF HandsIInv, AnnouncedOnce, Orphan, Hand, Live
<1>4. AnnouncedOnce'
  BY <1>2, <1>3, HandShape DEF HandsIInv, AnnouncedOnce
<1> QED
  BY <1>1, <1>4 DEF HandsIInv, G

LEMMA PassAnnounces ==
  ASSUME PassStep
  PROVE  /\ groups' = groups
         /\ \/ removed' = removed
            \/ Handling(rpc) /\ ~Handling(rpc') /\ removed' = removed \cup {curRow}
<1> USE DEF Handling
<1>1. CASE PublishOrphan
  BY <1>1 DEF PublishOrphan, PublishRemoved, storeVars
<1>2. CASE PassStep /\ ~PublishOrphan
  BY <1>2
     DEF PassStep, ListGroups, ListMemberships, GroupLoop, RowLoop, Cleanup, ReadFails,
         NextGroup, EnsureOrg, ReadAdmins, CheckAdmin, GroupDone, GroupsDone, NextRow,
         ReadRowTuple, EnsureRowTuple, DeleteOrphan, ReadOrphanTuple, DeleteOrphanTuple,
         RowsDone, ScanPage, Sweep, Execute, ExecuteFails, storeVars, eventVars, worldVars
<1> QED
  BY <1>1, <1>2

LEMMA HandsInit == SystemInit => HandsIInv
<1> SUFFICES ASSUME SystemInit PROVE HandsIInv
  OBVIOUS
<1>1. SystemIInv /\ memberships \subseteq Row
  BY SystemInvInit DEF SystemIInv, IInv, ServiceTypeOK, WorldTypeOK, StoreTypeOK
<1>2. /\ \A c \in Calls : pc[c] = "start"
      /\ rpc = "idle" /\ issued = groups /\ \A r \in memberships : r.group \in groups
  BY DEF SystemInit, ServiceInit, ReconcilerInit
<1> QED
  BY <1>1, <1>2 DEF HandsIInv, AnnouncedOnce, Hand, Orphan, Removing, Handling

LEMMA HandsStep == HandsIInv /\ [SystemNext]_systemVars => HandsIInv'
<1> SUFFICES ASSUME HandsIInv, [SystemNext]_systemVars PROVE HandsIInv'
  OBVIOUS
<1>0. SystemIInv'
  BY SystemInvStep DEF HandsIInv
<1>1. CASE \E c \in Calls : SystemCall(c)
  BY <1>0, <1>1, HandsCall
<1>2. CASE SystemPass
  <2>1. PassStep /\ UNCHANGED <<pc, callVars>>
    BY <1>2 DEF SystemPass
  <2>2. Handling(rpc') => \/ Handling(rpc) /\ curRow' = curRow
                          \/ curRow' \in memberships
    BY <2>1, PassRemoves
  <2> QED
    BY <1>0, <2>1, <2>2, PassRemoves, PassAnnounces, HandsWorld
<1>3. CASE SystemPanic \/ SystemCrash
  <2>1. /\ groups' = groups /\ memberships' = memberships /\ removed' = removed
        /\ UNCHANGED callVars /\ rpc' = "idle"
        /\ \A c \in Calls : pc'[c] = pc[c] \/ pc'[c] = "failed"
    BY <1>3 DEF SystemPanic, SystemCrash, Panic, Crash, KillCalls, Abort, EndPass, worldVars,
                storeVars, eventVars
  <2> QED
    BY <1>0, <2>1, HandsWorld DEF Handling
<1>4. CASE (\E i \in Identities : SystemIdentity(i)) \/ UNCHANGED systemVars
  <2>1. UNCHANGED <<groups, memberships, removed, pc, callVars, rpc, curRow>>
    BY <1>4 DEF SystemIdentity, RemoveIdentity, IdentityRemoved, systemVars, serviceVars, worldVars,
                reconcilerVars, passVars
  <2> QED
    BY <1>0, <2>1, HandsWorld
<1> QED
  BY <1>1, <1>2, <1>3, <1>4 DEF SystemNext

(* Whatever requests race, fail and are tried again, and the pass beside   *)
(* them: what is to be announced of a live group is in one hand, and was   *)
(* not announced before (AnnouncedOnce's inductive invariant).             *)
THEOREM HandsInvariance == SystemSpec => []HandsIInv
BY HandsInit, HandsStep, PTL DEF SystemSpec

(* While a group lives, no removal of a member is announced twice, by any  *)
(* two requests or by a request and the pass.                              *)
THEOREM AnnouncedOnceAlways == SystemSpec => []AnnouncedOnce
<1>1. HandsIInv => AnnouncedOnce
  BY DEF HandsIInv
<1> QED
  BY <1>1, HandsInvariance, PTL

-----------------------------------------------------------------------------
(* The reconciler takes no group and adds no row. *)
LEMMA PassKeepsForeignKey ==
  ASSUME ForeignKey, PassStep
  PROVE  ForeignKey'
<1>1. groups' = groups /\ memberships' \subseteq memberships
  BY DEF PassStep, ListGroups, ListMemberships, GroupLoop, RowLoop, Cleanup, ReadFails,
         NextGroup, EnsureOrg, ReadAdmins, CheckAdmin, GroupDone, GroupsDone, NextRow,
         ReadRowTuple, EnsureRowTuple, DeleteOrphan, ReadOrphanTuple, DeleteOrphanTuple,
         PublishOrphan, RowsDone, ScanPage, Sweep, Execute, ExecuteFails, storeVars, worldVars
<1> QED
  BY <1>1, ForeignKeyStays

-----------------------------------------------------------------------------
(* Row ids: what a request does to those in use.                           *)
LEMMA FreeIsUnborn == \A c \in Calls : Free(c) => Unborn(c)
BY DEF Free, Starts, Unborn

LEMMA SpentGrows ==
  ASSUME \A d \in Calls : Free(d)' => Free(d)
  PROVE  SpentIds \subseteq SpentIds'
BY DEF SpentIds

LEMMA SpentStays ==
  ASSUME \A d \in Calls : Free(d)' <=> Free(d)
  PROVE  SpentIds' = SpentIds
BY DEF SpentIds

(* A request past its insert, or of another kind, frees and spends no id. *)
LEMMA StepSpendsNone ==
  ASSUME pc \in [Calls -> Labels], NEW c \in Calls, ~Free(c), NEW l,
         l \notin {"start", "add_validate", "add_insert"}, Goto(c, l), req' = req
  PROVE  SpentIds' = SpentIds
<1>1. \A d \in Calls \ {c} : pc'[d] = pc[d] /\ req'[d] = req[d]
  BY DEF Goto
<1>2. pc'[c] = l
  BY DEF Goto
<1> QED
  BY <1>1, <1>2, SpentStays DEF Free, Starts

(* The id of a row in the tables or in a handler's hands is in use. *)
LEMMA KnownRowsAreSpent ==
  ASSUME IInv, NEW r \in Row, \A c \in Calls : Unborn(c) => r.id # c
  PROVE  r.id \in SpentIds
BY FreeIsUnborn DEF Row, SpentIds

LEMMA SeenRowsAreSpent ==
  ASSUME IInv, NEW c \in Calls, NEW r \in seen[c]
  PROVE  r \in Row /\ r.id \in SpentIds
<1>1. r \in Row /\ \A d \in Calls : Unborn(d) => r.id # d
  BY DEF IInv, ServiceTypeOK, RowsAreFresh
<1> QED
  BY <1>1, KnownRowsAreSpent

-----------------------------------------------------------------------------
(* The steps of the ledger, by what a step of the system changes.          *)
ledgerStep == [L!Next]_(L!vars)
otherStores == <<eventVars, admitted, issued, SpentIds>>

LEMMA SpendStep ==
  ASSUME UNCHANGED <<storeVars, MemberTuples, eventVars, admitted, issued>>,
         SpentIds \subseteq SpentIds'
  PROVE  ledgerStep
BY DEF ledgerStep, L!Next, L!Spend, storeVars, eventVars

LEMMA GrantStep ==
  ASSUME NEW w, NEW d, Write(w, d) \/ WriteFails(w, d),
         \A k \in w : k.relation = "member" => k \in admitted,
         UNCHANGED <<storeVars, otherStores>>
  PROVE  ledgerStep
<1>1. MemberTuples' \subseteq MemberTuples \cup admitted
  BY WriteEffect DEF MemberTuples
<1> QED
  BY <1>1 DEF ledgerStep, L!Next, L!Grant, storeVars, eventVars, otherStores

LEMMA RemoveStep ==
  ASSUME groups' = groups, memberships' \subseteq memberships,
         UNCHANGED <<tuples, otherStores>>
  PROVE  ledgerStep
BY DEF ledgerStep, L!Next, L!Remove, eventVars, otherStores, MemberTuples

LEMMA CloseStep ==
  ASSUME NEW g \in Groups,
         \/ Execute(groups \ {g}, memberships \ RowsOf(g))
         \/ ExecuteFails(groups \ {g}, memberships \ RowsOf(g)),
         UNCHANGED <<tuples, otherStores>>
  PROVE  ledgerStep
<1>1. CASE UNCHANGED storeVars
  BY <1>1 DEF ledgerStep, L!vars, storeVars, eventVars, otherStores, MemberTuples
<1>2. CASE groups' = groups \ {g} /\ memberships' = memberships \ RowsOf(g)
  <2>1. memberships' = {r \in memberships : r.group # g}
    BY <1>2 DEF RowsOf
  <2> QED
    BY <1>2, <2>1 DEF ledgerStep, L!Next, L!Close, eventVars, otherStores, MemberTuples
<1> QED
  BY <1>1, <1>2 DEF Execute, ExecuteFails

LEMMA RemovedStep ==
  ASSUME NEW r \in Row, r.id \in SpentIds, r \notin memberships, PublishRemoved(r),
         UNCHANGED <<storeVars, tuples, admitted, issued, SpentIds>>
  PROVE  ledgerStep
<1>1. CASE removed' = removed
  BY <1>1 DEF ledgerStep, L!vars, PublishRemoved, storeVars, MemberTuples
<1>2. CASE removed' = removed \cup {r}
  <2>1. L!AnnounceRemoved(r)
    BY <1>2 DEF L!AnnounceRemoved, PublishRemoved, storeVars, MemberTuples
  <2> QED
    BY <2>1 DEF ledgerStep, L!Next, L!Row, Row
<1> QED
  BY <1>1, <1>2 DEF PublishRemoved
-----------------------------------------------------------------------------
(* The steps of a request.                                                 *)
LEMMA AddMemberKeepsLedger ==
  ASSUME IInv, NEW c \in Calls, AddMember(c)
  PROVE  ledgerStep
<1>0. /\ pc \in [Calls -> Labels] /\ ServiceTypeOK /\ CallIsSound(c) /\ RowsAreFresh
      /\ G(c) \in Groups /\ M(c) \in Identities /\ NewRow(c) \in Row
      /\ MemberKey(G(c), M(c)).relation = "member"
  BY RequestTypes, KeyKinds DEF IInv, ServiceTypeOK
<1> DEFINE fresh(l) == Goto(c, l) /\ req' = req
<1>1. ASSUME NEW l \in Labels \ {"start"}, Free(c), fresh(l)
      PROVE  SpentIds \subseteq SpentIds'
  <2>1. \A d \in Calls \ {c} : pc'[d] = pc[d] /\ req'[d] = req[d]
    BY <1>1 DEF Goto
  <2> QED
    BY <1>1, <2>1, SpentGrows DEF Free, Starts
<1>2. CASE AddGetGroup(c)
  <2>1. SpentIds \subseteq SpentIds'
    BY <1>1, <1>2 DEF AddGetGroup, Free, callVars, Labels, Done
  <2> QED
    BY <1>2, <2>1, SpendStep
       DEF AddGetGroup, worldVars, callVars, storeVars, eventVars, MemberTuples
<1>3. CASE AddValidate(c)
  <2>1. UNCHANGED <<worldVars, req, issued, MemberTuples>>
    BY <1>3 DEF AddValidate, worldVars, MemberTuples
  <2>2. CASE admitted' = admitted
    <3>1. SpentIds \subseteq SpentIds'
      BY <1>1, <1>3 DEF AddValidate, Free, Labels, Done
    <3> QED
      BY <2>1, <2>2, <3>1, SpendStep DEF worldVars, storeVars, eventVars
  <2>3. CASE admitted' = admitted \cup {MemberKey(G(c), M(c))} /\ Goto(c, "add_insert")
    <3>1. \A d \in Calls : Free(d)' <=> Free(d)
      BY <1>0, <1>3, <2>1, <2>3 DEF Free, Starts, Goto, AddValidate
    <3>2. SpentIds' = SpentIds
      BY <3>1, SpentStays
    <3>3. L!Validate(MemberKey(G(c), M(c)))
      BY <2>1, <2>3, <3>2 DEF L!Validate, worldVars
    <3> QED
      BY <1>0, <3>3 DEF ledgerStep, L!Next, MemberKey
  <2> QED
    BY <1>3, <2>2, <2>3 DEF AddValidate
<1>4. CASE AddInsert(c)
  <2>1. /\ Free(c) /\ UNCHANGED <<tuples, eventVars, callVars>> /\ MemberTuples' = MemberTuples
    BY <1>4 DEF AddInsert, Free, MemberTuples
  <2>2. PICK l \in {"failed", "add_readback", "add_tuple"} : Goto(c, l)
    BY <1>4 DEF AddInsert
  <2>3. SpentIds \subseteq SpentIds'
    BY <1>1, <2>1, <2>2 DEF callVars, Labels, Done
  <2>4. CASE UNCHANGED storeVars
    BY <2>1, <2>3, <2>4, SpendStep DEF callVars
  <2>5. CASE ~UNCHANGED storeVars
    <3>1. /\ G(c) \in groups /\ RowsFor(G(c), M(c)) = {}
          /\ groups' = groups /\ memberships' = memberships \cup {NewRow(c)}
      BY <1>4, <2>5 DEF AddInsert, Execute, ExecuteFails
    <3>2. c \in RowIds /\ SpentIds' = SpentIds \cup {c} /\ c \notin SpentIds
      <4>1. pc'[c] = l /\ \A d \in Calls \ {c} : pc'[d] = pc[d]
        BY <1>0, <2>2 DEF Goto
      <4>2. ~Free(c)' /\ \A d \in Calls \ {c} : Free(d)' <=> Free(d)
        BY <2>1, <2>2, <4>1 DEF Free, Starts, callVars
      <4> QED
        BY <2>1, <4>2, CallsAssumption DEF SpentIds
    <3>3. MemberKey(G(c), M(c)) \in admitted
      BY <1>0, <1>4 DEF CallIsSound, AddInsert
    <3>4. L!Insert(NewRow(c))
      <4>1. /\ NewRow(c).id = c /\ NewRow(c).group = G(c)
            /\ L!Pair(NewRow(c)) = MemberKey(G(c), M(c))
        BY DEF NewRow, L!Pair, MemberKey
      <4>2. \A s \in memberships : L!Pair(s) # L!Pair(NewRow(c))
        BY <3>1, <4>1 DEF L!Pair, MemberKey, RowsFor, RowsOf
      <4> QED
        BY <2>1, <3>1, <3>2, <3>3, <4>1, <4>2 DEF L!Insert, eventVars, callVars
    <3> QED
      BY <1>0, <3>4 DEF ledgerStep, L!Next, L!Row, Row
  <2> QED
    BY <2>4, <2>5
<1>5. CASE AddReadback(c)
  <2>1. SpentIds' = SpentIds
    BY <1>0, <1>5, StepSpendsNone DEF AddReadback, Free, Starts, callVars
  <2> QED
    BY <1>5, <2>1, SpendStep
       DEF AddReadback, worldVars, callVars, storeVars, eventVars, MemberTuples
<1>6. CASE AddWriteTuple(c)
  <2>1. SpentIds' = SpentIds
    BY <1>0, <1>6, StepSpendsNone DEF AddWriteTuple, Free, Starts, callVars
  <2>2. MemberKey(G(c), M(c)) \in admitted
    BY <1>0, <1>6 DEF CallIsSound, AddWriteTuple
  <2> QED
    BY <1>6, <2>1, <2>2, GrantStep DEF AddWriteTuple, otherStores, callVars
<1>7. CASE AddRollback(c)
  <2>1. SpentIds' = SpentIds
    BY <1>0, <1>7, StepSpendsNone DEF AddRollback, Free, Starts, callVars
  <2>2. groups' = groups /\ memberships' \subseteq memberships
    BY <1>7 DEF AddRollback, Execute, ExecuteFails, storeVars
  <2> QED
    BY <1>7, <2>1, <2>2, RemoveStep DEF AddRollback, otherStores, callVars
<1>8. CASE AddPublish(c)
  <2>1. ~Free(c) /\ SpentIds' = SpentIds
    BY <1>0, <1>8, StepSpendsNone DEF AddPublish, Free, Starts, callVars
  <2>2. /\ NewRow(c).id \in SpentIds /\ L!Pair(NewRow(c)) \in admitted
    BY <1>0, <1>8, <2>1, CallsAssumption
       DEF AddPublish, CallIsSound, SpentIds, NewRow, L!Pair, MemberKey
  <2>3. CASE added' = added
    BY <1>8, <2>1, <2>3
       DEF ledgerStep, L!vars, AddPublish, PublishAdded, storeVars, callVars, MemberTuples
  <2>4. CASE added' = added \cup {NewRow(c)}
    <3>1. L!AnnounceAdded(NewRow(c))
      BY <1>8, <2>1, <2>2, <2>4
         DEF L!AnnounceAdded, AddPublish, PublishAdded, storeVars, callVars, MemberTuples
    <3> QED
      BY <1>0, <3>1 DEF ledgerStep, L!Next, L!Row, Row
  <2> QED
    BY <1>8, <2>3, <2>4 DEF AddPublish, PublishAdded
<1> QED
  BY <1>2, <1>3, <1>4, <1>5, <1>6, <1>7, <1>8 DEF AddMember

LEMMA RemoveMemberKeepsLedger ==
  ASSUME IInv, NEW c \in Calls, RemoveMember(c)
  PROVE  ledgerStep
<1>0. /\ pc \in [Calls -> Labels] /\ CallIsSound(c)
  BY DEF IInv, ServiceTypeOK
<1>1. CASE RemoveGetGroup(c) \/ RemoveLookup(c)
  <2>1. SpentIds' = SpentIds
    BY <1>0, <1>1, StepSpendsNone DEF RemoveGetGroup, RemoveLookup, Free, Starts, callVars
  <2> QED
    BY <1>1, <2>1, SpendStep
       DEF RemoveGetGroup, RemoveLookup, worldVars, callVars, storeVars, eventVars,
           MemberTuples
<1>2. CASE RemoveDelete(c)
  <2>1. SpentIds' = SpentIds
    BY <1>0, <1>2, StepSpendsNone DEF RemoveDelete, Free, Starts
  <2>2. groups' = groups /\ memberships' \subseteq memberships
    BY <1>2 DEF RemoveDelete, Execute, ExecuteFails, storeVars
  <2> QED
    BY <1>2, <2>1, <2>2, RemoveStep DEF RemoveDelete, otherStores
<1>3. CASE RemoveTuple(c)
  <2>1. SpentIds' = SpentIds
    BY <1>0, <1>3, StepSpendsNone DEF RemoveTuple, Free, Starts, callVars
  <2> QED
    BY <1>3, <2>1, GrantStep DEF RemoveTuple, otherStores, callVars
<1>4. CASE RemovePublish(c)
  <2>1. SpentIds' = SpentIds
    BY <1>0, <1>4, StepSpendsNone DEF RemovePublish, Free, Starts, callVars
  <2>2. PICK r \in seen[c] : PublishRemoved(r)
    BY <1>4 DEF RemovePublish
  <2>3. r \in Row /\ r.id \in SpentIds /\ r \notin memberships
    BY <1>0, <1>4, SeenRowsAreSpent DEF RemovePublish, CallIsSound
  <2> QED
    BY <1>4, <2>1, <2>2, <2>3, RemovedStep DEF RemovePublish, callVars
<1> QED
  BY <1>1, <1>2, <1>3, <1>4 DEF RemoveMember

LEMMA CreateGroupKeepsLedger ==
  ASSUME IInv, NEW c \in Calls, CreateGroup(c)
  PROVE  ledgerStep
<1>0. /\ pc \in [Calls -> Labels] /\ G(c) \in Groups
      /\ \A k \in GroupKeys(G(c)) : k.relation # "member"
  BY RequestTypes, KeyKinds DEF IInv, ServiceTypeOK
<1>1. CASE CreateInsert(c)
  <2>1. SpentIds' = SpentIds /\ MemberTuples' = MemberTuples
    BY <1>0, <1>1, StepSpendsNone DEF CreateInsert, Free, Starts, MemberTuples
  <2>2. CASE UNCHANGED <<storeVars, issued>>
    BY <1>1, <2>1, <2>2, SpendStep DEF CreateInsert
  <2>3. CASE ~UNCHANGED <<storeVars, issued>>
    <3>1. L!Open(G(c))
      BY <1>1, <2>1, <2>3
         DEF L!Open, CreateInsert, Execute, ExecuteFails, storeVars, eventVars
    <3> QED
      BY <1>0, <3>1 DEF ledgerStep, L!Next
  <2> QED
    BY <2>2, <2>3
<1>2. CASE CreateTuples(c)
  <2>1. SpentIds' = SpentIds
    BY <1>0, <1>2, StepSpendsNone DEF CreateTuples, Free, Starts, callVars
  <2> QED
    BY <1>0, <1>2, <2>1, GrantStep DEF CreateTuples, otherStores, callVars
<1>3. CASE CreateRollback(c)
  <2>1. SpentIds' = SpentIds
    BY <1>0, <1>3, StepSpendsNone DEF CreateRollback, Free, Starts, callVars
  <2> QED
    BY <1>0, <1>3, <2>1, CloseStep DEF CreateRollback, otherStores, callVars
<1> QED
  BY <1>1, <1>2, <1>3 DEF CreateGroup

LEMMA DeleteGroupKeepsLedger ==
  ASSUME IInv, NEW c \in Calls, DeleteGroup(c)
  PROVE  ledgerStep
<1>0. /\ pc \in [Calls -> Labels] /\ CallIsSound(c) /\ G(c) \in Groups
  BY RequestTypes DEF IInv, ServiceTypeOK
<1>1. CASE \/ DeleteGetGroup(c) \/ DeleteListAdmins(c) \/ DeleteListMembers(c)
           \/ DeleteSelectGroup(c) \/ DeleteSelectRows(c)
  <2>1. UNCHANGED <<worldVars, req, issued, admitted>>
    BY <1>1 DEF DeleteGetGroup, DeleteListAdmins, DeleteListMembers, DeleteSelectGroup,
                DeleteSelectRows, callVars
  <2>2. /\ ~Free(c)
        /\ \E l \in {"failed", "del_admins", "del_members", "del_tuples", "del_rows",
                     "del_commit"} : Goto(c, l)
    BY <1>1 DEF DeleteGetGroup, DeleteListAdmins, DeleteListMembers, DeleteSelectGroup,
                DeleteSelectRows, Free, Starts
  <2>3. SpentIds' = SpentIds
    BY <1>0, <2>1, <2>2, StepSpendsNone
  <2> QED
    BY <2>1, <2>3, SpendStep DEF worldVars, storeVars, eventVars, MemberTuples
<1>2. CASE DeleteTuples(c)
  <2>1. SpentIds' = SpentIds
    BY <1>0, <1>2, StepSpendsNone DEF DeleteTuples, Free, Starts, callVars
  <2> QED
    BY <1>2, <2>1, GrantStep DEF DeleteTuples, otherStores, callVars
<1>3. CASE DeleteCommit(c)
  <2>1. SpentIds' = SpentIds
    BY <1>0, <1>3, StepSpendsNone DEF DeleteCommit, Free, Starts, callVars
  <2> QED
    BY <1>0, <1>3, <2>1, CloseStep DEF DeleteCommit, otherStores, callVars
<1>4. CASE DeletePublish(c)
  <2>1. CASE pc' = pc
    <3>1. PICK r \in seen[c] : PublishRemoved(r)
      BY <1>0, <1>4, <2>1 DEF DeletePublish, Goto
    <3>2. r \in Row /\ r.id \in SpentIds /\ r \notin memberships
      BY <1>0, <1>4, <3>1, SeenRowsAreSpent DEF DeletePublish, CallIsSound
    <3>3. SpentIds' = SpentIds
      BY <1>4, <2>1 DEF DeletePublish, SpentIds, Free, Starts
    <3> QED
      BY <1>4, <3>1, <3>2, <3>3, RemovedStep DEF DeletePublish
  <2>2. CASE pc' # pc
    <3>1. PublishGroupDeleted(G(c)) /\ Goto(c, "ok")
      BY <1>4, <2>2 DEF DeletePublish
    <3>2. SpentIds' = SpentIds
      BY <1>0, <1>4, <3>1, StepSpendsNone DEF DeletePublish, Free, Starts
    <3>3. G(c) \in issued /\ G(c) \notin groups
      BY <1>0, <1>4 DEF DeletePublish, CallIsSound
    <3>4. CASE deletedGroups' = deletedGroups
      BY <1>4, <3>1, <3>2, <3>4
         DEF ledgerStep, L!vars, DeletePublish, PublishGroupDeleted, storeVars, MemberTuples
    <3>5. CASE deletedGroups' = deletedGroups \cup {G(c)}
      <4>1. L!AnnounceDeleted(G(c))
        BY <1>4, <3>1, <3>2, <3>3, <3>5
           DEF L!AnnounceDeleted, DeletePublish, PublishGroupDeleted, storeVars, MemberTuples
      <4> QED
        BY <1>0, <4>1 DEF ledgerStep, L!Next
    <3> QED
      BY <3>1, <3>4, <3>5 DEF PublishGroupDeleted
  <2> QED
    BY <2>1, <2>2
<1> QED
  BY <1>1, <1>2, <1>3, <1>4 DEF DeleteGroup
-----------------------------------------------------------------------------
(* The steps of a pass.                                                    *)
LEMMA PassKeepsLedger ==
  ASSUME SystemIInv, SystemPass
  PROVE  ledgerStep
<1>0. /\ IInv /\ ReconcilerTypeOK /\ PassIsSound
      /\ UNCHANGED <<pc, callVars>> /\ PassStep
  BY DEF SystemIInv, SystemTypeOK, SystemPass
<1>1. SpentIds' = SpentIds /\ UNCHANGED <<admitted, issued>>
  BY <1>0 DEF SpentIds, Free, Starts, callVars
<1>2. CASE UNCHANGED worldVars
  BY <1>1, <1>2, SpendStep DEF worldVars, storeVars, eventVars, MemberTuples
<1>3. CASE ReadFails
  BY <1>1, <1>3, SpendStep DEF ReadFails, storeVars, eventVars, MemberTuples
<1>4. CASE EnsureOrg
  <2>1. OrgKey(curGroup).relation # "member"
    BY DEF OrgKey
  <2> QED
    BY <1>1, <1>4, <2>1, GrantStep DEF EnsureOrg, otherStores
<1>5. CASE EnsureRowTuple
  <2>1. KeyOf(curRow) \in admitted
    BY <1>0, <1>5, CurRowSound DEF EnsureRowTuple, PassIsSound
  <2> QED
    BY <1>1, <1>5, <2>1, GrantStep DEF EnsureRowTuple, otherStores
<1>6. CASE DeleteOrphanTuple
  BY <1>1, <1>6, GrantStep DEF DeleteOrphanTuple, otherStores
<1>7. CASE Sweep /\ ~UNCHANGED worldVars
  <2>1. Write({}, stale) \/ WriteFails({}, stale)
    BY <1>7 DEF Sweep, worldVars, storeVars, eventVars
  <2> QED
    BY <1>1, <1>7, <2>1, GrantStep DEF Sweep, otherStores
<1>8. CASE DeleteOrphan
  <2>1. groups' = groups /\ memberships' \subseteq memberships
    BY <1>8 DEF DeleteOrphan, Execute, ExecuteFails, storeVars
  <2> QED
    BY <1>1, <1>8, <2>1, RemoveStep DEF DeleteOrphan, otherStores
<1>9. CASE PublishOrphan
  <2>1. /\ curRow \in Row /\ curRow \notin memberships
        /\ \A c \in Calls : Unborn(c) => curRow.id # c
    BY <1>0, <1>9, CurRowSound DEF PublishOrphan, PassIsSound
  <2>2. curRow.id \in SpentIds
    BY <1>0, <2>1, KnownRowsAreSpent
  <2> QED
    BY <1>1, <1>9, <2>1, <2>2, RemovedStep DEF PublishOrphan
<1>10. \/ UNCHANGED worldVars
       \/ ReadFails \/ EnsureOrg \/ EnsureRowTuple \/ DeleteOrphanTuple \/ Sweep
       \/ DeleteOrphan \/ PublishOrphan
  <2>1. CASE ListGroups \/ ListMemberships
    BY <2>1 DEF ListGroups, ListMemberships
  <2>2. CASE GroupLoop /\ ~EnsureOrg
    BY <2>2 DEF GroupLoop, NextGroup, ReadAdmins, CheckAdmin, GroupDone, GroupsDone
  <2>3. CASE \/ \E r \in todoRows : NextRow(r)
             \/ ReadRowTuple \/ ReadOrphanTuple \/ RowsDone
    BY <2>3 DEF NextRow, ReadRowTuple, ReadOrphanTuple, RowsDone
  <2>4. CASE \E p \in Pages : ScanPage(p)
    BY <2>4 DEF ScanPage
  <2> QED
    BY <1>0, <2>1, <2>2, <2>3, <2>4 DEF PassStep, RowLoop, Cleanup
<1> QED
  BY <1>2, <1>3, <1>4, <1>5, <1>6, <1>7, <1>8, <1>9, <1>10

-----------------------------------------------------------------------------
(* The system as a whole.                                                  *)
LEMMA LedgerStep ==
  ASSUME SystemIInv, [SystemNext]_systemVars
  PROVE  ledgerStep
<1>0. IInv /\ pc \in [Calls -> Labels]
  BY DEF SystemIInv, IInv, ServiceTypeOK
<1>1. CASE \E c \in Calls : SystemCall(c)
  BY <1>0, <1>1, AddMemberKeepsLedger, RemoveMemberKeepsLedger,
     CreateGroupKeepsLedger, DeleteGroupKeepsLedger DEF SystemCall, CallStep
<1>2. CASE SystemPass
  BY <1>2, PassKeepsLedger
<1>3. CASE SystemPanic \/ SystemCrash
  <2>1. UNCHANGED <<storeVars, tuples, eventVars, callVars>> /\ KillCalls
    BY <1>3 DEF SystemPanic, SystemCrash, Panic, Crash, worldVars, storeVars,
                eventVars, callVars
  <2>2. \A d \in Calls : Free(d)' => Free(d)
    BY <1>0, <2>1 DEF KillCalls, Free, Starts, callVars
  <2> QED
    BY <2>1, <2>2, SpentGrows, SpendStep DEF callVars, MemberTuples
<1>4. CASE (\E i \in Identities : SystemIdentity(i)) \/ UNCHANGED systemVars
  <2>1. UNCHANGED <<storeVars, tuples, eventVars, callVars, pc>>
    BY <1>4 DEF SystemIdentity, RemoveIdentity, IdentityRemoved, systemVars,
                serviceVars, worldVars, storeVars, eventVars, callVars
  <2>2. SpentIds' = SpentIds
    BY <2>1 DEF SpentIds, Free, Starts, callVars
  <2> QED
    BY <2>1, <2>2, SpendStep DEF callVars, MemberTuples
<1> QED
  BY <1>1, <1>2, <1>3, <1>4 DEF SystemNext

LEMMA LedgerInit == SystemInit => L!Init
<1> SUFFICES ASSUME SystemInit PROVE L!Init
  OBVIOUS
<1>1. ServiceInit /\ IInv
  BY InvInit DEF SystemInit
<1>2. \A r \in memberships : r \in Row /\ r.id \in SpentIds
  BY <1>1, KnownRowsAreSpent DEF IInv, ServiceTypeOK, WorldTypeOK, StoreTypeOK, RowsAreFresh
<1>3. \A r \in memberships : L!Pair(r) = KeyOf(r) /\ r.group \in groups
  BY <1>1 DEF ServiceInit, L!Pair, KeyOf, MemberKey
<1>4. ASSUME NEW r \in memberships, NEW s \in memberships, L!Pair(r) = L!Pair(s)
      PROVE  r = s
  BY <1>1, <1>4 DEF ServiceInit, UniqueMember, L!Pair
<1>5. MemberTuples \subseteq admitted
  BY <1>1 DEF IInv, GrantsWereValidated, MemberTuples
<1> QED
  BY <1>1, <1>2, <1>3, <1>4, <1>5 DEF L!Init, ServiceInit

(* The handlers and the reconciler implement the ledger for any groups,    *)
(* identities, number of requests and of faults: ids are used once, rows   *)
(* go with their group, access and events follow validated rows.           *)
THEOREM LedgerIsKept == SystemSpec => KeepsLedger
<1>1. SystemIInv /\ [SystemNext]_systemVars => [L!Next]_(L!vars)
  BY LedgerStep DEF ledgerStep
<1> QED
  BY <1>1, LedgerInit, SystemInvariance, PTL DEF SystemSpec, KeepsLedger, L!Spec
==============================================================================
