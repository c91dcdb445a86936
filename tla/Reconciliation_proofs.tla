------------------------ MODULE Reconciliation_proofs ------------------------
(***************************************************************************)
(* Proofs about ReconcilePass and RollingUpdate.                           *)
(*                                                                         *)
(* ReconcilePass: from any drift, and whatever requests, identity          *)
(* removals, failures and crashes go on beside it, a pass repairs the      *)
(* tuples that nothing else touches and takes none of them away that was   *)
(* right.  The invariant PassIInv follows one tuple through the pass:      *)
(* steps of others touch the tuple or leave its status alone (OthersKeep), *)
(* and each step of the pass carries it one stage further.                 *)
(*                                                                         *)
(* RollingUpdate: of two processes that reconcile at once, and the         *)
(* requests, one only takes each row from the table.                       *)
(***************************************************************************)
EXTENDS ReconcilePass, RollingUpdate, GroupsSystem_proofs

-----------------------------------------------------------------------------
(* The three kinds of tuple, and what calls for and backs each of them. *)
LEMMA KeyShape ==
  ASSUME NEW k \in TupleKeys
  PROVE  /\ k.group \in Groups /\ k.relation \in {"org", "admin", "member"}
         /\ k.relation = "org" <=> k = OrgKey(k.group)
         /\ k.relation = "admin" <=> k = AdminKey(k.group)
         /\ k.relation = "member" <=> k = MemberKey(k.group, k.user)
BY DEF TupleKeys, GroupKeys, OrgKey, AdminKey, MemberKey

LEMMA SupportedMeans ==
  ASSUME NEW k \in TupleKeys
  PROVE  /\ k.relation # "member" => (Supported(k) <=> k.group \in groups)
         /\ k.relation = "member" =>
              (Supported(k) <=> k.group \in groups /\ \E r \in memberships : KeyOf(r) = k)
<1>1. /\ k.group \in Groups /\ k.relation \in {"org", "admin", "member"}
      /\ k.relation = "org" <=> k = OrgKey(k.group)
      /\ k.relation = "admin" <=> k = AdminKey(k.group)
  BY KeyShape
<1>2. \A r : KeyOf(r).relation = "member" /\ KeyOf(r).group = r.group
  BY DEF KeyOf, MemberKey
<1>3. CASE k.group \notin groups
  BY <1>3 DEF Supported, Expected
<1>4. CASE k.group \in groups
  <2>1. Supported(k) <=> k \in GroupKeys(k.group) \/ \E r \in RowsOf(k.group) : KeyOf(r) = k
    BY <1>4 DEF Supported, Expected
  <2>2. k \in GroupKeys(k.group) <=> k.relation # "member"
    BY <1>1, KeyKinds DEF GroupKeys
  <2>3. (\E r \in RowsOf(k.group) : KeyOf(r) = k) <=> \E r \in memberships : KeyOf(r) = k
    BY <1>2 DEF RowsOf
  <2> QED
    BY <1>2, <1>4, <2>1, <2>2, <2>3
<1> QED
  BY <1>3, <1>4

LEMMA BackedMeans ==
  ASSUME NEW k \in TupleKeys
  PROVE  /\ k.relation = "org" => (Backed(k) <=> k.group \in gs)
         /\ k.relation = "admin" => (Backed(k) <=> k.group \in gs /\ k \in admins)
         /\ k.relation = "member" => (Backed(k) <=> \E r \in ms : KeyOf(r) = k)
BY KeyShape DEF Backed

(* What a tuple's status is made of does not change by itself. *)
LEMMA SupportStays ==
  ASSUME NEW k, UNCHANGED storeVars
  PROVE  Supported(k)' <=> Supported(k)
BY DEF storeVars, Supported, Expected, RowsOf

LEMMA ExistenceStays ==
  ASSUME NEW k, UNCHANGED identities
  PROVE  Exists(k)' <=> Exists(k)
BY DEF Exists

-----------------------------------------------------------------------------
(* The parts of the invariant that a step has to establish again. *)
PassShape ==
  /\ rpc \in {"idle", "complete", "list_rows"} => admins = {}
  /\ rpc \notin ScanLabels => stale = {}
  /\ rpc \in ScanLabels => todoRows = {} /\ \A k \in stale : ~Backed(k)

(* A step of anyone else touches a tuple or leaves its status alone. *)
LEMMA OthersKeep ==
  ASSUME PassIInv, SystemIInv', ForeignKey', UNCHANGED reconcilerVars, Touching
  PROVE  PassIInv'
<1>1. /\ settled' = settled /\ touched \subseteq touched'
      /\ \A k \in TupleKeys \ touched' :
           /\ k \in TupleKeys \ touched
           /\ k \in tuples' <=> k \in tuples
           /\ Supported(k)' <=> Supported(k)
           /\ Exists(k)' <=> Exists(k)
  BY DEF Touching, Status
<1>2. \A k : (Backed(k)' <=> Backed(k)) /\ (\A l : Handles(l, k)' <=> Handles(l, k))
  BY DEF reconcilerVars, passVars, Backed, Handles
<1>3. settled' \subseteq TupleKeys /\ (settled \ touched)' \subseteq Right'
  BY <1>1 DEF PassIInv, Right
<1>4. PassRepairsUntouched'
  BY <1>1 DEF PassIInv, PassRepairsUntouched, reconcilerVars
<1>5. PassShape'
  BY <1>2 DEF PassIInv, PassShape, reconcilerVars, passVars
<1>6. ASSUME rpc' \notin {"idle", "complete"}, NEW k \in TupleKeys \ touched'
      PROVE  KeyIsRight(k)'
  <2>1. KeyIsRight(k)
    BY <1>1, <1>6 DEF PassIInv, reconcilerVars
  <2>2. OrgIsRight(k)' <=> OrgIsRight(k)
    BY <1>1 DEF OrgIsRight, reconcilerVars, passVars
  <2>3. AdminIsRight(k)' <=> AdminIsRight(k)
    BY <1>1 DEF AdminIsRight, reconcilerVars, passVars
  <2>4. MemberIsRight(k)' <=> MemberIsRight(k)
    BY <1>1, <1>2 DEF MemberIsRight, reconcilerVars, passVars
  <2>5. ScanIsRight(k)' <=> ScanIsRight(k)
    BY <1>1, <1>2 DEF ScanIsRight, reconcilerVars, passVars
  <2> QED
    BY <2>1, <2>2, <2>3, <2>4, <2>5 DEF KeyIsRight
<1> QED
  BY <1>3, <1>4, <1>5, <1>6 DEF PassIInv, PassShape

(* A pass that ends early, or dies, has promised nothing. *)
LEMMA AbortKeeps ==
  ASSUME PassIInv, SystemIInv', ForeignKey', Abort, UNCHANGED historyVars,
         settled \ touched \subseteq Right'
  PROVE  PassIInv'
BY DEF PassIInv, Abort, EndPass, historyVars, ScanLabels, PassRepairsUntouched

(* A pass that goes on. *)
LEMMA WorkKeeps ==
  ASSUME PassIInv, SystemIInv', ForeignKey', UNCHANGED historyVars, PassShape',
         rpc' \notin {"idle", "complete"}, settled \ touched \subseteq Right',
         \A k \in TupleKeys \ touched : KeyIsRight(k)'
  PROVE  PassIInv'
BY DEF PassIInv, historyVars, PassShape, PassRepairsUntouched

(* A read leaves every status alone. *)
LEMMA ReadsKeepStatus ==
  ASSUME UNCHANGED worldVars
  PROVE  /\ tuples' = tuples /\ Right' = Right
         /\ \A k : (Supported(k)' <=> Supported(k)) /\ (Exists(k)' <=> Exists(k))
BY DEF worldVars, Supported, Expected, RowsOf, Exists, Right

-----------------------------------------------------------------------------
(* The two snapshots.                                                      *)
LEMMA ListGroupsKeeps ==
  ASSUME PassIInv, SystemIInv', ForeignKey', ListGroups, touched' = {}, settled' = Right
  PROVE  PassIInv'
<1>1. /\ tuples' = tuples /\ Right' = Right /\ rpc' = "list_rows" /\ gs' = groups
      /\ UNCHANGED <<admins, stale>> /\ rpc \in {"idle", "complete"}
      /\ \A k : (Supported(k)' <=> Supported(k)) /\ (Exists(k)' <=> Exists(k))
  BY ReadsKeepStatus DEF ListGroups
<1>2. Right \subseteq TupleKeys /\ admins = {} /\ stale = {}
  BY <1>1 DEF PassIInv, SystemIInv, SystemTypeOK, ServiceTypeOK, WorldTypeOK, Right, ScanLabels
<1>3. ASSUME NEW k \in TupleKeys PROVE KeyIsRight(k)'
  <2>1. k.relation # "member" => (Supported(k)' <=> k.group \in gs')
    BY <1>1, SupportedMeans
  <2> QED
    BY <1>1, <1>2, <2>1
       DEF KeyIsRight, OrgIsRight, AdminIsRight, MemberIsRight, ScanIsRight, ScanLabels
<1> QED
  BY <1>1, <1>2, <1>3 DEF PassIInv, PassRepairsUntouched, ScanLabels

LEMMA ListMembershipsKeeps ==
  ASSUME PassIInv, SystemIInv', ForeignKey', ListMemberships, UNCHANGED historyVars
  PROVE  PassIInv'
<1>1. /\ tuples' = tuples /\ Right' = Right /\ rpc = "list_rows" /\ rpc' = "groups"
      /\ ms' = memberships /\ todoGroups' = gs /\ todoRows' = memberships
      /\ UNCHANGED <<gs, admins, stale, settled, touched>>
      /\ \A k : (Supported(k)' <=> Supported(k)) /\ (Exists(k)' <=> Exists(k))
  BY ReadsKeepStatus DEF ListMemberships, historyVars
<1>2. admins = {} /\ stale = {} /\ settled \ touched \subseteq Right /\ ForeignKey
  BY <1>1 DEF PassIInv, ScanLabels
<1>3. ASSUME NEW k \in TupleKeys \ touched PROVE KeyIsRight(k)'
  <2>1. KeyIsRight(k)
    BY <1>1 DEF PassIInv
  <2>2. CASE k.relation = "org"
    BY <1>1, <2>1, <2>2 DEF KeyIsRight, OrgIsRight, ScanIsRight, GroupLabels, ScanLabels
  <2>3. CASE k.relation = "admin"
    BY <1>1, <1>2, <2>1, <2>3
       DEF KeyIsRight, AdminIsRight, ScanIsRight, GroupLabels, ScanLabels, Right
  <2>4. CASE k.relation = "member"
    <3>1. \A r : KeyOf(r).group = r.group
      BY DEF KeyOf, MemberKey
    <3>2. Supported(k) <=> \E r \in memberships : KeyOf(r) = k
      BY <1>2, <2>4, <3>1, SupportedMeans DEF ForeignKey
    <3> QED
      BY <1>1, <2>4, <3>2 DEF KeyIsRight, MemberIsRight, Handles, ScanIsRight, ScanLabels
  <2> QED
    BY <2>2, <2>3, <2>4, KeyShape
<1> QED
  BY <1>1, <1>2, <1>3, WorkKeeps DEF PassShape, ScanLabels

-----------------------------------------------------------------------------
(* The loop over the groups.  Whatever its steps read, they leave the      *)
(* members' part of the invariant alone.                                   *)
LEMMA GroupLoopKeepsMembers ==
  ASSUME NEW k \in TupleKeys, MemberIsRight(k), rpc \in GroupLabels,
         rpc' \in GroupLabels \cup {"rows"}, UNCHANGED <<ms, todoRows, identities, storeVars>>,
         tuples \subseteq tuples'
  PROVE  MemberIsRight(k)'
<1>1. (Supported(k)' <=> Supported(k)) /\ (Exists(k)' <=> Exists(k))
  BY SupportStays, ExistenceStays
<1> QED
  BY <1>1 DEF MemberIsRight, Handles, GroupLabels

(* A step of this loop that goes on. *)
LEMMA GroupLoopWorks ==
  ASSUME PassIInv, SystemIInv', ForeignKey', UNCHANGED historyVars, rpc \in GroupLabels,
         rpc' \in GroupLabels \cup {"rows"},
         UNCHANGED <<gs, ms, todoRows, stale, identities, storeVars>>, tuples \subseteq tuples',
         \A k \in TupleKeys \ touched :
           /\ k.relation = "org" => OrgIsRight(k)'
           /\ k.relation = "admin" => AdminIsRight(k)'
  PROVE  PassIInv'
<1>1. /\ settled \ touched \subseteq Right /\ stale = {}
      /\ \A k \in TupleKeys \ touched : KeyIsRight(k)
  BY DEF PassIInv, GroupLabels, ScanLabels
<1>2. settled \ touched \subseteq Right'
  BY <1>1, SupportStays, ExistenceStays DEF Right
<1>3. rpc' \notin {"idle", "complete", "list_rows"} \cup ScanLabels
  BY DEF GroupLabels, ScanLabels
<1>4. ASSUME NEW k \in TupleKeys \ touched PROVE KeyIsRight(k)'
  <2>1. k.relation = "member" => MemberIsRight(k)'
    BY <1>1, GroupLoopKeepsMembers DEF KeyIsRight
  <2>2. ScanIsRight(k)'
    BY <1>3 DEF ScanIsRight
  <2> QED
    BY <2>1, <2>2 DEF KeyIsRight
<1> QED
  BY <1>1, <1>2, <1>3, <1>4, WorkKeeps DEF PassShape

LEMMA NextGroupKeeps ==
  ASSUME PassIInv, SystemIInv', ForeignKey', UNCHANGED historyVars, NEW g \in Groups, NextGroup(g)
  PROVE  PassIInv'
<1>1. /\ rpc = "groups" /\ todoGroups' = todoGroups \ {g} /\ curGroup' = g
      /\ rpc' = IF OrgKey(g) \in tuples THEN "admins" ELSE "org_write"
      /\ UNCHANGED <<gs, ms, admins, todoRows, stale, tuples, identities, storeVars, settled, touched>>
  BY DEF NextGroup, worldVars, storeVars, historyVars
<1>2. ASSUME NEW k \in TupleKeys \ touched
      PROVE  /\ k.relation = "org" => OrgIsRight(k)'
             /\ k.relation = "admin" => AdminIsRight(k)'
  <2>1. KeyIsRight(k) /\ (Supported(k)' <=> Supported(k)) /\ (Exists(k)' <=> Exists(k))
    BY <1>1, SupportStays, ExistenceStays DEF PassIInv
  <2>2. CASE k.relation = "org"
    <3>1. k = OrgKey(k.group)
      BY <2>2, KeyShape
    <3> QED
      BY <1>1, <2>1, <2>2, <3>1 DEF KeyIsRight, OrgIsRight, GroupLabels
  <2>3. CASE k.relation = "admin"
    BY <1>1, <2>1, <2>3 DEF KeyIsRight, AdminIsRight, GroupLabels
  <2> QED
    BY <2>2, <2>3
<1> QED
  BY <1>1, <1>2, GroupLoopWorks DEF GroupLabels

LEMMA EnsureOrgKeeps ==
  ASSUME PassIInv, SystemIInv', ForeignKey', UNCHANGED historyVars, EnsureOrg
  PROVE  PassIInv'
<1>1. rpc = "org_write" /\ UNCHANGED <<identities, storeVars, settled, touched>>
  BY DEF EnsureOrg, historyVars
<1>2. CASE Write({OrgKey(curGroup)}, {}) /\ rpc' = "admins" /\ UNCHANGED passVars
  <2>1. tuples' = tuples \cup {OrgKey(curGroup)}
    BY <1>2 DEF Write, Written
  <2>2. ASSUME NEW k \in TupleKeys \ touched
        PROVE  /\ k.relation = "org" => OrgIsRight(k)'
               /\ k.relation = "admin" => AdminIsRight(k)'
    <3>1. /\ KeyIsRight(k) /\ (Supported(k)' <=> Supported(k)) /\ (Exists(k)' <=> Exists(k))
          /\ k.relation = "org" => k = OrgKey(k.group)
      BY <1>1, KeyShape, SupportStays, ExistenceStays DEF PassIInv
    <3>2. UNCHANGED <<gs, admins, todoGroups, curGroup, pending>>
      BY <1>2 DEF passVars
    <3> QED
      BY <1>1, <1>2, <2>1, <3>1, <3>2 DEF KeyIsRight, OrgIsRight, AdminIsRight, GroupLabels
  <2>3. UNCHANGED <<gs, ms, todoRows, stale>>
    BY <1>2 DEF passVars
  <2> QED
    BY <1>1, <1>2, <2>1, <2>2, <2>3, GroupLoopWorks DEF GroupLabels
<1>3. CASE WriteFails({OrgKey(curGroup)}, {}) /\ Abort
  <2>1. tuples \subseteq tuples'
    BY <1>3 DEF WriteFails, Written
  <2>2. settled \ touched \subseteq Right'
    BY <1>1, <2>1, SupportStays, ExistenceStays DEF PassIInv, Right
  <2> QED
    BY <1>3, <2>2, AbortKeeps
<1> QED
  BY <1>2, <1>3 DEF EnsureOrg

LEMMA AdminsKeep ==
  ASSUME PassIInv, SystemIInv', ForeignKey', UNCHANGED historyVars,
         ReadAdmins \/ (\E k \in TupleKeys : CheckAdmin(k)) \/ GroupDone \/ GroupsDone
  PROVE  PassIInv'
<1>1. /\ UNCHANGED <<gs, ms, todoGroups, todoRows, stale, tuples, identities, storeVars,
                     settled, touched>>
      /\ rpc \in GroupLabels /\ rpc' \in GroupLabels \cup {"rows"}
  BY DEF ReadAdmins, CheckAdmin, GroupDone, GroupsDone, worldVars, storeVars, passVars,
         historyVars, GroupLabels
<1>2. ASSUME NEW k \in TupleKeys \ touched
      PROVE  /\ k.relation = "org" => OrgIsRight(k)'
             /\ k.relation = "admin" => AdminIsRight(k)'
  <2>1. /\ KeyIsRight(k) /\ (Supported(k)' <=> Supported(k)) /\ (Exists(k)' <=> Exists(k))
        /\ k \in settled => k \in Right
    BY <1>1, SupportStays, ExistenceStays DEF PassIInv, GroupLabels
  <2>2. CASE k.relation = "org"
    BY <1>1, <2>1, <2>2
       DEF KeyIsRight, OrgIsRight, ReadAdmins, CheckAdmin, GroupDone, GroupsDone, GroupLabels, passVars
  <2>3. CASE k.relation = "admin"
    <3>1. AdminIsRight(k)
      BY <2>1, <2>3 DEF KeyIsRight
    <3>2. CASE ReadAdmins
      BY <1>1, <2>1, <2>3, <3>1, <3>2
         DEF AdminIsRight, ReadAdmins, AdminsOf, KeysOn, Right, GroupLabels
    <3>3. ASSUME NEW other \in TupleKeys, CheckAdmin(other) PROVE AdminIsRight(k)'
      BY <1>1, <2>1, <2>3, <3>1, <3>3 DEF AdminIsRight, CheckAdmin, Right, Exists, GroupLabels
    <3>4. CASE GroupDone \/ GroupsDone
      BY <1>1, <2>1, <2>3, <3>1, <3>4 DEF AdminIsRight, GroupDone, GroupsDone, passVars, GroupLabels
    <3> QED
      BY <2>3, <3>2, <3>3, <3>4
  <2> QED
    BY <2>2, <2>3
<1> QED
  BY <1>1, <1>2, GroupLoopWorks

-----------------------------------------------------------------------------
(* The loop over the memberships, which leaves the other two kinds alone.  *)
RowLabels == {"rows", "row_read", "row_write", "orphan_delete", "orphan_read",
              "orphan_write", "orphan_publish"}

LEMMA RowLoopWorks ==
  ASSUME PassIInv, SystemIInv', ForeignKey', UNCHANGED historyVars, rpc \in RowLabels,
         rpc' \in RowLabels, UNCHANGED <<gs, admins, stale, identities, groups>>,
         \A k \in TupleKeys \ touched :
           /\ k.relation # "member" => (k \in tuples => k \in tuples')
           /\ k.relation = "member" => MemberIsRight(k)'
           /\ k \in settled /\ k.relation = "member" => k \in Right'
  PROVE  PassIInv'
<1>1. /\ settled \ touched \subseteq Right /\ settled \subseteq TupleKeys /\ stale = {}
      /\ \A k \in TupleKeys \ touched : KeyIsRight(k)
  BY DEF PassIInv, RowLabels, ScanLabels
<1>2. rpc' \notin {"idle", "complete", "list_rows"} \cup ScanLabels \cup GroupLabels
  BY DEF RowLabels, ScanLabels, GroupLabels
<1>3. \A k \in TupleKeys : k.relation # "member" =>
        (Supported(k)' <=> Supported(k)) /\ (Exists(k)' <=> Exists(k))
  <2> SUFFICES ASSUME NEW k \in TupleKeys, k.relation # "member"
               PROVE  (Supported(k)' <=> Supported(k)) /\ (Exists(k)' <=> Exists(k))
    OBVIOUS
  <2>1. k \in GroupKeys(k.group)
    BY KeyShape DEF GroupKeys
  <2> QED
    BY <2>1, ExistenceStays DEF Supported, Expected
<1>4. settled \ touched \subseteq Right'
  BY <1>1, <1>3 DEF Right
<1>5. ASSUME NEW k \in TupleKeys \ touched PROVE KeyIsRight(k)'
  <2>1. KeyIsRight(k) /\ ScanIsRight(k)'
    BY <1>1, <1>2 DEF ScanIsRight
  <2>2. k.relation = "org" => OrgIsRight(k)'
    BY <1>2, <1>3, <2>1 DEF KeyIsRight, OrgIsRight, RowLabels, GroupLabels, historyVars
  <2>3. k.relation = "admin" => AdminIsRight(k)'
    BY <1>2, <1>3, <2>1 DEF KeyIsRight, AdminIsRight, RowLabels, GroupLabels, historyVars
  <2> QED
    BY <2>1, <2>2, <2>3 DEF KeyIsRight
<1> QED
  BY <1>1, <1>2, <1>4, <1>5, WorkKeeps DEF PassShape

(* What a row's tuple is, and who else shares its status. *)
LEMMA RowKey ==
  ASSUME NEW r
  PROVE  /\ KeyOf(r).relation = "member" /\ KeyOf(r).group = r.group
         /\ KeyOf(r).user = r.member
         /\ \A s \in memberships : s \in RowsFor(r.group, r.member) <=> KeyOf(s) = KeyOf(r)
BY DEF KeyOf, MemberKey, RowsFor, RowsOf

(* A step of this loop that only reads. *)
LEMMA RowReadWorks ==
  ASSUME PassIInv, SystemIInv', ForeignKey', UNCHANGED historyVars, rpc \in RowLabels,
         rpc' \in RowLabels, UNCHANGED <<gs, ms, admins, stale, tuples, identities, storeVars>>,
         \A k \in TupleKeys \ touched :
           k.relation = "member" /\ MemberIsRight(k) => MemberIsRight(k)'
  PROVE  PassIInv'
<1>1. /\ settled \ touched \subseteq Right /\ groups' = groups
      /\ \A k \in TupleKeys \ touched : KeyIsRight(k)
  BY DEF PassIInv, RowLabels, storeVars
<1>2. Right \subseteq Right'
  BY SupportStays, ExistenceStays DEF Right
<1>3. ASSUME NEW k \in TupleKeys \ touched
      PROVE  /\ k.relation # "member" => (k \in tuples => k \in tuples')
             /\ k.relation = "member" => MemberIsRight(k)'
             /\ k \in settled /\ k.relation = "member" => k \in Right'
  BY <1>1, <1>2 DEF KeyIsRight
<1> QED
  BY <1>1, <1>3, RowLoopWorks

LEMMA RowReadsKeepRight ==
  ASSUME PassIInv, SystemIInv', ForeignKey', UNCHANGED historyVars,
         \/ \E r \in todoRows : NextRow(r)
         \/ ReadRowTuple \/ ReadOrphanTuple \/ PublishOrphan
  PROVE  PassIInv'
<1>1. /\ rpc \in RowLabels \ {"row_write"} /\ rpc' \in RowLabels
      /\ UNCHANGED <<gs, ms, admins, stale, tuples, identities, storeVars>>
  BY DEF NextRow, ReadRowTuple, ReadOrphanTuple, PublishOrphan, RowLabels, passVars, worldVars,
         storeVars
<1>2. ASSUME NEW k \in TupleKeys \ touched, k.relation = "member", MemberIsRight(k)
      PROVE  MemberIsRight(k)'
  <2>1. (Supported(k)' <=> Supported(k)) /\ (Exists(k)' <=> Exists(k))
    BY <1>1, SupportStays, ExistenceStays
  <2>2. Exists(k) <=> k.user \in identities
    BY <1>2 DEF Exists
  <2>3. ASSUME NEW r \in todoRows, NextRow(r) PROVE MemberIsRight(k)'
    <3>1. KeyOf(r).user = r.member
      BY RowKey
    <3> QED
      BY <1>1, <1>2, <2>1, <2>2, <2>3, <3>1 DEF MemberIsRight, Handles, NextRow
  <2>4. CASE ReadRowTuple
    BY <1>1, <1>2, <2>1, <2>4 DEF MemberIsRight, Handles, ReadRowTuple, passVars
  <2>5. CASE ReadOrphanTuple
    BY <1>1, <1>2, <2>1, <2>5 DEF MemberIsRight, Handles, ReadOrphanTuple, passVars
  <2>6. CASE PublishOrphan
    BY <1>1, <1>2, <2>1, <2>6 DEF MemberIsRight, Handles, PublishOrphan, passVars
  <2> QED
    BY <2>3, <2>4, <2>5, <2>6
<1> QED
  BY <1>1, <1>2, RowReadWorks

(* The tuple of a row that is missing is written, for an identity that is  *)
(* there.                                                                  *)
LEMMA EnsureRowKeeps ==
  ASSUME PassIInv, SystemIInv', ForeignKey', UNCHANGED historyVars, EnsureRowTuple
  PROVE  PassIInv'
<1>1. /\ rpc = "row_write" /\ UNCHANGED <<identities, storeVars, groups>>
      /\ settled \ touched \subseteq Right /\ tuples \subseteq tuples'
      /\ \A k \in TupleKeys \ touched : KeyIsRight(k)
  BY DEF EnsureRowTuple, PassIInv, storeVars, Write, WriteFails, Written
<1>2. settled \ touched \subseteq Right'
  BY <1>1, SupportStays, ExistenceStays DEF Right
<1>3. CASE Write({KeyOf(curRow)}, {}) /\ rpc' = "rows" /\ UNCHANGED passVars
  <2>1. KeyOf(curRow) \in tuples'
    BY <1>3 DEF Write, Written
  <2>2. UNCHANGED <<gs, ms, admins, todoRows, stale>>
    BY <1>3 DEF passVars
  <2>3. ASSUME NEW k \in TupleKeys \ touched, k.relation = "member"
        PROVE  MemberIsRight(k)'
    <3>1. MemberIsRight(k) /\ (Supported(k)' <=> Supported(k)) /\ (Exists(k)' <=> Exists(k))
      BY <1>1, <2>3, SupportStays, ExistenceStays DEF KeyIsRight
    <3> QED
      BY <1>1, <1>3, <2>1, <2>2, <3>1 DEF MemberIsRight, Handles
  <2> QED
    BY <1>1, <1>2, <1>3, <2>2, <2>3, RowLoopWorks DEF RowLabels
<1>4. CASE Abort
  BY <1>2, <1>4, AbortKeeps
<1> QED
  BY <1>3, <1>4 DEF EnsureRowTuple

(* What is gone from the database, or from the authorization service, at   *)
(* these steps was not right when the pass began.                          *)
LEMMA UnsettledGoes ==
  ASSUME PassIInv, UNCHANGED <<identities, groups>>, NEW x,
         x \in TupleKeys \ touched => ~(Supported(x) /\ Exists(x)),
         tuples \ {x} \subseteq tuples',
         \A s \in memberships : KeyOf(s) # x => s \in memberships'
  PROVE  settled \ touched \subseteq Right'
<1> SUFFICES ASSUME NEW k \in settled \ touched PROVE k \in Right'
  OBVIOUS
<1>1. k \in TupleKeys \ touched /\ k \in tuples /\ Supported(k) /\ Exists(k)
  BY DEF PassIInv, Right
<1>2. k \in tuples' /\ (Exists(k)' <=> Exists(k))
  BY <1>1, ExistenceStays
<1>3. Supported(k)'
  <2>1. CASE k \in GroupKeys(k.group)
    BY <1>1, <2>1 DEF Supported, Expected
  <2>2. CASE k \notin GroupKeys(k.group)
    BY <1>1, <2>2 DEF Supported, Expected, RowsOf
  <2> QED
    BY <2>1, <2>2
<1> QED
  BY <1>1, <1>2, <1>3 DEF Right

(* Without its row a member tuple is not called for. *)
LEMMA RowsGone ==
  ASSUME NEW x \in TupleKeys, x.relation = "member",
         \A s \in memberships' : KeyOf(s) # x
  PROVE  ~Supported(x)'
<1>1. x \notin GroupKeys(x.group)
  BY DEF GroupKeys, OrgKey, AdminKey
<1> QED
  BY <1>1 DEF Supported, Expected, RowsOf

(* The rows of other pairs still call for the same tuples. *)
LEMMA OtherRowsStay ==
  ASSUME UNCHANGED groups, NEW k, memberships' \subseteq memberships,
         \A s \in memberships : KeyOf(s) = k => s \in memberships'
  PROVE  Supported(k)' <=> Supported(k)
BY DEF Supported, Expected, RowsOf

LEMMA DeleteOrphanKeepsRight ==
  ASSUME PassIInv, SystemIInv', ForeignKey', UNCHANGED historyVars, DeleteOrphan
  PROVE  PassIInv'
<1> DEFINE rows == RowsFor(curRow.group, curRow.member)
<1>0. PICK x : x = KeyOf(curRow)
  OBVIOUS
<1>1. /\ rpc = "orphan_delete" /\ UNCHANGED <<tuples, identities>> /\ curRow # None
      /\ \A k \in TupleKeys \ touched : KeyIsRight(k)
  BY DEF DeleteOrphan, PassIInv, SystemIInv, PassIsSound
<1>2. /\ x \in TupleKeys /\ x.relation = "member"
      /\ \A s \in memberships : s \in rows <=> KeyOf(s) = x
  BY <1>0, <1>1, CurRowSound, RowKey DEF PassIInv
<1>3. x \in TupleKeys \ touched => ~Exists(x)
  BY <1>0, <1>1, <1>2 DEF KeyIsRight, MemberIsRight, Handles
<1>4. /\ groups' = groups /\ memberships' \subseteq memberships
      /\ \A s \in memberships : KeyOf(s) # x => s \in memberships'
  BY <1>0, <1>2 DEF DeleteOrphan, Execute, ExecuteFails, storeVars
<1>5. settled \ touched \subseteq Right'
  BY <1>1, <1>3, <1>4, UnsettledGoes
<1>6. ASSUME NEW k \in TupleKeys \ touched, k.relation = "member", k # x
      PROVE  MemberIsRight(k) /\ (Supported(k)' <=> Supported(k)) /\ (Exists(k)' <=> Exists(k))
  BY <1>1, <1>4, <1>6, OtherRowsStay, ExistenceStays DEF KeyIsRight
<1>7. CASE rows = {} /\ rpc' = "rows" /\ UNCHANGED <<storeVars, passVars>>
  <2>1. UNCHANGED <<gs, ms, admins, todoRows, stale, curRow>> /\ ~Supported(x)
        /\ (Supported(x)' <=> Supported(x))
    BY <1>2, <1>7, SupportStays, SupportedMeans DEF passVars
  <2>2. ASSUME NEW k \in TupleKeys \ touched, k.relation = "member"
        PROVE  MemberIsRight(k)'
    <3>1. MemberIsRight(k)
      BY <1>1, <2>2 DEF KeyIsRight
    <3> QED
      BY <1>0, <1>1, <1>6, <1>7, <2>1, <2>2, <3>1 DEF MemberIsRight, Handles
  <2> QED
    BY <1>1, <1>4, <1>5, <1>7, <2>1, <2>2, RowLoopWorks DEF RowLabels
<1>8. ASSUME NEW r \in rows, memberships' = memberships \ rows, curRow' = r,
             ms' = {s \in ms : KeyOf(s) # KeyOf(r)}, rpc' = "orphan_read",
             UNCHANGED <<gs, admins, todoGroups, curGroup, pending, todoRows, unread, stale>>
      PROVE  PassIInv'
  <2>1. KeyOf(r) = x
    BY <1>2, <1>8 DEF RowsFor, RowsOf
  <2>2. ~Supported(x)'
    BY <1>2, <1>8, RowsGone
  <2>3. ASSUME NEW k \in TupleKeys \ touched, k.relation = "member"
        PROVE  MemberIsRight(k)'
    <3>1. MemberIsRight(k)
      BY <1>1, <2>3 DEF KeyIsRight
    <3>2. CASE k = x
      BY <1>0, <1>8, <2>1, <2>2, <3>2 DEF MemberIsRight, Handles
    <3>3. CASE k # x
      BY <1>0, <1>1, <1>6, <1>8, <2>1, <2>3, <3>1, <3>3 DEF MemberIsRight, Handles
    <3> QED
      BY <3>2, <3>3
  <2> QED
    BY <1>1, <1>4, <1>5, <1>8, <2>3, RowLoopWorks DEF RowLabels
<1>9. CASE Abort
  BY <1>5, <1>9, AbortKeeps
<1> QED
  BY <1>7, <1>8, <1>9 DEF DeleteOrphan, Execute

LEMMA DeleteOrphanTupleKeeps ==
  ASSUME PassIInv, SystemIInv', ForeignKey', UNCHANGED historyVars, DeleteOrphanTuple
  PROVE  PassIInv'
<1>0. PICK x : x = KeyOf(curRow)
  OBVIOUS
<1>1. /\ rpc = "orphan_write" /\ UNCHANGED <<identities, storeVars, groups, memberships>>
      /\ curRow # None /\ \A k \in TupleKeys \ touched : KeyIsRight(k)
  BY DEF DeleteOrphanTuple, PassIInv, SystemIInv, PassIsSound, storeVars
<1>2. /\ x \in TupleKeys /\ x.relation = "member"
  BY <1>0, <1>1, CurRowSound, RowKey DEF PassIInv
<1>3. x \in TupleKeys \ touched => ~Supported(x)
  BY <1>0, <1>1, <1>2 DEF KeyIsRight, MemberIsRight, Handles
<1>4. tuples \ {x} \subseteq tuples' /\ tuples' \subseteq tuples
  BY <1>0 DEF DeleteOrphanTuple, Write, WriteFails, Written
<1>5. settled \ touched \subseteq Right'
  BY <1>1, <1>3, <1>4, UnsettledGoes
<1>6. CASE rpc' = "orphan_publish" /\ UNCHANGED passVars
  <2>1. UNCHANGED <<gs, ms, admins, todoRows, stale, curRow>>
    BY <1>6 DEF passVars
  <2>2. ASSUME NEW k \in TupleKeys \ touched, k.relation = "member"
        PROVE  MemberIsRight(k)'
    <3>1. MemberIsRight(k) /\ (Supported(k)' <=> Supported(k)) /\ (Exists(k)' <=> Exists(k))
      BY <1>1, <2>2, SupportStays, ExistenceStays DEF KeyIsRight
    <3> QED
      BY <1>0, <1>1, <1>3, <1>4, <1>6, <2>1, <3>1 DEF MemberIsRight, Handles
  <2> QED
    BY <1>1, <1>2, <1>4, <1>5, <1>6, <2>1, <2>2, RowLoopWorks DEF RowLabels
<1>7. CASE Abort
  BY <1>5, <1>7, AbortKeeps
<1> QED
  BY <1>6, <1>7 DEF DeleteOrphanTuple

-----------------------------------------------------------------------------
(* The scan: every page is read, and what no snapshot backs is noted.      *)
LEMMA RowsDoneKeeps ==
  ASSUME PassIInv, SystemIInv', ForeignKey', UNCHANGED historyVars, RowsDone
  PROVE  PassIInv'
<1>1. /\ tuples' = tuples /\ Right' = Right /\ rpc = "rows" /\ rpc' = "scan"
      /\ unread' = Pages /\ todoRows = {} /\ UNCHANGED <<gs, ms, admins, todoRows, stale>>
      /\ \A k : (Supported(k)' <=> Supported(k)) /\ (Exists(k)' <=> Exists(k))
  BY ReadsKeepStatus DEF RowsDone
<1>2. stale = {} /\ settled \ touched \subseteq Right /\ UNCHANGED historyVars
  BY <1>1 DEF PassIInv, ScanLabels
<1>3. ASSUME NEW k \in TupleKeys \ touched PROVE KeyIsRight(k)'
  <2>1. KeyIsRight(k) /\ \E p \in Pages : k \in p
    BY <1>1, PagesAssumption DEF PassIInv
  <2>2. k.relation = "org" => OrgIsRight(k)'
    BY <1>1, <2>1 DEF KeyIsRight, OrgIsRight, GroupLabels
  <2>3. k.relation = "admin" => AdminIsRight(k)'
    BY <1>1, <1>2, <2>1 DEF KeyIsRight, AdminIsRight, GroupLabels, historyVars
  <2>4. k.relation = "member" => MemberIsRight(k)'
    BY <1>1, <2>1 DEF KeyIsRight, MemberIsRight, Handles
  <2>5. ScanIsRight(k)'
    BY <1>1, <2>1 DEF ScanIsRight
  <2> QED
    BY <2>2, <2>3, <2>4, <2>5 DEF KeyIsRight
<1> QED
  BY <1>1, <1>2, <1>3, WorkKeeps DEF PassShape, ScanLabels

LEMMA ScanPageKeeps ==
  ASSUME PassIInv, SystemIInv', ForeignKey', UNCHANGED historyVars, NEW p \in Pages, ScanPage(p)
  PROVE  PassIInv'
<1>1. /\ tuples' = tuples /\ Right' = Right /\ rpc = "scan" /\ rpc' \in ScanLabels
      /\ UNCHANGED <<gs, ms, admins, todoRows>>
      /\ \A k : /\ (Supported(k)' <=> Supported(k)) /\ (Exists(k)' <=> Exists(k))
                /\ Backed(k)' <=> Backed(k)
  BY ReadsKeepStatus DEF ScanPage, ScanLabels, Backed
<1>2. /\ unread' = unread \ {p} /\ stale' = stale \cup {k \in p \cap tuples : ~Backed(k)}
      /\ rpc' = IF unread = {p} THEN "sweep" ELSE "scan"
  BY DEF ScanPage
<1>3. /\ todoRows = {} /\ \A k \in stale : ~Backed(k)
      /\ settled \ touched \subseteq Right /\ UNCHANGED historyVars
  BY <1>1 DEF PassIInv, ScanLabels
<1>4. ASSUME NEW k \in TupleKeys \ touched PROVE KeyIsRight(k)'
  <2>1. KeyIsRight(k)
    BY <1>1 DEF PassIInv
  <2>2. k.relation = "org" => OrgIsRight(k)'
    BY <1>1, <2>1 DEF KeyIsRight, OrgIsRight, GroupLabels, ScanLabels
  <2>3. k.relation = "admin" => AdminIsRight(k)'
    BY <1>1, <1>3, <2>1 DEF KeyIsRight, AdminIsRight, GroupLabels, ScanLabels, historyVars
  <2>4. k.relation = "member" => MemberIsRight(k)'
    BY <1>1, <2>1 DEF KeyIsRight, MemberIsRight, Handles, ScanLabels
  <2>5. ScanIsRight(k)'
    BY <1>1, <1>2, <2>1 DEF KeyIsRight, ScanIsRight, ScanLabels
  <2> QED
    BY <2>2, <2>3, <2>4, <2>5 DEF KeyIsRight
<1>5. PassShape'
  BY <1>1, <1>2, <1>3 DEF PassShape, ScanLabels
<1> QED
  BY <1>1, <1>3, <1>4, <1>5, WorkKeeps DEF ScanLabels

(* The sweep: when every page has been read, an untouched tuple is noted   *)
(* just if it is there and nothing calls for it, so what is left is right. *)
LEMMA SweepFinds ==
  ASSUME PassIInv, rpc = "sweep", NEW k \in TupleKeys \ touched
  PROVE  /\ k \in tuples => (k \in stale <=> ~Backed(k))
         /\ k.relation \in {"org", "member"} =>
              (Backed(k) <=> Supported(k)) /\ (Supported(k) => k \in tuples)
         /\ k.relation = "admin" /\ Backed(k) => Supported(k) /\ Exists(k)
         /\ k.relation = "admin" /\ k \in settled => Backed(k)
         /\ k.relation = "member" /\ Supported(k) => Exists(k)
<1>1. /\ KeyIsRight(k) /\ todoRows = {} /\ \A j \in stale : ~Backed(j)
      /\ k \in settled => Supported(k)
  BY DEF PassIInv, ScanLabels, Right
<1>2. k \in tuples => (k \in stale <=> ~Backed(k))
  BY <1>1 DEF KeyIsRight, ScanIsRight, ScanLabels
<1>3. CASE k.relation = "org"
  BY <1>1, <1>2, <1>3, BackedMeans DEF KeyIsRight, OrgIsRight, GroupLabels
<1>4. CASE k.relation = "admin"
  BY <1>1, <1>2, <1>4, BackedMeans DEF KeyIsRight, AdminIsRight, GroupLabels
<1>5. CASE k.relation = "member"
  BY <1>1, <1>2, <1>5, BackedMeans DEF KeyIsRight, MemberIsRight, Handles
<1> QED
  BY <1>3, <1>4, <1>5, KeyShape

LEMMA SweepKeeps ==
  ASSUME PassIInv, SystemIInv', ForeignKey', UNCHANGED historyVars, Sweep
  PROVE  PassIInv'
<1>1. /\ rpc = "sweep" /\ UNCHANGED <<identities, storeVars>>
      /\ settled \ touched \subseteq Right /\ settled \subseteq TupleKeys
  BY DEF Sweep, PassIInv
<1>2. \A k : (Supported(k)' <=> Supported(k)) /\ (Exists(k)' <=> Exists(k))
  BY <1>1, SupportStays, ExistenceStays
<1>3. tuples \ stale \subseteq tuples' /\ tuples' \subseteq tuples
  BY DEF Sweep, Write, WriteFails, Written
<1>4. \A k \in settled \ touched : k \notin stale
  <2> SUFFICES ASSUME NEW k \in settled \ touched PROVE k \notin stale
    OBVIOUS
  <2>1. k \in TupleKeys \ touched /\ k \in tuples /\ Supported(k)
    BY <1>1 DEF Right
  <2> QED
    BY <1>1, <2>1, SweepFinds, KeyShape
<1>5. settled \ touched \subseteq Right'
  BY <1>1, <1>2, <1>3, <1>4 DEF Right
<1>6. CASE Abort
  BY <1>5, <1>6, AbortKeeps
<1>7. CASE tuples' = tuples \ stale /\ EndPass("complete")
  <2>1. PassRepairsUntouched'
    <3> SUFFICES ASSUME NEW k \in TupleKeys \ touched
                 PROVE  /\ k.relation \in {"org", "member"} => (k \in tuples' <=> Supported(k))
                        /\ k.relation = "admin" /\ k \in tuples' => Supported(k) /\ Exists(k)
                        /\ k.relation = "member" /\ Supported(k) => Exists(k)
      BY <1>2 DEF PassRepairsUntouched, historyVars
    <3> QED
      BY <1>1, <1>7, SweepFinds
  <2>2. rpc' = "complete" /\ admins' = {} /\ stale' = {} /\ UNCHANGED historyVars
    BY <1>7 DEF EndPass
  <2> QED
    BY <1>1, <1>5, <2>1, <2>2 DEF PassIInv, ScanLabels, historyVars
<1> QED
  BY <1>6, <1>7 DEF Sweep, Write, Written

LEMMA ReadFailureKeeps ==
  ASSUME PassIInv, SystemIInv', ForeignKey', UNCHANGED historyVars, ReadFails
  PROVE  PassIInv'
<1>1. Abort /\ UNCHANGED <<storeVars, tuples, identities>>
  BY DEF ReadFails
<1>2. settled \ touched \subseteq Right'
  BY <1>1, SupportStays, ExistenceStays DEF PassIInv, Right
<1> QED
  BY <1>1, <1>2, AbortKeeps

-----------------------------------------------------------------------------
(* The specification.                                                      *)
LEMMA PassInvInit == PassInit => PassIInv
<1> SUFFICES ASSUME PassInit PROVE PassIInv
  OBVIOUS
<1>1. \A g \in Groups, m \in Identities : MemberKey(g, m) \in TupleKeys
  BY DEF TupleKeys
<1>2. \A k \in TupleKeys : k.relation = "member" => k \in admitted
  BY KeyShape DEF PassInit, TupleKeys, GroupKeys, OrgKey, AdminKey
<1>3. memberships \subseteq Row /\ \A r \in memberships : r.group \in groups /\ r.id \notin Calls
  BY DEF PassInit, Row
<1>4. ServiceTypeOK /\ ReconcilerTypeOK
  BY <1>1, <1>3, MaxFaultsAssumption
     DEF PassInit, ServiceTypeOK, WorldTypeOK, StoreTypeOK, Labels, ReconcilerInit,
         ReconcilerTypeOK, RLabels
<1>5. EventsAreTrue /\ GroupsAreFresh /\ RowsAreFresh
  BY <1>3 DEF PassInit, EventsAreTrue, GroupsAreFresh, RowsAreFresh
<1>6. GrantsWereValidated
  <2>1. \A r \in memberships : KeyOf(r) \in admitted
    BY <1>3 DEF PassInit, Row, KeyOf
  <2>2. added = {} /\ tuples \subseteq TupleKeys
    BY DEF PassInit
  <2> QED
    BY <1>2, <2>1, <2>2 DEF GrantsWereValidated
<1>7. \A c \in Calls : CallIsSound(c)
  BY DEF PassInit, CallIsSound
<1>8. PassIsSound
  BY DEF PassInit, ReconcilerInit, PassIsSound, Held
<1>9. SystemIInv /\ ForeignKey
  BY <1>3, <1>4, <1>5, <1>6, <1>7, <1>8 DEF SystemIInv, SystemTypeOK, IInv, ForeignKey
<1> QED
  BY <1>9 DEF PassInit, ReconcilerInit, PassIInv, PassRepairsUntouched, ScanLabels

LEMMA PassInvStep == PassIInv /\ [PassNext]_<<systemVars, historyVars>> => PassIInv'
<1> SUFFICES ASSUME PassIInv, [PassNext]_<<systemVars, historyVars>> PROVE PassIInv'
  OBVIOUS
<1>1. SystemIInv /\ ForeignKey
  BY DEF PassIInv
<1>2. SystemIInv'
  <2>1. [SystemNext]_systemVars
    BY DEF PassNext, SystemNext
  <2> QED
    BY <1>1, <2>1, SystemInvStep
<1>3. CASE \E c \in Calls : SystemCall(c) /\ Touching
  BY <1>1, <1>2, <1>3, CallKeepsForeignKey, OthersKeep DEF SystemCall
<1>4. CASE \E i \in Identities : SystemIdentity(i) /\ Touching
  <2>1. UNCHANGED <<groups, memberships, reconcilerVars>> /\ Touching
    BY <1>4 DEF SystemIdentity, RemoveIdentity, IdentityRemoved
  <2> QED
    BY <1>1, <1>2, <2>1, ForeignKeyStays, OthersKeep
<1>5. CASE (SystemPanic \/ SystemCrash) /\ UNCHANGED historyVars
  <2>1. Abort /\ UNCHANGED <<storeVars, tuples, identities>>
    BY <1>5 DEF SystemPanic, SystemCrash, Panic, Crash, worldVars, storeVars
  <2>2. ForeignKey'
    BY <1>1, <2>1, ForeignKeyStays DEF storeVars
  <2>3. settled \ touched \subseteq Right'
    BY <2>1, SupportStays, ExistenceStays DEF PassIInv, Right
  <2> QED
    BY <1>2, <1>5, <2>1, <2>2, <2>3, AbortKeeps
<1>6. CASE /\ SystemPass
           /\ IF rpc \in {"idle", "complete"}
              THEN touched' = {} /\ settled' = Right
              ELSE UNCHANGED historyVars
  <2>1. PassStep
    BY <1>6 DEF SystemPass
  <2>2. ForeignKey'
    BY <1>1, <2>1, PassKeepsForeignKey
  <2>3. CASE ListGroups
    BY <1>2, <1>6, <2>2, <2>3, ListGroupsKeeps DEF ListGroups
  <2>4. CASE ListMemberships
    BY <1>2, <1>6, <2>2, <2>4, ListMembershipsKeeps DEF ListMemberships
  <2>5. CASE GroupLoop
    <3>1. rpc \in GroupLabels
      BY <2>5 DEF GroupLoop, NextGroup, EnsureOrg, ReadAdmins, CheckAdmin, GroupDone,
                  GroupsDone, GroupLabels
    <3>2. UNCHANGED historyVars
      BY <1>6, <3>1 DEF GroupLabels
    <3> QED
      BY <1>2, <2>2, <2>5, <3>2, NextGroupKeeps, EnsureOrgKeeps, AdminsKeep DEF GroupLoop
  <2>6. CASE RowLoop
    <3>1. rpc \in RowLabels
      BY <2>6 DEF RowLoop, NextRow, ReadRowTuple, EnsureRowTuple, DeleteOrphan,
                  ReadOrphanTuple, DeleteOrphanTuple, PublishOrphan, RowsDone, RowLabels
    <3>2. UNCHANGED historyVars
      BY <1>6, <3>1 DEF RowLabels
    <3> QED
      BY <1>2, <2>2, <2>6, <3>2, RowReadsKeepRight, EnsureRowKeeps, DeleteOrphanKeepsRight,
         DeleteOrphanTupleKeeps, RowsDoneKeeps DEF RowLoop
  <2>7. CASE Cleanup
    <3>1. rpc \in ScanLabels
      BY <2>7 DEF Cleanup, ScanPage, Sweep, ScanLabels
    <3>2. UNCHANGED historyVars
      BY <1>6, <3>1 DEF ScanLabels
    <3> QED
      BY <1>2, <2>2, <2>7, <3>2, ScanPageKeeps, SweepKeeps DEF Cleanup
  <2>8. CASE ReadFails
    BY <1>2, <1>6, <2>2, <2>8, ReadFailureKeeps DEF ReadFails
  <2> QED
    BY <2>1, <2>3, <2>4, <2>5, <2>6, <2>7, <2>8 DEF PassStep
<1>7. CASE UNCHANGED <<systemVars, historyVars>>
  <2>1. UNCHANGED <<reconcilerVars, groups, memberships, tuples, identities, touched, settled>>
    BY <1>7 DEF systemVars, serviceVars, worldVars, historyVars
  <2>2. \A k : Status(k)' = Status(k)
    BY <2>1 DEF Status, Supported, Expected, RowsOf, Exists
  <2>3. Touching
    BY <2>1, <2>2 DEF Touching
  <2> QED
    BY <1>1, <1>2, <2>1, <2>3, ForeignKeyStays, OthersKeep
<1> QED
  BY <1>3, <1>4, <1>5, <1>6, <1>7 DEF PassNext

(* How far a pass of reconciliation.go has come with every tuple that      *)
(* nothing else touches: it holds from any drift of the two stores on.     *)
THEOREM PassInvariance == PassSpec => []PassIInv
BY PassInvInit, PassInvStep, PTL DEF PassSpec

(* A pass of Reconcile that completes has repaired every organization,     *)
(* admin and member tuple that nothing else changed since it began.        *)
THEOREM PassRepairs == PassSpec => []PassRepairsUntouched
<1>1. PassIInv => PassRepairsUntouched
  BY DEF PassIInv
<1> QED
  BY <1>1, PassInvariance, PTL

(* No step of Reconcile takes away a tuple that was right when the pass    *)
(* began and that nothing else changed since.                              *)
THEOREM PassSpares == PassSpec => []SettledTuplesSurvive
<1>1. PassIInv => SettledTuplesSurvive
  BY DEF PassIInv, SettledTuplesSurvive, Right
<1> QED
  BY <1>1, PassInvariance, PTL

-----------------------------------------------------------------------------
(***************************************************************************)
(* RollingUpdate: who removes a row.                                       *)
(***************************************************************************)
(* The second reconciler takes rows as the first does (PassRemoves).       *)
LEMMA OtherPassRemoves ==
  ASSUME Other!PassStep
  PROVE  /\ memberships' \subseteq memberships
         /\ Handling(rpc2') => \/ Handling(rpc2) /\ curRow2' = curRow2
                               \/ curRow2' \in memberships /\ curRow2' \notin memberships'
<1> USE DEF Handling
<1>1. CASE Other!ListGroups \/ Other!ListMemberships \/ Other!GroupLoop
           \/ Other!Cleanup \/ Other!ReadFails
  BY <1>1
     DEF Other!ListGroups, Other!ListMemberships, Other!GroupLoop, Other!NextGroup,
         Other!EnsureOrg, Other!ReadAdmins, Other!CheckAdmin, Other!GroupDone,
         Other!GroupsDone, Other!Cleanup, Other!ScanPage, Other!Sweep, Other!ReadFails,
         Other!Abort, Other!EndPass, Other!worldVars, Other!storeVars, worldVars, storeVars
<1>2. CASE Other!DeleteOrphan
  <2>1. RowsFor(curRow2.group, curRow2.member) \subseteq memberships
    BY DEF RowsFor, RowsOf
  <2> QED
    BY <1>2, <2>1
       DEF Other!DeleteOrphan, Other!Execute, Other!ExecuteFails, Other!Abort, Other!EndPass,
           Other!storeVars, Other!RowsFor, Other!RowsOf, RowsFor, RowsOf
<1>3. CASE Other!RowLoop /\ ~Other!DeleteOrphan
  BY <1>3
     DEF Other!RowLoop, Other!NextRow, Other!ReadRowTuple, Other!EnsureRowTuple,
         Other!ReadOrphanTuple, Other!DeleteOrphanTuple, Other!PublishOrphan,
         Other!RowsDone, Other!Abort, Other!EndPass, Other!worldVars, Other!storeVars,
         Other!passVars
<1> QED
  BY <1>1, <1>2, <1>3 DEF Other!PassStep

(* What is gone stays gone, whoever takes a step. *)
LEMMA GoneStays ==
  ASSUME NEW r, GoneForGood(r), \A d \in Calls : Unborn(d)' => Unborn(d),
         \/ memberships' \subseteq memberships
         \/ \E c \in Calls : Unborn(c) /\ memberships' \subseteq memberships \cup {NewRow(c)}
  PROVE  GoneForGood(r)'
BY DEF GoneForGood, NewRow

(* Nobody else holds a row just taken. *)
LEMMA TakenIsGone ==
  ASSUME RemoverIInv, \A d \in Calls : Unborn(d)' => Unborn(d), NEW r, Taken({r})
  PROVE  /\ GoneForGood(r)'
         /\ Handling(rpc) => r # curRow
         /\ Handling(rpc2) => r # curRow2
         /\ \A c \in Calls : Removing(c) => r \notin seen[c]
BY DEF RemoverIInv, GoneForGood, Taken

LEMMA RemoverCall ==
  ASSUME RemoverIInv, NEW c \in Calls, CallStep(c),
         UNCHANGED <<rpc, curRow, rpc2, curRow2>>
  PROVE  RemoverIInv'
<1>1. /\ pc' \in [Calls -> Labels] /\ DOMAIN seen' = Calls
      /\ \A d \in Calls \ {c} : pc'[d] = pc[d] /\ seen'[d] = seen[d]
      /\ Removing(c)' => \/ Removing(c) /\ seen'[c] = seen[c]
                         \/ Taken(seen'[c])
  BY CallRemoves DEF RemoverIInv, Taken
<1>2. /\ \A d \in Calls : Unborn(d)' => Unborn(d)
      /\ \/ memberships' \subseteq memberships
         \/ /\ Unborn(c) /\ ~Unborn(c)'
            /\ memberships' \subseteq memberships \cup {NewRow(c)}
  BY CallEffect DEF RemoverIInv
<1>3. \A r : GoneForGood(r) => GoneForGood(r)'
  BY <1>2, GoneStays
<1>4. \A r \in memberships' : \A d \in Calls : Unborn(d)' => r.id # d
  BY <1>2 DEF RemoverIInv, NewRow
<1>5. ASSUME NEW d \in Calls, Removing(d)'
      PROVE  \A r \in seen'[d] : /\ GoneForGood(r)'
                                 /\ Handling(rpc) => r # curRow
                                 /\ Handling(rpc2) => r # curRow2
  <2>1. CASE Removing(d) /\ seen'[d] = seen[d]
    BY <1>3, <2>1 DEF RemoverIInv, OneRemover
  <2>2. CASE Taken(seen'[d])
    <3>1. \A r \in seen'[d] : Taken({r})
      BY <2>2 DEF Taken
    <3> QED
      BY <1>2, <3>1, TakenIsGone
  <2> QED
    BY <1>1, <1>5, <2>1, <2>2 DEF Removing
<1> QED
  BY <1>1, <1>3, <1>4, <1>5 DEF RemoverIInv, OneRemover

LEMMA RemoverWorld ==
  ASSUME RemoverIInv, memberships' \subseteq memberships, UNCHANGED callVars,
         \A c \in Calls : pc'[c] = pc[c] \/ pc'[c] = "failed",
         pc' \in [Calls -> Labels],
         Handling(rpc') => \/ Handling(rpc) /\ curRow' = curRow
                           \/ Taken({curRow'}) /\ UNCHANGED <<rpc2, curRow2>>,
         Handling(rpc2') => \/ Handling(rpc2) /\ curRow2' = curRow2
                            \/ Taken({curRow2'}) /\ UNCHANGED <<rpc, curRow>>
  PROVE  RemoverIInv'
<1>1. /\ \A d \in Calls : Unborn(d)' => Unborn(d)
      /\ \A d \in Calls : Removing(d)' => Removing(d) /\ seen'[d] = seen[d]
      /\ DOMAIN seen' = Calls
  BY DEF Unborn, Removing, callVars, RemoverIInv
<1>2. \A r : GoneForGood(r) => GoneForGood(r)'
  BY <1>1, GoneStays
<1>3. /\ Handling(rpc') => GoneForGood(curRow)'
      /\ Handling(rpc2') => GoneForGood(curRow2)'
  BY <1>1, <1>2, TakenIsGone DEF RemoverIInv, GoneForGood
<1>4. OneRemover'
  BY <1>1, TakenIsGone DEF RemoverIInv, OneRemover
<1> QED
  BY <1>1, <1>2, <1>3, <1>4 DEF RemoverIInv

LEMMA RemoverInit == UpdateInit => RemoverIInv
BY DEF UpdateInit, RemoverIInv, OneRemover, Handling, Removing, Labels, Done

LEMMA RemoverKeeps == RemoverIInv /\ [UpdateNext]_updateVars => RemoverIInv'
<1> SUFFICES ASSUME RemoverIInv, [UpdateNext]_updateVars PROVE RemoverIInv'
  OBVIOUS
<1> USE DEF Taken
<1>0. /\ pc \in [Calls -> Labels]
      /\ SomeDie => /\ pc' \in [Calls -> Labels]
                    /\ \A c \in Calls : pc'[c] = pc[c] \/ pc'[c] = "failed"
  BY DEF RemoverIInv, SomeDie, KillCalls, Labels, Done
<1>1. CASE (\E c \in Calls : SystemCall(c)) /\ UNCHANGED <<rpc2, passVars2>>
  BY <1>1, RemoverCall DEF SystemCall, reconcilerVars, passVars, passVars2
<1>2. CASE SystemPass /\ UNCHANGED <<rpc2, passVars2>>
  BY <1>0, <1>2, PassRemoves, RemoverWorld DEF SystemPass, passVars2
<1>3. CASE Panic /\ SomeDie /\ UNCHANGED <<callVars, rpc2, passVars2>>
  BY <1>0, <1>3, RemoverWorld
     DEF Panic, Abort, EndPass, Handling, worldVars, storeVars, passVars2
<1>4. CASE (\E i \in Identities : SystemIdentity(i)) /\ UNCHANGED <<rpc2, passVars2>>
  BY <1>0, <1>4, RemoverWorld
     DEF SystemIdentity, RemoveIdentity, IdentityRemoved, storeVars, reconcilerVars,
         passVars, passVars2
<1>5. CASE OtherPass
  BY <1>0, <1>5, OtherPassRemoves, RemoverWorld DEF OtherPass, reconcilerVars, passVars
<1>6. CASE OtherPanic \/ OtherStops
  BY <1>0, <1>6, RemoverWorld
     DEF OtherPanic, OtherStops, Other!Panic, Other!Abort, Other!EndPass, Handling,
         Other!worldVars, Other!storeVars, worldVars, storeVars, reconcilerVars, passVars
<1>7. CASE UNCHANGED updateVars
  BY <1>0, <1>7, RemoverWorld
     DEF updateVars, systemVars, serviceVars, worldVars, storeVars, reconcilerVars,
         passVars, passVars2
<1> QED
  BY <1>1, <1>2, <1>3, <1>4, <1>5, <1>6, <1>7 DEF UpdateNext

(* Two reconcilers and any requests beside each other: what one has taken  *)
(* from the table is gone for good (OneRemover's inductive invariant).     *)
THEOREM RemoverInvariance == FairUpdateSpec => []RemoverIInv
BY RemoverInit, RemoverKeeps, PTL DEF FairUpdateSpec

(* No row is handled as an orphan by both reconcilers of a rolling update, *)
(* nor announced by RemoveMember as well as by a reconciler.               *)
THEOREM OneRemoverOnly == FairUpdateSpec => []OneRemover
<1>1. RemoverIInv => OneRemover
  BY DEF RemoverIInv
<1> QED
  BY <1>1, RemoverInvariance, PTL
==============================================================================
