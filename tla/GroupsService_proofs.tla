------------------------ MODULE GroupsService_proofs ------------------------
(***************************************************************************)
(* Proofs about GroupsService: its type invariant, and EventsAreTrue and   *)
(* GrantsWereValidated through the inductive invariant IInv.               *)
(***************************************************************************)
EXTENDS GroupsService, TLAPS

-----------------------------------------------------------------------------
(* The tuples a handler writes are tuples of the model. *)
LEMMA KeyTypes ==
  /\ \A g \in Groups : /\ GroupKeys(g) \subseteq TupleKeys
                       /\ OrgKey(g) \in TupleKeys
  /\ \A g \in Groups, m \in Identities : MemberKey(g, m) \in TupleKeys
BY DEF TupleKeys, GroupKeys

(* A member tuple is never one of a group's own tuples. *)
LEMMA KeyKinds ==
  /\ \A g \in Groups : \A k \in GroupKeys(g) : k.relation # "member"
  /\ \A g, m : MemberKey(g, m).relation = "member"
BY DEF GroupKeys, OrgKey, AdminKey, MemberKey

(* A request's group, member and new row. *)
LEMMA RequestTypes ==
  ASSUME ServiceTypeOK, NEW c \in Calls
  PROVE  G(c) \in Groups /\ M(c) \in Identities /\ NewRow(c) \in Row
BY CallsAssumption DEF ServiceTypeOK, Request, G, M, NewRow, Row

-----------------------------------------------------------------------------
(* What the building blocks of the handlers do to the types. *)
LEMMA ExecuteTypes ==
  ASSUME WorldTypeOK, NEW gs \in SUBSET Groups, NEW ms \in SUBSET Row,
         Execute(gs, ms) \/ ExecuteFails(gs, ms)
  PROVE  StoreTypeOK' /\ faults' \in 0..MaxFaults
BY MaxFaultsAssumption
   DEF WorldTypeOK, StoreTypeOK, Execute, ExecuteFails, Fault, storeVars

LEMMA WriteTypes ==
  ASSUME WorldTypeOK, NEW w \in SUBSET TupleKeys, NEW d,
         Write(w, d) \/ WriteFails(w, d)
  PROVE  tuples' \subseteq TupleKeys /\ faults' \in 0..MaxFaults
BY MaxFaultsAssumption DEF WorldTypeOK, Write, WriteFails, Written, Fault

LEMMA GotoTypes ==
  ASSUME pc \in [Calls -> Labels], NEW c \in Calls, NEW l \in Labels, Goto(c, l)
  PROVE  pc' \in [Calls -> Labels]
BY DEF Goto

-----------------------------------------------------------------------------
(* Type correctness.                                                       *)
LEMMA TypeInit == ServiceInit => ServiceTypeOK
<1> SUFFICES ASSUME ServiceInit PROVE ServiceTypeOK
  OBVIOUS
<1>1. StoreTypeOK
  BY DEF ServiceInit, StoreTypeOK, Row
<1>2. \A g \in groups : Expected(g) \subseteq TupleKeys
  <2> SUFFICES ASSUME NEW g \in groups PROVE Expected(g) \subseteq TupleKeys
    OBVIOUS
  <2>1. GroupKeys(g) \subseteq TupleKeys
    BY KeyTypes, <1>1 DEF StoreTypeOK
  <2>2. \A r \in RowsOf(g) : KeyOf(r) \in TupleKeys
    BY KeyTypes, <1>1 DEF StoreTypeOK, RowsOf, KeyOf, Row
  <2> QED
    BY <2>1, <2>2 DEF Expected
<1>3. admitted \subseteq TupleKeys
  BY KeyTypes, <1>1 DEF ServiceInit, StoreTypeOK, Row, KeyOf
<1>4. tuples \subseteq TupleKeys
  BY <1>2 DEF ServiceInit
<1> QED
  BY <1>1, <1>3, <1>4, MaxFaultsAssumption
     DEF ServiceInit, ServiceTypeOK, WorldTypeOK, StoreTypeOK, Labels, Done

LEMMA AddMemberTypes ==
  ASSUME ServiceTypeOK, NEW c \in Calls, AddMember(c)
  PROVE  ServiceTypeOK'
<1> USE DEF ServiceTypeOK
<1>0. G(c) \in Groups /\ M(c) \in Identities /\ NewRow(c) \in Row
       /\ MemberKey(G(c), M(c)) \in TupleKeys
  BY RequestTypes, KeyTypes
<1>1. CASE AddGetGroup(c)
  BY <1>1 DEF AddGetGroup, worldVars, callVars, WorldTypeOK, StoreTypeOK, Goto, Labels, Done
<1>2. CASE AddValidate(c)
  BY <1>0, <1>2 DEF AddValidate, worldVars, WorldTypeOK, StoreTypeOK, Goto, Labels, Done
<1>3. CASE AddInsert(c)
  <2>1. StoreTypeOK' /\ faults' \in 0..MaxFaults
    <3>1. memberships \cup {NewRow(c)} \in SUBSET Row /\ groups \in SUBSET Groups
      BY <1>0 DEF WorldTypeOK, StoreTypeOK
    <3>2. CASE UNCHANGED <<storeVars, faults>>
      BY <3>2 DEF WorldTypeOK, StoreTypeOK, storeVars
    <3>3. CASE Execute(groups, memberships \cup {NewRow(c)})
                 \/ ExecuteFails(groups, memberships \cup {NewRow(c)})
      BY <3>1, <3>3, ExecuteTypes
    <3> QED
      BY <1>3, <3>2, <3>3 DEF AddInsert
  <2>2. pc' \in [Calls -> Labels]
    BY <1>3 DEF AddInsert, Goto, Labels, Done
  <2> QED
    BY <1>3, <2>1, <2>2 DEF AddInsert, WorldTypeOK, callVars, eventVars
<1>4. CASE AddReadback(c)
  BY <1>4 DEF AddReadback, worldVars, callVars, WorldTypeOK, StoreTypeOK, Goto, Labels, Done
<1>5. CASE AddWriteTuple(c)
  <2>1. tuples' \subseteq TupleKeys /\ faults' \in 0..MaxFaults
    BY <1>0, <1>5, WriteTypes DEF AddWriteTuple
  <2>2. pc' \in [Calls -> Labels]
    BY <1>5 DEF AddWriteTuple, Goto, Labels
  <2> QED
    BY <1>5, <2>1, <2>2
       DEF AddWriteTuple, WorldTypeOK, StoreTypeOK, storeVars, callVars, eventVars
<1>6. CASE AddRollback(c)
  <2>1. StoreTypeOK' /\ faults' \in 0..MaxFaults
    <3>1. memberships \ RowsFor(G(c), M(c)) \in SUBSET Row /\ groups \in SUBSET Groups
      BY DEF WorldTypeOK, StoreTypeOK
    <3> QED
      BY <3>1, <1>6, ExecuteTypes DEF AddRollback
  <2>2. pc' \in [Calls -> Labels]
    BY <1>6 DEF AddRollback, Goto, Labels, Done
  <2> QED
    BY <1>6, <2>1, <2>2 DEF AddRollback, WorldTypeOK, callVars, eventVars
<1>7. CASE AddPublish(c)
  <2>1. pc' \in [Calls -> Labels]
    BY <1>7 DEF AddPublish, Goto, Labels, Done
  <2> QED
    BY <1>0, <1>7, <2>1 DEF AddPublish, PublishAdded, WorldTypeOK, StoreTypeOK, storeVars, callVars
<1> QED
  BY <1>1, <1>2, <1>3, <1>4, <1>5, <1>6, <1>7 DEF AddMember

LEMMA RemoveMemberTypes ==
  ASSUME ServiceTypeOK, NEW c \in Calls, RemoveMember(c)
  PROVE  ServiceTypeOK'
<1> USE DEF ServiceTypeOK
<1>0. MemberKey(G(c), M(c)) \in TupleKeys
  BY RequestTypes, KeyTypes
<1>1. CASE RemoveGetGroup(c)
  BY <1>1 DEF RemoveGetGroup, worldVars, callVars, WorldTypeOK, StoreTypeOK, Goto, Labels, Done
<1>2. CASE RemoveLookup(c)
  BY <1>2 DEF RemoveLookup, worldVars, callVars, WorldTypeOK, StoreTypeOK, Goto, Labels, Done
<1>3. CASE RemoveDelete(c)
  <2> DEFINE rows == RowsFor(G(c), M(c))
  <2>0. /\ rows \in SUBSET Row /\ groups \in SUBSET Groups
        /\ memberships \ rows \in SUBSET Row
    BY DEF WorldTypeOK, StoreTypeOK, RowsFor, RowsOf
  <2>1. StoreTypeOK' /\ faults' \in 0..MaxFaults
    <3>1. CASE UNCHANGED <<storeVars, faults>>
      BY <3>1 DEF WorldTypeOK, StoreTypeOK, storeVars
    <3>2. CASE Execute(groups, memberships \ rows) \/ ExecuteFails(groups, memberships \ rows)
      BY <2>0, <3>2, ExecuteTypes
    <3> QED
      BY <1>3, <3>1, <3>2 DEF RemoveDelete
  <2>2. pc' \in [Calls -> Labels]
    BY <1>3 DEF RemoveDelete, Goto, Labels, Done
  <2>3. seen' \in [Calls -> SUBSET Row]
    BY <1>3, <2>0 DEF RemoveDelete
  <2> QED
    BY <1>3, <2>1, <2>2, <2>3 DEF RemoveDelete, WorldTypeOK, eventVars
<1>4. CASE RemoveTuple(c)
  <2>1. tuples' \subseteq TupleKeys /\ faults' \in 0..MaxFaults
    BY <1>0, <1>4, WriteTypes DEF RemoveTuple
  <2>2. pc' \in [Calls -> Labels]
    BY <1>4 DEF RemoveTuple, Goto, Labels, Done
  <2> QED
    BY <1>4, <2>1, <2>2
       DEF RemoveTuple, WorldTypeOK, StoreTypeOK, storeVars, callVars, eventVars
<1>5. CASE RemovePublish(c)
  <2>1. pc' \in [Calls -> Labels]
    BY <1>5 DEF RemovePublish, Goto, Labels, Done
  <2> QED
    BY <1>5, <2>1
       DEF RemovePublish, PublishRemoved, WorldTypeOK, StoreTypeOK, storeVars, callVars
<1> QED
  BY <1>1, <1>2, <1>3, <1>4, <1>5 DEF RemoveMember

LEMMA CreateGroupTypes ==
  ASSUME ServiceTypeOK, NEW c \in Calls, CreateGroup(c)
  PROVE  ServiceTypeOK'
<1> USE DEF ServiceTypeOK
<1>0. G(c) \in Groups /\ GroupKeys(G(c)) \in SUBSET TupleKeys
  BY RequestTypes, KeyTypes
<1>1. CASE CreateInsert(c)
  <2>1. StoreTypeOK' /\ faults' \in 0..MaxFaults
    <3>1. groups \cup {G(c)} \in SUBSET Groups /\ memberships \in SUBSET Row
      BY <1>0 DEF WorldTypeOK, StoreTypeOK
    <3>2. CASE UNCHANGED <<storeVars, faults>>
      BY <3>2 DEF WorldTypeOK, StoreTypeOK, storeVars
    <3>3. CASE Execute(groups \cup {G(c)}, memberships)
                 \/ ExecuteFails(groups \cup {G(c)}, memberships)
      BY <3>1, <3>3, ExecuteTypes
    <3> QED
      BY <1>1, <3>2, <3>3 DEF CreateInsert
  <2>2. pc' \in [Calls -> Labels] /\ issued' \subseteq Groups
    BY <1>0, <1>1 DEF CreateInsert, Goto, Labels, Done
  <2> QED
    BY <1>1, <2>1, <2>2 DEF CreateInsert, WorldTypeOK, eventVars
<1>2. CASE CreateTuples(c)
  <2>1. tuples' \subseteq TupleKeys /\ faults' \in 0..MaxFaults
    BY <1>0, <1>2, WriteTypes DEF CreateTuples
  <2>2. pc' \in [Calls -> Labels]
    BY <1>2 DEF CreateTuples, Goto, Labels, Done
  <2> QED
    BY <1>2, <2>1, <2>2
       DEF CreateTuples, WorldTypeOK, StoreTypeOK, storeVars, callVars, eventVars
<1>3. CASE CreateRollback(c)
  <2>1. StoreTypeOK' /\ faults' \in 0..MaxFaults
    <3>1. groups \ {G(c)} \in SUBSET Groups /\ memberships \ RowsOf(G(c)) \in SUBSET Row
      BY DEF WorldTypeOK, StoreTypeOK
    <3> QED
      BY <3>1, <1>3, ExecuteTypes DEF CreateRollback
  <2>2. pc' \in [Calls -> Labels]
    BY <1>3 DEF CreateRollback, Goto, Labels, Done
  <2> QED
    BY <1>3, <2>1, <2>2 DEF CreateRollback, WorldTypeOK, callVars, eventVars
<1> QED
  BY <1>1, <1>2, <1>3 DEF CreateGroup

LEMMA DeleteGroupTypes ==
  ASSUME ServiceTypeOK, NEW c \in Calls, DeleteGroup(c)
  PROVE  ServiceTypeOK'
<1> USE DEF ServiceTypeOK
<1>0. G(c) \in Groups /\ OrgKey(G(c)) \in TupleKeys
  BY RequestTypes, KeyTypes
<1>1. CASE DeleteGetGroup(c)
  BY <1>1 DEF DeleteGetGroup, worldVars, callVars, WorldTypeOK, StoreTypeOK, Goto, Labels, Done
<1>2. CASE DeleteListAdmins(c)
  <2>1. {OrgKey(G(c))} \cup AdminsOf(G(c)) \in SUBSET TupleKeys
    BY <1>0 DEF AdminsOf, KeysOn, WorldTypeOK
  <2>2. doomed' \in [Calls -> SUBSET TupleKeys] /\ pc' \in [Calls -> Labels]
    BY <1>2, <2>1 DEF DeleteListAdmins, Goto, Labels, Done
  <2> QED
    BY <1>2, <2>2 DEF DeleteListAdmins, worldVars, WorldTypeOK, StoreTypeOK
<1>3. CASE DeleteListMembers(c)
  <2>1. \A r \in RowsOf(G(c)) : KeyOf(r) \in TupleKeys
    BY KeyTypes DEF RowsOf, KeyOf, Row, WorldTypeOK, StoreTypeOK
  <2>2. doomed' \in [Calls -> SUBSET TupleKeys] /\ pc' \in [Calls -> Labels]
    BY <1>3, <2>1 DEF DeleteListMembers, Goto, Labels, Done
  <2> QED
    BY <1>3, <2>2 DEF DeleteListMembers, worldVars, WorldTypeOK, StoreTypeOK
<1>4. CASE DeleteTuples(c)
  <2>1. tuples' \subseteq TupleKeys /\ faults' \in 0..MaxFaults
    BY <1>4, WriteTypes DEF DeleteTuples
  <2>2. pc' \in [Calls -> Labels]
    BY <1>4 DEF DeleteTuples, Goto, Labels, Done
  <2> QED
    BY <1>4, <2>1, <2>2
       DEF DeleteTuples, WorldTypeOK, StoreTypeOK, storeVars, callVars, eventVars
<1>5. CASE DeleteSelectGroup(c)
  BY <1>5 DEF DeleteSelectGroup, worldVars, callVars, WorldTypeOK, StoreTypeOK, Goto, Labels, Done
<1>6. CASE DeleteSelectRows(c)
  <2>1. RowsOf(G(c)) \in SUBSET Row
    BY DEF RowsOf, WorldTypeOK, StoreTypeOK
  <2>2. seen' \in [Calls -> SUBSET Row] /\ pc' \in [Calls -> Labels]
    BY <1>6, <2>1 DEF DeleteSelectRows, Goto, Labels, Done
  <2> QED
    BY <1>6, <2>2 DEF DeleteSelectRows, worldVars, WorldTypeOK, StoreTypeOK
<1>7. CASE DeleteCommit(c)
  <2>1. StoreTypeOK' /\ faults' \in 0..MaxFaults
    <3>1. groups \ {G(c)} \in SUBSET Groups /\ memberships \ RowsOf(G(c)) \in SUBSET Row
      BY DEF WorldTypeOK, StoreTypeOK
    <3> QED
      BY <3>1, <1>7, ExecuteTypes DEF DeleteCommit
  <2>2. pc' \in [Calls -> Labels]
    BY <1>7 DEF DeleteCommit, Goto, Labels, Done
  <2> QED
    BY <1>7, <2>1, <2>2 DEF DeleteCommit, WorldTypeOK, callVars, eventVars
<1>8. CASE DeletePublish(c)
  <2>1. pc' \in [Calls -> Labels] /\ seen' \in [Calls -> SUBSET Row]
    BY <1>8 DEF DeletePublish, Goto, Labels, Done
  <2>2. /\ removed' \subseteq Row /\ added' \subseteq Row
        /\ deletedGroups' \subseteq Groups
    BY <1>0, <1>8
       DEF DeletePublish, PublishRemoved, PublishGroupDeleted, WorldTypeOK
  <2> QED
    BY <1>8, <2>1, <2>2 DEF DeletePublish, WorldTypeOK, StoreTypeOK, storeVars
<1> QED
  BY <1>1, <1>2, <1>3, <1>4, <1>5, <1>6, <1>7, <1>8 DEF DeleteGroup

(* No step breaks the types. *)
LEMMA TypeStep == ServiceTypeOK /\ [Next]_serviceVars => ServiceTypeOK'
<1> SUFFICES ASSUME ServiceTypeOK, [Next]_serviceVars PROVE ServiceTypeOK'
  OBVIOUS
<1>1. CASE \E c \in Calls : CallStep(c)
  BY <1>1, AddMemberTypes, RemoveMemberTypes, CreateGroupTypes, DeleteGroupTypes
     DEF CallStep
<1>2. CASE Crash
  BY <1>2, MaxFaultsAssumption
     DEF Crash, KillCalls, Fault, storeVars, eventVars, callVars,
         ServiceTypeOK, WorldTypeOK, StoreTypeOK, Labels, Done
<1>3. CASE \E i \in Identities : RemoveIdentity(i)
  BY <1>3 DEF RemoveIdentity, IdentityRemoved, callVars,
              ServiceTypeOK, WorldTypeOK, StoreTypeOK
<1>4. CASE UNCHANGED serviceVars
  BY <1>4 DEF serviceVars, worldVars, callVars,
              ServiceTypeOK, WorldTypeOK, StoreTypeOK
<1> QED
  BY <1>1, <1>2, <1>3, <1>4 DEF Next

(* Every reachable state is type-correct, for any sets of groups,          *)
(* identities and requests and any number of faults.                       *)
THEOREM TypeCorrect == Spec => []ServiceTypeOK
BY TypeInit, TypeStep, PTL DEF Spec

-----------------------------------------------------------------------------
(* The inductive invariant.                                                *)
LEMMA InvInit == ServiceInit => IInv
<1> SUFFICES ASSUME ServiceInit PROVE IInv
  OBVIOUS
<1>1. ServiceTypeOK
  BY TypeInit
<1>2. EventsAreTrue /\ GroupsAreFresh
  BY DEF ServiceInit, EventsAreTrue, GroupsAreFresh
<1>3. GrantsWereValidated
  <2>1. \A g \in groups : \A k \in Expected(g) :
          k.relation = "member" => \E r \in memberships : k = KeyOf(r)
    BY <1>1, KeyKinds DEF Expected, RowsOf, ServiceTypeOK, WorldTypeOK, StoreTypeOK
  <2> QED
    BY <2>1 DEF ServiceInit, GrantsWereValidated
<1>4. RowsAreFresh
  BY DEF ServiceInit, RowsAreFresh
<1>5. \A c \in Calls : CallIsSound(c)
  BY DEF ServiceInit, CallIsSound
<1> QED
  BY <1>1, <1>2, <1>3, <1>4, <1>5 DEF IInv

(* Most steps only take from the tables, give the tuple store nothing that *)
(* is not validated, and move one request to a label that asks for little. *)
LEMMA QuietStep ==
  ASSUME IInv, ServiceTypeOK',
         memberships' \subseteq memberships, groups' \subseteq groups,
         UNCHANGED <<eventVars, issued, req>>, admitted \subseteq admitted',
         \A k \in tuples' : k.relation = "member" => k \in tuples \cup admitted,
         \A d \in Calls : seen'[d] \subseteq seen[d] \cup memberships,
         \A d \in Calls : Unborn(d)' => Unborn(d),
         \A d \in Calls : \/ pc'[d] = pc[d] /\ seen'[d] = seen[d]
                          \/ CallIsSound(d)'
  PROVE  IInv'
<1> USE DEF IInv
<1>1. EventsAreTrue' /\ GroupsAreFresh'
  BY DEF eventVars, EventsAreTrue, GroupsAreFresh
<1>2. GrantsWereValidated'
  BY DEF eventVars, GrantsWereValidated
<1>3. RowsAreFresh'
  BY DEF eventVars, RowsAreFresh
<1>4. \A d \in Calls : CallIsSound(d)'
  <2> SUFFICES ASSUME NEW d \in Calls, pc'[d] = pc[d], seen'[d] = seen[d]
               PROVE  CallIsSound(d)'
    OBVIOUS
  <2>1. CallIsSound(d) /\ G(d)' = G(d) /\ M(d)' = M(d)
    BY DEF G, M
  <2> QED
    BY <2>1 DEF CallIsSound
<1> QED
  BY <1>1, <1>2, <1>3, <1>4

(* Writing a request's tuple, or deleting any, adds nothing else. *)
LEMMA WriteEffect ==
  ASSUME NEW w, NEW d, Write(w, d) \/ WriteFails(w, d)
  PROVE  tuples' \subseteq tuples \cup w
BY DEF Write, WriteFails, Written

(* A deletion from the tables takes effect, or not, and adds nothing. *)
LEMMA DeleteEffect ==
  ASSUME NEW gs \in SUBSET groups, NEW ms \in SUBSET memberships,
         Execute(gs, ms) \/ ExecuteFails(gs, ms)
  PROVE  groups' \subseteq groups /\ memberships' \subseteq memberships
BY DEF Execute, ExecuteFails, storeVars

LEMMA AddMemberKeeps ==
  ASSUME IInv, NEW c \in Calls, AddMember(c)
  PROVE  IInv'
<1>0. ServiceTypeOK' /\ pc \in [Calls -> Labels] /\ ServiceTypeOK
  BY AddMemberTypes DEF IInv, ServiceTypeOK
<1>1. CASE AddGetGroup(c) \/ AddReadback(c)
  <2>1. /\ UNCHANGED <<worldVars, callVars>>
        /\ \A d \in Calls \ {c} : pc'[d] = pc[d]
        /\ pc'[c] \in {"add_validate", "ok", "failed"}
        /\ pc'[c] = "add_validate" => Unborn(c)
    BY <1>0, <1>1 DEF AddGetGroup, AddReadback, Goto, Starts, Unborn
  <2> QED
    BY <1>0, <2>1, QuietStep DEF worldVars, callVars, eventVars, Unborn, CallIsSound
<1>2. CASE AddValidate(c)
  <2>1. /\ UNCHANGED <<worldVars, req, seen, issued>>
        /\ admitted \subseteq admitted'
        /\ \A d \in Calls \ {c} : pc'[d] = pc[d]
        /\ Unborn(c)
        /\ \/ pc'[c] = "failed"
           \/ pc'[c] = "add_insert" /\ MemberKey(G(c), M(c)) \in admitted'
    BY <1>0, <1>2 DEF AddValidate, Goto, Unborn
  <2>2. CallIsSound(c)'
    BY <2>1 DEF CallIsSound, G, M
  <2> QED
    BY <1>0, <2>1, <2>2, QuietStep DEF worldVars, eventVars, Unborn
<1>3. CASE AddInsert(c)
  <2>1. /\ UNCHANGED <<tuples, eventVars, callVars>>
        /\ groups' = groups
        /\ memberships' = memberships \/ memberships' = memberships \cup {NewRow(c)}
        /\ \A d \in Calls \ {c} : pc'[d] = pc[d]
        /\ pc'[c] \in {"failed", "add_readback", "add_tuple"}
        /\ Unborn(c) /\ MemberKey(G(c), M(c)) \in admitted
    BY <1>0, <1>3
       DEF IInv, CallIsSound, AddInsert, Execute, ExecuteFails, storeVars, Goto, Unborn
  <2>2. NewRow(c).id = c /\ KeyOf(NewRow(c)) = MemberKey(G(c), M(c))
    BY DEF NewRow, KeyOf
  <2>3. EventsAreTrue' /\ GroupsAreFresh'
    BY <2>1, <2>2 DEF IInv, eventVars, callVars, EventsAreTrue, GroupsAreFresh, RowsAreFresh
  <2>4. GrantsWereValidated'
    BY <2>1, <2>2 DEF IInv, eventVars, callVars, GrantsWereValidated
  <2>5. RowsAreFresh'
    BY <2>1, <2>2 DEF IInv, eventVars, callVars, RowsAreFresh, Unborn
  <2>6. \A d \in Calls : CallIsSound(d)'
    BY <2>1, <2>2 DEF IInv, callVars, CallIsSound, RowsAreFresh, G, M
  <2> QED
    BY <1>0, <2>3, <2>4, <2>5, <2>6 DEF IInv
<1>4. CASE AddWriteTuple(c)
  <2>1. /\ UNCHANGED <<storeVars, eventVars, callVars>>
        /\ tuples' \subseteq tuples \cup {MemberKey(G(c), M(c))}
        /\ MemberKey(G(c), M(c)) \in admitted
        /\ \A d \in Calls \ {c} : pc'[d] = pc[d]
        /\ pc'[c] \in {"add_publish", "add_rollback"}
    BY <1>0, <1>4, WriteEffect DEF IInv, CallIsSound, AddWriteTuple, Goto
  <2>2. CallIsSound(c)' /\ ~Unborn(c)'
    BY <2>1 DEF CallIsSound, Unborn, callVars, G, M
  <2> QED
    BY <1>0, <2>1, <2>2, QuietStep DEF storeVars, eventVars, callVars, Unborn
<1>5. CASE AddRollback(c)
  <2>1. /\ UNCHANGED <<tuples, eventVars, callVars>>
        /\ groups' \subseteq groups /\ memberships' \subseteq memberships
        /\ \A d \in Calls \ {c} : pc'[d] = pc[d]
        /\ pc'[c] = "failed"
    BY <1>0, <1>5, DeleteEffect DEF AddRollback, Goto
  <2> QED
    BY <1>0, <2>1, QuietStep DEF eventVars, callVars, Unborn, CallIsSound
<1>6. CASE AddPublish(c)
  <2>1. /\ UNCHANGED <<storeVars, tuples, callVars, removed, deletedGroups>>
        /\ added' \subseteq added \cup {NewRow(c)}
        /\ MemberKey(G(c), M(c)) \in admitted
        /\ \A d \in Calls \ {c} : pc'[d] = pc[d]
        /\ pc'[c] = "ok"
    BY <1>0, <1>6 DEF IInv, CallIsSound, AddPublish, PublishAdded, Goto
  <2>2. EventsAreTrue' /\ GroupsAreFresh' /\ RowsAreFresh'
    BY <2>1 DEF IInv, storeVars, callVars, EventsAreTrue, GroupsAreFresh, RowsAreFresh, Unborn
  <2>3. GrantsWereValidated'
    BY <2>1 DEF IInv, storeVars, callVars, GrantsWereValidated, NewRow, KeyOf
  <2>4. \A d \in Calls : CallIsSound(d)'
    BY <2>1 DEF IInv, storeVars, callVars, CallIsSound, G, M
  <2> QED
    BY <1>0, <2>2, <2>3, <2>4 DEF IInv
<1> QED
  BY <1>1, <1>2, <1>3, <1>4, <1>5, <1>6 DEF AddMember

LEMMA RemoveMemberKeeps ==
  ASSUME IInv, NEW c \in Calls, RemoveMember(c)
  PROVE  IInv'
<1>0. ServiceTypeOK' /\ ServiceTypeOK /\ pc \in [Calls -> Labels]
       /\ seen \in [Calls -> SUBSET Row]
  BY RemoveMemberTypes DEF IInv, ServiceTypeOK
<1>1. CASE RemoveGetGroup(c) \/ RemoveLookup(c)
  <2>1. /\ UNCHANGED <<worldVars, callVars>>
        /\ \A d \in Calls \ {c} : pc'[d] = pc[d]
        /\ pc'[c] \in {"rm_lookup", "rm_delete", "ok", "failed"}
    BY <1>0, <1>1 DEF RemoveGetGroup, RemoveLookup, Goto
  <2> QED
    BY <1>0, <2>1, QuietStep DEF worldVars, callVars, eventVars, Unborn, CallIsSound
<1>2. CASE RemoveDelete(c)
  <2> DEFINE rows == RowsFor(G(c), M(c))
  <2>1. /\ UNCHANGED <<tuples, eventVars, req, issued, admitted>>
        /\ \A d \in Calls \ {c} : pc'[d] = pc[d] /\ seen'[d] = seen[d]
        /\ seen'[c] \subseteq seen[c] \cup memberships
        /\ pc'[c] \in {"ok", "failed", "rm_tuple"}
    BY <1>0, <1>2 DEF RemoveDelete, RowsFor, RowsOf, Goto
  <2>2. groups' \subseteq groups /\ memberships' \subseteq memberships
    BY <1>2, DeleteEffect DEF RemoveDelete, storeVars
  <2>3. pc'[c] = "rm_tuple" => seen'[c] \cap memberships' = {}
    BY <1>0, <1>2 DEF RemoveDelete, Execute, Goto
  <2>4. CallIsSound(c)' /\ ~Unborn(c)'
    BY <2>1, <2>3 DEF CallIsSound, Unborn
  <2> QED
    BY <1>0, <2>1, <2>2, <2>4, QuietStep DEF eventVars, Unborn
<1>3. CASE RemoveTuple(c)
  <2>1. /\ UNCHANGED <<storeVars, eventVars, callVars>>
        /\ tuples' \subseteq tuples
        /\ \A d \in Calls \ {c} : pc'[d] = pc[d]
        /\ pc[c] = "rm_tuple" /\ pc'[c] \in {"rm_publish", "failed"}
    BY <1>0, <1>3, WriteEffect DEF RemoveTuple, Goto
  <2>2. CallIsSound(c)' /\ ~Unborn(c)'
    BY <2>1 DEF IInv, CallIsSound, Unborn, callVars, storeVars
  <2> QED
    BY <1>0, <2>1, <2>2, QuietStep DEF storeVars, eventVars, callVars, Unborn
<1>4. CASE RemovePublish(c)
  <2>1. /\ UNCHANGED <<storeVars, tuples, callVars, added, deletedGroups>>
        /\ removed' \subseteq removed \cup seen[c]
        /\ seen[c] \cap memberships = {}
        /\ \A d \in Calls \ {c} : pc'[d] = pc[d]
        /\ pc'[c] = "ok"
    BY <1>0, <1>4 DEF IInv, CallIsSound, RemovePublish, PublishRemoved, Goto
  <2>2. EventsAreTrue' /\ GroupsAreFresh' /\ GrantsWereValidated'
    BY <2>1 DEF IInv, storeVars, callVars, EventsAreTrue, GroupsAreFresh, GrantsWereValidated
  <2>3. RowsAreFresh'
    BY <2>1 DEF IInv, storeVars, callVars, RowsAreFresh, Unborn
  <2>4. \A d \in Calls : CallIsSound(d)'
    BY <2>1 DEF IInv, storeVars, callVars, CallIsSound, G, M
  <2> QED
    BY <1>0, <2>2, <2>3, <2>4 DEF IInv
<1> QED
  BY <1>1, <1>2, <1>3, <1>4 DEF RemoveMember

LEMMA CreateGroupKeeps ==
  ASSUME IInv, NEW c \in Calls, CreateGroup(c)
  PROVE  IInv'
<1>0. /\ ServiceTypeOK' /\ ServiceTypeOK /\ pc \in [Calls -> Labels]
       /\ \A k \in GroupKeys(G(c)) : k.relation # "member"
  BY CreateGroupTypes, RequestTypes, KeyKinds DEF IInv, ServiceTypeOK
<1>1. CASE CreateInsert(c)
  <2>1. /\ UNCHANGED <<tuples, eventVars, req, seen, admitted, memberships>>
        /\ \/ groups' = groups /\ issued' = issued
           \/ /\ G(c) \notin issued /\ issued' = issued \cup {G(c)}
              /\ groups' \subseteq groups \cup {G(c)}
        /\ \A d \in Calls \ {c} : pc'[d] = pc[d]
        /\ pc'[c] \in {"failed", "cr_tuples"}
    BY <1>0, <1>1 DEF CreateInsert, Execute, ExecuteFails, storeVars, Goto
  <2>2. EventsAreTrue' /\ GroupsAreFresh' /\ GrantsWereValidated'
    BY <2>1 DEF IInv, eventVars, EventsAreTrue, GroupsAreFresh, GrantsWereValidated
  <2>3. RowsAreFresh'
    BY <2>1 DEF IInv, eventVars, RowsAreFresh, Unborn
  <2>4. \A d \in Calls : CallIsSound(d)'
    BY <2>1 DEF IInv, CallIsSound, G, M
  <2> QED
    BY <1>0, <2>2, <2>3, <2>4 DEF IInv
<1>2. CASE CreateTuples(c)
  <2>1. /\ UNCHANGED <<storeVars, eventVars, callVars>>
        /\ tuples' \subseteq tuples \cup GroupKeys(G(c))
        /\ \A d \in Calls \ {c} : pc'[d] = pc[d]
        /\ pc'[c] \in {"ok", "cr_rollback"}
    BY <1>0, <1>2, WriteEffect DEF CreateTuples, Goto
  <2> QED
    BY <1>0, <2>1, QuietStep DEF storeVars, eventVars, callVars, Unborn, CallIsSound
<1>3. CASE CreateRollback(c)
  <2>1. /\ UNCHANGED <<tuples, eventVars, callVars>>
        /\ groups' \subseteq groups /\ memberships' \subseteq memberships
        /\ \A d \in Calls \ {c} : pc'[d] = pc[d]
        /\ pc'[c] = "failed"
    <3>1. groups' \subseteq groups /\ memberships' \subseteq memberships
      BY <1>3, DeleteEffect DEF CreateRollback
    <3> QED
      BY <1>0, <1>3, <3>1 DEF CreateRollback, Goto
  <2> QED
    BY <1>0, <2>1, QuietStep DEF eventVars, callVars, Unborn, CallIsSound
<1> QED
  BY <1>1, <1>2, <1>3 DEF CreateGroup

LEMMA DeleteGroupKeeps ==
  ASSUME IInv, NEW c \in Calls, DeleteGroup(c)
  PROVE  IInv'
<1>0. ServiceTypeOK' /\ ServiceTypeOK /\ pc \in [Calls -> Labels]
       /\ seen \in [Calls -> SUBSET Row]
  BY DeleteGroupTypes DEF IInv, ServiceTypeOK
<1>1. CASE \/ DeleteGetGroup(c) \/ DeleteListAdmins(c) \/ DeleteListMembers(c)
           \/ DeleteSelectGroup(c)
  <2>1. /\ UNCHANGED <<worldVars, req, seen, issued, admitted>>
        /\ \A d \in Calls \ {c} : pc'[d] = pc[d]
        /\ \/ pc'[c] = "failed"
           \/ pc'[c] \in {"del_admins", "del_members", "del_tuples", "del_rows"}
              /\ G(c) \in issued
    BY <1>0, <1>1
       DEF IInv, GroupsAreFresh, CallIsSound, DeleteGetGroup, DeleteListAdmins,
           DeleteListMembers, DeleteSelectGroup, callVars, Goto
  <2>2. CallIsSound(c)' /\ ~Unborn(c)'
    BY <2>1 DEF CallIsSound, Unborn, G
  <2> QED
    BY <1>0, <2>1, <2>2, QuietStep DEF worldVars, eventVars, Unborn
<1>2. CASE DeleteTuples(c)
  <2>1. /\ UNCHANGED <<storeVars, eventVars, callVars>>
        /\ tuples' \subseteq tuples
        /\ \A d \in Calls \ {c} : pc'[d] = pc[d]
        /\ pc[c] = "del_tuples" /\ pc'[c] \in {"del_select", "failed"}
    BY <1>0, <1>2, WriteEffect DEF DeleteTuples, Goto
  <2>2. CallIsSound(c)' /\ ~Unborn(c)'
    BY <2>1 DEF IInv, CallIsSound, Unborn, callVars, G
  <2> QED
    BY <1>0, <2>1, <2>2, QuietStep DEF storeVars, eventVars, callVars, Unborn
<1>3. CASE DeleteSelectRows(c)
  <2>1. /\ UNCHANGED <<worldVars, req, issued, admitted>>
        /\ \A d \in Calls \ {c} : pc'[d] = pc[d] /\ seen'[d] = seen[d]
        /\ G(c) \in issued
        /\ \/ pc'[c] = "failed" /\ seen' = seen
           \/ pc'[c] = "del_commit" /\ seen'[c] = RowsOf(G(c))
    BY <1>0, <1>3 DEF IInv, CallIsSound, DeleteSelectRows, Goto
  <2>2. CallIsSound(c)' /\ ~Unborn(c)'
    BY <2>1 DEF CallIsSound, Unborn, RowsOf, G
  <2> QED
    BY <1>0, <2>1, <2>2, QuietStep DEF worldVars, eventVars, Unborn, RowsOf
<1>4. CASE DeleteCommit(c)
  <2>1. /\ UNCHANGED <<tuples, eventVars, callVars>>
        /\ groups' \subseteq groups /\ memberships' \subseteq memberships
        /\ \A d \in Calls \ {c} : pc'[d] = pc[d]
        /\ G(c) \in issued /\ \A r \in seen[c] : r.group = G(c)
        /\ \/ pc'[c] = "failed"
           \/ /\ pc'[c] = "del_publish"
              /\ groups' = groups \ {G(c)}
              /\ memberships' = memberships \ RowsOf(G(c))
    BY <1>0, <1>4, DeleteEffect DEF IInv, CallIsSound, DeleteCommit, Execute, Goto
  <2>2. CallIsSound(c)' /\ ~Unborn(c)'
    BY <2>1 DEF CallIsSound, Unborn, callVars, RowsOf, G
  <2> QED
    BY <1>0, <2>1, <2>2, QuietStep DEF eventVars, callVars, Unborn
<1>5. CASE DeletePublish(c)
  <2>1. /\ UNCHANGED <<storeVars, tuples, req, issued, admitted, added>>
        /\ removed' \subseteq removed \cup seen[c]
        /\ deletedGroups' \subseteq deletedGroups \cup {G(c)}
        /\ seen[c] \cap memberships = {} /\ G(c) \notin groups /\ G(c) \in issued
        /\ seen'[c] \subseteq seen[c]
        /\ \A d \in Calls \ {c} : pc'[d] = pc[d] /\ seen'[d] = seen[d]
        /\ pc[c] = "del_publish" /\ pc'[c] \in {"ok", "del_publish"}
    BY <1>0, <1>5
       DEF IInv, CallIsSound, DeletePublish, PublishRemoved, PublishGroupDeleted, Goto
  <2>2. EventsAreTrue' /\ GroupsAreFresh' /\ GrantsWereValidated'
    BY <2>1 DEF IInv, storeVars, EventsAreTrue, GroupsAreFresh, GrantsWereValidated
  <2>3. RowsAreFresh'
    BY <2>1 DEF IInv, storeVars, RowsAreFresh, Unborn
  <2>4. \A d \in Calls : CallIsSound(d)'
    BY <2>1 DEF IInv, storeVars, CallIsSound, G, M
  <2> QED
    BY <1>0, <2>2, <2>3, <2>4 DEF IInv
<1> QED
  BY <1>1, <1>2, <1>3, <1>4, <1>5 DEF DeleteGroup

(* No step of the service breaks IInv. *)
LEMMA InvStep == IInv /\ [Next]_serviceVars => IInv'
<1> SUFFICES ASSUME IInv, [Next]_serviceVars PROVE IInv'
  OBVIOUS
<1>0. ServiceTypeOK'
  BY TypeStep DEF IInv
<1>1. CASE \E c \in Calls : CallStep(c)
  BY <1>1, AddMemberKeeps, RemoveMemberKeeps, CreateGroupKeeps, DeleteGroupKeeps
     DEF CallStep
<1>2. CASE Crash
  <2>1. /\ UNCHANGED <<storeVars, tuples, eventVars, callVars>>
        /\ \A c \in Calls : pc'[c] = pc[c] \/ pc'[c] = "failed"
    BY <1>2 DEF Crash, KillCalls
  <2> QED
    BY <1>0, <2>1, QuietStep DEF storeVars, callVars, eventVars, Unborn, CallIsSound
<1>3. CASE (\E i \in Identities : RemoveIdentity(i)) \/ UNCHANGED serviceVars
  <2>1. UNCHANGED <<storeVars, tuples, eventVars, callVars, pc>>
    BY <1>3 DEF RemoveIdentity, IdentityRemoved, storeVars, eventVars, serviceVars, worldVars
  <2> QED
    BY <1>0, <2>1, QuietStep DEF storeVars, callVars, eventVars, Unborn
<1> QED
  BY <1>1, <1>2, <1>3 DEF Next

(* The inductive invariant holds in every reachable state: what a handler  *)
(* of memberships.go or groups.go holds at a step stays true of the tables *)
(* whatever the others do.                                                 *)
THEOREM Invariance == Spec => []IInv
BY InvInit, InvStep, PTL DEF Spec

(* No handler announces a removal it has not committed, and nothing        *)
(* announced as removed comes back.                                        *)
THEOREM EventsCorrect == Spec => []EventsAreTrue
<1>1. IInv => EventsAreTrue
  BY DEF IInv
<1> QED
  BY <1>1, Invariance, PTL

(* Every membership, member tuple and Added event is of an identity that   *)
(* validateMemberIdentity accepted for the group.                          *)
THEOREM GrantsCorrect == Spec => []GrantsWereValidated
<1>1. IInv => GrantsWereValidated
  BY DEF IInv
<1> QED
  BY <1>1, Invariance, PTL

-----------------------------------------------------------------------------
(* A request inserts no row but its own, and only with an id not used yet. *)
LEMMA CallEffect ==
  ASSUME pc \in [Calls -> Labels], NEW c \in Calls, CallStep(c)
  PROVE  /\ admitted \subseteq admitted'
         /\ \A d \in Calls : Unborn(d)' => Unborn(d)
         /\ \/ memberships' \subseteq memberships
            \/ /\ Unborn(c) /\ ~Unborn(c)'
               /\ memberships' \subseteq memberships \cup {NewRow(c)}
<1>0. pc \in [Calls -> Labels]
  OBVIOUS
<1>1. CASE AddMember(c)
  <2>1. CASE \/ AddGetGroup(c) \/ AddReadback(c) \/ AddWriteTuple(c) \/ AddPublish(c)
    BY <1>0, <2>1
       DEF AddGetGroup, AddReadback, AddWriteTuple, AddPublish, Starts, Goto,
           Unborn, worldVars, callVars, storeVars
  <2>2. CASE AddValidate(c)
    BY <1>0, <2>2 DEF AddValidate, Goto, Unborn, worldVars
  <2>3. CASE AddInsert(c)
    BY <1>0, <2>3
       DEF AddInsert, Execute, ExecuteFails, Goto, Unborn, storeVars, callVars
  <2>4. CASE AddRollback(c)
    BY <1>0, <2>4, DeleteEffect DEF AddRollback, Goto, Unborn, callVars
  <2> QED
    BY <1>1, <2>1, <2>2, <2>3, <2>4 DEF AddMember
<1>2. CASE RemoveMember(c)
  <2>1. CASE RemoveGetGroup(c) \/ RemoveLookup(c) \/ RemoveTuple(c) \/ RemovePublish(c)
    BY <1>0, <2>1
       DEF RemoveGetGroup, RemoveLookup, RemoveTuple, RemovePublish, Goto,
           Unborn, worldVars, callVars, storeVars
  <2>2. CASE RemoveDelete(c)
    BY <1>0, <2>2, DeleteEffect DEF RemoveDelete, Goto, Unborn, storeVars
  <2> QED
    BY <1>2, <2>1, <2>2 DEF RemoveMember
<1>3. CASE CreateGroup(c)
  <2>1. CASE CreateInsert(c)
    BY <1>0, <2>1
       DEF CreateInsert, Execute, ExecuteFails, Goto, Unborn, storeVars
  <2>2. CASE CreateTuples(c)
    BY <1>0, <2>2 DEF CreateTuples, Goto, Unborn, storeVars, callVars
  <2>3. CASE CreateRollback(c)
    <3>1. groups' \subseteq groups /\ memberships' \subseteq memberships
      BY <2>3, DeleteEffect DEF CreateRollback
    <3> QED
      BY <1>0, <2>3, <3>1 DEF CreateRollback, Goto, Unborn, callVars
  <2> QED
    BY <1>3, <2>1, <2>2, <2>3 DEF CreateGroup
<1>4. CASE DeleteGroup(c)
  <2>1. CASE \/ DeleteGetGroup(c) \/ DeleteListAdmins(c) \/ DeleteListMembers(c)
             \/ DeleteSelectGroup(c) \/ DeleteSelectRows(c)
    BY <1>0, <2>1
       DEF DeleteGetGroup, DeleteListAdmins, DeleteListMembers, DeleteSelectGroup,
           DeleteSelectRows, Goto, Unborn, worldVars, callVars
  <2>2. CASE DeleteTuples(c) \/ DeletePublish(c)
    BY <1>0, <2>2
       DEF DeleteTuples, DeletePublish, Goto, Unborn, storeVars, callVars
  <2>3. CASE DeleteCommit(c)
    <3>1. groups' \subseteq groups /\ memberships' \subseteq memberships
      BY <2>3, DeleteEffect DEF DeleteCommit
    <3>2. UNCHANGED callVars /\ \E l \in Labels \ {"start"} : Goto(c, l)
      BY <2>3 DEF DeleteCommit, Labels, Done
    <3> QED
      BY <1>0, <2>3, <3>1, <3>2 DEF DeleteCommit, Goto, Unborn, callVars
  <2> QED
    BY <1>4, <2>1, <2>2, <2>3 DEF DeleteGroup
<1> QED
  BY <1>1, <1>2, <1>3, <1>4 DEF CallStep

-----------------------------------------------------------------------------
(* A row belongs to a group that is there. *)
LEMMA ForeignKeyStays ==
  ASSUME ForeignKey,
         \/ groups \subseteq groups' /\ memberships' \subseteq memberships
         \/ \E r : /\ groups' = groups /\ memberships' = memberships \cup {r}
                   /\ r.group \in groups
         \/ \E g : groups' = groups \ {g} /\ memberships' = memberships \ RowsOf(g)
  PROVE  ForeignKey'
BY DEF ForeignKey, RowsOf

LEMMA CallKeepsForeignKey ==
  ASSUME ForeignKey, NEW c \in Calls, CallStep(c)
  PROVE  ForeignKey'
<1>1. CASE UNCHANGED storeVars
  BY <1>1, ForeignKeyStays DEF storeVars
<1>2. CASE AddInsert(c)
  <2>1. NewRow(c).group = G(c)
    BY DEF NewRow
  <2>2. \/ UNCHANGED storeVars
        \/ groups' = groups /\ memberships' = memberships \cup {NewRow(c)} /\ G(c) \in groups
    BY <1>2 DEF AddInsert, Execute, ExecuteFails, storeVars
  <2> QED
    BY <1>1, <2>1, <2>2, ForeignKeyStays
<1>3. CASE AddRollback(c) \/ RemoveDelete(c)
  <2>1. groups' = groups /\ memberships' \subseteq memberships
    BY <1>3 DEF AddRollback, RemoveDelete, Execute, ExecuteFails, storeVars
  <2> QED
    BY <2>1, ForeignKeyStays
<1>4. CASE CreateInsert(c)
  <2>1. groups \subseteq groups' /\ memberships' = memberships
    BY <1>4 DEF CreateInsert, Execute, ExecuteFails, storeVars
  <2> QED
    BY <2>1, ForeignKeyStays
<1>5. CASE CreateRollback(c) \/ DeleteCommit(c)
  <2>1. \/ UNCHANGED storeVars
        \/ groups' = groups \ {G(c)} /\ memberships' = memberships \ RowsOf(G(c))
    BY <1>5 DEF CreateRollback, DeleteCommit, Execute, ExecuteFails, storeVars
  <2> QED
    BY <1>1, <2>1, ForeignKeyStays
<1>6. \/ UNCHANGED storeVars \/ AddInsert(c) \/ AddRollback(c) \/ RemoveDelete(c)
      \/ CreateInsert(c) \/ CreateRollback(c) \/ DeleteCommit(c)
  BY DEF CallStep, AddMember, RemoveMember, CreateGroup, DeleteGroup, AddGetGroup, AddValidate,
         AddReadback, AddWriteTuple, AddPublish, RemoveGetGroup, RemoveLookup, RemoveTuple,
         RemovePublish, CreateTuples, DeleteGetGroup, DeleteListAdmins, DeleteListMembers,
         DeleteTuples, DeleteSelectGroup, DeleteSelectRows, DeletePublish, worldVars, storeVars
<1> QED
  BY <1>1, <1>2, <1>3, <1>4, <1>5, <1>6

-----------------------------------------------------------------------------
(* The label of a request tells its kind, and the handlers keep it so.     *)
LEMMA HandlerOps ==
  ASSUME NEW c \in Calls, LabelFits(c)
  PROVE  /\ AddMember(c) => req[c].op = "add" /\ pc[c] \in AddLabels \cup {"start"}
         /\ RemoveMember(c) => req[c].op = "remove" /\ pc[c] \in RemoveLabels \cup {"start"}
         /\ CreateGroup(c) => req[c].op = "create" /\ pc[c] \in CreateLabels \cup {"start"}
         /\ DeleteGroup(c) => req[c].op = "delete" /\ pc[c] \in DeleteLabels \cup {"start"}
<1>1. ASSUME AddMember(c) PROVE Starts(c, "add") \/ pc[c] \in AddLabels
  BY <1>1 DEF AddMember, AddGetGroup, AddValidate, AddInsert, AddReadback, AddWriteTuple,
              AddRollback, AddPublish, AddLabels
<1>2. ASSUME RemoveMember(c) PROVE Starts(c, "remove") \/ pc[c] \in RemoveLabels
  BY <1>2 DEF RemoveMember, RemoveGetGroup, RemoveLookup, RemoveDelete, RemoveTuple,
              RemovePublish, RemoveLabels
<1>3. ASSUME CreateGroup(c) PROVE Starts(c, "create") \/ pc[c] \in CreateLabels
  BY <1>3 DEF CreateGroup, CreateInsert, CreateTuples, CreateRollback, CreateLabels
<1>4. ASSUME DeleteGroup(c) PROVE Starts(c, "delete") \/ pc[c] \in DeleteLabels
  BY <1>4 DEF DeleteGroup, DeleteGetGroup, DeleteListAdmins, DeleteListMembers, DeleteTuples,
              DeleteSelectGroup, DeleteSelectRows, DeleteCommit, DeletePublish, DeleteLabels
<1> QED
  BY <1>1, <1>2, <1>3, <1>4 DEF LabelFits, Starts

(* A step moves its own request only, to a label of its own kind. *)
LEMMA HandlersMove ==
  ASSUME NEW c \in Calls, CallStep(c)
  PROVE  /\ req' = req
         /\ AddMember(c) => \E l \in AddLabels \cup Done : Goto(c, l)
         /\ RemoveMember(c) => \E l \in RemoveLabels \cup Done : Goto(c, l)
         /\ CreateGroup(c) => \E l \in CreateLabels \cup Done : Goto(c, l)
         /\ DeleteGroup(c) =>
              \/ \E l \in DeleteLabels \cup Done : Goto(c, l)
              \/ pc' = pc /\ pc[c] \in DeleteLabels
<1>1. ASSUME AddMember(c)
      PROVE  req' = req /\ (\E l \in AddLabels \cup Done : Goto(c, l))
  BY <1>1 DEF AddMember, AddGetGroup, AddValidate, AddInsert, AddReadback, AddWriteTuple,
              AddRollback, AddPublish, AddLabels, Done, callVars
<1>2. ASSUME RemoveMember(c)
      PROVE  req' = req /\ (\E l \in RemoveLabels \cup Done : Goto(c, l))
  BY <1>2 DEF RemoveMember, RemoveGetGroup, RemoveLookup, RemoveDelete, RemoveTuple,
              RemovePublish, RemoveLabels, Done, callVars
<1>3. ASSUME CreateGroup(c)
      PROVE  req' = req /\ (\E l \in CreateLabels \cup Done : Goto(c, l))
  BY <1>3 DEF CreateGroup, CreateInsert, CreateTuples, CreateRollback, CreateLabels, Done, callVars
<1>4. ASSUME DeleteGroup(c)
      PROVE  /\ req' = req
             /\ \/ \E l \in DeleteLabels \cup Done : Goto(c, l)
                \/ pc' = pc /\ pc[c] \in DeleteLabels
  BY <1>4 DEF DeleteGroup, DeleteGetGroup, DeleteListAdmins, DeleteListMembers, DeleteTuples,
              DeleteSelectGroup, DeleteSelectRows, DeleteCommit, DeletePublish, DeleteLabels,
              Done, callVars
<1> QED
  BY <1>1, <1>2, <1>3, <1>4 DEF CallStep

LEMMA LabelsStay ==
  ASSUME pc \in [Calls -> Labels], NEW c \in Calls, CallStep(c), LabelFits(c)
  PROVE  /\ req' = req /\ pc[c] \notin Done /\ pc'[c] # "start" /\ LabelFits(c)'
         /\ \A d \in Calls \ {c} : pc'[d] = pc[d] /\ (LabelFits(d) => LabelFits(d)')
<1> USE DEF AddLabels, RemoveLabels, CreateLabels, DeleteLabels, Done
<1>1. req' = req /\ \A l : Goto(c, l) => pc'[c] = l /\ \A d \in Calls \ {c} : pc'[d] = pc[d]
  BY HandlersMove DEF Goto
<1>2. CASE AddMember(c)
  BY <1>1, <1>2, HandlerOps, HandlersMove DEF LabelFits
<1>3. CASE RemoveMember(c)
  BY <1>1, <1>3, HandlerOps, HandlersMove DEF LabelFits
<1>4. CASE CreateGroup(c)
  BY <1>1, <1>4, HandlerOps, HandlersMove DEF LabelFits
<1>5. CASE DeleteGroup(c)
  BY <1>1, <1>5, HandlerOps, HandlersMove DEF LabelFits
<1> QED
  BY <1>2, <1>3, <1>4, <1>5 DEF CallStep

LEMMA CrashLabels ==
  ASSUME Crash, NEW c \in Calls
  PROVE  /\ req' = req /\ UNCHANGED <<groups, memberships, tuples>>
         /\ pc'[c] = IF Busy(c) THEN "failed" ELSE pc[c]
         /\ LabelFits(c) => LabelFits(c)'
BY DEF Crash, KillCalls, callVars, storeVars, LabelFits, AddLabels, RemoveLabels, CreateLabels,
       DeleteLabels

-----------------------------------------------------------------------------
(* The membership rows: one row comes with the insert of an AddMember, all *)
(* others only go, and each way of going is a step of its own.             *)
LEMMA RowsMove ==
  ASSUME NEW c \in Calls, CallStep(c)
  PROVE  \/ memberships' = memberships
         \/ /\ pc[c] = "add_insert" /\ RowsFor(G(c), M(c)) = {} /\ G(c) \in groups
            /\ memberships' = memberships \cup {NewRow(c)}
         \/ pc[c] = "rm_delete" /\ memberships' = memberships \ RowsFor(G(c), M(c))
         \/ /\ pc[c] = "add_rollback" /\ Goto(c, "failed")
            /\ memberships' = memberships \ RowsFor(G(c), M(c))
         \/ /\ pc[c] = "cr_rollback" /\ Goto(c, "failed")
            /\ memberships' = memberships \ RowsOf(G(c))
         \/ pc[c] = "del_commit" /\ memberships' = memberships \ RowsOf(G(c))
<1>1. CASE AddMember(c)
  BY <1>1 DEF AddMember, AddGetGroup, AddValidate, AddInsert, AddReadback, AddWriteTuple,
              AddRollback, AddPublish, Execute, ExecuteFails, worldVars, storeVars
<1>2. CASE RemoveMember(c)
  BY <1>2 DEF RemoveMember, RemoveGetGroup, RemoveLookup, RemoveDelete, RemoveTuple,
              RemovePublish, Execute, ExecuteFails, worldVars, storeVars
<1>3. CASE CreateGroup(c)
  BY <1>3 DEF CreateGroup, CreateInsert, CreateTuples, CreateRollback, Execute, ExecuteFails,
              worldVars, storeVars
<1>4. CASE DeleteGroup(c)
  BY <1>4 DEF DeleteGroup, DeleteGetGroup, DeleteListAdmins, DeleteListMembers, DeleteTuples,
              DeleteSelectGroup, DeleteSelectRows, DeleteCommit, DeletePublish, Execute,
              ExecuteFails, worldVars, storeVars
<1> QED
  BY <1>1, <1>2, <1>3, <1>4 DEF CallStep

(* UNIQUE (group_id, member_id) holds: the insert finds no row of the pair. *)
LEMMA UniqueStays ==
  ASSUME UniqueMember, NEW c \in Calls, CallStep(c)
  PROVE  UniqueMember'
<1>1. \/ memberships' \subseteq memberships
      \/ RowsFor(G(c), M(c)) = {} /\ memberships' = memberships \cup {NewRow(c)}
  BY RowsMove
<1> QED
  BY <1>1 DEF UniqueMember, RowsFor, RowsOf, NewRow
==============================================================================
