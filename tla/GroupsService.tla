---------------------------- MODULE GroupsService ----------------------------
(***************************************************************************)
(* The handlers of internal/server that change state: AddMember and        *)
(* RemoveMember (memberships.go), CreateGroup and DeleteGroup (groups.go). *)
(* gRPC runs every request in a goroutine of its own and the handlers take *)
(* no lock, so a handler is a sequence of steps, one for each call it      *)
(* makes on the database, the authorization service, the identity service  *)
(* or the event stream, and the steps of different requests interleave.    *)
(*                                                                         *)
(* Each member of Calls is one request.  A request may fail at any read or *)
(* check for reasons kept out of the model (permission, an invalid field,  *)
(* a name that is taken, an unavailable service); such a failure changes   *)
(* nothing.  listAllMembers reads one page here: a group of the model has  *)
(* fewer members than the page size of 100.  Notifications are best effort *)
(* and are left out.                                                       *)
(***************************************************************************)
EXTENDS Environment

CONSTANT Calls

ASSUME CallsAssumption == Calls \subseteq RowIds

VARIABLES pc,        \* the next step of each call
          req,       \* its request
          seen,      \* membership rows it read or deleted, to be announced
          doomed,    \* tuples it is about to delete
          issued,    \* history: group ids drawn so far, for their freshness
          admitted   \* history: member tuples whose identity was validated

callVars == <<req, seen, doomed, issued, admitted>>
serviceVars == <<worldVars, pc, callVars>>

Ops == {"add", "remove", "create", "delete"}
Request == [op : Ops, group : Groups, member : Identities]
Done == {"ok", "failed"}
Labels == Done \cup
  {"start", "add_validate", "add_insert", "add_readback", "add_tuple",
   "add_rollback", "add_publish", "rm_lookup", "rm_delete", "rm_tuple",
   "rm_publish", "cr_tuples", "cr_rollback", "del_admins", "del_members",
   "del_tuples", "del_select", "del_rows", "del_commit", "del_publish"}

G(c) == req[c].group
M(c) == req[c].member
SwappedRow(c) == [id |-> c, group |-> M(c), member |-> G(c)]     \* mutant
NewRow(c) == [id |-> c, group |-> G(c), member |-> M(c)]
Busy(c) == pc[c] \notin Done \cup {"start"}

Goto(c, label) == pc' = [pc EXCEPT ![c] = label]
Starts(c, op) == pc[c] = "start" /\ req[c].op = op

(***************************************************************************)
(* AddMember                                                               *)
(***************************************************************************)
(* mutant: the identity is not validated *)
AddUnvalidated(c) ==
  /\ Starts(c, "add")
  /\ \/ G(c) \in groups /\ Goto(c, "add_insert")
     \/ Goto(c, "failed")
  /\ UNCHANGED <<worldVars, callVars>>

(* store.GetGroup, requireGroupEditor *)
AddGetGroup(c) ==
  /\ Starts(c, "add")
  /\ \/ G(c) \in groups /\ Goto(c, "add_validate")
     \/ Goto(c, "failed")
  /\ UNCHANGED <<worldVars, callVars>>

(* mutant: a failed validation does not stop the request *)
AddValidateIgnored(c) ==
  /\ pc[c] = "add_validate"
  /\ Goto(c, "add_insert")
  /\ UNCHANGED <<worldVars, callVars>>

(* validateMemberIdentity *)
AddValidate(c) ==
  /\ pc[c] = "add_validate"
  /\ \/ /\ M(c) \in identities
        /\ admitted' = admitted \cup {MemberKey(G(c), M(c))}
        /\ Goto(c, "add_insert")
     \/ Goto(c, "failed") /\ UNCHANGED admitted
  /\ UNCHANGED <<worldVars, req, seen, doomed, issued>>

(* INSERT ... ON CONFLICT (group_id, member_id) DO NOTHING *)
AddInsert(c) ==
  /\ pc[c] = "add_insert"
  /\ \/ /\ G(c) \notin groups                       \* foreign key violation
        /\ Goto(c, "failed")
        /\ UNCHANGED <<storeVars, faults>>
     \/ /\ RowsFor(G(c), M(c)) # {}
        /\ Goto(c, "add_readback")
        /\ UNCHANGED <<storeVars, faults>>
     \/ /\ G(c) \in groups
        /\ RowsFor(G(c), M(c)) = {}
        /\ \/ /\ Execute(groups, memberships \cup {NewRow(c)})
              /\ Goto(c, "add_tuple")
           \/ /\ ExecuteFails(groups, memberships \cup {NewRow(c)})
              /\ Goto(c, "failed")
  /\ UNCHANGED <<tuples, identities, eventVars, callVars>>

(* mutant: a duplicate goes on as if it had created the row *)
AddReadbackAsCreated(c) ==
  /\ pc[c] = "add_readback"
  /\ \/ RowsFor(G(c), M(c)) # {} /\ Goto(c, "add_tuple")
     \/ Goto(c, "failed")
  /\ UNCHANGED <<worldVars, callVars>>

(* GetMembershipByGroupMember after the conflict, and return if !created *)
AddReadback(c) ==
  /\ pc[c] = "add_readback"
  /\ \/ RowsFor(G(c), M(c)) # {} /\ Goto(c, "ok")
     \/ Goto(c, "failed")
  /\ UNCHANGED <<worldVars, callVars>>

(* writeMembershipTuple *)
AddWriteTuple(c) ==
  /\ pc[c] = "add_tuple"
  /\ \/ Write({MemberKey(G(c), M(c))}, {}) /\ Goto(c, "add_publish")
     \/ WriteFails({MemberKey(G(c), M(c))}, {}) /\ Goto(c, "add_rollback")
  /\ UNCHANGED <<storeVars, identities, eventVars, callVars>>

(* mutant: the row is left when its tuple cannot be written *)
AddNoRollback(c) ==
  /\ pc[c] = "add_rollback"
  /\ Goto(c, "failed")
  /\ UNCHANGED <<worldVars, callVars>>

(* store.RemoveMember(group, member), its result ignored *)
AddRollback(c) ==
  /\ pc[c] = "add_rollback"
  /\ LET rest == memberships \ RowsFor(G(c), M(c))
     IN  Execute(groups, rest) \/ ExecuteFails(groups, rest)
  /\ Goto(c, "failed")
  /\ UNCHANGED <<tuples, identities, eventVars, callVars>>

AddPublish(c) ==
  /\ pc[c] = "add_publish"
  /\ PublishAdded(NewRow(c))
  /\ Goto(c, "ok")
  /\ UNCHANGED <<storeVars, tuples, identities, faults, callVars>>

(***************************************************************************)
(* RemoveMember                                                            *)
(***************************************************************************)
(* store.GetGroup, requireGroupEditor *)
RemoveGetGroup(c) ==
  /\ Starts(c, "remove")
  /\ \/ G(c) \in groups /\ Goto(c, "rm_lookup")
     \/ Goto(c, "failed")
  /\ UNCHANGED <<worldVars, callVars>>

(* mutant: any error of the lookup counts as an absent membership *)
RemoveLookupAnyError(c) ==
  /\ pc[c] = "rm_lookup"
  /\ \/ RowsFor(G(c), M(c)) # {} /\ Goto(c, "rm_delete")
     \/ Goto(c, "ok")
  /\ UNCHANGED <<worldVars, callVars>>

(* GetMembershipByGroupMember: an absent membership is success *)
RemoveLookup(c) ==
  /\ pc[c] = "rm_lookup"
  /\ \/ RowsFor(G(c), M(c)) # {} /\ Goto(c, "rm_delete")
     \/ RowsFor(G(c), M(c)) = {} /\ Goto(c, "ok")
     \/ Goto(c, "failed")
  /\ UNCHANGED <<worldVars, callVars>>

(* store.RemoveMember: DELETE ... RETURNING *)
RemoveDelete(c) ==
  /\ pc[c] = "rm_delete"
  /\ LET rows == RowsFor(G(c), M(c))
         rest == memberships \ rows
     IN  \/ /\ rows = {}
            /\ Goto(c, "ok")
            /\ UNCHANGED <<storeVars, faults, seen>>
         \/ /\ rows # {}
            /\ Execute(groups, rest)
            /\ seen' = [seen EXCEPT ![c] = rows]
            /\ Goto(c, "rm_tuple")
         \/ /\ ExecuteFails(groups, rest)
            /\ Goto(c, "failed")
            /\ UNCHANGED seen
  /\ UNCHANGED <<tuples, identities, eventVars, req, doomed, issued, admitted>>

(* deleteMembershipTuple: a failure returns before the event *)
RemoveTuple(c) ==
  /\ pc[c] = "rm_tuple"
  /\ \/ Write({}, {MemberKey(G(c), M(c))}) /\ Goto(c, "rm_publish")
     \/ WriteFails({}, {MemberKey(G(c), M(c))}) /\ Goto(c, "failed")
  /\ UNCHANGED <<storeVars, identities, eventVars, callVars>>

RemovePublish(c) ==
  /\ pc[c] = "rm_publish"
  /\ \E r \in seen[c] : PublishRemoved(r)
  /\ Goto(c, "ok")
  /\ UNCHANGED <<storeVars, tuples, identities, faults, callVars>>

(***************************************************************************)
(* CreateGroup                                                             *)
(***************************************************************************)
(* requireOrganizationOwner, store.CreateGroup with a fresh uuid *)
CreateInsert(c) ==
  /\ Starts(c, "create")
  /\ \/ /\ Goto(c, "failed")
        /\ UNCHANGED <<storeVars, faults, issued>>
     \/ /\ G(c) \notin issued
        /\ issued' = issued \cup {G(c)}
        /\ \/ /\ Execute(groups \cup {G(c)}, memberships)
              /\ Goto(c, "cr_tuples")
           \/ /\ ExecuteFails(groups \cup {G(c)}, memberships)
              /\ Goto(c, "failed")
  /\ UNCHANGED <<tuples, identities, eventVars, req, seen, doomed, admitted>>

(* writeGroupCreateTuples: both tuples in one Write *)
CreateTuples(c) ==
  /\ pc[c] = "cr_tuples"
  /\ \/ Write(GroupKeys(G(c)), {}) /\ Goto(c, "ok")
     \/ WriteFails(GroupKeys(G(c)), {}) /\ Goto(c, "cr_rollback")
  /\ UNCHANGED <<storeVars, identities, eventVars, callVars>>

(* store.DeleteGroup, its result ignored; the foreign key cascades *)
CreateRollback(c) ==
  /\ pc[c] = "cr_rollback"
  /\ LET others == groups \ {G(c)}
         rest == memberships \ RowsOf(G(c))
     IN  Execute(others, rest) \/ ExecuteFails(others, rest)
  /\ Goto(c, "failed")
  /\ UNCHANGED <<tuples, identities, eventVars, callVars>>

(***************************************************************************)
(* DeleteGroup                                                             *)
(***************************************************************************)
(* store.GetGroup, requireOrganizationOwner *)
DeleteGetGroup(c) ==
  /\ Starts(c, "delete")
  /\ \/ G(c) \in groups /\ Goto(c, "del_admins")
     \/ Goto(c, "failed")
  /\ UNCHANGED <<worldVars, callVars>>

(* listGroupAdmins *)
DeleteListAdmins(c) ==
  /\ pc[c] = "del_admins"
  /\ \/ /\ doomed' = [doomed EXCEPT ![c] = {OrgKey(G(c))} \cup AdminsOf(G(c))]
        /\ Goto(c, "del_members")
     \/ Goto(c, "failed") /\ UNCHANGED doomed
  /\ UNCHANGED <<worldVars, req, seen, issued, admitted>>

(* listAllMembers *)
DeleteListMembers(c) ==
  /\ pc[c] = "del_members"
  /\ \/ /\ doomed' = [doomed EXCEPT ![c] = @ \cup {KeyOf(r) : r \in RowsOf(G(c))}]
        /\ Goto(c, "del_tuples")
     \/ Goto(c, "failed") /\ UNCHANGED doomed
  /\ UNCHANGED <<worldVars, req, seen, issued, admitted>>

(* deleteGroupTuples: one Write for all of them, before the database *)
DeleteTuples(c) ==
  /\ pc[c] = "del_tuples"
  /\ \/ Write({}, doomed[c]) /\ Goto(c, "del_select")
     \/ WriteFails({}, doomed[c]) /\ Goto(c, "failed")
  /\ UNCHANGED <<storeVars, identities, eventVars, callVars>>

(* The transaction of store.DeleteGroup reads at READ COMMITTED: its three *)
(* statements each see the rows committed when they start.                 *)
DeleteSelectGroup(c) ==
  /\ pc[c] = "del_select"
  /\ \/ G(c) \in groups /\ Goto(c, "del_rows")
     \/ Goto(c, "failed")
  /\ UNCHANGED <<worldVars, callVars>>

DeleteSelectRows(c) ==
  /\ pc[c] = "del_rows"
  /\ \/ /\ seen' = [seen EXCEPT ![c] = RowsOf(G(c))]
        /\ Goto(c, "del_commit")
     \/ Goto(c, "failed") /\ UNCHANGED seen
  /\ UNCHANGED <<worldVars, req, doomed, issued, admitted>>

(* mutant: an error of the transaction is not looked at *)
DeleteCommitIgnored(c) ==
  /\ pc[c] = "del_commit"
  /\ LET others == groups \ {G(c)}
         rest == memberships \ RowsOf(G(c))
     IN  Execute(others, rest) \/ ExecuteFails(others, rest)
  /\ Goto(c, "del_publish")
  /\ UNCHANGED <<tuples, identities, eventVars, callVars>>

(* DELETE FROM groups, whose row count nobody checks, and COMMIT *)
DeleteCommit(c) ==
  /\ pc[c] = "del_commit"
  /\ LET others == groups \ {G(c)}
         rest == memberships \ RowsOf(G(c))
     IN  \/ Execute(others, rest) /\ Goto(c, "del_publish")
         \/ ExecuteFails(others, rest) /\ Goto(c, "failed")
  /\ UNCHANGED <<tuples, identities, eventVars, callVars>>

(* One GroupMembershipRemoved for each row read, then GroupDeleted *)
DeletePublish(c) ==
  /\ pc[c] = "del_publish"
  /\ \/ \E r \in seen[c] :
          /\ PublishRemoved(r)
          /\ seen' = [seen EXCEPT ![c] = @ \ {r}]
          /\ UNCHANGED pc
     \/ /\ seen[c] = {}
        /\ PublishGroupDeleted(G(c))
        /\ Goto(c, "ok")
        /\ UNCHANGED seen
  /\ UNCHANGED <<storeVars, tuples, identities, faults, req, doomed, issued,
                 admitted>>

(***************************************************************************)
(* The service as a whole                                                  *)
(***************************************************************************)
AddMember(c) ==
  \/ AddGetGroup(c) \/ AddValidate(c) \/ AddInsert(c) \/ AddReadback(c)
  \/ AddWriteTuple(c) \/ AddRollback(c) \/ AddPublish(c)
RemoveMember(c) ==
  \/ RemoveGetGroup(c) \/ RemoveLookup(c) \/ RemoveDelete(c)
  \/ RemoveTuple(c) \/ RemovePublish(c)
CreateGroup(c) == CreateInsert(c) \/ CreateTuples(c) \/ CreateRollback(c)
DeleteGroup(c) ==
  \/ DeleteGetGroup(c) \/ DeleteListAdmins(c) \/ DeleteListMembers(c)
  \/ DeleteTuples(c) \/ DeleteSelectGroup(c) \/ DeleteSelectRows(c)
  \/ DeleteCommit(c) \/ DeletePublish(c)
CallStep(c) == AddMember(c) \/ RemoveMember(c) \/ CreateGroup(c) \/ DeleteGroup(c)

(* The process dies: every running request ends where it stands. *)
KillCalls == pc' = [c \in Calls |-> IF Busy(c) THEN "failed" ELSE pc[c]]
Crash ==
  /\ Fault
  /\ KillCalls
  /\ UNCHANGED <<storeVars, tuples, identities, eventVars, callVars>>

RemoveIdentity(i) == IdentityRemoved(i) /\ UNCHANGED <<pc, callVars>>

(* Some groups exist, with members, and the two stores agree. *)
ServiceInit ==
  /\ groups \in SUBSET Groups
  /\ memberships \in SUBSET [id : RowIds \ Calls, group : groups, member : Identities]
  /\ \A r, s \in memberships : r.id = s.id => r = s
  /\ UniqueMember
  /\ tuples = UNION {Expected(g) : g \in groups}
  /\ identities = Identities
  /\ added = {} /\ removed = {} /\ deletedGroups = {}
  /\ faults = 0
  /\ pc = [c \in Calls |-> "start"]
  /\ req \in [Calls -> Request]
  /\ seen = [c \in Calls |-> {}]
  /\ doomed = [c \in Calls |-> {}]
  /\ issued = groups
  /\ admitted = {KeyOf(r) : r \in memberships}

Next ==
  \/ \E c \in Calls : CallStep(c)
  \/ Crash
  \/ \E i \in Identities : RemoveIdentity(i)

Spec == ServiceInit /\ [][Next]_serviceVars

(***************************************************************************)
(* Correctness                                                             *)
(***************************************************************************)
ServiceTypeOK ==
  /\ WorldTypeOK
  /\ pc \in [Calls -> Labels]
  /\ req \in [Calls -> Request]
  /\ seen \in [Calls -> SUBSET Row]
  /\ doomed \in [Calls -> SUBSET TupleKeys]
  /\ issued \subseteq Groups
  /\ admitted \subseteq TupleKeys

(* A GroupMembershipRemoved or GroupDeleted event is published only for a  *)
(* row or group that is gone for good: no handler announces a removal that *)
(* it has not committed, and no later call brings the same row back.       *)
EventsAreTrue ==
  /\ removed \cap memberships = {}
  /\ deletedGroups \cap groups = {}

(* Nobody is granted membership, in the database, in the authorization     *)
(* service or in an event, unless validateMemberIdentity accepted that     *)
(* identity for that group, whatever the other requests, failed writes and *)
(* rollbacks did in between.                                               *)
GrantsWereValidated ==
  /\ {KeyOf(r) : r \in memberships \cup added} \subseteq admitted
  /\ {k \in tuples : k.relation = "member"} \subseteq admitted

(***************************************************************************)
(* The inductive invariant behind EventsAreTrue and GrantsWereValidated.   *)
(***************************************************************************)
(* A row is in the tables or in a handler's hands only once its AddMember  *)
(* has got past the insert. *)
Unborn(c) == pc[c] \in {"start", "add_validate", "add_insert"}
RowsAreFresh ==
  \A c \in Calls : Unborn(c) =>
    /\ \A r \in memberships \cup removed : r.id # c
    /\ \A d \in Calls : \A r \in seen[d] : r.id # c

GroupsAreFresh == groups \cup deletedGroups \subseteq issued

(* What a handler is about to announce is gone, and what it is about to    *)
(* insert or write has been validated. *)
CallIsSound(c) ==
  /\ pc[c] \in {"rm_tuple", "rm_publish", "del_publish"} =>
       seen[c] \cap memberships = {}
  /\ pc[c] = "del_commit" => \A r \in seen[c] : r.group = G(c)
  /\ pc[c] \in {"del_admins", "del_members", "del_tuples", "del_select",
                "del_rows", "del_commit", "del_publish"} => G(c) \in issued
  /\ pc[c] = "del_publish" => G(c) \notin groups
  /\ pc[c] \in {"add_insert", "add_tuple", "add_publish"} =>
       MemberKey(G(c), M(c)) \in admitted

(* Together they hold in every reachable state, and one step of any        *)
(* handler, a crash or the loss of an identity keeps them.                 *)
IInv ==
  /\ ServiceTypeOK
  /\ EventsAreTrue
  /\ GrantsWereValidated
  /\ RowsAreFresh
  /\ GroupsAreFresh
  /\ \A c \in Calls : CallIsSound(c)

(* The steps of each handler, and that a request is at one of its own.     *)
AddLabels == {"add_validate", "add_insert", "add_readback", "add_tuple",
              "add_rollback", "add_publish"}
RemoveLabels == {"rm_lookup", "rm_delete", "rm_tuple", "rm_publish"}
CreateLabels == {"cr_tuples", "cr_rollback"}
DeleteLabels == {"del_admins", "del_members", "del_tuples", "del_select", "del_rows",
                 "del_commit", "del_publish"}
LabelFits(c) ==
  /\ pc[c] \in AddLabels => req[c].op = "add"
  /\ pc[c] \in RemoveLabels => req[c].op = "remove"
  /\ pc[c] \in CreateLabels => req[c].op = "create"
  /\ pc[c] \in DeleteLabels => req[c].op = "delete"
==============================================================================
