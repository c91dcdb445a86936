----------------------------- MODULE RollingUpdate -----------------------------
(***************************************************************************)
(* Two processes beside each other, each with a reconciler that knows      *)
(* nothing of the other one: a rolling update starts the new process       *)
(* before it stops the old one, and the chart can scale to three           *)
(* (src/charts/groups/values.yaml).  The second reconciler is a second     *)
(* instance of Reconciler on the same database and services.  It stops for *)
(* good at some time, or never.                                            *)
(***************************************************************************)
EXTENDS GroupsSystem

VARIABLES rpc2, gs2, ms2, admins2, todoGroups2, curGroup2, pending2, todoRows2,
          curRow2, unread2, stale2

passVars2 == <<gs2, ms2, admins2, todoGroups2, curGroup2, pending2, todoRows2,
               curRow2, unread2, stale2>>
updateVars == <<systemVars, rpc2, passVars2>>

Other == INSTANCE Reconciler
  WITH rpc <- rpc2, gs <- gs2, ms <- ms2, admins <- admins2,
       todoGroups <- todoGroups2, curGroup <- curGroup2, pending <- pending2,
       todoRows <- todoRows2, curRow <- curRow2, unread <- unread2, stale <- stale2

(* The stores are in any state that earlier failures may have left, and    *)
(* each reconciler has read some groups that were there at the time.       *)
UpdateInit ==
  /\ groups \in SUBSET Groups
  /\ memberships \in SUBSET [id : RowIds \ Calls, group : groups, member : Identities]
  /\ \A r, s \in memberships : r.id = s.id => r = s
  /\ UniqueMember
  /\ tuples \in SUBSET TupleKeys
  /\ identities \in SUBSET Identities
  /\ added = {} /\ removed = {} /\ deletedGroups = {} /\ faults = 0
  /\ pc = [c \in Calls |-> "start"] /\ req \in [Calls -> Request]
  /\ seen = [c \in Calls |-> {}] /\ doomed = [c \in Calls |-> {}]
  /\ issued = groups /\ admitted = {}
  /\ rpc = "list_rows" /\ gs \in SUBSET Groups
  /\ rpc2 = "list_rows" /\ gs2 \in SUBSET Groups
  /\ ms = {} /\ admins = {} /\ todoGroups = {} /\ pending = {}
  /\ todoRows = {} /\ unread = {} /\ stale = {} /\ curGroup = None /\ curRow = None
  /\ ms2 = {} /\ admins2 = {} /\ todoGroups2 = {} /\ pending2 = {}
  /\ todoRows2 = {} /\ unread2 = {} /\ stale2 = {} /\ curGroup2 = None /\ curRow2 = None

(* A process that dies takes along the requests it runs.                   *)
SomeDie == KillCalls \/ UNCHANGED pc

OtherPass == Other!PassStep /\ UNCHANGED <<pc, callVars, reconcilerVars>>
OtherPanic == Other!Panic /\ SomeDie /\ UNCHANGED <<callVars, reconcilerVars>>
OtherStops ==
  /\ rpc2 # "gone" /\ Other!EndPass("gone") /\ SomeDie
  /\ UNCHANGED <<worldVars, callVars, reconcilerVars>>

UpdateNext ==
  \/ /\ \/ \E c \in Calls : SystemCall(c)
        \/ SystemPass
        \/ Panic /\ SomeDie /\ UNCHANGED callVars
        \/ \E i \in Identities : SystemIdentity(i)
     /\ UNCHANGED <<rpc2, passVars2>>
  \/ OtherPass \/ OtherPanic \/ OtherStops

(* Each process goes on by itself, as one does in FairSystemSpec.          *)
FairUpdateSpec ==
  /\ UpdateInit /\ [][UpdateNext]_updateVars
  /\ WF_updateVars(SystemPass /\ UNCHANGED <<rpc2, passVars2>>)
  /\ WF_updateVars(Panic /\ SomeDie /\ UNCHANGED <<callVars, rpc2, passVars2>>)
  /\ WF_updateVars(OtherPass) /\ WF_updateVars(OtherPanic)

(***************************************************************************)
(* Correctness                                                             *)
(***************************************************************************)
(* Two reconcilers may find the same orphan, but one only has removed its  *)
(* row, and so one only deletes the tuple and announces the removal; nor   *)
(* does a RemoveMember that runs beside them announce the same row.        *)
OneRemover ==
  /\ Handling(rpc) /\ Handling(rpc2) => curRow # curRow2
  /\ \A c \in Calls : Removing(c) =>
       /\ Handling(rpc) => curRow \notin seen[c]
       /\ Handling(rpc2) => curRow2 \notin seen[c]

(* The inductive invariant behind it: what somebody has removed is out of  *)
(* the table for good, since no request has yet to insert its id, so that  *)
(* nobody who removes a row now can be given it a second time.             *)
GoneForGood(r) == r \notin memberships /\ \A c \in Calls : Unborn(c) => r.id # c

RemoverIInv ==
  /\ OneRemover
  /\ pc \in [Calls -> Labels] /\ DOMAIN seen = Calls
  /\ \A r \in memberships : \A c \in Calls : Unborn(c) => r.id # c
  /\ Handling(rpc) => GoneForGood(curRow)
  /\ Handling(rpc2) => GoneForGood(curRow2)
  /\ \A c \in Calls : Removing(c) => \A r \in seen[c] : GoneForGood(r)
================================================================================
