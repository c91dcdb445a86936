---------------------------- MODULE GroupsSystem ----------------------------
(***************************************************************************)
(* The process of cmd/groups/main.go: the gRPC handlers of GroupsService   *)
(* and the goroutine of Reconciler over the same database, authorization   *)
(* service, identity service and event stream.  A crash, and the           *)
(* reconciler's panic, end every running request and the running pass; the *)
(* process is then started again, and the reconciler with it.              *)
(***************************************************************************)
EXTENDS GroupsService, Reconciler

systemVars == <<serviceVars, reconcilerVars>>

SystemInit == ServiceInit /\ ReconcilerInit

SystemCall(c) == CallStep(c) /\ UNCHANGED reconcilerVars
SystemPass == PassStep /\ UNCHANGED <<pc, callVars>>
SystemPanic == Panic /\ KillCalls /\ UNCHANGED callVars
SystemCrash == Crash /\ Abort
SystemIdentity(i) == RemoveIdentity(i) /\ UNCHANGED reconcilerVars

SystemNext ==
  \/ \E c \in Calls : SystemCall(c)
  \/ SystemPass
  \/ SystemPanic
  \/ SystemCrash
  \/ \E i \in Identities : SystemIdentity(i)

SystemSpec == SystemInit /\ [][SystemNext]_systemVars

(* The ticker keeps firing and an I/O call of the pass returns, so the     *)
(* reconciler's goroutine always goes on.  Nothing is asked of a request:  *)
(* it may never be sent, or hang for ever at any step.                     *)
PassFairness == WF_systemVars(SystemPass) /\ WF_systemVars(SystemPanic)
FairSystemSpec == SystemSpec /\ PassFairness

(***************************************************************************)
(* Correctness                                                             *)
(***************************************************************************)
(* GrantsWereValidated and EventsAreTrue of GroupsService hold with the    *)
(* reconciler at work beside the requests, and so do the types.            *)
SystemTypeOK == ServiceTypeOK /\ ReconcilerTypeOK

(* What the pass holds while requests go on: a row of its loop was once    *)
(* committed, so its identity was validated and no request has yet to      *)
(* insert it; an orphan whose tuple or event is still to come is out of    *)
(* the tables; and at each label the loop variable it uses is set.         *)
Held == todoRows \cup ({curRow} \ {None})
PassIsSound ==
  /\ \A r \in Held :
       KeyOf(r) \in admitted /\ \A c \in Calls : Unborn(c) => r.id # c
  /\ rpc \in {"orphan_read", "orphan_write", "orphan_publish"} =>
       curRow \notin memberships
  /\ rpc \in {"row_read", "row_write", "orphan_delete", "orphan_read",
              "orphan_write", "orphan_publish"} => curRow # None
  /\ rpc \in {"org_write", "admins", "admin_check"} => curGroup # None

(* The inductive invariant behind GrantsWereValidated and EventsAreTrue    *)
(* when the reconciler writes tuples and publishes events too: no request, *)
(* pass, panic or crash breaks it.                                         *)
SystemIInv == IInv /\ SystemTypeOK /\ PassIsSound

(* Who has taken a row from its table and is yet to announce that: a       *)
(* RemoveMember after its DELETE, and a pass with an orphan.               *)
Removing(c) == pc[c] \in {"rm_tuple", "rm_publish"}
Handling(label) == label \in {"orphan_read", "orphan_write", "orphan_publish"}

(* The removals of a live group that a request, or the pass, announces if  *)
(* nothing stops it; DeletePublish announces what its transaction has read.*)
Live(rows) == {r \in rows : r.group \in groups}
Hand(c) == IF Removing(c) \/ pc[c] = "del_publish" THEN Live(seen[c]) ELSE {}
Orphan == IF Handling(rpc) THEN Live({curRow}) ELSE {}

(* While its group lives, no removal of a member is announced twice: who   *)
(* finds the row in DELETE ... RETURNING announces it (store.go:257), so   *)
(* that equal requests, a retry and the pass hold no row that another one  *)
(* holds or that has been announced.  Once its group is gone DeleteGroup   *)
(* may announce it again, since it lists the rows before it deletes them   *)
(* (store.go:183).                                                         *)
AnnouncedOnce ==
  /\ \A c, d \in Calls : c # d => Hand(c) \cap Hand(d) = {}
  /\ \A c \in Calls : Hand(c) \cap (Orphan \cup removed) = {}
  /\ Orphan \cap removed = {}

(* The inductive invariant behind it: what is in a hand is of a group that *)
(* was drawn, so that it is not live again once it is gone, and what       *)
(* DeleteGroup announces is of the group that it has deleted.              *)
HandsIInv ==
  /\ SystemIInv
  /\ AnnouncedOnce
  /\ \A r \in memberships : r.group \in issued
  /\ \A c \in Calls : Removing(c) => \A r \in seen[c] : r.group \in issued
  /\ \A c \in Calls : pc[c] = "del_publish" => \A r \in seen[c] : r.group = G(c)
  /\ Handling(rpc) => curRow.group \in issued

(* What the reconciler can restore for a group: the organization tuple and *)
(* the member tuples are those the database calls for; no member is an     *)
(* identity that is gone; an admin tuple is left only on a live group and  *)
(* for an identity that exists.  It cannot restore an admin tuple that was *)
(* lost, for the database does not know who created a group.               *)
Repaired(g) ==
  /\ KeysOn(g) \ {AdminKey(g)} = Expected(g) \ {AdminKey(g)}
  /\ AdminKey(g) \in tuples => g \in groups /\ CreatorOf[g] \in identities
  /\ \A r \in RowsOf(g) : r.member \in identities

(* Whatever crashes, failed or lost calls, races and identity removals     *)
(* have left behind, the two stores end up in agreement and stay so, even  *)
(* when requests hang for ever between their two writes.                   *)
EventuallyRepaired == <>[](\A g \in Groups : Repaired(g))

(* reconciliation.go:55-57 asserts it with a panic: every membership of a  *)
(* pass belongs to a group of the pass.                                    *)
SnapshotIsClosed == ~MissingGroup

(* reconciliation.go:242 and :279, deleteStaleGroupTuples and              *)
(* tupleBackedByStore: what the pass deletes at its end is stale, that is, *)
(* the database does not call for it.                                      *)
SweepDeletesOnlyStale ==
  [][rpc = "sweep" => \A g \in Groups : (tuples \ tuples') \cap Expected(g) = {}]_systemVars
=============================================================================
