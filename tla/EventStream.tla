----------------------------- MODULE EventStream -----------------------------
(***************************************************************************)
(* What a consumer of the event stream knows.  An event names the group    *)
(* and the member, not the membership row (publisher.go, memberships.go),  *)
(* and carries no sequence number, so a consumer keeps a set of pairs: it  *)
(* adds the pair of a GroupMembershipAdded, drops the pair of a            *)
(* GroupMembershipRemoved and all pairs of a group that is deleted.        *)
(*                                                                         *)
(* Handlers publish after their last write and without a lock, so events   *)
(* may come in another order than the rows changed, and a lost event is    *)
(* never sent again.  This module adds to the system the consumer's view   *)
(* and the history of what excuses a wrong one, so that the property can   *)
(* say that nothing else makes it wrong.                                   *)
(***************************************************************************)
EXTENDS LedgerRefinement

VARIABLES view,      \* the pairs the consumer takes for members
          blurred    \* pairs with an excuse; view forgets them

streamVars == <<systemVars, view, blurred>>

PairsOf(g) == {MemberKey(g, m) : m \in Identities}
Pairs == UNION {PairsOf(g) : g \in Groups}
PairsIn(rows) == {KeyOf(r) : r \in rows}
PairsTouched(c) ==
  IF req[c].op \in {"add", "remove"} THEN {MemberKey(G(c), M(c))}
  ELSE PairsOf(G(c))

(* The orphan the pass has taken out of the tables but not yet announced. *)
OrphanInHand ==
  IF rpc \in {"orphan_read", "orphan_write", "orphan_publish"}
    THEN {KeyOf(curRow)} ELSE {}

(* What the consumer makes of the events of this step.  An event that     *)
(* repeats an earlier one counts as lost: it could only drop a pair again, *)
(* and none repeats one while its group lives (AnnouncedOnce).             *)
AfterEvents ==
  ((view \cup PairsIn(added' \ added)) \ PairsIn(removed' \ removed))
    \ UNION {PairsOf(g) : g \in deletedGroups' \ deletedGroups}

(* A running AddMember beside the removal of its pair or of its group, or  *)
(* beside the CreateGroup whose rollback takes the group away: the events  *)
(* of the two may come in either order.                                    *)
Running(c, k) == Busy(c) /\ k \in PairsTouched(c)
Crossed ==
  {k \in Pairs :
     /\ \E c \in Calls : Running(c, k) /\ req[c].op = "add"
     /\ \/ k \in OrphanInHand
        \/ \E d \in Calls : Running(d, k) /\ req[d].op # "add"}

Observe(silenced) ==
  /\ blurred' = blurred \cup silenced \cup Crossed'
  /\ view' = AfterEvents \ blurred'

(* A change to the rows that no event will follow, or an event that is     *)
(* lost: a statement that failed after it took effect, a rollback that     *)
(* failed, a RemoveMember that returns when its tuple cannot be deleted.   *)
Silent(c) ==
  \/ faults' > faults /\ (storeVars' # storeVars \/ pc[c] = "add_rollback")
  \/ pc[c] = "rm_tuple" /\ pc'[c] = "failed"
  \/ pc[c] \in {"add_publish", "rm_publish"} /\ UNCHANGED eventVars
SilencedBy(c) ==
  (IF Silent(c) THEN PairsTouched(c) ELSE {})
  \cup (IF pc[c] = "del_publish" /\ UNCHANGED eventVars
          THEN PairsIn(seen[c] \ seen'[c]) ELSE {})

(* The same for the orphan of a pass. *)
SilencedByPass ==
  (IF rpc' = "idle" \/ (rpc = "orphan_publish" /\ UNCHANGED eventVars)
     THEN OrphanInHand ELSE {})
  \cup (IF faults' > faults THEN PairsIn(memberships \ memberships') ELSE {})

(* What a crash or a panic cuts off. *)
Interrupted == OrphanInHand \cup {k \in Pairs : \E c \in Calls : Running(c, k)}

StreamInit ==
  /\ SystemInit
  /\ view = PairsIn(memberships)
  /\ blurred = {}

StreamCall(c) == SystemCall(c) /\ Observe(SilencedBy(c))
StreamPass == SystemPass /\ Observe(SilencedByPass)
StreamPanic == SystemPanic /\ Observe(Interrupted)
StreamCrash == SystemCrash /\ Observe(Interrupted)
StreamIdentity(i) == SystemIdentity(i) /\ Observe({})

StreamNext ==
  \/ \E c \in Calls : StreamCall(c)
  \/ StreamPass
  \/ StreamPanic
  \/ StreamCrash
  \/ \E i \in Identities : StreamIdentity(i)

StreamSpec == StreamInit /\ [][StreamNext]_streamVars
FairStreamSpec == StreamSpec /\ PassFairness

(* A consumer knows the members exactly: of every pair that no running     *)
(* request or pass touches, and that has no excuse, its view agrees with   *)
(* the database.  The excuses are the hazards of this protocol: events of  *)
(* crossing requests (memberships.go:60), a removal that fails between row *)
(* and event (memberships.go:99), a crash, a lost event.  In particular    *)
(* a group deleted with its rows, a rolled-back AddMember, equal requests  *)
(* that race, and the pass's removal of orphans leave no consumer behind.  *)
ConsumersAreRight ==
  \A k \in Pairs \ blurred :
    \/ k \in OrphanInHand
    \/ \E c \in Calls : Running(c, k)
    \/ k \in view <=> k \in PairsIn(memberships)

(***************************************************************************)
(* What is behind it: who accounts for a pair that the consumer and the    *)
(* database disagree on, and what each request relies on at its steps.     *)
(***************************************************************************)
Own(c) == MemberKey(G(c), M(c))
Present(k) == k \in PairsIn(memberships)

(* The row is in the table, or about to leave it, and not yet announced. *)
Adding(c, k) == pc[c] \in {"add_tuple", "add_rollback", "add_publish"} /\ k = Own(c)

(* The row is out of the table and its event is to come. *)
RemoverOf(c, k) == pc[c] \in {"rm_tuple", "rm_publish"} /\ k = Own(c)
Announces(c, k) ==
  \/ RemoverOf(c, k)
  \/ pc[c] = "del_publish" /\ k \in PairsOf(G(c)) /\ k \in PairsIn(seen[c])

RequestFits(c, k) ==
  /\ Adding(c, k) => Present(k) /\ k \notin view /\ \A d \in Calls : Adding(d, k) => d = c
  /\ RemoverOf(c, k) => ~Present(k)
  /\ k \in PairsOf(G(c)) =>
       /\ pc[c] \in {"cr_tuples", "cr_rollback"} => ~Present(k) /\ k \notin view
       /\ pc[c] = "del_commit" /\ Present(k) => k \in PairsIn(seen[c])
       /\ pc[c] = "del_publish" => ~Present(k)

PairFits(k) ==
  /\ k \notin Crossed
  /\ \A c \in Calls : RequestFits(c, k)
  /\ k \in OrphanInHand => ~Present(k)
  /\ k \in view /\ ~Present(k) => k \in OrphanInHand \/ \E c \in Calls : Announces(c, k)
  /\ Present(k) /\ k \notin view => \E c \in Calls : Adding(c, k)

(* The rows a request holds are of its pair, or of its group. *)
HandFits(c) ==
  /\ pc[c] \in {"rm_tuple", "rm_publish"} => PairsIn(seen[c]) \subseteq {Own(c)}
  /\ pc[c] \in {"del_commit", "del_publish"} => PairsIn(seen[c]) \subseteq PairsOf(G(c))

(* A member that consumers and database disagree on is about to be         *)
(* announced, or taken back, by exactly the AddMember, RemoveMember,       *)
(* DeleteGroup or pass that changed its row; no other request still holds  *)
(* a row, a list or an orphan that would announce the opposite.            *)
ConsumersFit ==
  /\ ForeignKey
  /\ view \subseteq Pairs \ blurred /\ \A k \in view : k.group \in issued
  /\ \A c \in Calls : LabelFits(c) /\ HandFits(c)
  /\ \A k \in Pairs \ blurred : PairFits(k)

(* The inductive invariant: the whole process's own, and the consumers'. *)
ConsumersIInv == SystemIInv /\ ConsumersFit
==============================================================================
