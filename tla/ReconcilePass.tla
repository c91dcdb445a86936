---------------------------- MODULE ReconcilePass ----------------------------
(***************************************************************************)
(* What one pass of the reconciler achieves while requests go on beside    *)
(* it.  The pass works from a snapshot, so about a tuple that the requests *)
(* change meanwhile it can promise nothing (GroupsSystem shows two ways it *)
(* goes wrong); this module says what it promises about all the others.    *)
(* It adds two history variables to GroupsSystem and starts it in any      *)
(* state the two stores may have drifted to.                               *)
(***************************************************************************)
EXTENDS GroupsSystem

VARIABLES touched,   \* tuples that something else changed since the pass began
          settled    \* tuples that were right when the pass began

historyVars == <<touched, settled>>

(* The row, or the group, that calls for a tuple is in the database. *)
Supported(k) == k \in Expected(k.group)
(* An admin or member tuple whose identity is gone is not to be kept. *)
Exists(k) == k.relation # "org" => k.user \in identities
Status(k) == <<k \in tuples, Supported(k), Exists(k)>>

Right == {k \in tuples : Supported(k) /\ Exists(k)}

(* Crashes, lost answers and races leave any tuples behind; identities go  *)
(* away without the service being told.                                    *)
PassInit ==
  /\ groups \in SUBSET Groups
  /\ memberships \in SUBSET [id : RowIds \ Calls, group : groups, member : Identities]
  /\ \A r, s \in memberships : r.id = s.id => r = s
  /\ UniqueMember
  /\ tuples \in SUBSET TupleKeys
  /\ identities \in SUBSET Identities
  /\ added = {} /\ removed = {} /\ deletedGroups = {}
  /\ faults = 0
  /\ pc = [c \in Calls |-> "start"]
  /\ req \in [Calls -> Request]
  /\ seen = [c \in Calls |-> {}]
  /\ doomed = [c \in Calls |-> {}]
  /\ issued = groups
  /\ admitted = {MemberKey(g, m) : g \in Groups, m \in Identities}
  /\ ReconcilerInit
  /\ touched = {} /\ settled = {}

Touching ==
  /\ touched' = touched \cup {k \in TupleKeys : Status(k)' # Status(k)}
  /\ UNCHANGED settled

PassNext ==
  \/ \E c \in Calls : SystemCall(c) /\ Touching
  \/ \E i \in Identities : SystemIdentity(i) /\ Touching
  \/ (SystemPanic \/ SystemCrash) /\ UNCHANGED historyVars
  \/ /\ SystemPass
     /\ IF rpc \in {"idle", "complete"}
        THEN touched' = {} /\ settled' = Right
        ELSE UNCHANGED historyVars

PassSpec == PassInit /\ [][PassNext]_<<systemVars, historyVars>>

(* When a pass completes, every tuple that nothing else changed since it   *)
(* began is right: an organization or member tuple is there exactly if the *)
(* database calls for it, an admin tuple only on a live group and for an   *)
(* identity that exists, and no membership of an identity that is gone is  *)
(* left.                                                                   *)
PassRepairsUntouched ==
  rpc = "complete" => \A k \in TupleKeys \ touched :
    /\ k.relation \in {"org", "member"} => (k \in tuples <=> Supported(k))
    /\ k.relation = "admin" /\ k \in tuples => Supported(k) /\ Exists(k)
    /\ k.relation = "member" /\ Supported(k) => Exists(k)

(* A pass never takes away, not even for a moment, a tuple that was right  *)
(* when it began and that nothing else changed since.                      *)
SettledTuplesSurvive == settled \ touched \subseteq tuples

(***************************************************************************)
(* The inductive invariant behind both: how far the pass has come with a   *)
(* tuple that nothing else has touched.                                    *)
(***************************************************************************)
GroupLabels == {"groups", "org_write", "admins", "admin_check"}
ScanLabels == {"scan", "sweep"}

(* The tuple is called for just if its group is in the snapshot, and is    *)
(* there once the loop over the groups has passed the group.               *)
OrgIsRight(k) ==
  /\ Supported(k) <=> k.group \in gs
  /\ Supported(k) /\ rpc # "list_rows" =>
       \/ k \in tuples
       \/ rpc \in GroupLabels /\ k.group \in todoGroups
       \/ rpc = "org_write" /\ k.group = curGroup

(* An admin found valid exists, and one that was right when the pass began *)
(* is found valid. *)
AdminIsRight(k) ==
  /\ Supported(k) <=> k.group \in gs
  /\ k \in admins => Exists(k)
  /\ k \in settled /\ rpc # "list_rows" =>
       \/ k \in admins
       \/ rpc \in GroupLabels /\ k.group \in todoGroups
       \/ rpc \in {"org_write", "admins"} /\ k.group = curGroup
       \/ rpc = "admin_check" /\ k \in pending

(* The snapshot of the rows is up to date for the tuple, and the tuple is  *)
(* there, for an identity that exists, or its row is still to be handled.  *)
Handles(labels, k) == rpc \in labels /\ KeyOf(curRow) = k
MemberIsRight(k) ==
  rpc # "list_rows" =>
    /\ Supported(k) <=> \E r \in ms : KeyOf(r) = k
    /\ Supported(k) =>
         \/ k \in tuples /\ Exists(k)
         \/ \E r \in todoRows : KeyOf(r) = k
         \/ Handles({"row_read", "row_write", "orphan_delete"}, k)
    /\ Handles({"row_read", "row_write"}, k) => Exists(k)
    /\ Handles({"orphan_delete"}, k) => ~Exists(k)
    /\ Handles({"orphan_read", "orphan_write"}, k) => ~Supported(k)

(* The scan has noted the tuple if the snapshot does not back it. *)
ScanIsRight(k) ==
  rpc \in ScanLabels /\ k \in tuples /\ ~Backed(k) =>
    k \in stale \/ (rpc = "scan" /\ \E p \in unread : k \in p)

KeyIsRight(k) ==
  /\ k.relation = "org" => OrgIsRight(k)
  /\ k.relation = "admin" => AdminIsRight(k)
  /\ k.relation = "member" => MemberIsRight(k)
  /\ ScanIsRight(k)

(* What was right when the pass began still is, and the pass deletes in    *)
(* the end only what its snapshot does not back.                           *)
PassIInv ==
  /\ SystemIInv /\ ForeignKey
  /\ settled \subseteq TupleKeys /\ settled \ touched \subseteq Right
  /\ PassRepairsUntouched
  /\ rpc \in {"idle", "complete", "list_rows"} => admins = {}
  /\ rpc \notin ScanLabels => stale = {}
  /\ rpc \in ScanLabels => todoRows = {} /\ \A k \in stale : ~Backed(k)
  /\ rpc \notin {"idle", "complete"} => \A k \in TupleKeys \ touched : KeyIsRight(k)
==============================================================================
