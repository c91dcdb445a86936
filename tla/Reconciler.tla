----------------------------- MODULE Reconciler -----------------------------
(***************************************************************************)
(* The background reconciler: Reconciler.Run (reconciler.go) runs a pass   *)
(* of Server.Reconcile (reconciliation.go) at start-up and then at every   *)
(* tick.  A pass reads both tables, repairs the tuples they call for,      *)
(* removes memberships of identities that no longer exist, and at last     *)
(* deletes every group tuple that its snapshot of the tables does not      *)
(* back.  There is one process and one reconciler in it, but the handlers  *)
(* of GroupsService go on while it runs, and every call a pass makes is a  *)
(* step of its own.                                                        *)
(*                                                                         *)
(* Any error ends the pass; the next tick starts a new one.  Unlike in the *)
(* handlers a failed read counts as a fault, for a pass that could fail    *)
(* for ever would repair nothing.                                          *)
(***************************************************************************)
EXTENDS Environment

CONSTANTS Pages,       \* how Read splits the tuple store into pages
          None

ASSUME PagesAssumption == UNION Pages = TupleKeys
ASSUME NoneAssumption == None \notin Groups /\ None \notin Row

VARIABLES rpc,         \* the next step of the pass
          gs, ms,      \* its snapshots of the two tables
          admins,      \* the admin tuples it found valid
          todoGroups, curGroup, pending,   \* the loop over gs
          todoRows, curRow,                \* the loop over memberships
          unread, stale                    \* the scan and what it will delete

passVars == <<gs, ms, admins, todoGroups, curGroup, pending, todoRows,
              curRow, unread, stale>>
reconcilerVars == <<rpc, passVars>>

RLabels == {"idle", "complete", "list_rows", "groups", "org_write", "admins",
            "admin_check", "rows", "row_read", "row_write", "orphan_delete",
            "orphan_read", "orphan_write", "orphan_publish", "scan", "sweep"}

ReconcilerTypeOK ==
  /\ rpc \in RLabels
  /\ gs \subseteq Groups /\ todoGroups \subseteq Groups
  /\ ms \subseteq Row /\ todoRows \subseteq Row
  /\ curGroup \in Groups \cup {None} /\ curRow \in Row \cup {None}
  /\ admins \subseteq TupleKeys /\ pending \subseteq TupleKeys
  /\ stale \subseteq TupleKeys
  /\ unread \subseteq Pages

ReconcilerInit ==
  /\ rpc = "idle"
  /\ gs = {} /\ ms = {} /\ admins = {} /\ todoGroups = {} /\ pending = {}
  /\ todoRows = {} /\ unread = {} /\ stale = {}
  /\ curGroup = None /\ curRow = None

(* The locals of a pass end with it. *)
EndPass(label) ==
  /\ rpc' = label
  /\ gs' = {} /\ ms' = {} /\ admins' = {} /\ todoGroups' = {} /\ pending' = {}
  /\ todoRows' = {} /\ unread' = {} /\ stale' = {}
  /\ curGroup' = None /\ curRow' = None
Abort == EndPass("idle")

(* ListAllGroups, the first call of a pass *)
ListGroups ==
  /\ rpc \in {"idle", "complete"}
  /\ rpc' = "list_rows"
  /\ gs' = groups
  /\ UNCHANGED <<ms, admins, todoGroups, curGroup, pending, todoRows, curRow,
                 unread, stale, worldVars>>

(* ListAllMemberships, a second statement outside any transaction *)
ListMemberships ==
  /\ rpc = "list_rows"
  /\ rpc' = "groups"
  /\ ms' = memberships
  /\ todoGroups' = gs
  /\ todoRows' = memberships
  /\ UNCHANGED <<gs, admins, curGroup, pending, curRow, unread, stale,
                 worldVars>>

(***************************************************************************)
(* The loop over the groups                                                *)
(***************************************************************************)
(* ensureTuple(groupOrgTuple): look, then write if it was missing *)
NextGroup(g) ==
  /\ rpc = "groups"
  /\ g \in todoGroups
  /\ todoGroups' = todoGroups \ {g}
  /\ curGroup' = g
  /\ rpc' = IF OrgKey(g) \in tuples THEN "admins" ELSE "org_write"
  /\ UNCHANGED <<gs, ms, admins, pending, todoRows, curRow, unread, stale,
                 worldVars>>

EnsureOrg ==
  /\ rpc = "org_write"
  /\ \/ /\ Write({OrgKey(curGroup)}, {})
        /\ rpc' = "admins" /\ UNCHANGED passVars
     \/ /\ WriteFails({OrgKey(curGroup)}, {})
        /\ Abort
  /\ UNCHANGED <<storeVars, identities, eventVars>>

(* mutant: the admins are taken from nowhere *)
ReadNoAdmins ==
  /\ rpc = "admins"
  /\ rpc' = "admin_check"
  /\ UNCHANGED <<passVars, worldVars>>

(* readValidGroupAdmins: read the admin tuples, look each identity up *)
ReadAdmins ==
  /\ rpc = "admins"
  /\ rpc' = "admin_check"
  /\ pending' = AdminsOf(curGroup)
  /\ UNCHANGED <<gs, ms, admins, todoGroups, curGroup, todoRows, curRow,
                 unread, stale, worldVars>>

CheckAdmin(k) ==
  /\ rpc = "admin_check"
  /\ k \in pending
  /\ pending' = pending \ {k}
  /\ admins' = IF k.user \in identities THEN admins \cup {k} ELSE admins
  /\ UNCHANGED <<rpc, gs, ms, todoGroups, curGroup, todoRows, curRow, unread,
                 stale, worldVars>>

GroupDone ==
  /\ rpc = "admin_check"
  /\ pending = {}
  /\ rpc' = "groups"
  /\ curGroup' = None
  /\ UNCHANGED <<gs, ms, admins, todoGroups, pending, todoRows, curRow,
                 unread, stale, worldVars>>

GroupsDone ==
  /\ rpc = "groups"
  /\ todoGroups = {}
  /\ rpc' = "rows"
  /\ UNCHANGED <<passVars, worldVars>>

(***************************************************************************)
(* The loop over the memberships                                           *)
(***************************************************************************)
(* panic("membership references missing group"): the process dies *)
MissingGroup == rpc = "rows" /\ \E r \in todoRows : r.group \notin gs
Panic ==
  /\ MissingGroup
  /\ Abort
  /\ UNCHANGED worldVars

(* identityExists *)
NextRow(r) ==
  /\ rpc = "rows"
  /\ r \in todoRows
  /\ r.group \in gs
  /\ todoRows' = todoRows \ {r}
  /\ curRow' = r
  /\ rpc' = IF r.member \in identities THEN "row_read" ELSE "orphan_delete"
  /\ UNCHANGED <<gs, ms, admins, todoGroups, curGroup, pending, unread, stale,
                 worldVars>>

ReadRowTuple ==
  /\ rpc = "row_read"
  /\ rpc' = IF KeyOf(curRow) \in tuples THEN "rows" ELSE "row_write"
  /\ UNCHANGED <<passVars, worldVars>>

EnsureRowTuple ==
  /\ rpc = "row_write"
  /\ \/ /\ Write({KeyOf(curRow)}, {})
        /\ rpc' = "rows" /\ UNCHANGED passVars
     \/ /\ WriteFails({KeyOf(curRow)}, {})
        /\ Abort
  /\ UNCHANGED <<storeVars, identities, eventVars>>

(* mutant: the deleted flag is not looked at *)
DeleteOrphanUnchecked ==
  /\ rpc = "orphan_delete"
  /\ RowsFor(curRow.group, curRow.member) = {}
  /\ curRow' = None
  /\ rpc' = "orphan_publish"
  /\ UNCHANGED <<worldVars, gs, ms, admins, todoGroups, curGroup, pending,
                 todoRows, unread, stale>>

(* mutant: the error of RemoveMember is not looked at *)
DeleteOrphanIgnored ==
  /\ rpc = "orphan_delete"
  /\ LET rows == RowsFor(curRow.group, curRow.member)
     IN  Execute(groups, memberships \ rows) \/ ExecuteFails(groups, memberships \ rows)
  /\ rpc' = "orphan_read"
  /\ UNCHANGED <<tuples, identities, eventVars, passVars>>

(* mutant: a row that somebody else has deleted is announced as well *)
DeleteOrphanAnyway ==
  /\ rpc = "orphan_delete"
  /\ LET rows == RowsFor(curRow.group, curRow.member)
     IN  \/ Execute(groups, memberships \ rows) /\ rpc' = "orphan_read" /\ UNCHANGED passVars
         \/ ExecuteFails(groups, memberships \ rows) /\ Abort
  /\ UNCHANGED <<tuples, identities, eventVars>>

(* store.RemoveMember takes the pair's row, which may not be the one of    *)
(* the snapshot any more; removeMembership drops the pair from the         *)
(* snapshot, so that the scan does not take its tuple for backed.          *)
DeleteOrphan ==
  /\ rpc = "orphan_delete"
  /\ LET rows == RowsFor(curRow.group, curRow.member)
     IN  \/ /\ rows = {}
            /\ rpc' = "rows"
            /\ UNCHANGED <<storeVars, faults, passVars>>
         \/ \E r \in rows :
              /\ Execute(groups, memberships \ rows)
              /\ curRow' = r
              /\ ms' = {s \in ms : KeyOf(s) # KeyOf(r)}
              /\ rpc' = "orphan_read"
              /\ UNCHANGED <<gs, admins, todoGroups, curGroup, pending,
                             todoRows, unread, stale>>
         \/ /\ ExecuteFails(groups, memberships \ rows)
            /\ Abort
  /\ UNCHANGED <<tuples, identities, eventVars>>

(* mutant: an orphan without a tuple is removed without an event *)
ReadOrphanTupleQuietly ==
  /\ rpc = "orphan_read"
  /\ rpc' = IF KeyOf(curRow) \in tuples THEN "orphan_write" ELSE "rows"
  /\ UNCHANGED <<passVars, worldVars>>

(* deleteTupleIfPresent: look, then delete *)
ReadOrphanTuple ==
  /\ rpc = "orphan_read"
  /\ rpc' = IF KeyOf(curRow) \in tuples THEN "orphan_write" ELSE "orphan_publish"
  /\ UNCHANGED <<passVars, worldVars>>

DeleteOrphanTuple ==
  /\ rpc = "orphan_write"
  /\ \/ /\ Write({}, {KeyOf(curRow)})
        /\ rpc' = "orphan_publish" /\ UNCHANGED passVars
     \/ /\ WriteFails({}, {KeyOf(curRow)})
        /\ Abort
  /\ UNCHANGED <<storeVars, identities, eventVars>>

PublishOrphan ==
  /\ rpc = "orphan_publish"
  /\ PublishRemoved(curRow)
  /\ rpc' = "rows"
  /\ UNCHANGED <<storeVars, tuples, identities, faults, passVars>>

RowsDone ==
  /\ rpc = "rows"
  /\ todoRows = {}
  /\ rpc' = "scan"
  /\ unread' = Pages
  /\ UNCHANGED <<gs, ms, admins, todoGroups, curGroup, pending, todoRows,
                 curRow, stale, worldVars>>

(***************************************************************************)
(* deleteStaleGroupTuples                                                  *)
(***************************************************************************)
(* mutant: a live group backs all its member tuples *)
BackedByGroup(k) ==
  /\ k.group \in gs
  /\ k.relation = "admin" => k \in admins

(* tupleBackedByStore, which knows the tables from the snapshot only *)
Backed(k) ==
  CASE k.relation = "org" -> k.group \in gs /\ k = OrgKey(k.group)
    [] k.relation = "member" -> \E r \in ms : KeyOf(r) = k
    [] k.relation = "admin" -> k.group \in gs /\ k \in admins

(* mutant: the next page token is ignored *)
ScanFirstPage(p) ==
  /\ rpc = "scan"
  /\ p \in unread
  /\ stale' = {k \in p \cap tuples : ~Backed(k)}
  /\ unread' = {}
  /\ rpc' = "sweep"
  /\ UNCHANGED <<gs, ms, admins, todoGroups, curGroup, pending, todoRows,
                 curRow, worldVars>>

ScanPage(p) ==
  /\ rpc = "scan"
  /\ p \in unread
  /\ unread' = unread \ {p}
  /\ stale' = stale \cup {k \in p \cap tuples : ~Backed(k)}
  /\ rpc' = IF unread = {p} THEN "sweep" ELSE "scan"
  /\ UNCHANGED <<gs, ms, admins, todoGroups, curGroup, pending, todoRows,
                 curRow, worldVars>>

(* One Write for all of them; none is sent when there is nothing to delete *)
Sweep ==
  /\ rpc = "sweep"
  /\ \/ stale = {} /\ EndPass("complete") /\ UNCHANGED <<tuples, faults>>
     \/ stale # {} /\ Write({}, stale) /\ EndPass("complete")
     \/ stale # {} /\ WriteFails({}, stale) /\ Abort
  /\ UNCHANGED <<storeVars, identities, eventVars>>

(***************************************************************************)
(* The pass as a whole                                                     *)
(***************************************************************************)
ReadFails ==
  /\ rpc \in {"list_rows", "groups", "admins", "admin_check", "rows",
              "row_read", "orphan_read", "scan"}
  /\ Fault
  /\ Abort
  /\ UNCHANGED <<storeVars, tuples, identities, eventVars>>

GroupLoop ==
  \/ \E g \in Groups : NextGroup(g)
  \/ EnsureOrg \/ ReadAdmins
  \/ \E k \in TupleKeys : CheckAdmin(k)
  \/ GroupDone \/ GroupsDone
RowLoop ==
  \/ \E r \in todoRows : NextRow(r)
  \/ ReadRowTuple \/ EnsureRowTuple
  \/ DeleteOrphan \/ ReadOrphanTuple \/ DeleteOrphanTuple \/ PublishOrphan
  \/ RowsDone
Cleanup == (\E p \in Pages : ScanPage(p)) \/ Sweep

PassStep ==
  ListGroups \/ ListMemberships \/ GroupLoop \/ RowLoop \/ Cleanup \/ ReadFails
=============================================================================
