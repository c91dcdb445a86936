----------------------------- MODULE GroupCatalog -----------------------------
(***************************************************************************)
(* What the rows of table groups say of a group: CreateGroup, UpdateGroup  *)
(* and DeleteGroup (internal/server/groups.go) with the name, description, *)
(* source and external id that GroupsService leaves out, and what they     *)
(* tell the room of the organization.  Requests interleave at every call   *)
(* they make; a missing permission or an unavailable service ends one.     *)
(*                                                                         *)
(* A subscriber is external.  A notification names a group and says        *)
(* nothing of it (internal/server/notifications.go), so who hears of one   *)
(* reads the group again, at some later time.                              *)
(***************************************************************************)
EXTENDS Naturals

CONSTANTS Calls,          \* requests; the id CreateGroup draws is the call
          Stored,         \* the groups there at the beginning
          Requests,       \* what a request may ask for
          ValidNames,     \* the names validateName accepts
          Absent,         \* a field that is not given, and SQL's NULL
          Blank,          \* an external id that is empty but for white space
          MaxFaults       \* bound: statements, calls and processes that fail

IsGroup(r) ==
  r = [id |-> r.id, organization |-> r.organization, name |-> r.name,
       description |-> r.description, source |-> r.source, external |-> r.external]

(* What the handlers let into the table; the groups stored at the beginning *)
(* came in the same way. *)
Proper(r) ==
  /\ r.name \in ValidNames
  /\ r.source = "scim" <=> r.external \notin {Absent, Blank}

ASSUME CatalogAssumption ==
  /\ MaxFaults \in Nat
  /\ \A r \in Stored : IsGroup(r) /\ Proper(r) /\ r.id \notin Calls
  /\ \A r, s \in Stored : r.id = s.id => r = s

VARIABLES rows,           \* table groups
          pc, req,        \* the step of a request, and what it asks for
          found,          \* the group a request first read, for its organization
          clash,          \* the rows a constraint refused it for
          told,           \* groups with a notification on its way
          view,           \* rows as the subscriber has read them
          earlier,        \* history: the requests done before it began
          silenced,       \* history: groups with a request a fault ended
          faults

catalogVars == <<rows, pc, req, found, clash, told, view, earlier, silenced, faults>>

Ids == Calls \cup {r.id : r \in Stored}
RowAt(g) == {r \in rows : r.id = g}
Done == {"ok", "failed", "exists"}
Busy(c) == pc[c] \notin Done \cup {"start"}
Target(c) == IF req[c].op = "create" THEN c ELSE req[c].id

Goto(c, label) == pc' = [pc EXCEPT ![c] = label]
Begin(c, op) ==
  /\ pc[c] = "start" /\ req[c].op = op
  /\ earlier' = [earlier EXCEPT ![c] = {d \in Calls : pc[d] \in Done}]
Fault == faults < MaxFaults /\ faults' = faults + 1
Silence(gs) == Fault /\ silenced' = silenced \cup gs
NoFault == UNCHANGED <<faults, silenced>>

(* UNIQUE (organization_id, source, name) and UNIQUE (organization_id,     *)
(* source, external_id), where no NULL equals another. *)
Clashes(r) ==
  {s \in rows \ RowAt(r.id) :
     /\ s.organization = r.organization /\ s.source = r.source
     /\ s.name = r.name \/ (s.external = r.external /\ r.external # Absent)}

(* A statement takes effect, or its answer is lost, with or without it. *)
Takes(c, table, next) ==
  \/ rows' = table /\ Goto(c, next) /\ NoFault
  \/ rows' \in {rows, table} /\ Goto(c, "failed") /\ Silence({Target(c)})

(* It takes effect, or a constraint refuses it (isUniqueViolation). *)
Write(c, r, next) ==
  \/ /\ Clashes(r) = {} /\ Takes(c, (rows \ RowAt(r.id)) \cup {r}, next)
     /\ UNCHANGED clash
  \/ /\ Clashes(r) # {} /\ clash' = [clash EXCEPT ![c] = Clashes(r)]
     /\ Goto(c, "exists") /\ NoFault /\ UNCHANGED rows

(***************************************************************************)
(* CreateGroup                                                             *)
(***************************************************************************)
(* validateName, toStoreGroupSource and validateExternalID *)
ValidCreate(q) ==
  /\ q.name \in ValidNames
  /\ \/ q.source = "platform" /\ q.external \in {Absent, Blank}
     \/ q.source = "scim" /\ q.external \notin {Absent, Blank}

NewGroup(c) ==
  [id |-> c, organization |-> req[c].organization, name |-> req[c].name,
   description |-> req[c].description, source |-> req[c].source,
   external |-> req[c].external]

CreateRow(c) ==
  /\ Begin(c, "create")
  /\ \/ ValidCreate(req[c]) /\ Write(c, NewGroup(c), "cr_tuples")
     \/ Goto(c, "failed") /\ NoFault /\ UNCHANGED <<rows, clash>>
  /\ UNCHANGED <<req, found, told, view>>

(* writeGroupCreateTuples *)
CreateTuples(c) ==
  /\ pc[c] = "cr_tuples"
  /\ \/ Goto(c, "notify") /\ NoFault
     \/ Goto(c, "cr_rollback") /\ Silence({c})
  /\ UNCHANGED <<rows, req, found, clash, told, view, earlier>>

(* store.DeleteGroup, its result ignored *)
CreateRollback(c) ==
  /\ pc[c] = "cr_rollback"
  /\ Takes(c, rows \ RowAt(c), "failed")
  /\ UNCHANGED <<req, found, clash, told, view, earlier>>

(***************************************************************************)
(* UpdateGroup and DeleteGroup                                             *)
(***************************************************************************)
(* GetGroup, and what the handler checks before its next call; DeleteGroup *)
(* reads and deletes the tuples here, as GroupsService has it. *)
GetGroup(c, next) ==
  /\ \/ /\ RowAt(Target(c)) # {}
        /\ \E r \in RowAt(Target(c)) : found' = [found EXCEPT ![c] = r]
        /\ Goto(c, next)
     \/ Goto(c, "failed") /\ UNCHANGED found
  /\ UNCHANGED <<rows, req, clash, told, view, silenced, faults>>

(* mutant: the name is not validated *)
UpdateUnvalidated(c) ==
  /\ Begin(c, "update")
  /\ GetGroup(c, IF {req[c].name, req[c].description} # {Absent}
                 THEN "up_row" ELSE "failed")

UpdateGetGroup(c) ==
  /\ Begin(c, "update")
  /\ GetGroup(c, IF /\ req[c].name \in ValidNames \cup {Absent}
                    /\ {req[c].name, req[c].description} # {Absent}
                 THEN "up_row" ELSE "failed")

(* updateBuilder sets the columns that are given. *)
Updated(c, r) ==
  [field \in DOMAIN r |->
     IF field \in {"name", "description"} /\ req[c][field] # Absent
     THEN req[c][field] ELSE r[field]]

(* mutant: every column is set, from the group the handler has read *)
UpdateWholeRow(c) ==
  /\ pc[c] = "up_row"
  /\ \/ \E r \in RowAt(Target(c)) : Write(c, Updated(c, found[c]), "notify")
     \/ RowAt(Target(c)) = {} /\ Goto(c, "failed") /\ NoFault /\ UNCHANGED <<rows, clash>>
  /\ UNCHANGED <<req, found, told, view, earlier>>

(* mutant: INSERT ... ON CONFLICT (id) DO UPDATE *)
UpdateOrInsert(c) ==
  /\ pc[c] = "up_row"
  /\ \/ \E r \in RowAt(Target(c)) : Write(c, Updated(c, r), "notify")
     \/ RowAt(Target(c)) = {} /\ Write(c, Updated(c, found[c]), "notify")
  /\ UNCHANGED <<req, found, told, view, earlier>>

(* UPDATE groups SET ... WHERE id = ... RETURNING *)
UpdateRow(c) ==
  /\ pc[c] = "up_row"
  /\ \/ \E r \in RowAt(Target(c)) : Write(c, Updated(c, r), "notify")
     \/ RowAt(Target(c)) = {} /\ Goto(c, "failed") /\ NoFault /\ UNCHANGED <<rows, clash>>
  /\ UNCHANGED <<req, found, told, view, earlier>>

DeleteGetGroup(c) == Begin(c, "delete") /\ GetGroup(c, "del_select")

(* The SELECTs of store.DeleteGroup's transaction *)
DeleteSelect(c) ==
  /\ pc[c] = "del_select"
  /\ \/ RowAt(Target(c)) # {} /\ Goto(c, "del_commit")
     \/ Goto(c, "failed")
  /\ UNCHANGED <<rows, req, found, clash, told, view, earlier, silenced, faults>>

(* mutant: the room is told before the transaction commits *)
DeleteCommitTold(c) ==
  /\ \/ /\ pc[c] = "del_commit" /\ Goto(c, "del_told")
        /\ told' = told \cup {Target(c)} /\ NoFault /\ UNCHANGED rows
     \/ /\ pc[c] = "del_told" /\ Takes(c, rows \ RowAt(Target(c)), "ok")
        /\ UNCHANGED told
  /\ UNCHANGED <<req, found, clash, view, earlier>>

(* DELETE FROM groups, whatever it deletes, and COMMIT *)
DeleteCommit(c) ==
  /\ pc[c] = "del_commit"
  /\ Takes(c, rows \ RowAt(Target(c)), "notify")
  /\ UNCHANGED <<req, found, clash, told, view, earlier>>

(* notifyGroupUpdated: a failure is logged, and the request is a success.  *)
Notify(c) ==
  /\ pc[c] = "notify"
  /\ \/ told' = told \cup {Target(c)} /\ NoFault
     \/ Silence({Target(c)}) /\ UNCHANGED told
  /\ Goto(c, "ok")
  /\ UNCHANGED <<rows, req, found, clash, view, earlier>>

(***************************************************************************)
(* The whole                                                               *)
(***************************************************************************)
(* The subscriber takes a notification and calls GetGroup. *)
ReadAgain(g) ==
  /\ g \in told
  /\ told' = told \ {g}
  /\ view' = {r \in view : r.id # g} \cup RowAt(g)
  /\ UNCHANGED <<rows, pc, req, found, clash, earlier, silenced, faults>>

(* The process dies, and with it the requests it runs. *)
Crash ==
  /\ Silence({Target(c) : c \in {d \in Calls : Busy(d)}})
  /\ pc' = [c \in Calls |-> IF Busy(c) THEN "failed" ELSE pc[c]]
  /\ UNCHANGED <<rows, req, found, clash, told, view, earlier>>

CatalogInit ==
  /\ rows = Stored /\ view = Stored
  /\ req \in [Calls -> Requests]
  /\ pc = [c \in Calls |-> "start"]
  /\ found = [c \in Calls |-> Absent]
  /\ clash = [c \in Calls |-> {}] /\ earlier = [c \in Calls |-> {}]
  /\ told = {} /\ silenced = {} /\ faults = 0

CatalogCall(c) ==
  \/ CreateRow(c) \/ CreateTuples(c) \/ CreateRollback(c)
  \/ UpdateGetGroup(c) \/ UpdateRow(c)
  \/ DeleteGetGroup(c) \/ DeleteSelect(c) \/ DeleteCommit(c)
  \/ Notify(c)

CatalogNext ==
  \/ \E c \in Calls : CatalogCall(c)
  \/ \E g \in Ids : ReadAgain(g)
  \/ Crash

CatalogSpec == CatalogInit /\ [][CatalogNext]_catalogVars

(***************************************************************************)
(* Correctness                                                             *)
(***************************************************************************)
CatalogTypeOK ==
  /\ \A r \in rows : Proper(r)
  /\ \A r, s \in rows : r.id = s.id => r = s
  /\ {r.id : r \in rows} \cup told \cup silenced \subseteq Ids
  /\ \A c \in Calls :
       /\ pc[c] \notin {"start", "failed"} => Target(c) \in Ids
       /\ pc[c] = "up_row" => req[c].name \in ValidNames \cup {Absent}
  /\ faults \in 0..MaxFaults

Gives(c, field) == req[c].op # "delete" /\ req[c][field] # Absent
Opposes(d, c, field) ==
  /\ d # c /\ d \notin earlier[c] /\ pc[d] # "start"
  /\ Target(d) = Target(c) /\ Gives(d, field)

(* A name or a description that was acknowledged stands until a request    *)
(* that was not done before gives that same field another value: an update *)
(* of the one field never brings back what the other was.                  *)
AcknowledgedChangesStand ==
  \A c \in Calls : pc[c] = "ok" =>
    \A field \in {"name", "description"} : Gives(c, field) =>
      \A r \in RowAt(Target(c)) :
        \/ r[field] = req[c][field]
        \/ \E d \in Calls : Opposes(d, c, field) /\ r[field] = req[d][field]

(* A group whose deletion was acknowledged never comes back, whichever     *)
(* updates of it had read it before. *)
DeletedStaysDeleted ==
  \A c \in Calls : pc[c] = "ok" /\ req[c].op = "delete" => RowAt(Target(c)) = {}

(* Who reads a group again whenever it hears of it has the group as it is, *)
(* once it heard of all changes and no fault ended a request about it. *)
SubscribersCatchUp ==
  \A g \in Ids \ (told \cup silenced) :
    (\A c \in Calls : Target(c) = g => pc[c] \notin {"cr_tuples", "notify"}) =>
      {r \in view : r.id = g} = RowAt(g)

(* A platform group has no external id ("must be empty for platform        *)
(* groups", internal/server/validation.go:32), so it is another one's name *)
(* that "group already exists" (store.CreateGroup) is about. *)
PlatformGroupsClashByName ==
  \A c \in Calls : req[c].op = "create" /\ req[c].source = "platform" =>
    \A r \in clash[c] : r.name = req[c].name

(***************************************************************************)
(* The inductive invariant behind the three properties above.              *)
(***************************************************************************)
Labels == Done \cup {"start", "cr_tuples", "cr_rollback", "up_row", "del_select",
                     "del_commit", "notify"}

(* A request is named after a step of its own handler, those it found done *)
(* stay done, and a group is there only if its creation has begun. *)
CatalogShape ==
  /\ pc \in [Calls -> Labels] /\ earlier \in [Calls -> SUBSET Calls]
  /\ \A r \in rows : IsGroup(r) /\ (r.id \in Calls => pc[r.id] # "start")
  /\ \A r, s \in rows : r.id = s.id => r = s
  /\ \A c \in Calls : \A d \in earlier[c] : pc[d] \in Done
  /\ \A c \in Calls :
       /\ pc[c] \in {"cr_tuples", "cr_rollback"} => req[c].op = "create"
       /\ pc[c] = "up_row" => req[c].op = "update"
       /\ pc[c] \in {"del_select", "del_commit"} => req[c].op = "delete"
       /\ pc[c] \notin {"start", "failed"} /\ Target(c) \in Calls => pc[Target(c)] # "start"
       /\ pc[c] = "cr_rollback" => c \in silenced

(* The properties, from the statement on that makes them true. *)
Stands(c) ==
  pc[c] \in {"cr_tuples", "notify", "ok"} =>
    \A field \in {"name", "description"} : Gives(c, field) =>
      \A r \in RowAt(Target(c)) :
        \/ r[field] = req[c][field]
        \/ \E d \in Calls : Opposes(d, c, field) /\ r[field] = req[d][field]
Gone(c) == pc[c] \in {"notify", "ok"} /\ req[c].op = "delete" => RowAt(Target(c)) = {}

CatalogIInv ==
  CatalogShape /\ SubscribersCatchUp /\ \A c \in Calls : Stands(c) /\ Gone(c)
===============================================================================
