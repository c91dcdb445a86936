# Groups service: TLA+ models, model checking and proofs

The groups service keeps the groups of an organization and their members. It is
a gRPC server over PostgreSQL which copies what the tables say into an external
authorization service (OpenFGA relationship tuples), announces changes on an
event stream, and runs a background reconciler that repairs the tuples. The
heart of this directory is the part where most can go wrong: two stores changed
one after the other without a common transaction, by requests that take no lock,
beside a reconciler that works from a snapshot. Around it are the events and
answers others see of that, the permissions, the paged lists, the groups' own
columns, the start of a process and two processes at once.

## 1. Inventory

### Components

| Component | Source | State | Operations | Correct when |
|---|---|---|---|---|
| Store | `internal/store`, `migrations/0001_init.sql` | tables `groups`, `group_memberships` | insert, update, delete, list, get | foreign key with cascade, one row per (group, member), unique names and external ids |
| Membership handlers | `internal/server/memberships.go` | locals of a request | `AddMember`, `RemoveMember`, `ListMembers` | only validated identities get in; row and tuple agree; events are true |
| Group handlers | `internal/server/groups.go` | locals of a request | `CreateGroup`, `DeleteGroup`, `UpdateGroup`, `GetGroup`, `ListGroups` | a group has its two tuples; a deleted group leaves none |
| Tuple mapping | `internal/server/tuples.go` | tuples in the authorization service (external) | one atomic `Write` for each change | tuples are those the tables call for |
| Reconciler | `internal/server/reconciliation.go`, `reconciler.go` | a pass: snapshots, admins, report | `Run`, `Reconcile` | repairs all drift, harms nothing that is right, never stops the process |
| Event publisher | `internal/events/publisher.go` | event stream (external) | publish added, removed, deleted | no false event; a consumer knows the members but for named causes |
| Identity client | calls in `memberships.go`, `reconciliation.go` | identities (external) | does it exist, what type | answers may be stale when used |
| Process | `cmd/groups/main.go` | - | start, migrate, serve, stop | restart from any state of the stores |
| Access control | `internal/server/authz.go` | none | permission checks | served only if permitted, refused only if not |
| Member lookup | `internal/server/member_groups.go` | none | `ListMemberGroups`, batch | a complete list, page by page |
| Pagination | `internal/store/pagination.go`, `query_helpers.go` | a cursor in the client's hands | keyset pages | no row twice, none lost that was there throughout |
| Validation, conversion, errors | `validation.go`, `converter.go`, `errors.go` | none | per request | - |
| Notifications | `notifications.go` | none | best effort | sent after the change, so that who reads again sees it |
| Configuration | `internal/config` | read once | interval and addresses | an interval that is positive |
| Migrations | `internal/db/migrate.go` | `schema_migrations` | apply in order in one transaction | each applied once |

### How they interact

A handler reads the database, asks the authorization service for permission and
the identity service for the member, then changes the two stores one after the
other and at last publishes an event:

    AddMember     validate -> INSERT row -> write tuple (else delete the row) -> Added
    RemoveMember  read row -> DELETE row -> delete tuple (else return)        -> Removed
    CreateGroup   INSERT group -> write two tuples (else delete the group)
    DeleteGroup   read admins, members -> delete tuples -> transaction -> Removed*, GroupDeleted
    Reconcile     read groups; read memberships; per group and row: look, write;
                  orphans: delete row, tuple, publish; read all tuples; delete the stale ones

No handler takes a lock, and the process does not serialize them. The reconciler is a goroutine of
the same process; a panic in it ends the process and every running request.

### What is hard

* *Interleaving*: every arrow above is a place where another request or the
  reconciler may step in. Handlers change the stores in different orders
  (`AddMember` database first, `DeleteGroup` tuples first).
* *Partial failure*: the second change may fail; two handlers undo the first by
  a best-effort call, two do not. A call that fails may have taken effect.
* *Crash and restart*: between any two steps.
* *Stale reads*: the validated identity may be gone; the reconciler compares
  tuples read late with tables read early.
* *Liveness*: everything left behind relies on later passes completing.

* *What others see*: events come after the change and unordered, answers may be
  of a row that is taken back, permissions change between two checks, a list
  changes between two pages.
* *Two processes*: a rolling update runs two reconcilers, and two starts migrate
  one database.

`PROJECT.json` lists every hazard at its line, with the property that would
catch it. Five have none. The interval's boundary values are a check at start
that a unit test reaches. A call that never returns is assumed away by the
fairness of `SystemPass`, since the pass has no deadline (`reconciler.go:38`). Three
are what the code does, and nothing in it would set them right: an Added event
behind the Removed one (`memberships.go:60`), a NotFound answer for a row that
went between two statements (`store.go:232`), and a notification that is lost
(`notifications.go:33`). The first and the last are modelled as named excuses of
the property that is about them; the second ends the request as `failed`. The
same goes for what the code never repairs beside a hazard that does have a
property: an event that nobody sends again after a crash or a failed write, a
row cascaded away unannounced, two GroupDeleted events of one group.

## 2. Modules

    GroupStore <- Authorization <- Environment <- GroupsService <- DriftCauses <- Acknowledgements
                                        ^             ^
                                    Reconciler <- GroupsSystem <- ReconcilePass
                                        :               ^  ^----- LedgerRefinement <- EventStream
                                        :.......RollingUpdate        :...... Ledger

    Access    Pagination    GroupCatalog    Startup

`<-` is EXTENDS, `..` is INSTANCE: `LedgerRefinement` instantiates the abstract
`Ledger` under a refinement mapping, `RollingUpdate` a second `Reconciler` on
the same database and services. The four below stand alone: what they are
about does not touch the tuples.

| Module | Models | Correspondence |
|---|---|---|
| `GroupStore` | the two tables | `groups` is a set of keys, `memberships` a set of rows (id, group, member). `RowsOf`, `RowsFor` are the SELECTs. |
| `Authorization` | tuples and `Write` | three kinds of tuple per group; a Write is atomic and strict: rejected when it writes a tuple that exists or deletes one that does not. |
| `Environment` | calls, failures, events, identities | each call succeeds, is rejected, or fails with or without effect. |
| `GroupsService` | the four mutating handlers | one `pc` per request and one action per call the handler makes; `seen` and `doomed` are the handler's locals. `issued` and `admitted` are history. |
| `DriftCauses` | the same, with the causes of drift | history variable `disturbed`. |
| `Reconciler` | one pass, call by call | `gs`, `ms` are the snapshots; `admins` and `stale` what the pass computes. |
| `GroupsSystem` | the process | requests, reconciler, crash, panic, loss of identities. |
| `ReconcilePass` | what one pass promises | history `touched`, `settled`; starts from any drift. |
| `EventStream` | a consumer of the events | `view` is the set of pairs it takes for members; `blurred` the pairs whose view has an excuse. Events name group and member, not the row. |
| `Acknowledgements` | what answers promise | history of what each client was told (`told`, `before`) and of the rows asked to go (`asked`). |
| `Ledger` | the abstract promise | groups and rows live once, rows go with their group, grants and announcements follow validated rows, one store per step. No requests, no failures. |
| `LedgerRefinement` | how `GroupsSystem` keeps it | a row id is spent once its `AddMember` can no longer insert it; grants are the member tuples. |
| `RollingUpdate` | two processes | a second instance of the reconciler with variables of its own; either process may stop or die with its requests. |
| `Pagination` | lists read page by page | `listing` is what matches the filter now; a `cursor` is the last id returned; client, `listAllMembers` and batch entry are the walkers. |
| `Access` | the checks of every handler | one request, one action per Check; others grant and revoke between them. |
| `GroupCatalog` | names, descriptions, external ids | `CreateGroup`, `UpdateGroup`, `DeleteGroup` over the columns of `groups`, unique constraints, notifications and a subscriber. |
| `Startup` | `ApplyMigrations` and `main` | one action per SQL statement, several processes of different builds, restarts. |
| `*_proofs` | theorems | see section 5. |
| `MC*` | instances for TLC | constants as model values, symmetry over requests. |

### Choices the reader should know

* **Steps.** A statement of the database, and one call to a service, is atomic.
  The transaction of `Store.DeleteGroup` runs at READ COMMITTED (PostgreSQL's
  default; the code asks for no other), so its three statements are three steps. The rows it locks by `DELETE`
  commit in the same step.
* **Failed calls.** `ExecuteFails` and `WriteFails` leave the store changed or
  not. They are counted by `faults` and bounded by `MaxFaults`. A handler's
  failed read, permission denial or invalid field is the uncounted branch to
  `failed`: it changes nothing. The reconciler's failed reads are
  counted, since a pass that fails for ever repairs nothing.
* **The tuple store is strict.** The code sets no option on its Write requests
  that would ignore duplicate writes or missing deletes, and looks before it
  writes where it wants that (`ensureTuple`, `deleteTupleIfPresent`). This is
  an assumption about an external service.
* **Identities only go away.** A new identity takes part as one that has
  been there unused; ids do not come back.
* **Keys are fresh.** Membership and group ids are random uuids. A request's new
  row has the request's own id; a group key is drawn at most once (`issued`).
* **Requests** are taken once each and have any operation, group and member; `OrgOf` and `CreatorOf`
  fix, for each group, the organization and caller of the request that creates it.
* **Order of a pass.** The code walks rows in key order; the model takes them in
  any order, which includes it. Tuples are scanned in pages given by `Pages`,
  in any order; a page is read in one step.
* **One process**, the chart's default (`charts/groups/values.yaml:15`), in all
  modules but `RollingUpdate` and `Startup`. A rolling update
  runs two for a while, and the chart can scale to three.
* **A consumer keeps pairs.** In `EventStream` an event that repeats an earlier
  one counts as lost: it could only drop a pair once more.
* **Pages.** A page is one statement, so one snapshot. `ListMemberGroups` joins
  memberships to groups; since (group, member) is unique a group appears once,
  and the list is a set of ids like the others. It may come back under the id it
  had, so `Pagination` lets deleted ids return.
* **Permissions.** `Access` has a single request because handlers share nothing
  there but the relations, which others change at any time. What makes somebody
  `can_edit` or `owner` is the authorization service's model and external.
* **Columns.** `GroupCatalog` merges the tuple calls of a handler with a
  failure branch, since `GroupsService` has them one by one.
* **PostgreSQL in `Startup`.** A transaction that creates what another open one
  has created waits for it, and fails if it then exists; the look of
  `CREATE TABLE IF NOT EXISTS` is a step before. This is external.
* **Left out.** Timestamps, the type and source of a membership, status codes,
  the report's counters, log lines, membership notifications, request parsing
  but for the fields named above.

## 3. Runs

| Run | Instance | Question and answer |
|---|---|---|
| `service` | handlers alone: 3 requests, 1 group, 1 identity, 2 faults | `EventsAreTrue`: no announced removal is false or comes back. It is about sets, so it neither counts events nor misses one; `AnnouncedOnce` and `ConsumersAreRight` below do. `GrantsWereValidated`: row, tuple and Added event only for an identity validated for that group. `IInv`: the invariant that proves both. `DriftHasACause`: a group at rest is in sync unless two requests that nothing keeps apart met, a crash hit it, or a failure that no handler undoes; dropping any disjunct of `Conflict` breaks it. `AcknowledgedMembersStay`: a member acknowledged stays until asked to go, but for three races (below). `AcknowledgedRemovalsHold`: after OK the row that was there is gone for good. `DriftIInv`, `AdditionIInv`, `RemovalIInv`: the invariants that prove the last three. All hold. |
| `system` | 2 requests, reconciler with panic and restarts, 1 fault, fair | The first two and `SystemIInv`, the invariant that proves them for the whole process and includes its types, `SystemTypeOK`. `AnnouncedOnce`: while its group lives, no removal of a member is announced twice, whoever of requests, retries and the pass found the row; once the group is gone `DeleteGroup` may repeat it. `KeepsLedger`: it implements `Ledger`. `ConsumersAreRight`: a consumer's view of a pair agrees with the table unless requests crossed, a removal was cut off between row and event, an event was lost or the process died; `ConsumersFit` is what proves it, together with `SystemIInv`. `EventuallyRepaired`: the stores end up, and stay, in agreement (up to a lost admin tuple), although requests may hang for ever. All hold. |
| `pass_members` | 2 identities, 1 request, two pages, any drift | `PassRepairsUntouched`, `SettledTuplesSurvive`. Hold. |
| `pass_requests` | 2 requests, 1 fault, any drift | the same beside concurrent requests. Hold. |
| `rolling_update` | 1 request, two reconcilers, any drift, fair | `OneRemover`: no two reconcilers, nor a reconciler and a `RemoveMember`, handle the removal of one row; and `RemoverIInv`, which proves it. A `DeleteGroup` that had read the row may announce it again, and requests among themselves are the matter of `AnnouncedOnce`. `EventuallyRepaired` although each reconciler may fail the other's writes. Hold. |
| `catalog` | 3 requests out of 20, 1 stored group, 1 fault | `CatalogTypeOK`, `AcknowledgedChangesStand`, `DeletedStaysDeleted`, `SubscribersCatchUp`. Hold. |
| `pagination` | 5 ids, default 2, maximum 3, sizes -1, 0, 1, 3, 4 | `WalkIsComplete`, `NoRowAgain`, `WalkEnds`; `CutIsThePrefix`: a batch entry is cut only when its list does not fit into its page, and lacks only what lies behind the page; and `WalkIInv`, the invariant that proves the safety of all of them. Hold. |
| `access` | 2 people, 2 organizations, 1 group, batches of 2, 2 changes | `ServedWasPermitted`, `DenialsAreJustified`; `BatchIsWhole`: a batch that is answered is answered for every entry, in order. Hold. |
| `startup` | 1 old and 2 new processes, 2 files, 2 faults, fair | `MigratedOnce`, `ServesMigrated`, `EveryoneServes`. Hold. |
| `snapshot_panic` | 2 requests, no fault | `SnapshotIsClosed`, the assertion of `reconciliation.go:55`. **Violated**, finding 1. |
| `sweep_stale` | 2 requests, no fault | `SweepDeletesOnlyStale`. **Violated**, finding 2. |
| `catalog_clash` | as `catalog` | `PlatformGroupsClashByName`. **Violated**, finding 3. |

`service` runs `Acknowledgements`, which extends `DriftCauses`, and `system` runs
`EventStream`, which extends `LedgerRefinement`: both carry history variables on
the unchanged actions of `GroupsService` and `GroupsSystem`, so that one search
answers all questions about the same system.

`CHECK_DEADLOCK FALSE` throughout: the requests of an instance end, and then
only the reconciler, if it is part of the run, has steps left; a walk, a lookup
and a start come to their ends.

The three races in which an acknowledged member is lost, all of requests that
overlap, are disjuncts of `AcknowledgedMembersStay`: the rollback of a
`CreateGroup` takes the member added before it; a duplicate `AddMember` answers
with a row whose own request is rolled back later; and a rollback, which deletes
by group and member, takes the row of an `AddMember` that came after its own row
was removed. They are the behaviour of the code, found by stating the property
without them.

`SubscribersCatchUp` excuses groups with a request that a fault ended: a failed
notification is only logged, and a rolled-back `CreateGroup` tells nobody that
the group it may have shown is gone.

**Bounds and why they are enough.** Requests only interact through one group
(every step names a single group), so one group shows every interaction of handlers; all
conflicts the code can have are between two requests, and a third is there for
what one leaves behind for the next. Two faults let a call and the rollback of
it fail. One identity makes the two stores meet on one tuple; two identities
(`pass_members`) let a pass find one member orphaned and the other not, and
let the two pages of the scan differ. The initial states contain no group, an
empty group and a group with a member; a pass starts from every combination of
tables, tuples and identities. `DriftHasACause` has also been checked with two
identities (10.5 million states); it is not a run because of its length.

A walk's pages meet five ids in every order of insertions and deletions, which
takes up to five pages of size one and a page at each clamp; a row can go and
come back before, at and behind the cursor. Two people make a caller and somebody
else, two organizations a batch whose entries differ in theirs, and two changes
a relation revoked and granted back, or two relations traded, between checks.
Three requests on the catalogue let two updates meet and a third delete, or two
creations clash with a third's rollback. Two new processes race for the same
file, the old one is at an older build; two faults let both of them fail once.
`rolling_update` starts both reconcilers from any drift after any earlier
reading of the groups, and needs the request as the one that adds a removed
member again or removes it itself. It has no faults: rejected writes, the
panic and the second process's stop end passes there, and failed calls beside
one reconciler are in `system`. Requests are interchangeable, so `system` takes
the two in one order of their kinds (`RequestsInOrder`, a constraint), which
leaves one of each pair of behaviours that differ in the names only; TLC's own
symmetry reduction would not be sound for its liveness property.

**Fairness.** In `FairSystemSpec` only `SystemPass` and `SystemPanic` are weakly
fair: the ticker keeps firing, the pass is a loop over finite lists, and its
calls return or fail. Requests have none. `MaxFaults` and the finite set of
requests say that faults and changes end, which is what "eventually" needs:
while requests go on for ever the two stores are never at rest. `FairStreamSpec`
asks for the same, and `FairUpdateSpec`
says the same of each of two processes by itself, and lets the second stop for
good at any time. `FairStartup` has a process take its next statement, the
orchestrator start it again when it exits, and the database wake a transaction
whose rival has ended; losing the race is not counted as a fault. `FairSpec` of
`Pagination` has a reader that holds a token ask for the next page; the rows
that come and go are not bounded but by the ids there are.

## 4. Findings

1. **The reconciler's assertion can fail** (`reconciliation.go:55-57`). A pass
   reads the groups, then the memberships, in two statements outside any
   transaction. Trace: the pass lists no group; `CreateGroup` and `AddMember`
   of it succeed; the pass lists the membership, whose group its snapshot does
   not have, and panics. The process ends with every running request. The
   assertion is true of the tables and false of the two snapshots.
2. **The sweep deletes fresh tuples** (`reconciliation.go:242-264`). It compares
   the tuples at the end of a pass with the tables at its start. Trace: the pass
   lists no group; `CreateGroup` inserts the group and writes its tuples and is
   acknowledged; the pass scans, finds two tuples its snapshot does not back,
   and deletes them. The next pass restores the organization tuple; the
   creator's admin tuple is lost, since nothing in the database says who
   created the group (`server_test.go:1040` confirms that admin tuples are not
   derived from anything else). `ReconcilePass` states what a pass promises
   nevertheless: everything about the tuples that nothing changed meanwhile.
3. **Blank external ids clash** (`validation.go:31`). The check "must be empty for
   platform groups" lets an external id pass that is given and blank; the store
   writes it as given and not as NULL, and two of them are equal to
   `UNIQUE (organization_id, source, external_id)`. Trace: `CreateGroup` of "ops"
   with a blank external id succeeds; `CreateGroup` of "web" with the same is
   refused with "group already exists", although no group is named so.

## 5. Proofs

`GroupsService_proofs` proves, for any sets of groups, identities and requests
and any number of faults:

    TypeCorrect    Spec => []ServiceTypeOK
    Invariance     Spec => []IInv
    EventsCorrect  Spec => []EventsAreTrue
    GrantsCorrect  Spec => []GrantsWereValidated

from the named assumptions of the modules: `LabelsAssumption` (`OrgOf` and
`CreatorOf` are functions on the groups), `MaxFaultsAssumption` (a natural
number) and `CallsAssumption` (each request draws a row id of its own).

Neither safety property is inductive. That a removal is announced only for a
row that is gone *for good* depends on a later `AddMember` inserting a row that
no one has ever seen (`RowsAreFresh`: the row id of a request that has not yet
inserted appears neither in the tables, nor in an event, nor in the hands of a
handler), on group keys not being reused (`GroupsAreFresh`), and on what each
handler holds at each label (`CallIsSound`: rows about to be announced are
gone; at `del_commit` the rows read belong to the group, so that the cascade
takes them; what is about to be inserted, written or announced has been admitted). `IInv` is their conjunction with
the types.

The proof has one lemma per handler step. Most steps leave the tables and the
sets of events alone; lemma `QuietStep` covers them all, `WriteEffect` the ones that call
the authorization service and `DeleteEffect` the ones that only take rows away, so that a
step's own lemma says only what is particular to it.

`GroupsSystem_proofs` carries the two properties over to the whole process, from
the same assumptions, `NoneAssumption` (the empty loop variable is no group and
no row) and nothing about the pages:

    SystemTypeCorrect    SystemSpec => []SystemTypeOK
    SystemInvariance     SystemSpec => []SystemIInv
    SystemEventsCorrect  SystemSpec => []EventsAreTrue
    SystemGrantsCorrect  SystemSpec => []GrantsWereValidated
    HandsInvariance      SystemSpec => []HandsIInv
    AnnouncedOnceAlways  SystemSpec => []AnnouncedOnce

A pass writes tuples and publishes events for rows of a snapshot that requests
have overtaken, so `IInv` is not enough. `PassIsSound` adds what the pass may
still rely on: every row it holds was once committed, hence was validated and
cannot be inserted again; and an orphan whose tuple or event is still to come
is out of the tables. Note what is *not* in it: that the row the pass writes a
tuple for still exists. A request's step keeps `IInv` by `InvStep` of the first
module and `PassIsSound` by `PassWaits` and `CallEffect`; a step of the pass that only reads
is covered by `PassReads`, one that writes tuples by `PassWrites`, both through
`QuietStep`.

`AnnouncedOnce` compares what is in the hands of requests (`Hand`), what is in
the pass's (`Orphan`) and what has been announced. A row gets into a hand out of the
table (`CallRemoves`, `PassRemoves`, `Taken`), where it cannot be any more if
somebody has it or has announced it (`CallIsSound`, `PassIsSound`,
`EventsAreTrue`). The exception is `DeleteGroup`, whose hand was read before; but
by then its group is gone and, keys being drawn once, does not come to life
again. That is what `HandsIInv` adds: rows in the table and in hands belong to
drawn groups, and `DeleteGroup` announces only rows of the group it deleted.

Its last part proves `LedgerIsKept`, `SystemSpec => KeepsLedger`, from the
same assumptions. It maps the initial state (`LedgerInit`) and every
step (`LedgerStep`, one lemma per handler and one for the pass) to a step of
`Ledger` or a stutter, under `SystemIInv`: that a row announced as removed is
gone comes from `CallIsSound` and `PassIsSound`, that an inserted row's id is not
spent from `RowsAreFresh`. A crash spends the ids of the requests it ends
(`Spend`).

`Pagination_proofs` proves `WalkInvariance`, `WalkCompleteness`,
`WalkNeverRepeats` and `BatchPageIsPrefix`, for any set of positive ids, any sizes and any default up to
the maximum (`PagingAssumption`). `WalkIInv` says that of the rows up to the
cursor those that stayed have been returned, and that nothing beyond it has.
Lemma `PageIsClosed` is the fact about keyset pages: with a row a page has every
smaller one, so a row beyond the last is beyond all of them. It is also why what
a cut entry lacks is the tail of its list.

`Access_proofs` proves `AccessInvariance`, `ServedCorrect`, `DenialsCorrect` and
`BatchAnswersAll`, for any people, organizations, groups and batches (`AccessAssumption`). The
history `held` and `kept` brackets what is true while the relations change
(`kept \subseteq facts`, `facts \subseteq held`); the invariant says at each
label what has been made sure of: that a request at `check` was not admitted as
the platform, that one at `serve` was permitted for the entry it is at, and that the entries
before it have been answered (`AnswerIsPrefix`).

`Startup_proofs` proves `StartupInvariance`, `MigratedOnceAlways` and
`ServesMigratedAlways`, for any number of processes, files, builds and faults
(`StartupAssumption`). The invariant needs `RecordsAreOwned` - the primary key lets at
most one open transaction record a file - and `TransactionIsSound`, which ties
what a transaction has recorded to what it has applied.

`GroupCatalog_proofs` proves `CatalogTypeCorrect`, `CatalogInvariance`,
`ChangesStand`, `DeletionIsFinal` and `SubscribersAreRight`, for any requests,
stored groups and faults (`CatalogAssumption`: the stored groups have ids of
their own and came in through the same checks, `Proper`). The
properties are about answered requests; `Stands` and `Gone` carry them from the
statement that makes them true to the answer, and `CatalogShape` says that a
request done before another stays done, and that a group is there only if its
creation has begun. `CatalogTypeOK` is inductive: that a group's name stays
valid needs that an update is past its check when it changes the row.

`Observers_proofs` is about what others can tell of the service from outside:

    DriftInvariance     DriftSpec  => []DriftIInv
    DriftIsCaused       DriftSpec  => []DriftHasACause
    AdditionInvariance  AckSpec    => []AdditionIInv
    MembersStay         AckSpec    => []AcknowledgedMembersStay
    RemovalInvariance   AckSpec    => []RemovalIInv
    RemovalsHold        AckSpec    => []AcknowledgedRemovalsHold
    ConsumerInvariance  StreamSpec => []ConsumersIInv
    ConsumersFitAlways  StreamSpec => []ConsumersFit
    ConsumersStayRight  StreamSpec => []ConsumersAreRight

for any groups, identities, requests and faults. `Acknowledgements` adds history
only, so what holds of `DriftSpec` holds beside the answers too, as the run
`service` checks it (`DriftIsCausedBesideAnswers`, a corollary). All of them need `LabelFits`
(in `GroupsService`): a request is at a step of its own kind.

* *Drift.* `DriftIInv` says for each undisturbed group which difference between
  the two stores which running request accounts for. A row without its tuple is
  an `AddMember`'s between insert and write or rollback (`Writing`), or a
  `DeleteGroup`'s that has deleted the tuples (`Emptied`); a tuple without its
  row is a `RemoveMember`'s at `rm_tuple`; a group without its two tuples is a
  `CreateGroup`'s or an emptied one (`GroupTuplesFit`, `MemberTupleFits`). What a
  request relies on at its next step is `StoresFit`, for instance that
  `doomed` covers every tuple of the group when they are deleted. No two requests
  in conflict run on such a group, so a step of one request meets only others
  of its own kind, or on other pairs: the proof goes handler by handler, with
  the steps that touch neither store, those that touch one pair and those that
  touch a whole group apart. A group that nobody works at then has no
  difference left.
* *Answers.* `RemovalFits` follows the row that a `RemoveMember` found: it is the
  pair's, it was inserted, so `RowsAreFresh` keeps it from coming back, and
  it is out of the table once the request has deleted or found nothing.
  `AdditionFits` follows the row of an `AddMember` from its insert to what it told
  its client: it is there, or one of the exceptions that never go away again
  (`Excepted`: asked to go, a `CreateGroup` rolled back, a rollback over the
  row) applies. The fourth disjunct, a duplicate that answers with another
  one's row, rests on `UniqueMember`: who takes the pair's row takes that row.
* *Consumers.* `ConsumersIInv`, the inductive invariant, is `SystemIInv` and
  `ConsumersFit`, which says of each pair without an excuse who accounts for it
  when the consumer and the database disagree (`PairFits`): a row that is
  not yet announced is one `AddMember`'s (`Adding`), an announced pair without a
  row is about to be announced as removed by a `RemoveMember`, a `DeleteGroup`
  that read the row, or the pass with the orphan in hand (`Announces`,
  `OrphanInHand`). The lemmas of a step are of three kinds: nothing changes
  about the pair (`PairStays`), its row is gone and the consumer will be told
  (`PairGoes`), or its `AddMember` inserts or announces it; `CallElsewhere` covers
  requests on other pairs. `Crossed` is needed exactly where `AddMember` meets
  the removal of its pair (`NoneBesideAdd`, `NoAddBeside`). That nobody knows a
  member of a group to be created comes from `ForeignKey` and `GroupsAreFresh`.

`Reconciliation_proofs` is about passes of the reconciler:

    PassInvariance     PassSpec       => []PassIInv
    PassRepairs        PassSpec       => []PassRepairsUntouched
    PassSpares         PassSpec       => []SettledTuplesSurvive
    RemoverInvariance  FairUpdateSpec => []RemoverIInv
    OneRemoverOnly     FairUpdateSpec => []OneRemover

from any drift, for any groups, identities, requests and faults, and any pages
that together are all tuples (`PagesAssumption`, without which a scan would
miss some).

* *One pass.* `PassIInv` follows one tuple that nobody else has touched since the
  pass began. `KeyIsRight` says what is known at each label: that the snapshot
  still speaks for the tables (`Supported(k) <=> ...`), and that the tuple is
  right or its group, its row or its page is still to come (`OrgIsRight`,
  `AdminIsRight`, `MemberIsRight`, `ScanIsRight`). Steps of others either touch
  the tuple or leave its status alone (`OthersKeep`), so that only the steps of
  the pass need a proof of their own. `settled` holds what was right at the
  start, and `stale` only what the snapshot does not back, hence nothing settled.
  `PassInit` allows any member tuple to have been validated (`admitted`), since
  the drift it starts from is arbitrary. `PassIInv` was checked with TLC on the
  instances of `pass_members` (4.2 million states) and `pass_requests` (3.6
  million); it is not part of these runs because of the time it takes.
* *Two passes.* `OneRemover` is not inductive: a row that somebody has removed
  could be put back and be removed a second time. `RemoverIInv` adds that it is
  out of the table for good, as no request has yet to insert its id
  (`GoneForGood`). It does not need the two reconcilers to know of each other,
  nor the fairness of `FairUpdateSpec`.

So every safety property of a run that passes is a theorem. Only model-checked
are the liveness properties `EventuallyRepaired`, `WalkEnds` and `EveryoneServes`,
which are out of the prover's reach.

## 6. Mutants

Each property of a passing run has a plausible bug of the code under which it
fails, kept as an operator beside the definition it changes: the row's columns
swapped (`SwappedRow`), no validation (`AddUnvalidated`, `AddValidateIgnored`),
no rollback (`AddNoRollback`), an ignored transaction error
(`DeleteCommitIgnored`), an ignored result or error of `RemoveMember` in the
reconciler (`DeleteOrphanUnchecked`, `DeleteOrphanIgnored`), a check of the
group where the membership is meant (`BackedByGroup`), a page token not followed
(`ScanFirstPage`), the admins not read (`ReadNoAdmins`), an orphan that counts as
announced without an event (`ReadOrphanTupleQuietly`) or is handled although
somebody else removed it (`DeleteOrphanAnyway`), the existing row taken for a
created one (`AddReadbackAsCreated`), any error taken for a missing row
(`RemoveLookupAnyError`); a cursor that is inclusive, one row too far or not
taken over (`FromCursor`, `LastBeyond`, `ReadPageSameToken`), or a full page taken
for one with a next (`HasMoreAtLimit`); only the first
entry of a batch checked (`NextEntryFirstChecked`) or one that fails left out
(`ServeOrSkip`), the platform's claim taken as the
only way in (`PlatformOrNothing`); a name not validated, all columns
overwritten, an upsert for an update, the room told before the commit
(`UpdateUnvalidated`, `UpdateWholeRow`, `UpdateOrInsert`, `DeleteCommitTold`);
a migration outside the transaction, its record's conflict or its error ignored
(`ApplyAtOnce`, `RecordOnConflict`, `CommitIgnored`).

## 7. Not modelled

* Configuration: read and checked once at start, with no later state. The
  interval's boundary values are a matter for a unit test.
* Status codes and conversions to and from messages (`converter.go`, the
  statuses of `errors.go`): nothing of the state depends on them.
* `notifyMembershipUpdated`: sent where the membership events are published, and
  left out as nothing depends on it.
* `AddValidate` is one step for the identity's type and for its membership in
  the organization, two calls of which only the outcome matters, and
  `CreateRollback` one for the transaction of `Store.DeleteGroup`, whose reads
  are thrown away there. The number of tuples OpenFGA takes in one Write is
  unlimited: beyond it the Write of `DeleteGroup` fails, which it may here for
  any reason, but not every time.
* Dialling and listening, and GracefulStop, which is a request going on.
* A call that never returns. The requests' hanging is covered (no fairness), the
  reconciler's is not: it would stop all repair.
* The models of the external services: what the authorization service derives
  from its tuples, PostgreSQL's locks beyond what `Startup` and the statements need, and
  redelivery by the event stream. Every publish draws a new event id
  (`uuid.New()`), so the stream's own removal of duplicates never applies.

## 8. Plan

Done: all components but the configuration, with every safety property of the
passing runs, the refinement of `Ledger` among them, proved. What is left:

1. The abstract step from `ConsumersAreRight` and `AcknowledgedMembersStay` to a
   specification of what a client of the whole service sees, which `GroupsSystem`
   would implement as it does `Ledger`.
2. The safety part of `EventuallyRepaired` as a theorem: a pass that nobody
   disturbs leaves `Repaired` behind, from `PassRepairs`.
3. The reconciler with a deadline for each call, should the code get one.
