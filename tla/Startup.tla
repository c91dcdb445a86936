-------------------------------- MODULE Startup --------------------------------
(***************************************************************************)
(* Processes of cmd/groups/main.go starting against one database: a        *)
(* rolling update runs the old and the new one side by side, and a process *)
(* that exits is started again.  ApplyMigrations (internal/db/migrate.go)  *)
(* runs the files its build embeds in one transaction; every statement of  *)
(* it is a step.                                                           *)
(*                                                                         *)
(* PostgreSQL is external.  Its transactions read what is committed and    *)
(* what they did themselves; a transaction that inserts a row, or creates  *)
(* an object, that another open one has inserted waits for that one to     *)
(* end, and fails if it then exists.                                       *)
(***************************************************************************)
EXTENDS Naturals

CONSTANTS Procs,
          Versions,    \* the number of migration files of the newest build
          Build,       \* how many of them the build of a process embeds
          Creating,    \* files that create objects; the others change data
          MaxFaults    \* bound: crashes, lost connections, failed start-ups

ASSUME StartupAssumption ==
  /\ Versions \in Nat /\ MaxFaults \in Nat
  /\ Build \in [Procs -> 0..Versions]
  /\ Creating \subseteq 1..Versions

VARIABLES db,        \* what is committed
          effects,   \* how often the content of each file is in effect
          mine,      \* what the open transaction of a process has inserted
          ppc, at,   \* the step of a process, and the file it is at
          faults

startupVars == <<db, effects, mine, ppc, at, faults>>

Journal == [kind |-> "journal", file |-> 0]         \* table schema_migrations
Content(v) == [kind |-> "content", file |-> v]
Record(v) == [kind |-> "record", file |-> v]        \* its row for the file
Things == {Journal} \cup {Content(v) : v \in 1..Versions} \cup {Record(v) : v \in 1..Versions}

Known(p) == db \cup mine[p]
Waits(p, x) == \E q \in Procs \ {p} : x \in mine[q]

At(p, label) == ppc' = [ppc EXCEPT ![p] = label]
Fault == faults < MaxFaults /\ faults' = faults + 1

(* The deferred rollback, and log.Fatalf. *)
Exit(p) == At(p, "exited") /\ mine' = [mine EXCEPT ![p] = {}] /\ UNCHANGED at

(* The statement creates x, or fails because it exists. *)
Insert(p, x, label) ==
  /\ ~Waits(p, x)
  /\ \/ /\ x \notin Known(p)
        /\ mine' = [mine EXCEPT ![p] = @ \cup {x}] /\ At(p, label)
        /\ UNCHANGED at
     \/ x \in Known(p) /\ Exit(p)

(* CREATE TABLE IF NOT EXISTS looks first and creates then: the table may  *)
(* be committed in between. *)
EnsureJournal(p) ==
  /\ ppc[p] = "journal"
  /\ At(p, IF Journal \in Known(p) THEN "check" ELSE "create")
  /\ UNCHANGED <<db, effects, mine, at, faults>>
CreateJournal(p) ==
  /\ ppc[p] = "create"
  /\ Insert(p, Journal, "check")
  /\ UNCHANGED <<db, effects, faults>>

(* The loop over the sorted files: SELECT EXISTS, and skip those applied *)
CheckFile(p) ==
  /\ ppc[p] = "check" /\ at[p] <= Build[p]
  /\ IF Record(at[p]) \in Known(p)
     THEN at' = [at EXCEPT ![p] = @ + 1] /\ UNCHANGED ppc
     ELSE At(p, "apply") /\ UNCHANGED at
  /\ UNCHANGED <<db, effects, mine, faults>>

(* mutant: the content is not applied in the transaction *)
ApplyAtOnce(p) ==
  /\ ppc[p] = "apply"
  /\ IF at[p] \in Creating /\ Content(at[p]) \in db
     THEN Exit(p) /\ UNCHANGED <<db, effects>>
     ELSE /\ At(p, "record") /\ db' = db \cup {Content(at[p])}
          /\ effects' = [effects EXCEPT ![at[p]] = @ + 1]
          /\ UNCHANGED <<mine, at>>
  /\ UNCHANGED faults

(* The file's statements; those that change data wait for nobody here. *)
Apply(p) ==
  /\ ppc[p] = "apply"
  /\ IF at[p] \in Creating
     THEN Insert(p, Content(at[p]), "record")
     ELSE /\ mine' = [mine EXCEPT ![p] = @ \cup {Content(at[p])}]
          /\ At(p, "record") /\ UNCHANGED at
  /\ UNCHANGED <<db, effects, faults>>

(* mutant: a version that is there already is not an error *)
RecordOnConflict(p) ==
  /\ ppc[p] = "record" /\ ~Waits(p, Record(at[p]))
  /\ mine' = [mine EXCEPT ![p] = @ \cup {Record(at[p])}]
  /\ at' = [at EXCEPT ![p] = @ + 1] /\ At(p, "check")
  /\ UNCHANGED <<db, effects, faults>>

(* INSERT INTO schema_migrations, whose version is the primary key *)
RecordFile(p) ==
  /\ ppc[p] = "record" /\ ~Waits(p, Record(at[p]))
  /\ \/ /\ Record(at[p]) \notin Known(p)
        /\ mine' = [mine EXCEPT ![p] = @ \cup {Record(at[p])}]
        /\ at' = [at EXCEPT ![p] = @ + 1] /\ At(p, "check")
     \/ Record(at[p]) \in Known(p) /\ Exit(p)
  /\ UNCHANGED <<db, effects, faults>>

(* mutant: the error of ApplyMigrations is not looked at *)
CommitIgnored(p) ==
  /\ ppc[p] = "check" /\ at[p] > Build[p]
  /\ \/ /\ db' = db \cup mine[p]
        /\ effects' = [v \in 1..Versions |->
                         effects[v] + (IF Content(v) \in mine[p] THEN 1 ELSE 0)]
        /\ UNCHANGED faults
     \/ Fault /\ UNCHANGED <<db, effects>>
  /\ mine' = [mine EXCEPT ![p] = {}] /\ At(p, "connect") /\ UNCHANGED at

(* COMMIT, whose answer can be lost *)
Commit(p) ==
  /\ ppc[p] = "check" /\ at[p] > Build[p]
  /\ \/ /\ db' = db \cup mine[p]
        /\ effects' = [v \in 1..Versions |->
                         effects[v] + (IF Content(v) \in mine[p] THEN 1 ELSE 0)]
        /\ \/ UNCHANGED faults /\ At(p, "connect")
           \/ Fault /\ At(p, "exited")
     \/ Fault /\ At(p, "exited") /\ UNCHANGED <<db, effects>>
  /\ mine' = [mine EXCEPT ![p] = {}] /\ UNCHANGED at

(* The clients, the event stream and the listener, then Serve *)
Connect(p) ==
  /\ ppc[p] = "connect"
  /\ At(p, "serving")
  /\ UNCHANGED <<db, effects, mine, at, faults>>

(* A statement or a connection fails, the process is stopped or dies. *)
Die(p) ==
  /\ ppc[p] # "exited"
  /\ Fault /\ Exit(p)
  /\ UNCHANGED <<db, effects>>

Restart(p) ==
  /\ ppc[p] = "exited"
  /\ At(p, "journal") /\ at' = [at EXCEPT ![p] = 1]
  /\ UNCHANGED <<db, effects, mine, faults>>

(* The database was last migrated by some build, or is new. *)
StartupInit ==
  /\ \E n \in 0..Versions :
       /\ db = IF n = 0 THEN {}
               ELSE {Journal} \cup {Content(v) : v \in 1..n} \cup {Record(v) : v \in 1..n}
       /\ effects = [v \in 1..Versions |-> IF v <= n THEN 1 ELSE 0]
  /\ mine = [p \in Procs |-> {}] /\ faults = 0
  /\ ppc = [p \in Procs |-> "exited"] /\ at = [p \in Procs |-> 1]

ProcStep(p) ==
  \/ EnsureJournal(p) \/ CreateJournal(p) \/ CheckFile(p) \/ Apply(p) \/ RecordFile(p)
  \/ Commit(p) \/ Connect(p) \/ Restart(p)

StartupNext == \E p \in Procs : ProcStep(p) \/ Die(p)

(* A process goes on, its container is started again when it exits, and    *)
(* the database wakes the transaction that waits when the other has ended. *)
FairStartup ==
  StartupInit /\ [][StartupNext]_startupVars /\ \A p \in Procs : WF_startupVars(ProcStep(p))

(***************************************************************************)
(* Correctness                                                             *)
(***************************************************************************)
(* Whatever processes start together, lose their connection, or exit in    *)
(* the middle, a file takes effect once if it is recorded and else not at  *)
(* all, and never before the files sorted before it.                       *)
MigratedOnce ==
  \A v \in 1..Versions :
    /\ effects[v] = IF Record(v) \in db THEN 1 ELSE 0
    /\ Record(v) \in db => \A u \in 1..v : Record(u) \in db

(* No process serves requests on a schema older than its build. *)
ServesMigrated ==
  \A p \in Procs : ppc[p] \in {"connect", "serving"} =>
    \A v \in 1..Build[p] : Record(v) \in db

(* A process that loses the race against another fails, starts again and   *)
(* serves: no start-up leaves the database in a state that stops the next. *)
EveryoneServes == \A p \in Procs : <>[](ppc[p] = "serving")

(***************************************************************************)
(* The inductive invariant behind MigratedOnce and ServesMigrated.         *)
(***************************************************************************)
StartupTypeOK ==
  /\ effects \in [1..Versions -> Nat]
  /\ mine \in [Procs -> SUBSET Things]
  /\ at \in [Procs -> Nat \ {0}]
  /\ ppc \in [Procs -> {"exited", "journal", "create", "check", "apply", "record",
                       "connect", "serving"}]

(* The primary key: of all transactions one at most has recorded a file    *)
(* that is not recorded yet. *)
RecordsAreOwned ==
  \A p \in Procs : \A v \in 1..Versions : Record(v) \in mine[p] =>
    /\ Record(v) \notin db
    /\ \A q \in Procs \ {p} : Record(v) \notin mine[q]

(* A transaction has applied the files it has recorded, and the one it is  *)
(* about to record, and is past all files before that one. *)
TransactionIsSound(p) ==
  /\ ppc[p] \notin {"check", "apply", "record"} => mine[p] = {}
  /\ ppc[p] \in {"journal", "create"} => at[p] = 1
  /\ ppc[p] \in {"apply", "record"} => at[p] \in 1..Versions
  /\ ppc[p] \in {"check", "apply", "record"} =>
       \A u \in 1..Versions : u < at[p] => Record(u) \in Known(p)
  /\ \A v \in 1..Versions :
       /\ Record(v) \in mine[p] => v < at[p]
       /\ Content(v) \in mine[p] <=>
            Record(v) \in mine[p] \/ (ppc[p] = "record" /\ v = at[p])

StartupIInv ==
  /\ StartupTypeOK
  /\ MigratedOnce /\ ServesMigrated /\ RecordsAreOwned
  /\ \A p \in Procs : TransactionIsSound(p)
===============================================================================
