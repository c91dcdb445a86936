---------------------------- MODULE Startup_proofs ----------------------------
(***************************************************************************)
(* Proofs about Startup: for any number of processes, builds, migration    *)
(* files and failures a file takes effect once, in order, and no process   *)
(* serves on an older schema than its own.                                 *)
(***************************************************************************)
EXTENDS Startup, TLAPS

LEMMA ThingKinds ==
  /\ \A u, v : /\ Record(u) = Record(v) <=> u = v
               /\ Content(u) = Content(v) <=> u = v
               /\ Record(u) # Content(v)
  /\ \A v : Journal # Record(v) /\ Journal # Content(v)
  /\ Journal \in Things
  /\ \A v \in 1..Versions : Record(v) \in Things /\ Content(v) \in Things
BY DEF Journal, Content, Record, Things

LEMMA StartupInvInit == StartupInit => StartupIInv
<1> SUFFICES ASSUME StartupInit PROVE StartupIInv
  OBVIOUS
<1>1. PICK n \in 0..Versions :
        /\ db = IF n = 0 THEN {}
                ELSE {Journal} \cup {Content(v) : v \in 1..n} \cup {Record(v) : v \in 1..n}
        /\ effects = [v \in 1..Versions |-> IF v <= n THEN 1 ELSE 0]
  BY DEF StartupInit
<1>2. n \in Nat /\ Versions \in Nat
  BY StartupAssumption
<1>3. \A v \in 1..Versions : Record(v) \in db <=> v <= n
  BY <1>1, <1>2, ThingKinds
<1>4. StartupTypeOK
  BY <1>1, <1>2 DEF StartupInit, StartupTypeOK
<1>5. MigratedOnce
  BY <1>1, <1>2, <1>3 DEF MigratedOnce
<1> QED
  BY <1>4, <1>5 DEF StartupInit, StartupIInv, ServesMigrated, RecordsAreOwned,
                    TransactionIsSound

-----------------------------------------------------------------------------
(* The steps that leave the database and all transactions but one alone.   *)
LEMMA LocalStep ==
  ASSUME StartupIInv, StartupTypeOK', NEW p \in Procs, UNCHANGED <<db, effects>>,
         \A q \in Procs \ {p} : mine'[q] = mine[q] /\ ppc'[q] = ppc[q] /\ at'[q] = at[q],
         \A v \in 1..Versions : Record(v) \in mine'[p] /\ Record(v) \notin mine[p] =>
           Record(v) \notin db /\ ~Waits(p, Record(v)),
         TransactionIsSound(p)',
         ppc'[p] \in {"connect", "serving"} => ppc[p] \in {"connect", "serving"}
  PROVE  StartupIInv'
<1>1. MigratedOnce'
  BY DEF StartupIInv, MigratedOnce
<1>2. ServesMigrated'
  BY DEF StartupIInv, ServesMigrated
<1>3. RecordsAreOwned'
  BY DEF StartupIInv, RecordsAreOwned, Waits
<1>4. \A q \in Procs \ {p} : TransactionIsSound(q)'
  BY DEF StartupIInv, TransactionIsSound, Known
<1> QED
  BY <1>1, <1>2, <1>3, <1>4 DEF StartupIInv

LEMMA ExitIsSound ==
  ASSUME StartupIInv, NEW p \in Procs, Exit(p), UNCHANGED <<db, effects>>
  PROVE  StartupIInv'
<1>1. /\ StartupTypeOK'
      /\ mine'[p] = {} /\ ppc'[p] = "exited"
      /\ \A q \in Procs \ {p} : mine'[q] = mine[q] /\ ppc'[q] = ppc[q] /\ at'[q] = at[q]
  BY DEF StartupIInv, StartupTypeOK, Exit, At
<1>2. TransactionIsSound(p)'
  BY <1>1 DEF TransactionIsSound
<1> QED
  BY <1>1, <1>2, LocalStep

LEMMA QuietSteps ==
  ASSUME StartupIInv, NEW p \in Procs, EnsureJournal(p) \/ Connect(p) \/ Restart(p)
  PROVE  StartupIInv'
<1>1. /\ StartupTypeOK' /\ StartupTypeOK
      /\ UNCHANGED <<db, effects, mine>> /\ mine[p] = {}
      /\ \A q \in Procs \ {p} : ppc'[q] = ppc[q] /\ at'[q] = at[q]
  BY DEF StartupIInv, StartupTypeOK, EnsureJournal, Connect, Restart, At, TransactionIsSound
<1>2. /\ ppc'[p] \in {"check", "create", "journal", "serving"}
      /\ ppc'[p] # "serving" => at'[p] = 1
      /\ ppc'[p] = "serving" => ppc[p] = "connect"
  BY <1>1 DEF EnsureJournal, Connect, Restart, At, StartupTypeOK, StartupIInv, TransactionIsSound
<1>3. TransactionIsSound(p)'
  BY <1>1, <1>2 DEF TransactionIsSound
<1> QED
  BY <1>1, <1>2, <1>3, LocalStep

LEMMA CreateJournalKeeps ==
  ASSUME StartupIInv, NEW p \in Procs, CreateJournal(p)
  PROVE  StartupIInv'
<1>1. CASE Exit(p)
  BY <1>1, ExitIsSound DEF CreateJournal
<1>2. CASE ~Exit(p)
  <2>1. /\ ppc[p] = "create" /\ UNCHANGED <<db, effects, at>>
        /\ mine' = [mine EXCEPT ![p] = @ \cup {Journal}]
        /\ ppc' = [ppc EXCEPT ![p] = "check"]
    BY <1>2 DEF CreateJournal, Insert, At
  <2>2. mine[p] = {} /\ at[p] = 1 /\ mine'[p] = {Journal} /\ ppc'[p] = "check"
    BY <2>1 DEF StartupIInv, StartupTypeOK, TransactionIsSound
  <2>3. /\ StartupTypeOK'
        /\ \A q \in Procs \ {p} : mine'[q] = mine[q] /\ ppc'[q] = ppc[q] /\ at'[q] = at[q]
    BY <2>1, ThingKinds DEF StartupIInv, StartupTypeOK
  <2>4. TransactionIsSound(p)'
    BY <2>1, <2>2, ThingKinds DEF TransactionIsSound
  <2> QED
    BY <2>1, <2>2, <2>3, <2>4, ThingKinds, LocalStep
<1> QED
  BY <1>1, <1>2

LEMMA CheckFileKeeps ==
  ASSUME StartupIInv, NEW p \in Procs, CheckFile(p)
  PROVE  StartupIInv'
<1>1. /\ StartupTypeOK /\ StartupTypeOK' /\ TransactionIsSound(p)
      /\ UNCHANGED <<db, effects, mine>> /\ ppc[p] = "check"
      /\ at[p] \in Nat \ {0} /\ at[p] <= Build[p]
      /\ \A q \in Procs \ {p} : ppc'[q] = ppc[q] /\ at'[q] = at[q]
  <2>1. /\ UNCHANGED <<db, effects, mine>> /\ ppc[p] = "check" /\ at[p] <= Build[p]
        /\ \/ at' = [at EXCEPT ![p] = @ + 1] /\ ppc' = ppc
           \/ at' = at /\ ppc' = [ppc EXCEPT ![p] = "apply"]
    BY DEF CheckFile, At
  <2>2. StartupTypeOK /\ TransactionIsSound(p)
    BY DEF StartupIInv
  <2>3. /\ at \in [Procs -> Nat \ {0}] /\ at[p] \in Nat \ {0}
        /\ \A q \in Procs \ {p} : ppc'[q] = ppc[q] /\ at'[q] = at[q]
    BY <2>1, <2>2 DEF StartupTypeOK
  <2>4. /\ at' \in [Procs -> Nat \ {0}]
        /\ ppc' \in [Procs -> {"exited", "journal", "create", "check", "apply",
                               "record", "connect", "serving"}]
    BY <2>1, <2>2, <2>3 DEF StartupTypeOK
  <2> QED
    BY <2>1, <2>2, <2>3, <2>4 DEF StartupTypeOK
<1>2. at[p] \in 1..Versions
  BY <1>1, StartupAssumption
<1>3. CASE Record(at[p]) \in Known(p)
  <2>1. at'[p] = at[p] + 1 /\ ppc'[p] = "check"
    BY <1>1, <1>3 DEF CheckFile, StartupTypeOK
  <2>2. \A u \in 1..Versions : u < at'[p] => u < at[p] \/ u = at[p]
    BY <1>2, <2>1
  <2>3. TransactionIsSound(p)'
    BY <1>1, <1>2, <1>3, <2>1, <2>2 DEF TransactionIsSound, Known
  <2> QED
    BY <1>1, <2>1, <2>3, LocalStep
<1>4. CASE Record(at[p]) \notin Known(p)
  <2>1. at' = at /\ ppc'[p] = "apply"
    BY <1>1, <1>4 DEF CheckFile, StartupTypeOK, At
  <2>2. TransactionIsSound(p)'
    BY <1>1, <1>2, <2>1 DEF TransactionIsSound, Known
  <2> QED
    BY <1>1, <2>1, <2>2, LocalStep
<1> QED
  BY <1>3, <1>4

LEMMA ApplyKeeps ==
  ASSUME StartupIInv, NEW p \in Procs, Apply(p)
  PROVE  StartupIInv'
<1>1. CASE Exit(p)
  BY <1>1, ExitIsSound DEF Apply
<1>2. CASE ~Exit(p)
  <2>1. /\ ppc[p] = "apply" /\ UNCHANGED <<db, effects, at>>
        /\ mine' = [mine EXCEPT ![p] = @ \cup {Content(at[p])}]
        /\ ppc' = [ppc EXCEPT ![p] = "record"]
    BY <1>2 DEF Apply, Insert, At
  <2>2. at[p] \in 1..Versions /\ TransactionIsSound(p) /\ StartupTypeOK
    BY <2>1 DEF StartupIInv, TransactionIsSound
  <2>3. /\ StartupTypeOK' /\ ppc'[p] = "record" /\ mine'[p] = mine[p] \cup {Content(at[p])}
        /\ \A q \in Procs \ {p} : mine'[q] = mine[q] /\ ppc'[q] = ppc[q] /\ at'[q] = at[q]
    BY <2>1, <2>2, ThingKinds DEF StartupTypeOK
  <2>4. TransactionIsSound(p)'
    BY <2>1, <2>2, <2>3, ThingKinds DEF TransactionIsSound, Known
  <2> QED
    BY <2>1, <2>3, <2>4, ThingKinds, LocalStep
<1> QED
  BY <1>1, <1>2

LEMMA RecordFileKeeps ==
  ASSUME StartupIInv, NEW p \in Procs, RecordFile(p)
  PROVE  StartupIInv'
<1>1. CASE Exit(p)
  BY <1>1, ExitIsSound DEF RecordFile
<1>2. CASE ~Exit(p)
  <2>1. /\ ppc[p] = "record" /\ UNCHANGED <<db, effects>>
        /\ ~Waits(p, Record(at[p])) /\ Record(at[p]) \notin Known(p)
        /\ mine' = [mine EXCEPT ![p] = @ \cup {Record(at[p])}]
        /\ at' = [at EXCEPT ![p] = @ + 1]
        /\ ppc' = [ppc EXCEPT ![p] = "check"]
    BY <1>2 DEF RecordFile, At
  <2>2. at[p] \in 1..Versions /\ TransactionIsSound(p) /\ StartupTypeOK
    BY <2>1 DEF StartupIInv, TransactionIsSound
  <2>3. /\ StartupTypeOK' /\ ppc'[p] = "check" /\ at'[p] = at[p] + 1
        /\ mine'[p] = mine[p] \cup {Record(at[p])}
        /\ \A q \in Procs \ {p} : mine'[q] = mine[q] /\ ppc'[q] = ppc[q] /\ at'[q] = at[q]
    BY <2>1, <2>2, ThingKinds DEF StartupTypeOK
  <2>4. \A v \in 1..Versions :
          /\ Record(v) \in mine'[p] <=> Record(v) \in mine[p] \/ v = at[p]
          /\ Content(v) \in mine'[p] <=> Content(v) \in mine[p]
          /\ v < at'[p] <=> v < at[p] \/ v = at[p]
    BY <2>2, <2>3, ThingKinds, StartupAssumption
  <2>5. TransactionIsSound(p)'
    BY <2>1, <2>2, <2>3, <2>4 DEF TransactionIsSound, Known
  <2> QED
    BY <2>1, <2>3, <2>4, <2>5, LocalStep DEF Known
<1> QED
  BY <1>1, <1>2

(* COMMIT makes everything of one transaction take effect at once; no      *)
(* other one has recorded any of it. *)
LEMMA CommitKeeps ==
  ASSUME StartupIInv, NEW p \in Procs, Commit(p)
  PROVE  StartupIInv'
<1>1. CASE UNCHANGED <<db, effects>> /\ Exit(p)
  BY <1>1, ExitIsSound
<1>2. CASE ~(UNCHANGED <<db, effects>> /\ Exit(p))
  <2>1. /\ ppc[p] = "check" /\ at[p] > Build[p] /\ UNCHANGED at
        /\ db' = db \cup mine[p]
        /\ effects' = [v \in 1..Versions |->
                         effects[v] + (IF Content(v) \in mine[p] THEN 1 ELSE 0)]
        /\ mine' = [mine EXCEPT ![p] = {}]
        /\ ppc' = [ppc EXCEPT ![p] = "connect"] \/ ppc' = [ppc EXCEPT ![p] = "exited"]
    BY <1>2 DEF Commit, Exit, At
  <2>2. /\ StartupTypeOK /\ TransactionIsSound(p)
        /\ MigratedOnce /\ RecordsAreOwned /\ ServesMigrated
    BY DEF StartupIInv
  <2>3. /\ mine'[p] = {} /\ ppc'[p] \in {"connect", "exited"}
        /\ \A q \in Procs \ {p} : mine'[q] = mine[q] /\ ppc'[q] = ppc[q] /\ at'[q] = at[q]
    BY <2>1, <2>2 DEF StartupTypeOK
  <2>4. StartupTypeOK'
    BY <2>1, <2>2 DEF StartupTypeOK
  <2>5. \A v \in 1..Versions :
          /\ Record(v) \in db' <=> Record(v) \in db \/ Record(v) \in mine[p]
          /\ Content(v) \in mine[p] <=> Record(v) \in mine[p]
          /\ ~(Record(v) \in db /\ Record(v) \in mine[p])
          /\ effects'[v] = effects[v] + (IF Record(v) \in mine[p] THEN 1 ELSE 0)
          /\ effects[v] = IF Record(v) \in db THEN 1 ELSE 0
    BY <2>1, <2>2 DEF TransactionIsSound, RecordsAreOwned, MigratedOnce
  <2>6. \A v \in 1..Versions : v < at[p] => Record(v) \in db'
    BY <2>1, <2>2 DEF TransactionIsSound, Known
  <2>7. \A v \in 1..Versions : Record(v) \in db' => \A u \in 1..v : Record(u) \in db'
    <3> SUFFICES ASSUME NEW v \in 1..Versions, Record(v) \in db', NEW u \in 1..v
                 PROVE  Record(u) \in db'
      OBVIOUS
    <3>1. u \in 1..Versions /\ u <= v /\ v \in Nat /\ at[p] \in Nat
      BY <2>2, StartupAssumption DEF StartupTypeOK
    <3>2. CASE Record(v) \in db
      BY <2>1, <2>2, <3>2 DEF MigratedOnce
    <3>3. CASE Record(v) \in mine[p]
      <4>1. v < at[p]
        BY <2>2, <3>3 DEF TransactionIsSound
      <4> QED
        BY <2>6, <3>1, <4>1
    <3> QED
      BY <2>5, <3>2, <3>3
  <2>8. MigratedOnce'
    <3>1. \A v \in 1..Versions : effects'[v] = IF Record(v) \in db' THEN 1 ELSE 0
      BY <2>5
    <3> QED
      BY <2>7, <3>1 DEF MigratedOnce
  <2>9. ServesMigrated'
    <3>1. \A v \in 1..Build[p] : v \in 1..Versions /\ v < at[p]
      BY <2>1, <2>2, StartupAssumption DEF StartupTypeOK
    <3>2. \A v \in 1..Build[p] : Record(v) \in db'
      BY <2>6, <3>1
    <3> QED
      BY <2>1, <2>2, <2>3, <3>2 DEF ServesMigrated
  <2>10. RecordsAreOwned'
    BY <2>2, <2>3, <2>5 DEF RecordsAreOwned
  <2>11. TransactionIsSound(p)'
    BY <2>1, <2>3 DEF TransactionIsSound
  <2>12. \A q \in Procs \ {p} : TransactionIsSound(q)'
    <3> SUFFICES ASSUME NEW q \in Procs \ {p} PROVE TransactionIsSound(q)'
      OBVIOUS
    <3>1. TransactionIsSound(q)
      BY DEF StartupIInv
    <3>2. \A x : x \in Known(q) => x \in Known(q)'
      BY <2>1, <2>3 DEF Known
    <3> QED
      BY <2>3, <3>1, <3>2 DEF TransactionIsSound
  <2> QED
    BY <2>4, <2>8, <2>9, <2>10, <2>11, <2>12 DEF StartupIInv
<1> QED
  BY <1>1, <1>2

LEMMA StartupInvStep == StartupIInv /\ [StartupNext]_startupVars => StartupIInv'
<1> SUFFICES ASSUME StartupIInv, [StartupNext]_startupVars PROVE StartupIInv'
  OBVIOUS
<1>1. CASE StartupNext
  <2>1. PICK p \in Procs : ProcStep(p) \/ Die(p)
    BY <1>1 DEF StartupNext
  <2>2. CASE EnsureJournal(p) \/ Connect(p) \/ Restart(p)
    BY <2>2, QuietSteps
  <2>3. CASE CreateJournal(p)
    BY <2>3, CreateJournalKeeps
  <2>4. CASE CheckFile(p)
    BY <2>4, CheckFileKeeps
  <2>5. CASE Apply(p)
    BY <2>5, ApplyKeeps
  <2>6. CASE RecordFile(p)
    BY <2>6, RecordFileKeeps
  <2>7. CASE Commit(p)
    BY <2>7, CommitKeeps
  <2>8. CASE Die(p)
    BY <2>8, ExitIsSound DEF Die
  <2> QED
    BY <2>1, <2>2, <2>3, <2>4, <2>5, <2>6, <2>7, <2>8 DEF ProcStep
<1>2. CASE UNCHANGED startupVars
  BY <1>2 DEF startupVars, StartupIInv, StartupTypeOK, MigratedOnce, ServesMigrated,
              RecordsAreOwned, TransactionIsSound, Known
<1> QED
  BY <1>1, <1>2

-----------------------------------------------------------------------------
(* The type invariant, the ownership of records and the order in which a   *)
(* transaction works hold in every state, for any number of processes.     *)
THEOREM StartupInvariance == FairStartup => []StartupIInv
<1> QED
  BY StartupInvInit, StartupInvStep, PTL DEF FairStartup

(* A migration file takes effect once if it is recorded and else not at    *)
(* all, whoever starts at the same time and wherever it stops              *)
(* (ApplyMigrations, internal/db/migrate.go).                              *)
THEOREM MigratedOnceAlways == FairStartup => []MigratedOnce
<1>1. StartupIInv => MigratedOnce
  BY DEF StartupIInv
<1> QED
  BY <1>1, StartupInvariance, PTL

(* A process that serves has every file its build embeds in the database   *)
(* (run, cmd/groups/main.go).                                              *)
THEOREM ServesMigratedAlways == FairStartup => []ServesMigrated
<1>1. StartupIInv => ServesMigrated
  BY DEF StartupIInv
<1> QED
  BY <1>1, StartupInvariance, PTL
===============================================================================
