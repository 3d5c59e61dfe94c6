---------------------------- MODULE ServiceProofs ----------------------------
(***************************************************************************)
(* Proofs about Service: what the ledger of migrations says is so for any  *)
(* files and any number of crashes, and rounds own their tasks for any     *)
(* tasks and workers.                                                      *)
(***************************************************************************)
EXTENDS Service, TLAPS

-----------------------------------------------------------------------------
\* Migrations

\* A file in the ledger has taken effect; a run counts only such files, and what it has
\* executed of the next file the database has seen.
LedgerTrue ==
  /\ \A f \in ledger : applied[f] = Statements[f]
  /\ migrate.seen \subseteq ledger
  /\ migrate.step = "run" => \A f \in Files : Due(f) => applied[f] >= migrate.ran
  /\ migrate.step = "done" => Files \subseteq migrate.seen

SchemaInv == SchemaTyped /\ LedgerTrue

LEMMA FilesAreNumbers == Files \in SUBSET Nat /\ \A f \in Files : Statements[f] \in Nat \ {0}
BY StatementsAssumption DEF Files

LEMMA OneDue == ASSUME NEW f \in Files, NEW g \in Files, Due(f), Due(g) PROVE f = g
BY FilesAreNumbers DEF Due

LEMMA SchemaStarts == SchemaInit => SchemaInv
BY FilesAreNumbers DEF SchemaInit, SchemaInv, SchemaTyped, LedgerTrue, NotMigrating

LEMMA RunStatementKeeps ==
  ASSUME SchemaInv, NEW f \in Files, RunStatement(f) PROVE SchemaInv'
<1> USE FilesAreNumbers DEF SchemaInv, SchemaTyped, LedgerTrue, RunStatement, MigrationFails
<1>1. CASE UNCHANGED applied /\ MigrationFails
  BY <1>1 DEF Due
<1>2. CASE /\ applied[f] = migrate.ran
           /\ applied' = [applied EXCEPT ![f] = @ + 1]
           /\ migrate' = [migrate EXCEPT !.ran = @ + 1] \/ MigrationFails
  <2>1. f \notin ledger /\ applied[f] < Statements[f]
    BY <1>2
  <2>2. SchemaTyped'
    BY <1>2, <2>1
  <2>3. LedgerTrue'
    <3>1. \A g \in ledger' : applied'[g] = Statements[g]
      BY <1>2, <2>1
    <3>2. migrate'.step = "run" => \A g \in Files : Due(g)' => applied'[g] >= migrate'.ran
      <4> SUFFICES ASSUME migrate'.step = "run", NEW g \in Files, Due(g)'
                   PROVE  applied'[g] >= migrate'.ran
        OBVIOUS
      <4>1. migrate' = [migrate EXCEPT !.ran = @ + 1]
        BY <1>2
      <4>2. Due(g)
        BY <4>1 DEF Due
      <4> QED BY <1>2, <4>1, <4>2, OneDue
    <3> QED BY <1>2, <3>1, <3>2
  <2> QED BY <2>2, <2>3
<1> QED BY <1>1, <1>2

LEMMA RecordMigrationKeeps ==
  ASSUME SchemaInv, NEW f \in Files, RecordMigration(f) PROVE SchemaInv'
<1> USE FilesAreNumbers DEF SchemaInv, SchemaTyped, LedgerTrue, RecordMigration, MigrationFails
<1>1. applied[f] = Statements[f] /\ UNCHANGED applied
  OBVIOUS
<1>2. CASE /\ ledger' = ledger \cup {f}
           /\ migrate' = [step |-> "run", seen |-> migrate.seen \cup {f}, ran |-> 0]
  <2>1. /\ migrate'.seen = migrate.seen \cup {f}
        /\ migrate'.ran = 0 /\ migrate'.step = migrate.step
        /\ migrate' \in [step : {"off", "run", "done", "failed"}, seen : SUBSET Files, ran : Nat]
    BY <1>2
  <2> QED BY <1>1, <1>2, <2>1
<1>3. CASE (ledger' = ledger \cup {f} \/ UNCHANGED ledger) /\ MigrationFails
  <2>1. /\ migrate'.seen = migrate.seen /\ migrate'.step = "failed"
        /\ migrate' \in [step : {"off", "run", "done", "failed"}, seen : SUBSET Files, ran : Nat]
    BY <1>3
  <2> QED BY <1>1, <1>3, <2>1
<1> QED BY <1>2, <1>3

LEMMA MigrationKeeps == ASSUME SchemaInv, MigrationStep PROVE SchemaInv'
<1>1. CASE ReadLedger
  BY <1>1, FilesAreNumbers
     DEF SchemaInv, SchemaTyped, LedgerTrue, ReadLedger, MigrationFails, Due
<1>2. CASE MigrationDone
  BY <1>2 DEF SchemaInv, SchemaTyped, LedgerTrue, MigrationDone, Due
<1>3. CASE \E f \in Files : RunStatement(f) \/ RecordMigration(f)
  BY <1>3, RunStatementKeeps, RecordMigrationKeeps
<1> QED BY <1>1, <1>2, <1>3 DEF MigrationStep

LEMMA CutOffStays == ASSUME SchemaInv, CutOff, MigrationStep PROVE CutOff'
<1> USE FilesAreNumbers DEF SchemaInv, SchemaTyped, LedgerTrue, MigrationFails
<1> PICK f \in Files \ ledger :
      applied[f] > (IF migrate.step = "run" /\ Due(f) THEN migrate.ran ELSE 0)
  BY DEF CutOff
<1>1. applied[f] > 0
  OBVIOUS
<1>2. SUFFICES /\ f \notin ledger'
               /\ applied'[f] = applied[f]
               /\ migrate'.step = "run" => migrate'.ran = 0 \/ UNCHANGED migrate \/ ~Due(f)'
  <2> SUFFICES applied'[f] > (IF migrate'.step = "run" /\ Due(f)' THEN migrate'.ran ELSE 0)
    BY <1>2 DEF CutOff
  <2> QED BY <1>1, <1>2 DEF Due
<1>3. CASE ReadLedger
  BY <1>3 DEF ReadLedger
<1>4. CASE MigrationDone
  BY <1>4 DEF MigrationDone
<1>5. ASSUME NEW g \in Files, RunStatement(g)
      PROVE  /\ f \notin ledger'
             /\ applied'[f] = applied[f]
             /\ migrate'.step = "run" => migrate'.ran = 0 \/ UNCHANGED migrate \/ ~Due(f)'
  <2>1. CASE g = f
    BY <1>5, <2>1 DEF RunStatement
  <2>2. CASE g # f
    BY <1>5, <2>2, OneDue DEF RunStatement, Due
  <2> QED BY <2>1, <2>2
<1>6. ASSUME NEW g \in Files, RecordMigration(g)
      PROVE  /\ f \notin ledger'
             /\ applied'[f] = applied[f]
             /\ migrate'.step = "run" => migrate'.ran = 0 \/ UNCHANGED migrate \/ ~Due(f)'
  <2>1. applied[g] = Statements[g] /\ Due(g) /\ migrate.ran = Statements[g]
    BY <1>6 DEF RecordMigration
  <2>2. f # g
    BY <1>6, <2>1 DEF RecordMigration
  <2>3. CASE migrate' = [step |-> "run", seen |-> migrate.seen \cup {g}, ran |-> 0]
    BY <1>6, <2>2, <2>3 DEF RecordMigration
  <2>4. CASE MigrationFails
    BY <1>6, <2>2, <2>4 DEF RecordMigration
  <2> QED BY <1>6, <2>3, <2>4 DEF RecordMigration
<1> QED BY <1>3, <1>4, <1>5, <1>6 DEF MigrationStep

-----------------------------------------------------------------------------
\* The process: main goes past Migrate only when it is done

MigratedFirst == main \notin {"down", "migrate"} => migrate.step = "done"

LEMMA LeavesSchema ==
  ASSUME SchemaInv, UNCHANGED schemaVars PROVE SchemaInv' /\ (CutOff => CutOff')
BY DEF SchemaInv, SchemaTyped, LedgerTrue, schemaVars, CutOff, Due, Files

LEMMA EndLeavesSchema ==
  ASSUME SchemaInv, ProcessEnds PROVE SchemaInv' /\ (CutOff => CutOff')
<1>1. UNCHANGED <<applied, ledger>> /\ migrate' = NotMigrating
  BY DEF ProcessEnds
<1>2. SchemaInv'
  BY <1>1, FilesAreNumbers DEF SchemaInv, SchemaTyped, LedgerTrue, NotMigrating
<1>3. CutOff => CutOff'
  <2> SUFFICES ASSUME NEW f \in Files \ ledger,
                      applied[f] > (IF migrate.step = "run" /\ Due(f) THEN migrate.ran ELSE 0)
               PROVE  f \in Files \ ledger' /\ applied'[f] > 0 /\ migrate'.step = "off"
    BY DEF CutOff
  <2> QED BY <1>1 DEF SchemaInv, SchemaTyped, NotMigrating
<1> QED BY <1>2, <1>3

\* A step of main as far as migrations go: it leaves them alone, is one of theirs, or
\* ends the process.
LEMMA StepOfSchema ==
  ASSUME [Next]_vars
  PROVE  UNCHANGED schemaVars \/ MigrationStep \/ ProcessEnds
<1> USE DEF Continue, WindUp
<1>1. CASE MainStep
  BY <1>1 DEF MainStep, Start, Migrate, Migrated, Inspect, ResumeDeletions, ResetInFlight,
     ResetFails, RemoveOrphanFiles, BootPool, StartCleanup, BecomeReady, Run, Return, Exit
<1>2. CASE Listen \/ Cleanup \/ Drain \/ SpendBudget \/ Signal \/ Crash
  BY <1>2 DEF Listen, Cleanup, Drain, SpendBudget, Signal, Crash
<1>3. CASE WindUpStep
  BY <1>3 DEF WindUpStep, CloseListener, RequestsOver, TasksOver, ForceStop, StopWait,
     CleanupWait, CloseDB
<1>4. CASE \E w \in Workers : Work(w)
  BY <1>4 DEF Work
<1>5. CASE \E t \in Tasks : RequestStep(t)
  BY <1>5 DEF RequestStep, OpenUpload, BreakUpload, CommitTask, NotifyAndAnswer
<1>6. CASE UNCHANGED vars
  BY <1>6 DEF vars
<1> QED BY <1>1, <1>2, <1>3, <1>4, <1>5, <1>6 DEF Next

LEMMA SchemaKeeps ==
  ASSUME SchemaInv, [Next]_vars PROVE SchemaInv' /\ (CutOff => CutOff')
BY StepOfSchema, LeavesSchema, EndLeavesSchema, MigrationKeeps, CutOffStays

LEMMA MainWaitsForMigrate ==
  ASSUME MigratedFirst, [Next]_vars PROVE MigratedFirst'
<1> USE DEF MigratedFirst, Continue, WindUp, schemaVars, mainVars
<1>1. CASE MainStep
  BY <1>1 DEF MainStep, Start, Migrate, Migrated, Inspect, ResumeDeletions, ResetInFlight,
     ResetFails, RemoveOrphanFiles, BootPool, StartCleanup, BecomeReady, Run, Return, Exit,
     ProcessEnds
<1>2. CASE Listen \/ Cleanup \/ Drain \/ SpendBudget \/ Signal \/ Crash
  BY <1>2 DEF Listen, Cleanup, Drain, SpendBudget, Signal, Crash, ProcessEnds
<1>3. CASE WindUpStep
  BY <1>3 DEF WindUpStep, CloseListener, RequestsOver, TasksOver, ForceStop, StopWait,
     CleanupWait, CloseDB
<1>4. CASE \E w \in Workers : Work(w)
  BY <1>4 DEF Work
<1>5. CASE \E t \in Tasks : RequestStep(t)
  BY <1>5 DEF RequestStep, OpenUpload, BreakUpload, CommitTask, NotifyAndAnswer
<1>6. CASE UNCHANGED vars
  BY <1>6 DEF vars
<1> QED BY <1>1, <1>2, <1>3, <1>4, <1>5, <1>6 DEF Next

LEMMA EndStaysTyped ==
  ASSUME ServiceTyped, ProcessEnds, stops' \in 0..MaxStops PROVE ServiceTyped'
BY DEF ServiceTyped, ProcessEnds

LEMMA MainStaysTyped == ASSUME ServiceTyped, MainStep PROVE ServiceTyped'
<1> USE DEF ServiceTyped, Continue, downVars
<1>1. CASE ProcessEnds /\ UNCHANGED stops
  BY <1>1, EndStaysTyped
<1>2. CASE Start
  BY <1>2 DEF Start
<1>3. CASE Migrated
  BY <1>1, <1>3 DEF Migrated
<1>4. CASE Inspect \/ ResumeDeletions \/ ResetInFlight \/ RemoveOrphanFiles \/ BootPool
  BY <1>4 DEF Inspect, ResumeDeletions, ResetInFlight, RemoveOrphanFiles, BootPool
<1>5. CASE ResetFails \/ Exit
  BY <1>1, <1>5 DEF ResetFails, Exit
<1>6. CASE StartCleanup \/ BecomeReady
  BY <1>6 DEF StartCleanup, BecomeReady
<1>7. CASE Run \/ Return
  BY <1>7 DEF Run, Return
<1>8. CASE Migrate
  BY <1>8 DEF Migrate, mainVars
<1> QED BY <1>2, <1>3, <1>4, <1>5, <1>6, <1>7, <1>8 DEF MainStep

LEMMA ServiceStaysTyped == ASSUME ServiceTyped, [Next]_vars PROVE ServiceTyped'
<1> USE DEF ServiceTyped, mainVars, downVars
<1>1. CASE MainStep
  BY <1>1, MainStaysTyped
<1>2. CASE Listen \/ Cleanup \/ SpendBudget
  BY <1>2 DEF Listen, Cleanup, SpendBudget
<1>3. CASE Drain
  BY <1>3, ZenonT(40) DEF Drain
<1>4. CASE Signal
  BY <1>4, MaxStopsAssumption DEF Signal
<1>5. CASE Crash
  <2>1. stops' \in 0..MaxStops
    BY <1>5, MaxStopsAssumption DEF Crash
  <2> QED BY <1>5, <2>1, EndStaysTyped DEF Crash
<1>6. CASE WindUpStep
  <2> USE DEF WindUp
  <2>1. CASE CloseListener \/ RequestsOver \/ TasksOver \/ ForceStop \/ CloseDB
    BY <2>1 DEF CloseListener, RequestsOver, TasksOver, ForceStop, CloseDB
  <2>2. CASE StopWait \/ CleanupWait
    BY <2>2 DEF StopWait, CleanupWait, CleanupOver, AllGone
  <2> QED BY <1>6, <2>1, <2>2 DEF WindUpStep
<1>7. CASE \E w \in Workers : Work(w)
  BY <1>7 DEF Work
<1>8. CASE \E t \in Tasks : RequestStep(t)
  BY <1>8 DEF RequestStep, OpenUpload, BreakUpload, CommitTask, NotifyAndAnswer
<1>9. CASE UNCHANGED vars
  BY <1>9 DEF vars
<1> QED BY <1>1, <1>2, <1>3, <1>4, <1>5, <1>6, <1>7, <1>8, <1>9 DEF Next

-----------------------------------------------------------------------------
\* The pool: rounds own their tasks

\* Where main is until it starts the pool.
Early == {"down", "migrate", "inspect", "resume", "reset", "sweep", "pool"}

\* An upload that is being read has no task yet, and no worker runs before the pool.
OwnInv ==
  /\ PoolTyped /\ RoundsOwnTheirTask
  /\ \A t \in Tasks : req[t] = "reading" => task[t] = "none"
  /\ main \in Early => \A w \in Workers : loop[w].pc = "none"

LEMMA PoolLeft ==
  ASSUME OwnInv, UNCHANGED <<task, loop>>,
         \A t \in Tasks : req'[t] = "reading" => task[t] = "none",
         main' \in Early => main \in Early,
         /\ wake' \in [Workers -> BOOLEAN]
         /\ started' \in BOOLEAN /\ claiming' \in BOOLEAN /\ running' \in BOOLEAN
         /\ halted' \in BOOLEAN
  PROVE  OwnInv'
BY DEF OwnInv, PoolTyped, RoundsOwnTheirTask

LEMMA PoolOver == ASSUME OwnInv, ProcessEnds PROVE OwnInv'
BY PoolAssumption DEF OwnInv, PoolTyped, RoundsOwnTheirTask, ProcessEnds, PoolEnds, At

LEMMA MainStepOwns == ASSUME OwnInv, ServiceTyped, MainStep PROVE OwnInv'
<1> USE DEF Early, Continue, poolVars, contexts, mainVars
<1>1. CASE ProcessEnds
  BY <1>1, PoolOver
<1>2. CASE ResetInFlight
  BY <1>2 DEF ResetInFlight, OwnInv, PoolTyped, RoundsOwnTheirTask
<1>3. CASE BootPool
  BY <1>3, PoolAssumption
     DEF BootPool, StartPool, At, OwnInv, PoolTyped, RoundsOwnTheirTask
<1>4. CASE ~(ProcessEnds \/ ResetInFlight \/ BootPool)
  <2>1. /\ UNCHANGED <<poolVars, req>>
        /\ main' \in Early => main \in Early
    BY <1>4 DEF MainStep, Start, Migrate, Migrated, Inspect, ResumeDeletions, ResetFails,
       RemoveOrphanFiles, StartCleanup, BecomeReady, Run, Return, Exit
  <2> QED BY <2>1, PoolLeft DEF OwnInv, PoolTyped
<1> QED BY <1>1, <1>2, <1>3, <1>4

LEMMA ShutdownOwns ==
  ASSUME OwnInv, Listen \/ Cleanup \/ Drain \/ WindUpStep \/ SpendBudget \/ Signal \/ Crash
  PROVE  OwnInv'
<1>1. CASE Crash
  BY <1>1, PoolOver DEF Crash
<1>2. CASE ~Crash
  <2>1. /\ UNCHANGED <<task, loop, wake, started, halted, req, main>>
        /\ claiming' \in {claiming, FALSE} /\ running' \in {running, FALSE}
    BY <1>2 DEF Listen, Cleanup, Drain, SpendBudget, Signal, WindUpStep, CloseListener,
       RequestsOver, TasksOver, ForceStop, StopWait, CleanupWait, CloseDB, WindUp, poolVars,
       contexts, mainVars
  <2> QED BY <2>1, PoolLeft DEF OwnInv, PoolTyped
<1> QED BY <1>1, <1>2

LEMMA RequestOwns ==
  ASSUME OwnInv, ServiceTyped, NEW t \in Tasks, RequestStep(t) PROVE OwnInv'
<1> USE DEF poolVars, contexts, OwnInv, PoolTyped, RoundsOwnTheirTask, ServiceTyped
<1>1. CASE OpenUpload(t)
  BY <1>1 DEF OpenUpload
<1>2. CASE BreakUpload(t)
  BY <1>2 DEF BreakUpload
<1>3. CASE CommitTask(t)
  <2>1. task[t] # "inflight" /\ \A w \in Workers : loop[w].task # t
    BY <1>3, PoolAssumption DEF CommitTask
  <2> QED BY <1>3, <2>1 DEF CommitTask
<1>4. CASE NotifyAndAnswer(t)
  BY <1>4 DEF NotifyAndAnswer, Notify
<1> QED BY <1>1, <1>2, <1>3, <1>4 DEF RequestStep

\* A worker that takes up no round.
LEMMA WorkerMoves ==
  ASSUME OwnInv, NEW w \in Workers, NEW l \in {"top", "claiming", "waiting", "gone"},
         Goto(w, l), UNCHANGED <<task, main, req, started, claiming, running>>,
         wake' \in [Workers -> BOOLEAN], halted' \in BOOLEAN, loop[w].pc # "none"
  PROVE  OwnInv'
BY PoolAssumption, ZenonT(40) DEF OwnInv, PoolTyped, RoundsOwnTheirTask, Goto, At

LEMMA WorkOwns == ASSUME OwnInv, NEW w \in Workers, Work(w) PROVE OwnInv'
<1> USE PoolAssumption
    DEF contexts, mainVars, Goto, At, OwnInv, PoolTyped, RoundsOwnTheirTask
<1>0. UNCHANGED <<main, req>>
  BY DEF Work
<1>1. CASE Check(w)
  BY <1>0, <1>1 DEF Check
<1>2. ASSUME NEW t \in Tasks, Claim(w, t) PROVE OwnInv'
  <2>1. \A v \in Workers : loop[v].task # t
    BY <1>2 DEF Claim
  <2> QED BY <1>0, <1>2, <2>1 DEF Claim
<1>3. CASE ClaimNothing(w)
  BY <1>0, <1>3 DEF ClaimNothing
<1>4. CASE Resume(w)
  <2>1. wake' \in [Workers -> BOOLEAN]
    BY <1>4 DEF Resume
  <2>2. Goto(w, "top") \/ Goto(w, "gone")
    BY <1>4 DEF Resume
  <2>3. UNCHANGED <<task, started, claiming, running, halted>> /\ loop[w].pc # "none"
    BY <1>4 DEF Resume
  <2> QED BY <1>0, <2>1, <2>2, <2>3, WorkerMoves
<1>5. CASE EndRound(w)
  <2>1. loop[w].task \in Tasks /\ task[loop[w].task] = "inflight"
    BY <1>5 DEF EndRound
  <2>2. \A v \in Workers \ {w} : loop[v].task # loop[w].task
    BY <1>5 DEF EndRound
  <2> QED BY <1>0, <1>5, <2>1, <2>2 DEF EndRound
<1>6. CASE Halt(w) \/ InterruptRound(w)
  <2>1. Goto(w, "waiting") /\ loop[w].pc # "none"
    BY <1>6 DEF Halt, InterruptRound
  <2>2. UNCHANGED <<task, wake, started, claiming, running>> /\ halted' \in BOOLEAN
    BY <1>6 DEF Halt, InterruptRound
  <2> QED BY <1>0, <2>1, <2>2, WorkerMoves
<1> QED BY <1>1, <1>2, <1>3, <1>4, <1>5, <1>6 DEF Work, LoopStep, RoundOver

LEMMA OwnInvKeeps == ASSUME OwnInv, ServiceTyped, [Next]_vars PROVE OwnInv'
<1>1. CASE UNCHANGED vars
  BY <1>1 DEF vars, poolVars, contexts, mainVars, OwnInv, PoolTyped, RoundsOwnTheirTask
<1> QED BY <1>1, MainStepOwns, ShutdownOwns, RequestOwns, WorkOwns DEF Next

-----------------------------------------------------------------------------
\* The shutdown: what is over at each of its steps stays so

DownInv ==
  /\ main \in Early => shutdown = "off" /\ ~started /\ ~halted
  /\ shutdown \notin {"off", "http"} => http = "shut"
  /\ shutdown \notin {"off", "http", "requests"} => Answered \/ budget = "spent"
  /\ shutdown \in {"cleanup", "close", "done"} /\ started => AllGone \/ gaveUp
  /\ shutdown \in {"close", "done"} => cleanup # "working" \/ gaveUp
  /\ shutdown = "done" => ~db

LEMMA DownOver == ASSUME ProcessEnds PROVE DownInv'
BY DEF DownInv, ProcessEnds, PoolEnds

LEMMA MainStepDown == ASSUME DownInv, ServiceTyped, MainStep PROVE DownInv'
<1> USE DEF Early, Continue, poolVars, contexts, mainVars, downVars
<1>1. CASE ProcessEnds
  BY <1>1, DownOver
<1>2. CASE BootPool
  BY <1>2 DEF BootPool, StartPool, DownInv, Answered
<1>3. CASE StartCleanup
  BY <1>3 DEF StartCleanup, DownInv, Answered, AllGone
<1>4. CASE Start \/ Migrate \/ Migrated \/ Inspect \/ ResumeDeletions \/ ResetInFlight
           \/ RemoveOrphanFiles
  <2>1. ProcessEnds \/ (shutdown = "off" /\ shutdown' = "off")
    BY <1>4 DEF Start, Migrate, Migrated, Inspect, ResumeDeletions, ResetInFlight,
       RemoveOrphanFiles, DownInv
  <2>2. ProcessEnds \/ UNCHANGED <<started, halted>>
    BY <1>4 DEF Start, Migrate, Migrated, Inspect, ResumeDeletions, ResetInFlight,
       RemoveOrphanFiles
  <2>3. ProcessEnds \/ main \in Early
    BY <1>4 DEF Start, Migrate, Migrated, Inspect, ResumeDeletions, ResetInFlight,
       RemoveOrphanFiles
  <2> QED BY <2>1, <2>2, <2>3, DownOver DEF DownInv
<1>5. CASE BecomeReady \/ Run \/ Return
  BY <1>5 DEF BecomeReady, Run, Return, DownInv, Answered, AllGone
<1>6. CASE ResetFails \/ Exit
  BY <1>6, DownOver DEF ResetFails, Exit
<1> QED BY <1>1, <1>2, <1>3, <1>4, <1>5, <1>6 DEF MainStep

LEMMA WindUpDown == ASSUME DownInv, ServiceTyped, WindUpStep PROVE DownInv'
<1> USE DEF DownInv, WindUp, Answered, AllGone
<1>1. CASE CloseListener
  BY <1>1 DEF CloseListener
<1>2. CASE RequestsOver
  BY <1>2 DEF RequestsOver
<1>3. CASE TasksOver
  BY <1>3 DEF TasksOver
<1>4. CASE ForceStop
  BY <1>4 DEF ForceStop
<1>5. CASE StopWait
  BY <1>5 DEF StopWait
<1>6. CASE CleanupWait
  BY <1>6 DEF CleanupWait, CleanupOver
<1>7. CASE CloseDB
  BY <1>7 DEF CloseDB
<1> QED BY <1>1, <1>2, <1>3, <1>4, <1>5, <1>6, <1>7 DEF WindUpStep

LEMMA WorkDown == ASSUME DownInv, OwnInv, NEW w \in Workers, Work(w) PROVE DownInv'
<1>1. loop[w].pc \notin {"none", "gone"}
  BY DEF Work, LoopStep, RoundOver, Check, Claim, ClaimNothing, Resume, EndRound, Halt,
     InterruptRound
<1>2. ~AllGone /\ main \notin Early
  BY <1>1 DEF AllGone, OwnInv
<1>3. UNCHANGED <<started, mainVars, downVars>>
  BY DEF Work, LoopStep, RoundOver, Check, Claim, ClaimNothing, Resume, EndRound, Halt,
     InterruptRound, contexts
<1> QED BY <1>2, <1>3 DEF DownInv, Answered, mainVars, downVars

LEMMA DownInvKeeps ==
  ASSUME DownInv, OwnInv, ServiceTyped, [Next]_vars PROVE DownInv'
<1> USE DEF poolVars, contexts, mainVars, downVars
<1>1. CASE Listen \/ Cleanup \/ SpendBudget \/ Signal
  BY <1>1 DEF Listen, Cleanup, SpendBudget, Signal, DownInv, Answered, AllGone
<1>2. CASE Drain
  BY <1>2 DEF Drain, DownInv, Early
<1>3. CASE Crash
  BY <1>3, DownOver DEF Crash
<1>4. ASSUME NEW t \in Tasks, RequestStep(t) PROVE DownInv'
  <2>1. http = "shut" /\ Answered => Answered'
    BY <1>4 DEF RequestStep, OpenUpload, BreakUpload, CommitTask, NotifyAndAnswer, Answered,
       ServiceTyped
  <2>2. UNCHANGED <<started, halted, loop, main, http, downVars>>
    BY <1>4 DEF RequestStep, OpenUpload, BreakUpload, CommitTask, NotifyAndAnswer, Notify
  <2> QED BY <2>1, <2>2 DEF DownInv, AllGone
<1>5. CASE UNCHANGED vars
  BY <1>5 DEF vars, DownInv, Answered, AllGone
<1> QED BY <1>1, <1>2, <1>3, <1>4, <1>5, MainStepDown, WindUpDown, WorkDown DEF Next

-----------------------------------------------------------------------------
IInv == SchemaInv /\ MigratedFirst /\ ServiceTyped /\ OwnInv /\ DownInv

LEMMA ServiceStarts == Init => IInv
<1> SUFFICES ASSUME Init PROVE IInv
  OBVIOUS
<1>1. SchemaInv
  BY SchemaStarts DEF Init
<1>2. MigratedFirst
  BY DEF Init, MigratedFirst
<1>3. ServiceTyped
  <2>1. stops \in 0..MaxStops
    BY MaxStopsAssumption DEF Init
  <2> QED BY <2>1 DEF Init, ServiceTyped
<1>4. OwnInv
  BY PoolAssumption DEF Init, PoolInit, At, OwnInv, PoolTyped, RoundsOwnTheirTask
<1>5. DownInv
  BY DEF Init, PoolInit, DownInv
<1> QED BY <1>1, <1>2, <1>3, <1>4, <1>5 DEF IInv

LEMMA IInvKeeps == IInv /\ [Next]_vars => IInv'
BY SchemaKeeps, MainWaitsForMigrate, ServiceStaysTyped, OwnInvKeeps, DownInvKeeps DEF IInv

LEMMA IInvHolds == Spec => []IInv
<1> QED BY ServiceStarts, IInvKeeps, PTL DEF Spec

\* The type invariant, for any migrations, tasks, workers and stops.
THEOREM SpecTypeOK == Spec => []TypeOK
<1>1. IInv => TypeOK
  BY DEF IInv, SchemaInv, OwnInv, TypeOK
<1> QED BY <1>1, IInvHolds, PTL

\* Whatever the files and however often the process is cut off in Migrate, past it the
\* schema is whole.
THEOREM SpecServesWholeSchema == Spec => []ServesWholeSchema
<1>1. IInv => ServesWholeSchema
  BY DEF IInv, SchemaInv, SchemaTyped, LedgerTrue, MigratedFirst, ServesWholeSchema,
     SchemaWhole
<1> QED BY <1>1, IInvHolds, PTL

\* A migration that was cut off after some of its statements is never got past again.
THEOREM SpecCutOffNeedsHands == Spec => CutOffNeedsHands
<1>1. IInv /\ [Next]_vars => [CutOff => CutOff']_vars
  BY SchemaKeeps DEF IInv
<1> QED BY <1>1, IInvHolds, PTL DEF Spec, CutOffNeedsHands

\* The reset at start-up and the requests never touch a task some worker is at, and no
\* two workers are at the same one, for any number of either.
THEOREM SpecRoundsOwnTheirTask == Spec => []RoundsOwnTheirTask
<1>1. IInv => RoundsOwnTheirTask
  BY DEF IInv, OwnInv
<1> QED BY <1>1, IInvHolds, PTL

LEMMA ClosingComesLast ==
  ASSUME IInv, [Next]_vars, db, ~db', started, stops' = stops
  PROVE  /\ (AllGone /\ cleanup # "working") \/ gaveUp
         /\ Answered \/ budget = "spent"
<1>1. CASE CloseDB
  BY <1>1 DEF CloseDB, WindUp, IInv, DownInv
<1>2. ~CloseDB => ~[Next]_vars
  <2> SUFFICES ASSUME ~CloseDB PROVE ~[Next]_vars
    OBVIOUS
  <2> USE DEF mainVars, downVars, Continue, WindUp
  <2>1. main \notin Early /\ shutdown # "done"
    BY DEF IInv, DownInv
  <2>2. ~MainStep
    BY <2>1 DEF MainStep, Start, Migrate, Migrated, Inspect, ResumeDeletions, ResetInFlight,
       ResetFails, RemoveOrphanFiles, BootPool, StartCleanup, BecomeReady, Run, Return, Exit,
       Early
  <2>3. ~(Listen \/ Cleanup \/ Drain \/ SpendBudget \/ Signal)
    BY DEF Listen, Cleanup, Drain, SpendBudget, Signal
  <2>4. ~Crash
    BY DEF Crash, IInv, ServiceTyped
  <2>5. ~WindUpStep
    BY DEF WindUpStep, CloseListener, RequestsOver, TasksOver, ForceStop, StopWait, CleanupWait
  <2>6. ~\E w \in Workers : Work(w)
    BY DEF Work
  <2>7. ~\E t \in Tasks : RequestStep(t)
    BY DEF RequestStep, OpenUpload, BreakUpload, CommitTask, NotifyAndAnswer
  <2>8. vars' # vars
    BY DEF vars
  <2> QED BY <2>2, <2>3, <2>4, <2>5, <2>6, <2>7, <2>8 DEF Next
<1> QED BY <1>1, <1>2

\* Unless it crashes or gives a bounded wait up, the process closes the database after its
\* last worker and pass of the clean-up, for any number of workers, tasks and starts.
THEOREM SpecDatabaseClosedLast == Spec => DatabaseClosedLast
<1>1. IInv /\ [Next]_vars =>
        [ db /\ ~db' /\ started /\ stops' = stops =>
            /\ (AllGone /\ cleanup # "working") \/ gaveUp
            /\ Answered \/ budget = "spent" ]_vars
  BY ClosingComesLast
<1> QED BY <1>1, IInvHolds, PTL DEF Spec, DatabaseClosedLast
=============================================================================
