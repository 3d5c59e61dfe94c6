------------------------------- MODULE Schema -------------------------------
(***************************************************************************)
(* Migrate: numbered SQL files are applied statement by statement, and a   *)
(* file is entered in the ledger, schema_migrations, after its last one.   *)
(* MySQL commits each of these statements (DDL) by itself and atomically,  *)
(* and none of them can be executed twice: the second time its table,      *)
(* column or index exists.                                                 *)
(***************************************************************************)
EXTENDS Integers, Sequences

CONSTANT Statements   \* how many statements each file has, in the order of the files

ASSUME StatementsAssumption == Statements \in Seq(Nat \ {0})

VARIABLES
  applied,   \* how many statements of each file the database has seen
  ledger,    \* the files entered in schema_migrations
  migrate    \* a run of Migrate: how it stands, the files it counts as applied,
             \* and how many statements of the next file it has executed

schemaVars == <<applied, ledger, migrate>>

Files == DOMAIN Statements

NotMigrating == [step |-> "off", seen |-> {}, ran |-> 0]

SchemaInit ==
  /\ applied = [f \in Files |-> 0]
  /\ ledger = {}
  /\ migrate = NotMigrating

\* The next file in the order of their names.
Due(f) == f \notin migrate.seen /\ \A g \in Files \ migrate.seen : f <= g

MigrationFails == migrate' = [migrate EXCEPT !.step = "failed"]

\* CREATE TABLE IF NOT EXISTS schema_migrations, and what it holds.
ReadLedger ==
  /\ migrate.step = "off"
  /\ migrate' = [step |-> "run", seen |-> ledger, ran |-> 0] \/ MigrationFails
  /\ UNCHANGED <<applied, ledger>>

\* Mutant: statements that find their object there are no error.
RunStatementRepeatable(f) ==
  /\ migrate.step = "run" /\ Due(f) /\ migrate.ran < Statements[f]
  /\ applied' = [applied EXCEPT ![f] = IF @ = migrate.ran THEN @ + 1 ELSE @]
  /\ migrate' = [migrate EXCEPT !.ran = @ + 1]
  /\ UNCHANGED ledger

\* One statement: it takes effect, or is found to have done so in an earlier run; a
\* connection that breaks leaves either behind.
RunStatement(f) ==
  /\ migrate.step = "run" /\ Due(f) /\ migrate.ran < Statements[f]
  /\ \/ /\ applied[f] = migrate.ran
        /\ applied' = [applied EXCEPT ![f] = @ + 1]
        /\ migrate' = [migrate EXCEPT !.ran = @ + 1] \/ MigrationFails
     \/ MigrationFails /\ UNCHANGED applied
  /\ UNCHANGED ledger

\* Mutant: the file is entered in the ledger before its statements.
RecordMigrationFirst(f) ==
  /\ migrate.step = "run" /\ Due(f)
  /\ ledger' = ledger \cup {f}
  /\ \/ migrate.ran = Statements[f]
        /\ migrate' = [step |-> "run", seen |-> migrate.seen \cup {f}, ran |-> 0]
     \/ migrate.ran < Statements[f] /\ UNCHANGED migrate
  /\ UNCHANGED applied

RecordMigration(f) ==
  /\ migrate.step = "run" /\ Due(f) /\ migrate.ran = Statements[f]
  /\ \/ /\ ledger' = ledger \cup {f}
        /\ migrate' = [step |-> "run", seen |-> migrate.seen \cup {f}, ran |-> 0] \/ MigrationFails
     \/ MigrationFails /\ UNCHANGED ledger
  /\ UNCHANGED applied

MigrationDone ==
  /\ migrate.step = "run" /\ Files \subseteq migrate.seen
  /\ migrate' = [migrate EXCEPT !.step = "done"]
  /\ UNCHANGED <<applied, ledger>>

MigrationStep ==
  \/ ReadLedger \/ MigrationDone
  \/ \E f \in Files : RunStatement(f) \/ RecordMigration(f)

-----------------------------------------------------------------------------
SchemaTyped ==
  /\ applied \in [Files -> Nat]
  /\ \A f \in Files : applied[f] <= Statements[f]
  /\ ledger \subseteq Files
  /\ migrate \in [step : {"off", "run", "done", "failed"}, seen : SUBSET Files, ran : Nat]

\* All statements of every file have taken effect, and the ledger says so.
SchemaWhole == ledger = Files /\ \A f \in Files : applied[f] = Statements[f]

\* The database has seen more of a file than the ledger and the present run tell of.
CutOff ==
  \E f \in Files \ ledger :
    applied[f] > (IF migrate.step = "run" /\ Due(f) THEN migrate.ran ELSE 0)
=============================================================================
