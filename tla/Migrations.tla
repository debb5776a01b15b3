---------------------------- MODULE Migrations ----------------------------
(***************************************************************************)
(* The start of the processes.  The indexer, the API and inspect-schema    *)
(* run the same migrations against one database before they begin their    *)
(* work, without a lock: each looks a file up in schema_migrations and, if *)
(* it is not there, runs it and records it in one transaction.  The        *)
(* record's primary key makes the second of two such transactions fail.  A *)
(* failure is a warning to the API and fatal to the others.                *)
(***************************************************************************)
EXTENDS Naturals

CONSTANTS Services,    \* the processes that migrate
          FileCount,   \* migration files, in the order of their names
          MaxStops     \* bound of the instance

ASSUME MigrationAssumption == {FileCount, MaxStops} \subseteq Nat

VARIABLES applied,     \* schema_migrations
          executed,    \* history: how often a file's statements were committed
          service,     \* what each process is doing
          stops        \* failed migrations and crashes so far

migrationVars == <<applied, executed, service, stops>>

Files == 1 .. FileCount
Down == [pc |-> "down", file |-> 1]

MigrationInit ==
    /\ applied = {}
    /\ executed = [f \in Files |-> 0]
    /\ service = [p \in Services |-> Down]
    /\ stops = 0

Becomes(p, pc, f) == service' = [service EXCEPT ![p] = [pc |-> pc, file |-> f]]

StartService(p) ==
    /\ service[p].pc = "down"
    /\ Becomes(p, "check", 1)
    /\ UNCHANGED <<applied, executed, stops>>

Stop == stops < MaxStops /\ stops' = stops + 1

\* SELECT EXISTS: a file that is recorded is passed over.
CheckVersion(p) ==
    LET f == service[p].file
    IN  /\ service[p].pc = "check"
        /\ Becomes(p, IF f > FileCount THEN "up" ELSE IF f \in applied THEN "check" ELSE "apply",
                      IF f \in applied THEN f + 1 ELSE f)
        /\ UNCHANGED <<applied, executed, stops>>

\* An indexer that goes on as the API does.
WarnOnly(p) == "up"

\* What an error of RunMigrations makes of the process.
AfterMigrationError(p) == IF p = "api" THEN "up" ELSE "down"

\* A version table without primary key.
NoConflict(f) == FALSE

\* The other process has recorded the file since.
VersionConflict(f) == f \in applied

\* The file and its record, in one transaction; the reply of COMMIT may be lost.
ApplyFile(p) ==
    LET f == service[p].file
    IN  /\ service[p].pc = "apply"
        /\ ~ VersionConflict(f)
        /\ applied' = applied \cup {f}
        /\ executed' = [executed EXCEPT ![f] = @ + 1]
        /\ \/ Becomes(p, "check", f + 1) /\ UNCHANGED stops
           \/ Becomes(p, AfterMigrationError(p), 1) /\ Stop

\* The transaction is rolled back, because of the record or of another error.
MigrationFails(p) ==
    /\ \/ service[p].pc = "apply" /\ VersionConflict(service[p].file) /\ UNCHANGED stops
       \/ service[p].pc \in {"check", "apply"} /\ Stop
    /\ Becomes(p, AfterMigrationError(p), 1)
    /\ UNCHANGED <<applied, executed>>

\* The process dies; the platform starts it again.
Crash(p) ==
    /\ service[p].pc # "down"
    /\ Becomes(p, "down", 1)
    /\ Stop
    /\ UNCHANGED <<applied, executed>>

Migrate(p) == StartService(p) \/ CheckVersion(p) \/ ApplyFile(p) \/ MigrationFails(p)

Up(p) == service[p].pc = "up"

===========================================================================
