----------------------------- MODULE Migrations -----------------------------
(***************************************************************************)
(* The start of a service: every container runs the migration runner and   *)
(* then its program, and is started again when either exits.  The runners  *)
(* of several containers work on one database at the same time.            *)
(***************************************************************************)
EXTENDS Naturals, FiniteSets

CONSTANTS
  Services,    \* the containers that migrate before they serve
  Migrations,  \* number of migrations
  Started,     \* bound: which containers are started together
  MaxExits     \* bound: exits of a process for a reason of its own

ASSUME MigrationAssumption ==
  Migrations \in Nat /\ MaxExits \in Nat /\ Started \subseteq SUBSET Services

VARIABLES
  service,  \* where each container stands, and its runner's next migration
  applied,  \* schema_migrations
  ran,      \* history: how often the statements of each migration committed
  exits

migrationVars == <<service, applied, ran, exits>>

MigrationIds == 1..Migrations
Down == [phase |-> "down", next |-> 1]
Stopped == [phase |-> "stopped", next |-> 1]

MigrationsInit ==
  /\ \E started \in Started :
       service = [s \in Services |-> IF s \in started THEN Down ELSE Stopped]
  /\ applied = {}
  /\ ran = [m \in MigrationIds |-> 0]
  /\ exits = 0

Up(s) == service[s].phase = "up"
Phase(s, phase) == service' = [service EXCEPT ![s].phase = phase]

-----------------------------------------------------------------------------
\* restart: unless-stopped
Restart(s) ==
  /\ service[s].phase = "down" /\ Phase(s, "schema")
  /\ UNCHANGED <<applied, ran, exits>>

\* The initial schema creates only what does not exist.
ApplySchema(s) ==
  /\ service[s].phase = "schema" /\ Phase(s, "check")
  /\ UNCHANGED <<applied, ran, exits>>

FindApplied(s) ==
  /\ service[s].phase = "check" /\ service[s].next \in applied
  /\ service' = [service EXCEPT ![s].next = @ + 1]
  /\ UNCHANGED <<applied, ran, exits>>

\* SELECT ... FROM schema_migrations finds no row: a transaction begins.
FindMissing(s) ==
  /\ service[s].phase = "check" /\ service[s].next \in MigrationIds \ applied
  /\ Phase(s, "transaction")
  /\ UNCHANGED <<applied, ran, exits>>

\* The statements and the row commit together.  A row committed meanwhile by
\* another runner violates the primary key: rollback, and the runner exits.
Commit_Unrecorded(s) ==   \* Mutant: the row does not decide (ON CONFLICT DO NOTHING)
  /\ service[s].phase = "transaction"
  /\ LET m == service[s].next IN
       /\ applied' = applied \cup {m}
       /\ ran' = [ran EXCEPT ![m] = @ + 1]
       /\ service' = [service EXCEPT ![s] = [phase |-> "check", next |-> m + 1]]
  /\ UNCHANGED exits
Commit(s) ==
  /\ service[s].phase = "transaction"
  /\ LET m == service[s].next IN
       \/ /\ m \notin applied
          /\ applied' = applied \cup {m}
          /\ ran' = [ran EXCEPT ![m] = @ + 1]
          /\ service' = [service EXCEPT ![s] = [phase |-> "check", next |-> m + 1]]
       \/ /\ m \in applied
          /\ service' = [service EXCEPT ![s] = Down]
          /\ UNCHANGED <<applied, ran>>
  /\ UNCHANGED exits

Migrated(s) == service[s].phase = "check" /\ service[s].next > Migrations
Serve(s) ==
  /\ Migrated(s) /\ Phase(s, "up")
  /\ UNCHANGED <<applied, ran, exits>>

\* A statement fails, or the process is killed: an open transaction is undone.
Exit(s) ==
  /\ service[s].phase \notin {"down", "stopped"} /\ exits < MaxExits
  /\ exits' = exits + 1
  /\ service' = [service EXCEPT ![s] = Down]
  /\ UNCHANGED <<applied, ran>>

-----------------------------------------------------------------------------
(* However the runners interleave, each migration takes effect once, in    *)
(* the order of the list, and no service runs on a database that lacks one *)
(* (db/migrate.ts: test outside the transaction, row inside it).           *)
MigratedOnce ==
  /\ \A m \in MigrationIds : ran[m] = IF m \in applied THEN 1 ELSE 0
  /\ applied = 1..Cardinality(applied)
  /\ \A s \in Services : Up(s) => applied = MigrationIds
=============================================================================
