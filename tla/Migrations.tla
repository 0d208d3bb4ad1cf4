----------------------------- MODULE Migrations -----------------------------
(***************************************************************************)
(* Starting the server: lifespan runs the migrations that schema_migrations *)
(* does not list and, in development, seeds the tenants, before the process *)
(* serves anything.  Several processes may start at the same time on one    *)
(* database, and any of them may die and be started again.                  *)
(*                                                                          *)
(* A migration creates tables under fixed names, so of two transactions     *)
(* that run the same one the second waits at its CREATE TABLE, and fails    *)
(* if the first commits.                                                    *)
(***************************************************************************)
EXTENDS Integers

CONSTANTS
    Procs,         \* the server processes
    N,             \* the number of migration files; file f is the f-th by name
    DEV_TENANTS,   \* the slugs ensure_dev_tenants inserts
    Development,   \* app_env = "development"
    MaxExits       \* bound: processes killed, failed or shut down

ASSUME MigrationsAssumption == N \in Nat /\ Development \in BOOLEAN /\ MaxExits \in Nat

Files == 1..N

VARIABLES
    ledger,     \* whether schema_migrations exists
    versions,   \* its rows
    tables,     \* the files whose tables exist
    tenants,    \* the slugs in tenants
    step,       \* where each process is
    applied,    \* the versions each process read
    at,         \* the file its loop is at
    running,    \* the file its open transaction has run, or 0
    exits

database == <<ledger, versions, tables, tenants>>
process == <<step, applied, at, running>>
vars == <<database, process, exits>>

Steps == {"down", "ledger", "creating", "read", "files", "record", "seed", "serving"}

\* The database an earlier release left, or a new one.
Init ==
    /\ \E n \in 0..N : versions = 1..n /\ tables = 1..n
    /\ ledger \in {versions # {}, TRUE}
    /\ tenants \in {{}, IF 1 \in tables THEN DEV_TENANTS ELSE {}}
    /\ step = [p \in Procs |-> "down"]
    /\ applied = [p \in Procs |-> {}]
    /\ at = [p \in Procs |-> 1]
    /\ running = [p \in Procs |-> 0]
    /\ exits = 0

-----------------------------------------------------------------------------
Goto(p, s) == step' = [step EXCEPT ![p] = s]

Start(p) ==
    /\ step[p] = "down" /\ Goto(p, "ledger")
    /\ UNCHANGED <<database, applied, at, running, exits>>

\* CREATE TABLE IF NOT EXISTS looks first, and creates afterwards: of two that
\* found nothing the second to create fails.
LookForLedger(p) ==
    /\ step[p] = "ledger"
    /\ Goto(p, IF ledger THEN "read" ELSE "creating")
    /\ UNCHANGED <<database, applied, at, running, exits>>

\* An error leaves lifespan, which ends the process; the server rolls its
\* transaction back.  (Each definition named X_Something is X with a plausible
\* bug: the properties are tried against it.)
Exit_LeavesOpen(p) ==
    /\ Goto(p, "down")
    /\ UNCHANGED <<database, applied, at, running>>
Exit(p) ==
    /\ Goto(p, "down")
    /\ running' = [running EXCEPT ![p] = 0]
    /\ UNCHANGED <<database, applied, at>>

CreateLedger(p) ==
    /\ step[p] = "creating"
    /\ \/ ledger /\ Exit(p)
       \/ /\ ~ledger /\ ledger' = TRUE
          /\ Goto(p, "read")
          /\ UNCHANGED <<versions, tables, tenants, applied, at, running>>
    /\ UNCHANGED exits

ReadApplied(p) ==
    /\ step[p] = "read"
    /\ applied' = [applied EXCEPT ![p] = versions]
    /\ at' = [at EXCEPT ![p] = 1]
    /\ Goto(p, "files")
    /\ UNCHANGED <<database, running, exits>>

Skip_Breaks(p) ==
    /\ step[p] = "files" /\ at[p] \in applied[p]
    /\ at' = [at EXCEPT ![p] = N + 1]
    /\ UNCHANGED <<database, step, applied, running, exits>>
Skip(p) ==
    /\ step[p] = "files" /\ at[p] \in applied[p]
    /\ at' = [at EXCEPT ![p] = @ + 1]
    /\ UNCHANGED <<database, step, applied, running, exits>>

\* The transaction of a file: its SQL, ...
RunSql_Autocommitted(p) ==
    /\ step[p] = "files" /\ at[p] \in Files \ applied[p]
    /\ \A q \in Procs : running[q] # at[p]
    /\ \/ at[p] \in tables /\ Exit(p)
       \/ /\ at[p] \notin tables
          /\ running' = [running EXCEPT ![p] = at[p]]
          /\ tables' = tables \cup {at[p]}
          /\ Goto(p, "record")
          /\ UNCHANGED <<ledger, versions, tenants, applied, at>>
    /\ UNCHANGED exits
RunSql(p) ==
    /\ step[p] = "files" /\ at[p] \in Files \ applied[p]
    /\ \A q \in Procs : running[q] # at[p]
    /\ \/ at[p] \in tables /\ Exit(p)
       \/ /\ at[p] \notin tables
          /\ running' = [running EXCEPT ![p] = at[p]]
          /\ Goto(p, "record")
          /\ UNCHANGED <<database, applied, at>>
    /\ UNCHANGED exits

\* ... its row, and the commit of both.
Record_Lost(p) ==
    /\ step[p] = "record"
    /\ tables' = tables \cup {running[p]}
    /\ running' = [running EXCEPT ![p] = 0]
    /\ at' = [at EXCEPT ![p] = @ + 1]
    /\ Goto(p, "files")
    /\ UNCHANGED <<ledger, versions, tenants, applied, exits>>
Record(p) ==
    /\ step[p] = "record"
    /\ versions' = versions \cup {running[p]}
    /\ tables' = tables \cup {running[p]}
    /\ running' = [running EXCEPT ![p] = 0]
    /\ at' = [at EXCEPT ![p] = @ + 1]
    /\ Goto(p, "files")
    /\ UNCHANGED <<ledger, tenants, applied, exits>>

Migrated(p) ==
    /\ step[p] = "files" /\ at[p] = N + 1
    /\ Goto(p, IF Development THEN "seed" ELSE "serving")
    /\ UNCHANGED <<database, applied, at, running, exits>>

\* ON CONFLICT DO NOTHING, one statement for each tenant.
Seed(p) ==
    /\ step[p] = "seed"
    /\ \/ \E slug \in DEV_TENANTS \ tenants :
            tenants' = tenants \cup {slug} /\ UNCHANGED step
       \/ DEV_TENANTS \subseteq tenants /\ Goto(p, "serving") /\ UNCHANGED tenants
    /\ UNCHANGED <<ledger, versions, tables, applied, at, running, exits>>

\* A kill, a lost database connection, or a shutdown.
Die(p) ==
    /\ step[p] # "down" /\ exits < MaxExits
    /\ Exit(p)
    /\ exits' = exits + 1

Proceed(p) ==
    \/ Start(p) \/ LookForLedger(p) \/ CreateLedger(p) \/ ReadApplied(p)
    \/ Skip(p) \/ RunSql(p) \/ Record(p) \/ Migrated(p) \/ Seed(p)

Next == \E p \in Procs : Proceed(p) \/ Die(p)

Spec == Init /\ [][Next]_vars

\* The server is started again when it has ended, and PostgreSQL answers.
FairSpec == Spec /\ \A p \in Procs : WF_vars(Proceed(p))
-----------------------------------------------------------------------------
\* Every variable has its type, and a process has a transaction open exactly
\* between the SQL of a file and its commit (migrate.py:37).
TypeOK ==
    /\ ledger \in BOOLEAN
    /\ versions \subseteq Files /\ tables \subseteq Files
    /\ tenants \subseteq DEV_TENANTS
    /\ step \in [Procs -> Steps]
    /\ applied \in [Procs -> SUBSET Files]
    /\ at \in [Procs -> 1..(N + 1)]
    /\ running \in [Procs -> 0..N]
    /\ exits \in 0..MaxExits
    /\ \A p \in Procs : running[p] # 0 <=> step[p] = "record"

\* The ledger lists exactly the files whose tables exist, and those are the
\* first ones without a gap, wherever processes die or meet (migrate.py:33-41).
RecordedIffApplied ==
    /\ versions = tables
    /\ \A f \in tables : \A g \in Files : g < f => g \in tables

\* A process that serves requests has every table and, in development, every
\* tenant, whoever created them (main.py:40-42).
ServingIsComplete ==
    \A p \in Procs : step[p] = "serving" =>
        tables = Files /\ (Development => DEV_TENANTS \subseteq tenants)

\* In the loop over the files a process fails of its own only if another has
\* migrated since it read the ledger: never on a database that nobody else changes, whatever state an
\* earlier death left (migrate.py:31-38).
FailsOnlyWhenRaced ==
    [][\A p \in Procs :
         step[p] = "files" /\ step'[p] = "down" /\ exits' = exits =>
            applied[p] # versions]_vars

\* Once the deaths are over every process comes up and stays up: no failure is
\* repeated for ever, and no process waits for another for ever.
StartupSettles == \A p \in Procs : <>[](step[p] = "serving")
=============================================================================
