-------------------------- MODULE MigrationsProofs --------------------------
(***************************************************************************)
(* Theorems about Migrations, for any processes and any number of files.   *)
(***************************************************************************)
EXTENDS Migrations, TLAPS

\* What a process relies on, by where it is: its loop has passed only files
\* that are applied, and the file its transaction has run is not yet.
Place(p) ==
    /\ applied[p] \subseteq versions
    /\ step[p] \in {"files", "record"} => \A f \in Files : f < at[p] => f \in tables
    /\ step[p] = "record" => running[p] = at[p] /\ at[p] \in Files \ tables
    /\ step[p] \in {"seed", "serving"} => tables = Files
    /\ step[p] = "serving" /\ Development => DEV_TENANTS \subseteq tenants

\* Of two transactions that run one file the second waits.
OneRunner == \A p, q \in Procs : running[p] # 0 /\ running[p] = running[q] => p = q

IInv == TypeOK /\ RecordedIffApplied /\ OneRunner /\ \A p \in Procs : Place(p)

LEMMA InitIInv == Init => IInv
  <1> SUFFICES ASSUME Init PROVE IInv
    OBVIOUS
  <1> USE MigrationsAssumption DEF Init
  <1>1. PICK n \in 0..N : versions = 1..n /\ tables = 1..n
    OBVIOUS
  <1>2. TypeOK
    <2>1. tenants \subseteq DEV_TENANTS /\ ledger \in BOOLEAN
      OBVIOUS
    <2>2. versions \subseteq Files /\ tables \subseteq Files
      BY <1>1 DEF Files
    <2>3. at \in [Procs -> 1..(N + 1)] /\ running \in [Procs -> 0..N] /\ exits \in 0..MaxExits
      OBVIOUS
    <2> QED
      BY <2>1, <2>2, <2>3 DEF TypeOK, Files, Steps
  <1>3. RecordedIffApplied
    BY <1>1 DEF RecordedIffApplied, Files
  <1>4. OneRunner /\ \A p \in Procs : Place(p)
    BY DEF OneRunner, Place
  <1> QED
    BY <1>2, <1>3, <1>4 DEF IInv

\* A step of a process keeps the state well typed.
LEMMA StepTypeOK ==
    ASSUME IInv, NEW p \in Procs, Proceed(p) \/ Die(p)
    PROVE  TypeOK'
  <1> USE MigrationsAssumption DEF IInv, TypeOK, Place, Goto, Files, Steps, database
  <1>1. CASE Start(p)
    BY <1>1 DEF Start
  <1>2. CASE LookForLedger(p)
    BY <1>2 DEF LookForLedger
  <1>3. CASE CreateLedger(p)
    BY <1>3 DEF CreateLedger, Exit
  <1>4. CASE ReadApplied(p)
    BY <1>4 DEF ReadApplied
  <1>5. CASE Skip(p)
    BY <1>5 DEF Skip
  <1>6. CASE RunSql(p)
    <2>1. CASE at[p] \in tables
      BY <1>6, <2>1 DEF RunSql, Exit
    <2>2. CASE at[p] \notin tables
      <3>1. /\ running' = [running EXCEPT ![p] = at[p]]
            /\ step' = [step EXCEPT ![p] = "record"]
            /\ at[p] \in 1..N
        BY <1>6, <2>2 DEF RunSql
      <3>2. /\ running' \in [Procs -> 0..N]
            /\ step' \in [Procs -> Steps]
        BY <3>1
      <3>3. \A q \in Procs : running'[q] # 0 <=> step'[q] = "record"
        BY <3>1
      <3> QED
        BY <1>6, <2>2, <3>2, <3>3 DEF RunSql
    <2> QED
      BY <2>1, <2>2
  <1>7. CASE Record(p)
    <2>1. /\ running[p] = at[p] /\ at[p] \in 1..N
          /\ running' = [running EXCEPT ![p] = 0]
          /\ step' = [step EXCEPT ![p] = "files"]
          /\ at' = [at EXCEPT ![p] = @ + 1]
      BY <1>7 DEF Record
    <2>2. /\ running' \in [Procs -> 0..N] /\ at' \in [Procs -> 1..(N + 1)]
          /\ step' \in [Procs -> Steps]
      BY <2>1
    <2>3. \A q \in Procs : running'[q] # 0 <=> step'[q] = "record"
      BY <2>1
    <2>4. versions' \subseteq Files /\ tables' \subseteq Files
      <3>1. versions' = versions \cup {at[p]} /\ tables' = tables \cup {at[p]}
        BY <1>7, <2>1 DEF Record
      <3>2. versions \subseteq Files /\ tables \subseteq Files /\ at[p] \in Files
        BY <2>1
      <3> QED
        BY <3>1, <3>2
    <2>5. UNCHANGED <<ledger, tenants, applied, exits>>
      BY <1>7 DEF Record
    <2> QED
      BY <2>2, <2>3, <2>4, <2>5
  <1>8. CASE Migrated(p)
    BY <1>8 DEF Migrated
  <1>9. CASE Seed(p)
    BY <1>9 DEF Seed
  <1>10. CASE Die(p)
    BY <1>10 DEF Die, Exit
  <1> QED
    BY <1>1, <1>2, <1>3, <1>4, <1>5, <1>6, <1>7, <1>8, <1>9, <1>10 DEF Proceed

\* Only the commit of a file adds a table, and adds the next one.
LEMMA StepRecorded ==
    ASSUME IInv, NEW p \in Procs, Proceed(p) \/ Die(p)
    PROVE  RecordedIffApplied'
  <1> USE MigrationsAssumption DEF IInv, TypeOK, Place, RecordedIffApplied, Goto, Files, database
  <1>1. CASE Start(p)
    BY <1>1 DEF Start
  <1>2. CASE LookForLedger(p)
    BY <1>2 DEF LookForLedger
  <1>3. CASE CreateLedger(p)
    BY <1>3 DEF CreateLedger, Exit
  <1>4. CASE ReadApplied(p)
    BY <1>4 DEF ReadApplied
  <1>5. CASE Skip(p)
    BY <1>5 DEF Skip
  <1>6. CASE RunSql(p)
    BY <1>6 DEF RunSql, Exit
  <1>7. CASE Record(p)
    BY <1>7 DEF Record
  <1>8. CASE Migrated(p)
    BY <1>8 DEF Migrated
  <1>9. CASE Seed(p)
    BY <1>9 DEF Seed
  <1>10. CASE Die(p)
    BY <1>10 DEF Die, Exit
  <1> QED
    BY <1>1, <1>2, <1>3, <1>4, <1>5, <1>6, <1>7, <1>8, <1>9, <1>10 DEF Proceed

LEMMA StepOneRunner ==
    ASSUME IInv, NEW p \in Procs, Proceed(p) \/ Die(p)
    PROVE  OneRunner'
  <1> USE MigrationsAssumption DEF IInv, TypeOK, OneRunner, Goto, Files, database
  <1>1. CASE Start(p)
    BY <1>1 DEF Start
  <1>2. CASE LookForLedger(p)
    BY <1>2 DEF LookForLedger
  <1>3. CASE CreateLedger(p)
    BY <1>3 DEF CreateLedger, Exit
  <1>4. CASE ReadApplied(p)
    BY <1>4 DEF ReadApplied
  <1>5. CASE Skip(p)
    BY <1>5 DEF Skip
  <1>6. CASE RunSql(p)
    BY <1>6 DEF RunSql, Exit
  <1>7. CASE Record(p)
    BY <1>7 DEF Record
  <1>8. CASE Migrated(p)
    BY <1>8 DEF Migrated
  <1>9. CASE Seed(p)
    BY <1>9 DEF Seed
  <1>10. CASE Die(p)
    BY <1>10 DEF Die, Exit
  <1> QED
    BY <1>1, <1>2, <1>3, <1>4, <1>5, <1>6, <1>7, <1>8, <1>9, <1>10 DEF Proceed

\* The process that moves.
LEMMA StepPlace ==
    ASSUME IInv, NEW p \in Procs, Proceed(p) \/ Die(p)
    PROVE  Place(p)'
  <1> USE MigrationsAssumption DEF IInv, TypeOK, Place, RecordedIffApplied, Goto, Files, Steps, database
  <1>1. CASE Start(p)
    BY <1>1 DEF Start
  <1>2. CASE LookForLedger(p)
    BY <1>2 DEF LookForLedger
  <1>3. CASE CreateLedger(p)
    BY <1>3 DEF CreateLedger, Exit
  <1>4. CASE ReadApplied(p)
    BY <1>4 DEF ReadApplied
  <1>5. CASE Skip(p)
    BY <1>5 DEF Skip
  <1>6. CASE RunSql(p)
    <2>1. CASE at[p] \in tables
      BY <1>6, <2>1 DEF RunSql, Exit
    <2>2. CASE at[p] \notin tables
      <3>1. /\ running'[p] = at[p] /\ step'[p] = "record"
            /\ UNCHANGED <<database, applied, at>>
        BY <1>6, <2>2 DEF RunSql
      <3> QED
        BY <1>6, <2>2, <3>1 DEF RunSql
    <2> QED
      BY <2>1, <2>2
  <1>7. CASE Record(p)
    <2>1. /\ running[p] = at[p] /\ at[p] \in Files
          /\ step'[p] = "files" /\ at'[p] = at[p] + 1
          /\ versions' = versions \cup {at[p]} /\ tables' = tables \cup {at[p]}
          /\ applied' = applied
      BY <1>7 DEF Record
    <2>2. \A f \in Files : f < at'[p] => f \in tables'
      BY <1>7, <2>1 DEF Record
    <2>3. applied'[p] \subseteq versions'
      BY <2>1
    <2> QED
      BY <2>1, <2>2, <2>3
  <1>8. CASE Migrated(p)
    <2>1. tables = Files
      <3>1. step[p] = "files" /\ at[p] = N + 1
        BY <1>8 DEF Migrated
      <3>2. \A f \in Files : f < N + 1
        BY DEF Files
      <3> QED
        BY <3>1, <3>2
    <2>2. /\ step'[p] \in {"seed", "serving"}
          /\ step'[p] = "serving" => ~Development
          /\ UNCHANGED <<database, applied>>
      BY <1>8 DEF Migrated
    <2> QED
      BY <2>1, <2>2
  <1>9. CASE Seed(p)
    BY <1>9 DEF Seed
  <1>10. CASE Die(p)
    BY <1>10 DEF Die, Exit
  <1> QED
    BY <1>1, <1>2, <1>3, <1>4, <1>5, <1>6, <1>7, <1>8, <1>9, <1>10 DEF Proceed

\* Those that do not: tables and tenants only grow, and what another process
\* has run is not what p commits.
LEMMA OthersPlace ==
    ASSUME IInv, NEW p \in Procs, Proceed(p) \/ Die(p), NEW q \in Procs, q # p
    PROVE  Place(q)'
  <1> USE MigrationsAssumption DEF IInv, TypeOK, Place, OneRunner, RecordedIffApplied, Goto, Files, Steps, database
  <1>1. CASE Start(p)
    BY <1>1 DEF Start
  <1>2. CASE LookForLedger(p)
    BY <1>2 DEF LookForLedger
  <1>3. CASE CreateLedger(p)
    BY <1>3 DEF CreateLedger, Exit
  <1>4. CASE ReadApplied(p)
    BY <1>4 DEF ReadApplied
  <1>5. CASE Skip(p)
    BY <1>5 DEF Skip
  <1>6. CASE RunSql(p)
    BY <1>6 DEF RunSql, Exit
  <1>7. CASE Record(p)
    BY <1>7 DEF Record
  <1>8. CASE Migrated(p)
    BY <1>8 DEF Migrated
  <1>9. CASE Seed(p)
    BY <1>9 DEF Seed
  <1>10. CASE Die(p)
    BY <1>10 DEF Die, Exit
  <1> QED
    BY <1>1, <1>2, <1>3, <1>4, <1>5, <1>6, <1>7, <1>8, <1>9, <1>10 DEF Proceed

LEMMA NextIInv == IInv /\ [Next]_vars => IInv'
  <1> SUFFICES ASSUME IInv, [Next]_vars PROVE IInv'
    OBVIOUS
  <1>1. CASE Next
    <2>1. PICK p \in Procs : Proceed(p) \/ Die(p)
      BY <1>1 DEF Next
    <2>2. \A q \in Procs : Place(q)'
      BY <2>1, StepPlace, OthersPlace
    <2> QED
      BY <2>1, <2>2, StepTypeOK, StepRecorded, StepOneRunner DEF IInv
  <1>2. CASE UNCHANGED vars
    BY <1>2 DEF vars, database, process, IInv, TypeOK, RecordedIffApplied, OneRunner, Place,
       Files, Steps
  <1> QED
    BY <1>1, <1>2

\* The inductive invariant, of which the properties are consequences.
THEOREM Invariance == Spec => []IInv
  BY InitIInv, NextIInv, PTL DEF Spec

\* Every variable has its type, for any number of processes and files.
THEOREM TypeCorrect == Spec => []TypeOK
  BY Invariance, PTL DEF IInv

\* However processes meet and die, schema_migrations lists exactly the files
\* whose tables exist, the first ones without a gap (migrate.py:33-41).
THEOREM LedgerIsTrue == Spec => []RecordedIffApplied
  BY Invariance, PTL DEF IInv

\* No process serves a request before every table is there (main.py:40-42).
THEOREM ServedWhenComplete == Spec => []ServingIsComplete
  <1>1. IInv => ServingIsComplete
    BY DEF IInv, Place, ServingIsComplete
  <1> QED
    BY <1>1, Invariance, PTL

\* In the loop over the files a process fails of its own only if another has
\* migrated since it read the ledger (migrate.py:31-38).
THEOREM FailureIsRaced == Spec => FailsOnlyWhenRaced
  <1>1. ASSUME IInv, [Next]_vars
        PROVE  [\A p \in Procs :
                  step[p] = "files" /\ step'[p] = "down" /\ exits' = exits =>
                     applied[p] # versions]_vars
    <2> SUFFICES ASSUME Next, NEW p \in Procs,
                        step[p] = "files", step'[p] = "down", exits' = exits
                 PROVE  applied[p] # versions
      BY <1>1
    <2>1. PICK q \in Procs : Proceed(q) \/ Die(q)
      BY DEF Next
    <2>2. ~Die(q)
      BY <1>1 DEF Die, IInv, TypeOK
    <2>3. q = p /\ RunSql(p)
      BY <1>1, <2>1, <2>2 DEF Proceed, IInv, TypeOK, Start, LookForLedger, CreateLedger, Exit,
         ReadApplied, Skip, RunSql, Record, Migrated, Seed, Goto
    <2>4. at[p] \in tables \ applied[p]
      BY <1>1, <2>3 DEF RunSql, IInv, TypeOK, Goto
    <2> QED
      BY <1>1, <2>4 DEF IInv, RecordedIffApplied
  <1> QED
    BY <1>1, Invariance, PTL DEF Spec, FailsOnlyWhenRaced
=============================================================================
