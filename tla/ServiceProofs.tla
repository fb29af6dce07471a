--------------------------- MODULE ServiceProofs ---------------------------
(***************************************************************************)
(* Migrations take effect once and in order, and the health files never    *)
(* flatter, for any containers, migrations, users and periods.             *)
(***************************************************************************)
EXTENDS WorkerService, FiniteSetTheorems, TLAPS

-----------------------------------------------------------------------------
(* Migrations.  A runner knows that what precedes its next migration has   *)
(* been applied; what is applied is always the beginning of the list.      *)
-----------------------------------------------------------------------------
Phases == {"stopped", "down", "schema", "check", "transaction", "up"}

RunnerOK(s) ==
  /\ service[s] \in [phase : Phases, next : 1..(Migrations + 1)]
  /\ service[s].phase \in {"down", "schema"} => service[s].next = 1
  /\ service[s].phase = "check" => 1..(service[s].next - 1) \subseteq applied
  /\ service[s].phase = "transaction" =>
       service[s].next \in MigrationIds /\ 1..(service[s].next - 1) \subseteq applied
  /\ service[s].phase = "up" => MigrationIds \subseteq applied

MigrationInv ==
  /\ DOMAIN service = Services
  /\ \A s \in Services : RunnerOK(s)
  /\ \E n \in 0..Migrations : applied = 1..n
  /\ ran \in [MigrationIds -> Nat]
  /\ \A m \in MigrationIds : ran[m] = IF m \in applied THEN 1 ELSE 0

\* The invariant gives the property: a beginning of the list of n migrations
\* has n members.
LEMMA InvMigratedOnce == MigrationInv => MigratedOnce
<1> SUFFICES ASSUME MigrationInv PROVE MigratedOnce
  OBVIOUS
<1>1. PICK n \in 0..Migrations : applied = 1..n
  BY DEF MigrationInv
<1>2. n \in Nat /\ n <= Migrations /\ Migrations \in Nat
  BY MigrationAssumption
<1>3. Cardinality(applied) = n
  BY <1>1, <1>2, FS_Interval
<1>4. applied \subseteq MigrationIds
  BY <1>1, <1>2 DEF MigrationIds
<1>5. \A s \in Services : Up(s) => applied = MigrationIds
  BY <1>4 DEF MigrationInv, RunnerOK, Up
<1> QED BY <1>1, <1>3, <1>5 DEF MigrationInv, MigratedOnce

LEMMA MigrationInvInit == Init => MigrationInv
<1> SUFFICES ASSUME Init PROVE MigrationInv
  OBVIOUS
<1>0. Migrations \in Nat
  BY MigrationAssumption
<1>1. PICK started \in Started :
        service = [s \in Services |-> IF s \in started THEN Down ELSE Stopped]
  BY DEF Init, MigrationsInit
<1>2. \A s \in Services : RunnerOK(s)
  BY <1>0, <1>1 DEF RunnerOK, Down, Stopped, Phases
<1>3. applied = 1..0 /\ 0 \in 0..Migrations
  BY <1>0 DEF Init, MigrationsInit
<1> QED BY <1>1, <1>2, <1>3 DEF Init, MigrationsInit, MigrationInv

-----------------------------------------------------------------------------
\* A step that only moves one runner keeps the invariant if the runner is well
\* placed afterwards.
LEMMA RunnerMoves ==
  ASSUME MigrationInv, UNCHANGED <<applied, ran>>, NEW s \in Services,
         NEW place, service' = [service EXCEPT ![s] = place],
         RunnerOK(s)'
  PROVE  MigrationInv'
<1>1. \A r \in Services : RunnerOK(r)'
  <2> TAKE r \in Services
  <2>1. CASE r = s
    BY <2>1
  <2>2. CASE r # s
    <3>1. service'[r] = service[r] /\ RunnerOK(r)
      BY <2>2 DEF MigrationInv
    <3> QED BY <3>1 DEF RunnerOK
  <2> QED BY <2>1, <2>2
<1>2. DOMAIN service' = Services
  BY DEF MigrationInv
<1> QED BY <1>1, <1>2 DEF MigrationInv

\* What is applied only grows: a runner that does not move stays well placed.
LEMMA AppliedGrows ==
  ASSUME NEW r, RunnerOK(r), service'[r] = service[r], applied \subseteq applied'
  PROVE  RunnerOK(r)'
BY DEF RunnerOK

LEMMA CommitKeeps ==
  ASSUME MigrationInv, NEW s \in Services, Commit(s)
  PROVE  MigrationInv'
<1> DEFINE m == service[s].next
<1>0. Migrations \in Nat
  BY MigrationAssumption
<1>1. RunnerOK(s) /\ service[s].phase = "transaction"
  BY DEF MigrationInv, Commit
<1>2. m \in MigrationIds /\ 1..(m - 1) \subseteq applied
  BY <1>1 DEF RunnerOK
<1>3. CASE m \in applied
  <2>1. service' = [service EXCEPT ![s] = Down] /\ UNCHANGED <<applied, ran>>
    BY <1>3 DEF Commit
  <2>2. service'[s] = Down
    BY <2>1 DEF MigrationInv
  <2>3. RunnerOK(s)'
    BY <1>0, <2>2 DEF RunnerOK, Down, Phases
  <2> QED BY <2>1, <2>3, RunnerMoves
<1>4. CASE m \notin applied
  <2>1. /\ applied' = applied \cup {m}
        /\ ran' = [ran EXCEPT ![m] = @ + 1]
        /\ service' = [service EXCEPT ![s] = [phase |-> "check", next |-> m + 1]]
    BY <1>4 DEF Commit
  <2>2. PICK n \in 0..Migrations : applied = 1..n
    BY DEF MigrationInv
  <2>3. m = n + 1
    BY <1>0, <1>2, <1>4, <2>2 DEF MigrationIds
  <2>4. applied' = 1..m /\ m \in 0..Migrations
    BY <1>0, <1>2, <2>1, <2>2, <2>3 DEF MigrationIds
  <2>5. \A r \in Services : RunnerOK(r)'
    <3> TAKE r \in Services
    <3>1. CASE r = s
      <4>1. service'[s] = [phase |-> "check", next |-> m + 1]
        BY <2>1 DEF MigrationInv
      <4>2. m + 1 \in 1..(Migrations + 1) /\ (m + 1) - 1 = m
        BY <1>0, <1>2 DEF MigrationIds
      <4> QED BY <3>1, <4>1, <4>2, <2>4 DEF RunnerOK, Phases
    <3>2. CASE r # s
      <4>1. RunnerOK(r) /\ service'[r] = service[r]
        BY <3>2, <2>1 DEF MigrationInv
      <4> QED BY <4>1, <2>1, AppliedGrows
    <3> QED BY <3>1, <3>2
  <2>6. ran' \in [MigrationIds -> Nat]
    <3>1. ran \in [MigrationIds -> Nat] /\ ran[m] + 1 \in Nat
      BY <1>2 DEF MigrationInv
    <3> QED BY <3>1, <2>1
  <2>7. \A k \in MigrationIds : ran'[k] = IF k \in applied' THEN 1 ELSE 0
    BY <1>2, <1>4, <2>1 DEF MigrationInv
  <2>8. DOMAIN service' = Services
    BY <2>1 DEF MigrationInv
  <2> QED BY <2>4, <2>5, <2>6, <2>7, <2>8 DEF MigrationInv
<1> QED BY <1>3, <1>4

LEMMA RunnerKeeps ==
  ASSUME MigrationInv, NEW s \in Services,
         Restart(s) \/ ApplySchema(s) \/ FindApplied(s) \/ FindMissing(s) \/ Serve(s) \/ Exit(s)
  PROVE  MigrationInv'
<1>0. Migrations \in Nat /\ RunnerOK(s) /\ s \in DOMAIN service
  BY MigrationAssumption DEF MigrationInv
<1>r. service[s] \in [phase : Phases, next : 1..(Migrations + 1)]
  BY <1>0 DEF RunnerOK
<1>1. CASE Restart(s)
  <2>1. service' = [service EXCEPT ![s] = [service[s] EXCEPT !.phase = "schema"]]
    BY <1>1, <1>0, <1>r DEF Restart, Phase
  <2>2. RunnerOK(s)'
    BY <1>1, <1>0, <1>r, <2>1 DEF Restart, RunnerOK, Phases
  <2> QED BY <1>1, <2>1, <2>2, RunnerMoves DEF Restart
<1>2. CASE ApplySchema(s)
  <2>1. service' = [service EXCEPT ![s] = [service[s] EXCEPT !.phase = "check"]]
    BY <1>2, <1>0, <1>r DEF ApplySchema, Phase
  <2>2. service[s].next = 1
    BY <1>2, <1>0 DEF ApplySchema, RunnerOK
  <2>3. RunnerOK(s)'
    BY <1>2, <1>0, <1>r, <2>1, <2>2 DEF ApplySchema, RunnerOK, Phases
  <2> QED BY <1>2, <2>1, <2>3, RunnerMoves DEF ApplySchema
<1>3. CASE FindApplied(s)
  <2> DEFINE n == service[s].next
  <2>1. service' = [service EXCEPT ![s] = [service[s] EXCEPT !.next = n + 1]]
    BY <1>3, <1>0, <1>r DEF FindApplied
  <2>2. PICK k \in 0..Migrations : applied = 1..k
    BY DEF MigrationInv
  <2>3. n \in applied /\ n + 1 \in 1..(Migrations + 1) /\ 1..((n + 1) - 1) \subseteq applied
    BY <1>3, <1>0, <1>r, <2>2 DEF FindApplied
  <2>4. RunnerOK(s)'
    BY <1>3, <1>0, <1>r, <2>1, <2>3 DEF FindApplied, RunnerOK, Phases
  <2> QED BY <1>3, <2>1, <2>4, RunnerMoves DEF FindApplied
<1>4. CASE FindMissing(s)
  <2>1. service' = [service EXCEPT ![s] = [service[s] EXCEPT !.phase = "transaction"]]
    BY <1>4, <1>0, <1>r DEF FindMissing, Phase
  <2>2. RunnerOK(s)'
    BY <1>4, <1>0, <1>r, <2>1 DEF FindMissing, RunnerOK, Phases
  <2> QED BY <1>4, <2>1, <2>2, RunnerMoves DEF FindMissing
<1>5. CASE Serve(s)
  <2>1. service' = [service EXCEPT ![s] = [service[s] EXCEPT !.phase = "up"]]
    BY <1>5, <1>0, <1>r DEF Serve, Phase
  <2>2. MigrationIds \subseteq applied
    BY <1>5, <1>0, <1>r DEF Serve, Migrated, RunnerOK, MigrationIds
  <2>3. RunnerOK(s)'
    BY <1>5, <1>0, <1>r, <2>1, <2>2 DEF Serve, RunnerOK, Phases, MigrationIds
  <2> QED BY <1>5, <2>1, <2>3, RunnerMoves DEF Serve
<1>6. CASE Exit(s)
  <2>1. RunnerOK(s)'
    BY <1>6, <1>0 DEF Exit, RunnerOK, Phases, Down
  <2> QED BY <1>6, <2>1, RunnerMoves DEF Exit
<1> QED BY <1>1, <1>2, <1>3, <1>4, <1>5, <1>6

LEMMA MigrationInvStep == MigrationInv /\ [Next]_vars => MigrationInv'
<1> SUFFICES ASSUME MigrationInv, [Next]_vars PROVE MigrationInv'
  OBVIOUS
<1>1. CASE UNCHANGED migrationVars
  BY <1>1 DEF MigrationInv, RunnerOK, migrationVars
<1>2. ASSUME NEW s \in Services, Migrate(s) PROVE MigrationInv'
  BY <1>2, RunnerKeeps, CommitKeeps DEF Migrate
<1>3. ASSUME NEW s \in Services, StartProgram(s) PROVE MigrationInv'
  BY <1>3, RunnerKeeps DEF StartProgram
<1>4. ASSUME NEW s \in Services, Crash(s) PROVE MigrationInv'
  BY <1>4, RunnerKeeps DEF Crash
<1>5. CASE WatchdogExpires
  <2>1. "rag" \in Services
    BY ServiceAssumption
  <2>2. RunnerOK("rag")'
    BY <1>5, <2>1, MigrationAssumption
    DEF WatchdogExpires, MigrationInv, RunnerOK, Phases, Down
  <2> QED BY <1>5, <2>1, <2>2, RunnerMoves DEF WatchdogExpires
<1>6. ASSUME NEW w \in Workers, Timer(w) PROVE UNCHANGED migrationVars
  BY <1>6 DEF Timer, Begin, Skip, vars
<1>7. ASSUME NEW w \in Workers, MarkProgress(w) PROVE UNCHANGED migrationVars
  BY <1>7 DEF MarkProgress
<1>8. ASSUME NEW u \in DOMAIN Users, RunScheduler(u) \/ PollMail(u) \/ TickFails(u)
      PROVE UNCHANGED migrationVars
  BY <1>8 DEF RunScheduler, PollMail, NextUser, TickFails, End
<1>9. CASE IndexingEnds
  BY <1>9, <1>1 DEF IndexingEnds, End
<1>10. CASE Pass
  BY <1>10, <1>1 DEF Pass
<1>11. CASE UNCHANGED vars
  BY <1>11, <1>1 DEF vars
<1> QED BY <1>1, <1>2, <1>3, <1>4, <1>5, <1>6, <1>7, <1>8, <1>9, <1>10, <1>11 DEF Next

(* Any number of containers may start at once, and exit and start again:   *)
(* every migration takes effect once, in order, before any of them serves. *)
THEOREM MigrationsTakeEffectOnce == Spec => []MigratedOnce
<1>1. Init => MigrationInv
  BY MigrationInvInit
<1>2. MigrationInv /\ [Next]_vars => MigrationInv'
  BY MigrationInvStep
<1>3. MigrationInv => MigratedOnce
  BY InvMigratedOnce
<1> QED BY <1>1, <1>2, <1>3, PTL DEF Spec

-----------------------------------------------------------------------------
(* Health.  A record is never younger than the last movement, and a        *)
(* failure that was written stays in the file until a tick ends well.      *)
-----------------------------------------------------------------------------
States == {"none", "starting", "running", "idle", "degraded", "error"}
Outcomes == {"none", "ok", "failed"}
Records == [state : States, outcome : Outcomes, age : Nat]

RecordOK(w) ==
  /\ health[w].age \in Nat /\ quiet[w] \in Nat /\ quiet[w] <= health[w].age
  /\ lastEnd[w] = "failed" /\ unwritten[w] = FALSE => health[w].outcome = "failed"

HealthInv ==
  /\ health \in [Workers -> Records]
  /\ quiet \in [Workers -> Nat]
  /\ lastEnd \in [Workers -> Outcomes]
  /\ unwritten \in [Workers -> BOOLEAN]
  /\ memory \in Outcomes
  /\ lastEnd["worker"] = "failed" => memory = "failed"
  /\ \A w \in Workers : RecordOK(w)

LEMMA InvHealthIsEarned == HealthInv => HealthIsEarned
<1> SUFFICES ASSUME HealthInv, NEW w \in Workers, Healthy(w)
             PROVE  quiet[w] < StaleAfter /\ (lastEnd[w] = "failed" => unwritten[w])
  BY DEF HealthIsEarned
<1>1. RecordOK(w) /\ unwritten[w] \in BOOLEAN /\ StaleAfter \in Nat
  BY ServiceAssumption DEF HealthInv
<1>2. health[w].age < StaleAfter /\ health[w].outcome # "failed"
  BY DEF Healthy, Fresh, OutcomeHealthy
<1>3. quiet[w] < StaleAfter
  BY <1>1, <1>2 DEF RecordOK
<1>4. lastEnd[w] = "failed" => unwritten[w] # FALSE
  BY <1>1, <1>2 DEF RecordOK
<1> QED BY <1>1, <1>3, <1>4

LEMMA HealthInvInit == Init => HealthInv
<1> SUFFICES ASSUME Init PROVE HealthInv
  OBVIOUS
<1>1. StaleAfter \in Nat
  BY ServiceAssumption
<1>2. NoFile \in Records /\ NoFile.age = StaleAfter
  BY <1>1 DEF NoFile, Records, States, Outcomes
<1>3. \A w \in Workers : /\ health[w] = NoFile /\ quiet[w] = StaleAfter
                         /\ lastEnd[w] = "none" /\ unwritten[w] = FALSE
  BY DEF Init
<1>4. \A w \in Workers : RecordOK(w)
  BY <1>1, <1>2, <1>3 DEF RecordOK
<1>5. lastEnd["worker"] = "none"
  BY <1>3 DEF Workers
<1>6. /\ health \in [Workers -> Records]
      /\ quiet \in [Workers -> Nat] /\ lastEnd \in [Workers -> Outcomes]
      /\ unwritten \in [Workers -> BOOLEAN] /\ memory \in Outcomes
  BY <1>1, <1>2 DEF Init, Outcomes
<1> QED BY <1>4, <1>5, <1>6 DEF HealthInv

-----------------------------------------------------------------------------
\* A record written while a tick is under way keeps the outcome.
LEMMA WriteKeeps ==
  ASSUME HealthInv, NEW w \in Workers, NEW state \in States,
         Write(w, state, Outcome(w)),
         quiet' = [quiet EXCEPT ![w] = 0], UNCHANGED <<memory, lastEnd>>
  PROVE  HealthInv'
<1>1. Outcome(w) \in Outcomes
  BY DEF Outcome, HealthInv, Records, Workers
<1>2. CASE /\ health' = [health EXCEPT ![w] = [state |-> state, outcome |-> Outcome(w), age |-> 0]]
           /\ unwritten' = [unwritten EXCEPT ![w] = w = "rag" /\ unwritten[w]]
  <2>1. /\ health' \in [Workers -> Records]
        /\ quiet' \in [Workers -> Nat]
        /\ unwritten' \in [Workers -> BOOLEAN]
    BY <1>1, <1>2 DEF HealthInv, Records
  <2>2. RecordOK(w)'
    <3>1. health'[w] = [state |-> state, outcome |-> Outcome(w), age |-> 0] /\ quiet'[w] = 0
      BY <1>2 DEF HealthInv
    <3>2. lastEnd'[w] = "failed" /\ unwritten'[w] = FALSE => Outcome(w) = "failed"
      <4>1. CASE w = "worker"
        BY <4>1 DEF HealthInv, Outcome
      <4>2. CASE w = "rag"
        <5>1. unwritten'[w] = unwritten[w]
          BY <1>2, <4>2 DEF HealthInv
        <5>2. Outcome(w) = health[w].outcome
          BY <4>2 DEF Outcome
        <5> QED BY <5>1, <5>2 DEF HealthInv, RecordOK
      <4> QED BY <4>1, <4>2 DEF Workers
    <3> QED BY <3>1, <3>2 DEF RecordOK
  <2>3. \A v \in Workers \ {w} : RecordOK(v)'
    BY <1>2 DEF HealthInv, RecordOK
  <2> QED BY <2>1, <2>2, <2>3 DEF HealthInv
<1>3. CASE UNCHANGED <<health, unwritten>>
  <2>1. \A v \in Workers : RecordOK(v)'
    <3> TAKE v \in Workers
    <3>1. RecordOK(v) /\ quiet'[v] \in {0, quiet[v]}
      BY DEF HealthInv
    <3> QED BY <1>3, <3>1 DEF RecordOK
  <2> QED BY <1>3, <2>1 DEF HealthInv
<1> QED BY <1>2, <1>3 DEF Write

LEMMA RunningKeeps ==
  ASSUME HealthInv, NEW w \in Workers, Write(w, "running", Outcome(w)),
         quiet' = [quiet EXCEPT ![w] = 0], UNCHANGED <<memory, lastEnd>>
  PROVE  HealthInv'
<1>1. "running" \in States
  BY DEF States
<1> QED BY <1>1, WriteKeeps

LEMMA EndKeeps ==
  ASSUME HealthInv, NEW w \in Workers, NEW state \in States, NEW outcome \in {"ok", "failed"},
         End(w, state, outcome)
  PROVE  HealthInv'
<1>1. /\ quiet' = [quiet EXCEPT ![w] = 0]
      /\ lastEnd' = [lastEnd EXCEPT ![w] = outcome]
      /\ memory' = IF w = "worker" THEN outcome ELSE memory
  BY DEF End, Moved
<1>2. /\ quiet' \in [Workers -> Nat] /\ lastEnd' \in [Workers -> Outcomes] /\ memory' \in Outcomes
      /\ lastEnd'["worker"] = "failed" => memory' = "failed"
  BY <1>1 DEF HealthInv, Workers, Outcomes
<1>3. CASE /\ health' = [health EXCEPT ![w] = [state |-> state, outcome |-> outcome, age |-> 0]]
           /\ unwritten' = [unwritten EXCEPT ![w] = FALSE]
  <2>1. /\ health' \in [Workers -> Records]
        /\ unwritten' \in [Workers -> BOOLEAN]
    BY <1>3 DEF HealthInv, Records, Outcomes
  <2>2. \A v \in Workers : RecordOK(v)'
    BY <1>1, <1>3 DEF HealthInv, RecordOK, Records
  <2> QED BY <1>2, <2>1, <2>2 DEF HealthInv
<1>4. CASE unwritten' = [unwritten EXCEPT ![w] = TRUE] /\ UNCHANGED health
  <2>1. unwritten' \in [Workers -> BOOLEAN]
    BY <1>4 DEF HealthInv
  <2>2. \A v \in Workers : RecordOK(v)'
    <3> TAKE v \in Workers
    <3>1. RecordOK(v) /\ quiet'[v] \in {0, quiet[v]}
      BY <1>1 DEF HealthInv
    <3>2. v = w => unwritten'[v] = TRUE
      BY <1>4 DEF HealthInv
    <3>3. v # w => unwritten'[v] = unwritten[v] /\ lastEnd'[v] = lastEnd[v]
      BY <1>1, <1>4 DEF HealthInv
    <3>4. health'[v].age \in Nat /\ quiet'[v] \in Nat /\ quiet'[v] <= health'[v].age
      BY <1>4, <3>1 DEF RecordOK
    <3>5. lastEnd'[v] = "failed" /\ unwritten'[v] = FALSE => health'[v].outcome = "failed"
      <4>1. CASE v = w
        BY <4>1, <3>2
      <4>2. CASE v # w
        BY <4>2, <1>4, <3>1, <3>3 DEF RecordOK
      <4> QED BY <4>1, <4>2
    <3> QED BY <3>4, <3>5 DEF RecordOK
  <2> QED BY <1>2, <1>4, <2>1, <2>2 DEF HealthInv
<1> QED BY <1>3, <1>4 DEF End, WriteEnd

\* The main worker's program starts without a memory; its file is not touched.
LEMMA StartKeeps ==
  ASSUME HealthInv, NEW s \in Services, StartProgram(s)
  PROVE  HealthInv'
<1>1. CASE s = "rag"
  <2>1. quiet' = [quiet EXCEPT !["rag"] = 0]
    BY <1>1 DEF StartProgram, HealthInv, Workers
  <2>2. memory' = memory /\ lastEnd' = lastEnd
    BY <1>1 DEF StartProgram, HealthInv, Workers
  <2>3. Write("rag", "starting", Outcome("rag"))
    BY <1>1 DEF StartProgram
  <2>4. "rag" \in Workers /\ "starting" \in States
    BY DEF Workers, States
  <2> QED BY <2>1, <2>2, <2>3, <2>4, WriteKeeps
<1>2. CASE s # "rag"
  <2>1. /\ UNCHANGED <<health, unwritten>>
        /\ quiet' = [w \in Workers |-> IF w = s THEN 0 ELSE quiet[w]]
        /\ lastEnd' = [w \in Workers |-> IF w = s /\ w = "worker" THEN "none" ELSE lastEnd[w]]
        /\ memory' = IF s = "worker" THEN "none" ELSE memory
    BY <1>2 DEF StartProgram
  <2>2. /\ quiet' \in [Workers -> Nat] /\ lastEnd' \in [Workers -> Outcomes] /\ memory' \in Outcomes
        /\ lastEnd'["worker"] = "failed" => memory' = "failed"
    BY <2>1 DEF HealthInv, Workers, Outcomes
  <2>3. \A v \in Workers : RecordOK(v)'
    <3> TAKE v \in Workers
    <3>1. RecordOK(v) /\ quiet'[v] \in {0, quiet[v]} /\ lastEnd'[v] \in {"none", lastEnd[v]}
      BY <2>1 DEF HealthInv
    <3> QED BY <2>1, <3>1 DEF RecordOK
  <2> QED BY <2>1, <2>2, <2>3 DEF HealthInv
<1> QED BY <1>1, <1>2

LEMMA PassKeeps ==
  ASSUME HealthInv, Pass
  PROVE  HealthInv'
<1>1. /\ health' = [w \in Workers |-> [health[w] EXCEPT !.age = Older(@, StaleAfter)]]
      /\ quiet' = [w \in Workers |-> Older(quiet[w], StaleAfter)]
      /\ UNCHANGED <<memory, lastEnd, unwritten>>
  BY DEF Pass
<1>2. StaleAfter \in Nat
  BY ServiceAssumption
<1>3. \A n \in Nat : Older(n, StaleAfter) \in Nat
  BY <1>2 DEF Older
<1>4. \A n, k \in Nat : n <= k => Older(n, StaleAfter) <= Older(k, StaleAfter)
  BY <1>2 DEF Older
<1>5. /\ health' \in [Workers -> Records]
      /\ quiet' \in [Workers -> Nat]
  BY <1>1, <1>3 DEF HealthInv, Records
<1>6. \A v \in Workers : RecordOK(v)'
  <2> TAKE v \in Workers
  <2>1. RecordOK(v)
    BY DEF HealthInv
  <2>2. /\ health'[v].age = Older(health[v].age, StaleAfter)
        /\ health'[v].outcome = health[v].outcome
        /\ quiet'[v] = Older(quiet[v], StaleAfter)
    <3>1. health[v] \in Records
      BY DEF HealthInv
    <3>2. health'[v] = [health[v] EXCEPT !.age = Older(health[v].age, StaleAfter)]
      BY <1>1
    <3>3. /\ health'[v].age = Older(health[v].age, StaleAfter)
          /\ health'[v].outcome = health[v].outcome
      BY <3>1, <3>2 DEF Records
    <3> QED BY <1>1, <3>3
  <2> QED BY <1>1, <1>3, <1>4, <2>1, <2>2 DEF RecordOK
<1> QED BY <1>1, <1>5, <1>6 DEF HealthInv

LEMMA HealthInvStep == HealthInv /\ [Next]_vars => HealthInv'
<1> SUFFICES ASSUME HealthInv, [Next]_vars PROVE HealthInv'
  OBVIOUS
<1>0. CASE UNCHANGED <<memory, health, quiet, lastEnd, unwritten>>
  BY <1>0 DEF HealthInv, RecordOK
<1>w. /\ "worker" \in Workers /\ "rag" \in Workers
      /\ {"idle", "degraded", "error"} \subseteq States
  BY DEF Workers, States
<1>1. ASSUME NEW s \in Services, Migrate(s) \/ Crash(s) PROVE HealthInv'
  BY <1>1, <1>0 DEF Migrate, Crash, Terminate, tickVars
<1>2. ASSUME NEW s \in Services, StartProgram(s) PROVE HealthInv'
  BY <1>2, StartKeeps
<1>3. ASSUME NEW w \in Workers, Timer(w) PROVE HealthInv'
  <2>1. CASE Begin(w)
    <3>1. Write(w, "running", Outcome(w))
      BY <2>1 DEF Begin
    <3>2. quiet' = [quiet EXCEPT ![w] = 0] /\ UNCHANGED <<memory, lastEnd>>
      BY <2>1 DEF Begin, Moved
    <3> QED BY <3>1, <3>2, RunningKeeps
  <2>2. CASE Skip(w)
    BY <2>2, <1>0 DEF Skip, vars, tickVars
  <2> QED BY <1>3, <2>1, <2>2 DEF Timer
<1>4. ASSUME NEW w \in Workers, MarkProgress(w) PROVE HealthInv'
  <2>1. Write(w, "running", Outcome(w))
    BY <1>4 DEF MarkProgress
  <2>2. quiet' = [quiet EXCEPT ![w] = 0] /\ UNCHANGED <<memory, lastEnd>>
    BY <1>4 DEF MarkProgress, Moved
  <2> QED BY <2>1, <2>2, RunningKeeps
<1>5. ASSUME NEW u \in DOMAIN Users, RunScheduler(u) PROVE HealthInv'
  BY <1>5, <1>0 DEF RunScheduler
<1>6. ASSUME NEW u \in DOMAIN Users, PollMail(u) PROVE HealthInv'
  <2>1. CASE UNCHANGED <<memory, health, quiet, lastEnd, unwritten>>
    BY <2>1, <1>0
  <2>2. CASE End("worker", "idle", "ok")
    BY <2>2, <1>w, EndKeeps
  <2> QED BY <1>6, <2>1, <2>2 DEF PollMail, NextUser
<1>7. ASSUME NEW u \in DOMAIN Users, TickFails(u) PROVE HealthInv'
  <2>1. End("worker", "error", "failed")
    BY <1>7 DEF TickFails
  <2> QED BY <2>1, <1>w, EndKeeps
<1>8. CASE IndexingEnds
  <2>1. CASE End("rag", "idle", "ok")
    BY <2>1, <1>w, EndKeeps
  <2>2. CASE End("rag", "degraded", "failed")
    BY <2>2, <1>w, EndKeeps
  <2>3. CASE End("rag", "error", "failed")
    BY <2>3, <1>w, EndKeeps
  <2> QED BY <1>8, <2>1, <2>2, <2>3 DEF IndexingEnds
<1>9. CASE WatchdogExpires
  BY <1>9, <1>0 DEF WatchdogExpires, Terminate
<1>10. CASE Pass
  BY <1>10, PassKeeps
<1>11. CASE UNCHANGED vars
  BY <1>11, <1>0 DEF vars, tickVars
<1> QED BY <1>1, <1>2, <1>3, <1>4, <1>5, <1>6, <1>7, <1>8, <1>9, <1>10, <1>11 DEF Next

(* Whatever fails, hangs or is killed, and for any periods, the probe calls *)
(* no worker healthy that has stood still for too long or whose failure is  *)
(* on record.                                                               *)
THEOREM HealthNeverFlatters == Spec => []HealthIsEarned
<1>1. Init => HealthInv
  BY HealthInvInit
<1>2. HealthInv /\ [Next]_vars => HealthInv'
  BY HealthInvStep
<1>3. HealthInv => HealthIsEarned
  BY InvHealthIsEarned
<1> QED BY <1>1, <1>2, <1>3, PTL DEF Spec
=============================================================================
