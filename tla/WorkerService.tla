--------------------------- MODULE WorkerService ---------------------------
(***************************************************************************)
(* The two worker processes: ticks started by a timer and never            *)
(* overlapping, the round of the main worker over its users, the watchdog  *)
(* of the RAG worker, and the health file from which a probe judges them.  *)
(***************************************************************************)
EXTENDS Migrations, Sequences

CONSTANTS
  Users,       \* the users in the order of listUsersWithWork
  StaleAfter,  \* age at which a health record no longer counts
  Watchdog     \* age at which a tick of the RAG worker ends its process

ASSUME ServiceAssumption ==
  Users # <<>> /\ {"worker", "rag"} \subseteq Services
  /\ StaleAfter \in Nat \ {0} /\ Watchdog \in Nat /\ Watchdog > StaleAfter

VARIABLES
  running,   \* the overlap guard
  memory,    \* the main worker's latest outcome: tickSucceededAt, tickFailedAt
  work,      \* the user and the stage of the main worker's round
  elapsed,   \* age of the RAG worker's tick
  health,    \* the health files
  \* histories:
  quiet,     \* time since the worker started, or its tick began, moved or ended
  lastEnd,   \* how the latest ended tick ended
  unwritten  \* its end could not be written to the file

tickVars == <<running, memory, work, elapsed, health, quiet, lastEnd, unwritten>>
vars == <<migrationVars, tickVars>>

Workers == {"worker", "rag"}
NoWork == [user |-> 0, stage |-> "none"]
NoFile == [state |-> "none", outcome |-> "none", age |-> StaleAfter]

Init ==
  /\ MigrationsInit
  /\ running = [w \in Workers |-> FALSE]
  /\ memory = "none"
  /\ work = NoWork
  /\ elapsed = 0
  /\ health = [w \in Workers |-> NoFile]
  /\ quiet = [w \in Workers |-> StaleAfter]
  /\ lastEnd = [w \in Workers |-> "none"]
  /\ unwritten = [w \in Workers |-> FALSE]

-----------------------------------------------------------------------------
(* The health file.                                                        *)
-----------------------------------------------------------------------------
\* The main worker writes what it remembers, the RAG worker what the file
\* said before: only the end of a tick changes the outcome.
Outcome(w) == IF w = "worker" THEN memory ELSE health[w].outcome

\* Written to a temporary file and renamed; an error is only logged.
Write(w, state, outcome) ==
  \/ /\ health' = [health EXCEPT ![w] = [state |-> state, outcome |-> outcome, age |-> 0]]
     /\ unwritten' = [unwritten EXCEPT ![w] = w = "rag" /\ unwritten[w]]
  \/ UNCHANGED <<health, unwritten>>
WriteEnd(w, state, outcome) ==
  \/ /\ health' = [health EXCEPT ![w] = [state |-> state, outcome |-> outcome, age |-> 0]]
     /\ unwritten' = [unwritten EXCEPT ![w] = FALSE]
  \/ /\ unwritten' = [unwritten EXCEPT ![w] = TRUE]
     /\ UNCHANGED health

Fresh(w) == health[w].age < StaleAfter
OutcomeHealthy(w) ==
  health[w].state \in {"starting", "running", "idle"} /\ health[w].outcome # "failed"
Healthy(w) == Fresh(w) /\ OutcomeHealthy(w)

Moved(w) == quiet' = [quiet EXCEPT ![w] = 0]

-----------------------------------------------------------------------------
(* Ticks.                                                                  *)
-----------------------------------------------------------------------------
Begin(w) ==
  /\ ~running[w]
  /\ running' = [running EXCEPT ![w] = TRUE]
  /\ Write(w, "running", Outcome(w))
  /\ work' = IF w = "worker" THEN [user |-> 1, stage |-> "scheduler"] ELSE work
  /\ elapsed' = IF w = "rag" THEN 0 ELSE elapsed
  /\ Moved(w)
  /\ UNCHANGED <<migrationVars, memory, lastEnd>>
Skip_Refreshing(w) ==   \* Mutant: a skipped tick refreshes the file
  running[w] /\ Write(w, "running", Outcome(w))
  /\ UNCHANGED <<migrationVars, running, memory, work, elapsed, quiet, lastEnd>>
Skip(w) == running[w] /\ UNCHANGED vars
Timer(w) == Up(w) /\ (Begin(w) \/ Skip(w))

\* The finally block runs whatever the outcome.
End(w, state, outcome) ==
  /\ running' = [running EXCEPT ![w] = FALSE]
  /\ work' = IF w = "worker" THEN NoWork ELSE work
  /\ memory' = IF w = "worker" THEN outcome ELSE memory
  /\ WriteEnd(w, state, outcome)
  /\ lastEnd' = [lastEnd EXCEPT ![w] = outcome]
  /\ Moved(w)
  /\ UNCHANGED <<migrationVars, elapsed>>

\* A task or a message settled, or an index job passed a stage.
MarkProgress(w) ==
  /\ Up(w) /\ running[w]
  /\ Write(w, "running", Outcome(w))
  /\ Moved(w)
  /\ UNCHANGED <<migrationVars, running, memory, work, elapsed, lastEnd>>

-----------------------------------------------------------------------------
(* The round of the main worker.                                           *)
-----------------------------------------------------------------------------
Scheduled(u) == work = [user |-> u, stage |-> "scheduler"]
Polling(u) == work = [user |-> u, stage |-> "mail"]

RunScheduler(u) ==
  /\ Scheduled(u)
  /\ work' = [work EXCEPT !.stage = "mail"]
  /\ UNCHANGED <<migrationVars, running, memory, elapsed, health, quiet, lastEnd, unwritten>>

\* The poll of one mailbox; its error is caught and audited.
NextUser(u) ==
  \/ /\ u < Len(Users)
     /\ work' = [user |-> u + 1, stage |-> "scheduler"]
     /\ UNCHANGED <<migrationVars, running, memory, elapsed, health, quiet, lastEnd, unwritten>>
  \/ u = Len(Users) /\ End("worker", "idle", "ok")
PollMail_Throwing(u) ==   \* Mutant: a failing mailbox ends the round
  Polling(u) /\ (NextUser(u) \/ End("worker", "error", "failed"))
PollMail(u) == Polling(u) /\ NextUser(u)

\* The listing of users, a scheduler or the audit of a mail error throws.
TickFails(u) ==
  /\ Scheduled(u) \/ Polling(u)
  /\ End("worker", "error", "failed")

-----------------------------------------------------------------------------
(* The RAG worker.                                                         *)
-----------------------------------------------------------------------------
IndexingEnds ==
  /\ running["rag"]
  /\ \/ End("rag", "idle", "ok")
     \/ End("rag", "degraded", "failed")   \* Qdrant is not healthy
     \/ End("rag", "error", "failed")

\* The process ends with its tick; nothing is written.
Terminate(s) ==
  /\ running' = [w \in Workers |-> running[w] /\ w # s]
  /\ work' = IF s = "worker" THEN NoWork ELSE work
  /\ elapsed' = IF s = "rag" THEN 0 ELSE elapsed
  /\ UNCHANGED <<memory, health, quiet, lastEnd, unwritten>>

WatchdogExpires ==
  /\ running["rag"] /\ elapsed = Watchdog
  /\ service' = [service EXCEPT !["rag"] = Down]
  /\ Terminate("rag")
  /\ UNCHANGED <<applied, ran, exits>>

-----------------------------------------------------------------------------
\* The program starts: the main worker remembers no tick, the RAG worker
\* writes its first record.
StartProgram(s) ==
  /\ Serve(s)
  /\ memory' = IF s = "worker" THEN "none" ELSE memory
  /\ lastEnd' = [w \in Workers |-> IF w = s /\ w = "worker" THEN "none" ELSE lastEnd[w]]
  /\ IF s = "rag" THEN Write(s, "starting", Outcome(s)) ELSE UNCHANGED <<health, unwritten>>
  /\ quiet' = [w \in Workers |-> IF w = s THEN 0 ELSE quiet[w]]
  /\ UNCHANGED <<running, work, elapsed>>

Migrate(s) ==
  /\ Restart(s) \/ ApplySchema(s) \/ FindApplied(s) \/ FindMissing(s) \/ Commit(s)
  /\ UNCHANGED tickVars

Crash(s) == Exit(s) /\ Terminate(s)

Older(n, bound) == IF n < bound THEN n + 1 ELSE n
Pass ==
  /\ health' = [w \in Workers |-> [health[w] EXCEPT !.age = Older(@, StaleAfter)]]
  /\ quiet' = [w \in Workers |-> Older(quiet[w], StaleAfter)]
  /\ elapsed' = IF running["rag"] THEN Older(elapsed, Watchdog) ELSE elapsed
  /\ UNCHANGED <<migrationVars, running, memory, work, lastEnd, unwritten>>

Next ==
  \/ \E s \in Services : Migrate(s) \/ StartProgram(s) \/ Crash(s)
  \/ \E w \in Workers : Timer(w) \/ MarkProgress(w)
  \/ \E u \in DOMAIN Users : RunScheduler(u) \/ PollMail(u) \/ TickFails(u)
  \/ IndexingEnds \/ WatchdogExpires \/ Pass

Spec == Init /\ [][Next]_vars

(* Containers are restarted, timers fire, and the waits of the main worker *)
(* have timeouts.  A user's scheduler and the audit of its mailbox do not  *)
(* fail every time; the poll itself, and the RAG worker's tick, may.       *)
Fairness ==
  /\ \A s \in Services : WF_vars(Migrate(s)) /\ WF_vars(StartProgram(s))
  /\ \A w \in Workers : WF_vars(Timer(w))
  /\ \A u \in DOMAIN Users : SF_vars(RunScheduler(u)) /\ SF_vars(PollMail(u))
  /\ WF_vars(WatchdogExpires) /\ WF_vars(Pass)
FairSpec == Spec /\ Fairness

-----------------------------------------------------------------------------
(* The probe never calls a worker healthy whose tick has neither moved nor *)
(* ended for the staleness period, nor one whose latest tick failed while  *)
(* the next is only under way (worker.ts: skipped ticks leave the file     *)
(* alone, progress preserves the outcome; ragWorker.ts likewise, across    *)
(* restarts).  A record that could not be written is excepted.             *)
HealthIsEarned ==
  \A w \in Workers : Healthy(w) =>
    quiet[w] < StaleAfter /\ (lastEnd[w] = "failed" => unwritten[w])

(* Whatever fails, hangs or is killed, the services come up, every user's  *)
(* mailbox is polled again, also behind a user whose own poll always fails,*)
(* and the RAG worker keeps starting ticks (overlap guards released by     *)
(* finally, caught IMAP errors, watchdog, restarts).                       *)
RoundsRecur ==
  /\ service["worker"] # Stopped => \A u \in DOMAIN Users : []<>Polling(u)
  /\ service["rag"] # Stopped => []<>running["rag"] /\ []<>~running["rag"]
=============================================================================
