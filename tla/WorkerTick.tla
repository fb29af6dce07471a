----------------------------- MODULE WorkerTick -----------------------------
(***************************************************************************)
(* The state a worker process keeps while daemonOnce runs (the tick of     *)
(* api/src/worker.ts, whose phases are those of scheduler/taskQueue.ts):   *)
(* the phase it is in, the rows it has listed for the phase and not yet    *)
(* handled, and the row it is handling.  None of it survives a crash.      *)
(*                                                                         *)
(* Deployment runs one worker, whose runner never overlaps two ticks; the  *)
(* claims in the store are there for a second one, so Workers is a set.    *)
(***************************************************************************)
EXTENDS AgentStore

CONSTANT Workers

VARIABLE worker

WorkerPoints ==
  {"idle", "expiring", "cancelling", "failing_sends", "failing_executions", "tasks",
   "executing", "calling", "called_ok", "called_failed",
   "delivering", "sending", "accepted", "refused"}

\* What a listing keeps of a row: its id, the outbox link of an approval, and
\* whether the row as it was read leaves a daily check-in another attempt.
Job ==
  [approval : Approvals \cup {None}, message : Messages \cup {None}, retry : BOOLEAN]

NoJob == [approval |-> None, message |-> None, retry |-> FALSE]

WorkerTypeOK ==
  worker \in [Workers -> [at : WorkerPoints, todo : SUBSET Job, job : Job]]

AtRest == [at |-> "idle", todo |-> {}, job |-> NoJob]

WorkerInit == worker = [w \in Workers |-> AtRest]

WorkerAt(w, point) == worker[w].at = point

\* The next listing of the tick, once the last one has been worked through.
ListFor(w, from, to, jobs) ==
  /\ WorkerAt(w, from)
  /\ worker[w].todo = {}
  /\ worker' = [worker EXCEPT ![w] = [at |-> to, todo |-> jobs, job |-> NoJob]]

\* Take j off the list and stay in the phase, or move on to handle it.
Finish(w, j) == worker' = [worker EXCEPT ![w].todo = @ \ {j}]
TakeUp(w, j, point) ==
  worker' = [worker EXCEPT ![w] = [at |-> point, todo |-> @.todo \ {j}, job |-> j]]
Proceed(w, point) == worker' = [worker EXCEPT ![w].at = point]
Resume(w, point) == worker' = [worker EXCEPT ![w].at = point, ![w].job = NoJob]

ApprovalJob(a) == [NoJob EXCEPT !.approval = a]
MessageJob(m) == [NoJob EXCEPT !.message = m]

\* Mutant of AttemptsLeft: recovery does not count the attempts.
AttemptsLeft_Unlimited(m) == m \in DailyCheckIns

AttemptsLeft(m) == m \in DailyCheckIns /\ outbox[m].attempts < MaxDeliveryAttempts

\* A crash of the process, or an error that leaves daemonOnce and ends the tick.
AbandonTick(w) ==
  /\ ~WorkerAt(w, "idle")
  /\ worker' = [worker EXCEPT ![w] = AtRest]
  /\ UNCHANGED storeVars
=============================================================================
