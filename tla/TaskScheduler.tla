--------------------------- MODULE TaskScheduler ---------------------------
(***************************************************************************)
(* The tasks of a worker tick (daemonOnce in scheduler/taskQueue.ts, with  *)
(* scheduler/autonomousTasks.ts): expired claims are failed, the recurring *)
(* tasks reconciled, due tasks claimed in a batch and run one after the    *)
(* other.  Every await may be interleaved with requests, may throw, and    *)
(* may be the last thing the process does.                                 *)
(*                                                                         *)
(* The agent run itself is a step with one of three outcomes; what its     *)
(* tools do to tasks meanwhile is what requests do.  The model client is   *)
(* configured: without one a tick only recovers.                           *)
(***************************************************************************)
EXTENDS TaskStore

CONSTANTS
  Workers,      \* worker processes
  ClaimLimit,   \* maxAutonomousRunsPerWorkerTick
  MaxFailures   \* bound: errors and crashes

ASSUME SchedulerAssumption ==
  /\ IsFiniteSet(Workers)
  /\ ClaimLimit \in Nat \ {0}
  /\ MaxFailures \in Nat

VARIABLES
  worker,    \* what each process keeps in memory
  failures

vars == <<storeVars, worker, failures>>

WorkerPoints ==
  {"idle", "recovering", "covering", "listing", "reconciling", "claiming", "picking",
   "running", "messaging", "queueing", "catching", "reading", "writing", "noting"}

\* A listed or claimed row, with the prompt it had.
Claim == [task : TaskIds \cup {0}, asked : SUBSET Requests]
NoClaim == [task |-> 0, asked |-> {}]
ClaimOf(t) == [task |-> t, asked |-> task[t].asked]

\* todo: rows of the phase not begun; row, outcome: what updateTask has read and
\* will set; duplicates, missing: of the last reconciliation; tried: the
\* check-in was handed to the outbox; sent: the outbox has the message of the run;
\* errors: 1 in the catch, 2 on the way out of it.
Memory ==
  [at : WorkerPoints, phase : {"recovery", "upkeep", "runs"},
   todo : SUBSET Claim, current : Claim, row : Task, outcome : EndedStatuses,
   duplicates : SUBSET TaskIds, missing : SUBSET Recurrences,
   tried : BOOLEAN, sent : BOOLEAN, errors : 0..2]

AtRest ==
  [at |-> "idle", phase |-> "recovery", todo |-> {}, current |-> NoClaim,
   row |-> NoTask, outcome |-> "failed", duplicates |-> {}, missing |-> {},
   tried |-> FALSE, sent |-> FALSE, errors |-> 0]

TypeOK ==
  /\ StoreTypeOK
  /\ worker \in [Workers -> Memory]
  /\ failures \in 0..MaxFailures

Init ==
  /\ StoreInit
  /\ worker = [w \in Workers |-> AtRest]
  /\ failures = 0

-----------------------------------------------------------------------------
At(w, point) == worker[w].at = point
Phase(w) == worker[w].phase
Current(w) == worker[w].current.task
CurrentKind(w) == task[Current(w)].kind
Goto(w, point) == worker' = [worker EXCEPT ![w].at = point]

\* On to the next row of a phase.
NextRow(w, phase, point) ==
  worker' = [worker EXCEPT ![w] =
               [AtRest EXCEPT !.at = point, !.phase = phase, !.todo = worker[w].todo]]

TakeUp(w, claim, point) ==
  worker' = [worker EXCEPT ![w].at = point, ![w].current = claim, ![w].todo = @ \ {claim}]

\* taskSortValue: rows that are not pending first, then by due date, no date
\* last, then by creation.
DueRank == [now |-> 0, later |-> 1, unset |-> 2]
SortValue(t) ==
  ((IF task[t].status = "pending" THEN 3 ELSE 0) + DueRank[task[t].due]) * (MaxTasks + 1) + t

Occurrences(kind) == {t \in TaskIds : task[t].kind = kind /\ Active(t)}
Keepers(kinds) ==
  {t \in TaskIds : \E kind \in kinds :
     /\ t \in Occurrences(kind)
     /\ \A other \in Occurrences(kind) : SortValue(t) <= SortValue(other)}

\* Mutant of Duplicates: active rather than active.slice(1).
Duplicates_KeeperToo(kinds) ==
  {t \in UNION {Occurrences(kind) : kind \in kinds} : task[t].status = "pending"}

Duplicates(kinds) ==
  {t \in UNION {Occurrences(kind) : kind \in kinds} \ Keepers(kinds) : task[t].status = "pending"}

\* Mutant of Missing: the next occurrence is created whatever there is.
Missing_All(kinds) == kinds

Missing(kinds) == {kind \in kinds : Occurrences(kind) = {}}

\* Everything is decided by one listing.
Reconcile(w, kinds) ==
  [worker[w] EXCEPT !.at = "reconciling", !.duplicates = Duplicates(kinds),
                    !.missing = Missing(kinds)]

\* Mutant of ExpiredClaim: the tasks an interrupted tick ran, not those it held.
ExpiredClaim_Parked(t) == task[t].status = "parked" /\ task[t].stale

ExpiredClaim(t) == task[t].status = "claimed" /\ task[t].stale

-----------------------------------------------------------------------------
StartTick(w) ==
  /\ At(w, "idle")
  /\ worker' = [worker EXCEPT ![w].at = "recovering",
                  ![w].todo = {ClaimOf(t) : t \in {u \in TaskIds : ExpiredClaim(u)}}]
  /\ UNCHANGED storeVars

RecoverClaim(w) ==
  /\ At(w, "recovering")
  /\ \E claim \in worker[w].todo : TakeUp(w, claim, "reading")
  /\ UNCHANGED storeVars

\* ensureAutonomousTasks.
Maintain(w) ==
  /\ At(w, "recovering") /\ worker[w].todo = {}
  /\ worker' = [worker EXCEPT ![w] = [Reconcile(w, Recurrences) EXCEPT !.phase = "upkeep"]]
  /\ UNCHANGED storeVars

\* The fallback check-in of a recovered claim; an error of it is only recorded.
Cover(w) ==
  /\ At(w, "covering")
  /\ worker' = [worker EXCEPT ![w].at = "listing", ![w].tried = TRUE]
  /\ UNCHANGED storeVars

\* scheduleNextAutonomousTask.
ListRecurrence(w) ==
  /\ At(w, "listing")
  /\ worker' = [worker EXCEPT ![w] =
                  [Reconcile(w, {CurrentKind(w)}) EXCEPT !.current = NoClaim]]
  /\ UNCHANGED storeVars

\* One step for the two of updateTask: the row it overwrites ends either way.
CancelDuplicate(w, t) ==
  /\ At(w, "reconciling") /\ t \in worker[w].duplicates
  /\ Overwrite(t, [task[t] EXCEPT !.status = "cancelled"])
  /\ worker' = [worker EXCEPT ![w].duplicates = @ \ {t}]
  /\ UNCHANGED <<request, owed, credit>>

CreateMissing(w, kind, t) ==
  /\ At(w, "reconciling") /\ worker[w].duplicates = {} /\ kind \in worker[w].missing
  /\ InsertTask(t, kind, "later")
  /\ worker' = [worker EXCEPT ![w].missing = @ \ {kind}]
  /\ UNCHANGED request

Reconciled(w) ==
  /\ At(w, "reconciling") /\ worker[w].duplicates = {} /\ worker[w].missing = {}
  /\ CASE Phase(w) = "recovery" -> NextRow(w, "recovery", "recovering")
       [] Phase(w) = "upkeep" -> NextRow(w, "upkeep", "claiming")
       [] Phase(w) = "runs" /\ worker[w].errors < 2 -> NextRow(w, "runs", "picking")
       [] OTHER -> worker' = [worker EXCEPT ![w] = AtRest]
  /\ UNCHANGED storeVars

ClaimDue(w) ==
  /\ At(w, "claiming")
  /\ \E batch \in ClaimableBatches(ClaimLimit) :
       /\ ClaimTasks(batch)
       /\ worker' = [worker EXCEPT ![w] = [AtRest EXCEPT !.at = "picking", !.phase = "runs",
                                             !.todo = {ClaimOf(t) : t \in batch}]]

-----------------------------------------------------------------------------
\* The run works on the row the claim returned.
BeginRun(w, claim) ==
  /\ At(w, "picking") /\ claim \in worker[w].todo
  /\ TakeUp(w, claim, IF task[claim.task].kind = "message" THEN "messaging" ELSE "running")
  /\ owed' = [owed EXCEPT ![claim.task] = @ \ claim.asked]
  /\ credit' = [credit EXCEPT ![claim.task] = @ - 1]
  /\ UNCHANGED <<task, request>>

EndTick(w) ==
  /\ At(w, "picking") /\ worker[w].todo = {}
  /\ worker' = [worker EXCEPT ![w] = AtRest]
  /\ UNCHANGED storeVars

\* A follow-up appended to a scheduled message leaves it without its JSON form.
QueueOwnerMessage(w) ==
  /\ At(w, "messaging") /\ worker[w].current.asked = {}
  /\ worker' = [worker EXCEPT ![w].at = "reading", ![w].outcome = "completed", ![w].sent = TRUE]
  /\ UNCHANGED storeVars

ToCatch(w) ==
  worker' = [worker EXCEPT ![w].at = "catching", ![w].errors = 1, ![w].outcome = "failed",
                           ![w].tried = @ \/ At(w, "queueing")]

RefuseOwnerMessage(w) ==
  /\ At(w, "messaging") /\ worker[w].current.asked # {}
  /\ ToCatch(w)
  /\ UNCHANGED storeVars

\* Mutant of AfterRun: no message when the run had nothing to say.
AfterRun_Reading(w) == "reading"

AfterRun(w) == IF CurrentKind(w) = CheckIn THEN "queueing" ELSE "reading"

\* runAgentTask returns, completed or failed.
EndRun(w, outcome) ==
  /\ At(w, "running")
  /\ worker' = [worker EXCEPT ![w].at = AfterRun(w), ![w].outcome = outcome]
  /\ UNCHANGED storeVars

QueueCheckIn(w) ==
  /\ At(w, "queueing")
  /\ worker' = [worker EXCEPT ![w].at = "reading", ![w].tried = TRUE, ![w].sent = TRUE]
  /\ UNCHANGED storeVars

\* The catch block hands a check-in over unless that was what failed.
Catch(w) ==
  /\ At(w, "catching")
  /\ worker' = [worker EXCEPT ![w].at = "reading", ![w].tried = @ \/ CurrentKind(w) = CheckIn]
  /\ UNCHANGED storeVars

\* updateTask in two steps, and the records made after it.
ReadRow(w) ==
  /\ At(w, "reading")
  /\ worker' = [worker EXCEPT ![w].at = "writing", ![w].row = task[Current(w)]]
  /\ UNCHANGED storeVars

\* Mutant of Settled: an expired claim is queued again.
Settled_Requeued(w) ==
  [worker[w].row EXCEPT !.status = IF Phase(w) = "recovery" THEN "pending" ELSE worker[w].outcome]

Settled(w) == [worker[w].row EXCEPT !.status = worker[w].outcome]

WriteRow(w) ==
  /\ At(w, "writing")
  /\ Overwrite(Current(w), Settled(w))
  /\ worker' = [worker EXCEPT ![w].at = "noting", ![w].row = NoTask]
  /\ UNCHANGED <<request, owed, credit>>

\* Mutant of NeedsCover: only the catch block queues the fallback.
NeedsCover_Never(w) == FALSE

NeedsCover(w) == Phase(w) = "recovery" /\ CurrentKind(w) = CheckIn

\* The finally block, and what follows a recovered claim.
LeaveTask(w, errors) ==
  IF CurrentKind(w) \in Recurrences
  THEN worker' = [worker EXCEPT ![w].errors = errors, ![w].row = NoTask,
                    ![w].at = IF NeedsCover(w) THEN "covering" ELSE "listing"]
  ELSE CASE errors = 2 -> worker' = [worker EXCEPT ![w] = AtRest]
         [] errors < 2 /\ Phase(w) = "recovery" -> NextRow(w, "recovery", "recovering")
         [] OTHER -> NextRow(w, "runs", "picking")

Note(w) ==
  /\ At(w, "noting")
  /\ LeaveTask(w, worker[w].errors)
  /\ UNCHANGED storeVars

WorkerStep(w) ==
  /\ \/ StartTick(w) \/ RecoverClaim(w) \/ Maintain(w) \/ Cover(w)
     \/ ListRecurrence(w) \/ Reconciled(w) \/ ClaimDue(w)
     \/ \E t \in TaskIds :
          CancelDuplicate(w, t) \/ \E kind \in Recurrences : CreateMissing(w, kind, t)
     \/ \E claim \in worker[w].todo : BeginRun(w, claim)
     \/ EndTick(w) \/ QueueOwnerMessage(w) \/ RefuseOwnerMessage(w)
     \/ \E outcome \in {"completed", "failed"} : EndRun(w, outcome)
     \/ QueueCheckIn(w) \/ Catch(w) \/ ReadRow(w) \/ WriteRow(w) \/ Note(w)
  /\ UNCHANGED failures

-----------------------------------------------------------------------------
\* An await of the try block throws: no destination, a model or database error.
Throw(w) ==
  /\ Phase(w) = "runs" /\ worker[w].errors = 0
  /\ worker[w].at \in {"messaging", "running", "queueing", "reading", "writing", "noting"}
  /\ ToCatch(w)
  /\ UNCHANGED storeVars

\* An await of the catch block does; the finally block still runs.
ThrowInCatch(w) ==
  /\ Phase(w) = "runs" /\ worker[w].errors = 1
  /\ worker[w].at \in {"reading", "writing", "noting"}
  /\ LeaveTask(w, 2)
  /\ UNCHANGED storeVars

\* The process ends, or an error nobody catches ends the tick.
Crash(w) ==
  /\ ~At(w, "idle")
  /\ worker' = [worker EXCEPT ![w] = AtRest]
  /\ UNCHANGED storeVars

Fail ==
  /\ failures < MaxFailures
  /\ failures' = failures + 1
  /\ \E w \in Workers : Throw(w) \/ ThrowInCatch(w) \/ Crash(w)

Holds(w, t) == t = Current(w) \/ \E claim \in worker[w].todo : claim.task = t

\* A task comes due, or 30 minutes pass since its last change.  Between the two
\* statements of an updateTask neither makes a difference, nor does the age of a
\* claim to the worker that holds it.
InUse(t) ==
  \/ \E r \in Requests : request[r].task = t
  \/ \E w \in Workers : worker[w].at = "writing" /\ Current(w) = t

TimePasses(t) ==
  /\ ~InUse(t)
  /\ \/ /\ task[t].status = "pending" /\ task[t].due = "later"
        /\ task' = [task EXCEPT ![t].due = "now"]
     \/ /\ task[t].status = "claimed" /\ ~task[t].stale
        /\ \A w \in Workers : ~Holds(w, t)
        /\ task' = [task EXCEPT ![t].stale = TRUE]
  /\ UNCHANGED <<request, owed, credit, worker, failures>>

\* The table has no bound: the row of an ended task nobody refers to is used again.
Forget(t) ==
  /\ task[t].status \in EndedStatuses /\ ~InUse(t)
  /\ \A w \in Workers : ~Holds(w, t) /\ t \notin worker[w].duplicates
  /\ task' = [task EXCEPT ![t] = NoTask]
  /\ owed' = [owed EXCEPT ![t] = {}]
  /\ credit' = [credit EXCEPT ![t] = 0]
  /\ UNCHANGED <<request, worker, failures>>

Next ==
  \/ \E w \in Workers : WorkerStep(w)
  \/ \E r \in Requests : RequestStep(r) /\ UNCHANGED <<worker, failures>>
  \/ Fail
  \/ \E t \in TaskIds : TimePasses(t) \/ Forget(t)

Spec == Init /\ [][Next]_vars

\* The worker's interval goes on for as long as it lives and its container is
\* restarted; a call that has begun ends; the clock runs; the table never fills.
Fairness ==
  /\ \A r \in Requests : WF_vars(FinishRequest(r) /\ UNCHANGED <<worker, failures>>)
  /\ \A w \in Workers : WF_vars(WorkerStep(w))
  /\ \A t \in TaskIds : WF_vars(TimePasses(t)) /\ WF_vars(Forget(t))

FairSpec == Spec /\ Fairness

-----------------------------------------------------------------------------
(***************************************************************************)
(* A task is begun at most once for its creation and once for every write  *)
(* of a request that leaves it pending: neither a second claim nor the     *)
(* recovery of an interrupted one runs it again.                           *)
(***************************************************************************)
RunsAreAsked == \A t \in TaskIds : credit[t] >= 0

(***************************************************************************)
(* A check-in or a scheduled owner message is completed by a run only when *)
(* the outbox has its message, whichever await of the run failed.          *)
(***************************************************************************)
CompletedIsQueued ==
  \A w \in Workers :
    At(w, "noting") /\ worker[w].outcome = "completed" /\ CurrentKind(w) \in {CheckIn, "message"}
      => worker[w].sent

(***************************************************************************)
(* Before the next check-in is scheduled, that of today was handed to the  *)
(* outbox: by the run, by the catch of a run that failed before, or by the *)
(* recovery of a claim the worker lost.                                    *)
(***************************************************************************)
CheckInIsTried ==
  \A w \in Workers : At(w, "listing") /\ CurrentKind(w) = CheckIn => worker[w].tried

(***************************************************************************)
(* However ticks end, every recurring task keeps having occurrences that   *)
(* are run, unless a request has parked one: a parked occurrence counts as *)
(* active for the reconciliation and nothing wakes it.                     *)
(***************************************************************************)
RunsNow(kind) == \E w \in Workers : At(w, "running") /\ CurrentKind(w) = kind
Parked(kind) == \E t \in TaskIds : task[t].kind = kind /\ task[t].status = "parked"

RecurrencesRun == \A kind \in Recurrences : []<>(RunsNow(kind) \/ Parked(kind))

(***************************************************************************)
(* No task stays claimed: a claim its worker lost is given up.             *)
(***************************************************************************)
ClaimsSettle == \A t \in TaskIds : []<>(task[t].status # "claimed")

(***************************************************************************)
(* Duplicate occurrences that requests bring back are reconciled: in the   *)
(* end each recurring task has at most one that is pending.                *)
(***************************************************************************)
Waiting(kind) == {t \in TaskIds : task[t].kind = kind /\ task[t].status = "pending"}

DuplicatesSettle == \A kind \in Recurrences : <>[](Cardinality(Waiting(kind)) <= 1)

(***************************************************************************)
(* A task is not completed while a follow-up prompt that returned it to    *)
(* pending has not been part of any run of it.                             *)
(***************************************************************************)
FollowUpsAreRun == \A t \in TaskIds : task[t].status = "completed" => owed[t] = {}
=============================================================================
