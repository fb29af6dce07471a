----------------------------- MODULE TaskStore -----------------------------
(***************************************************************************)
(* The tasks table and the store functions that write it                   *)
(* (api/src/domain/store.ts), with the requests that reach it from outside *)
(* the worker: the task routes (api/src/http/app.ts) and the task tools of *)
(* the agent (api/src/tools/toolExecutor.ts).                              *)
(*                                                                         *)
(* updateTask is a SELECT and then an UPDATE of every column, so each of   *)
(* its callers takes two steps and writes back what it has read of the     *)
(* columns it does not change.  A route that appends a prompt has read the *)
(* old prompt before that, in a step of its own.                           *)
(*                                                                         *)
(* A title is a kind of task and a prompt the set of follow-ups appended   *)
(* to it.  Of due_at it matters whether it is NULL, past or future, of     *)
(* updated_at whether it is older than the grace period.  The statuses     *)
(* "running", "waiting" and "blocked" are one, "parked": the worker treats *)
(* them alike.  A request makes one change and stands for one call.        *)
(***************************************************************************)
EXTENDS Integers, FiniteSets

CONSTANTS
  Recurrences,    \* the recurring tasks the host maintains
  CheckIn,        \* of them, the daily conversational check-in
  Requests,       \* calls of the routes and tools, and the prompts they append
  Changes,        \* what a request may do, of ChangeKinds
  PatchStatuses,  \* the statuses a request may set
  MaxTasks,       \* bound: rows at a time
  MaxOneOff       \* bound: of them, tasks that are not the host's

OneOff == {"work", "message"}   \* "message": a scheduled owner message
Kinds == Recurrences \cup OneOff
ChangeKinds == {"create", "append", "status", "schedule"}
EndedStatuses == {"completed", "cancelled", "failed"}
ActiveStatuses == {"pending", "claimed", "parked"}
TaskStatuses == {"absent"} \cup ActiveStatuses \cup EndedStatuses
DueDates == {"unset", "now", "later"}

ASSUME TaskAssumption ==
  /\ CheckIn \in Recurrences
  /\ Recurrences \cap OneOff = {}
  /\ Changes \subseteq ChangeKinds
  /\ PatchStatuses \subseteq TaskStatuses \ {"absent"}
  /\ MaxTasks \in Nat /\ MaxOneOff \in Nat

VARIABLES
  task,      \* tasks
  request,   \* where each request is, and what it has read
  owed,      \* history: follow-ups accepted for a task that no run has begun with
  credit     \* history: how many more runs of a task somebody asked for

storeVars == <<task, request, owed, credit>>

TaskIds == 1..MaxTasks

Task ==
  [kind : Kinds, status : TaskStatuses, due : DueDates,
   stale : BOOLEAN, asked : SUBSET Requests]

NoTask ==
  [kind |-> "work", status |-> "absent", due |-> "unset", stale |-> FALSE, asked |-> {}]

\* value: the status or the due date to set.
Request ==
  [at : {"idle", "reading", "writing", "done"}, change : Changes \cup {"none"},
   value : TaskStatuses \cup DueDates, task : TaskIds \cup {0},
   asked : SUBSET Requests, row : Task]

NoRequest(at) ==
  [at |-> at, change |-> "none", value |-> "unset", task |-> 0, asked |-> {}, row |-> NoTask]

StoreTypeOK ==
  /\ task \in [TaskIds -> Task]
  /\ request \in [Requests -> Request]
  /\ owed \in [TaskIds -> SUBSET Requests]
  /\ credit \in [TaskIds -> Int]

-----------------------------------------------------------------------------
Exists(t) == task[t].status # "absent"
Active(t) == task[t].status \in ActiveStatuses
Claimable(t) == task[t].status = "pending" /\ task[t].due # "later"

NewTask(kind, due) == [NoTask EXCEPT !.kind = kind, !.status = "pending", !.due = due]

\* The owner may have had a message scheduled, due by now.
StoreInit ==
  /\ \E scheduled \in SUBSET {1} :
       /\ task = [t \in TaskIds |-> IF t \in scheduled THEN NewTask("message", "now") ELSE NoTask]
       /\ credit = [t \in TaskIds |-> Cardinality(scheduled \cap {t})]
  /\ request = [r \in Requests |-> NoRequest("idle")]
  /\ owed = [t \in TaskIds |-> {}]

InsertTask(t, kind, due) ==
  /\ ~Exists(t)
  /\ task' = [task EXCEPT ![t] = NewTask(kind, due)]
  /\ credit' = [credit EXCEPT ![t] = 1]
  /\ UNCHANGED owed

\* updateTask's UPDATE of the row its SELECT returned.
Overwrite(t, row) == task' = [task EXCEPT ![t] = [row EXCEPT !.stale = FALSE]]

\* claimDueTasks: ORDER BY due_at NULLS FIRST LIMIT n.  The order of two dates
\* that have both passed is any.
ClaimableBatches(limit) ==
  LET due == {t \in TaskIds : Claimable(t)}
      undated == {t \in due : task[t].due = "unset"}
  IN  {batch \in SUBSET due :
         /\ Cardinality(batch) = IF Cardinality(due) < limit THEN Cardinality(due) ELSE limit
         /\ undated \subseteq batch \/ batch \subseteq undated}

ClaimTasks(batch) ==
  /\ task' = [t \in TaskIds |-> IF t \in batch
                                THEN [task[t] EXCEPT !.status = "claimed", !.stale = FALSE]
                                ELSE task[t]]
  /\ UNCHANGED <<request, owed, credit>>

-----------------------------------------------------------------------------
\* What a request may set due_at to.  A date that has passed is one that comes due.
SetDates == {"unset", "later"}

\* POST /tasks and the tools create_task, split_task, create_followup_task,
\* schedule_owner_message and ask_owner_clarification.
CreateTask(r, t) ==
  /\ "create" \in Changes /\ request[r].at = "idle"
  /\ Cardinality({u \in TaskIds : Exists(u) /\ task[u].kind \in OneOff}) < MaxOneOff
  /\ \E kind \in OneOff, due \in SetDates : InsertTask(t, kind, due)
  /\ request' = [request EXCEPT ![r] = NoRequest("done")]

\* What a change of the request must know before it writes.
Ask(r, t, change, value, at) ==
  /\ change \in Changes /\ request[r].at = "idle" /\ Exists(t)
  /\ request' = [request EXCEPT ![r] =
                   [at |-> at, change |-> change, value |-> value, task |-> t,
                    asked |-> IF at = "reading" THEN task[t].asked ELSE {},
                    row |-> IF at = "reading" THEN NoTask ELSE task[t]]]
  /\ UNCHANGED <<task, owed, credit>>

\* POST /tasks/:id/prompts and append_task_prompt.
AppendPrompt(r, t) == Ask(r, t, "append", "pending", "reading")

\* PATCH /tasks/:id with a status, update_task_status, mark_waiting_on.
SetStatus(r, t) == \E status \in PatchStatuses : Ask(r, t, "status", status, "writing")

\* PATCH /tasks/:id without one, update_task_schedule, record_schedule_rationale.
Reschedule(r, t) == \E due \in SetDates : Ask(r, t, "schedule", due, "writing")

ReadTask(r) ==
  /\ request[r].at = "reading"
  /\ request' = [request EXCEPT ![r].at = "writing", ![r].row = task[request[r].task]]
  /\ UNCHANGED <<task, owed, credit>>

Changed(r) ==
  LET ask == request[r]
  IN  CASE ask.change = "append" ->
             [ask.row EXCEPT !.status = "pending", !.asked = ask.asked \cup {r}]
        [] ask.change = "status" -> [ask.row EXCEPT !.status = ask.value]
        [] ask.change = "schedule" -> [ask.row EXCEPT !.due = ask.value]

WriteTask(r) ==
  LET t == request[r].task
  IN  /\ request[r].at = "writing"
      /\ Overwrite(t, Changed(r))
      /\ owed' = IF request[r].change = "append" THEN [owed EXCEPT ![t] = @ \cup {r}] ELSE owed
      /\ credit' = IF Changed(r).status = "pending" THEN [credit EXCEPT ![t] = @ + 1] ELSE credit
      /\ request' = [request EXCEPT ![r] = NoRequest("done")]

\* A query fails or the process ends.
DropRequest(r) ==
  /\ request[r].at \in {"reading", "writing"}
  /\ request' = [request EXCEPT ![r] = NoRequest("done")]
  /\ UNCHANGED <<task, owed, credit>>

FinishRequest(r) == ReadTask(r) \/ WriteTask(r) \/ DropRequest(r)

RequestStep(r) ==
  \/ FinishRequest(r)
  \/ \E t \in TaskIds :
       CreateTask(r, t) \/ AppendPrompt(r, t) \/ SetStatus(r, t) \/ Reschedule(r, t)
=============================================================================
