----------------------------- MODULE TaskProofs -----------------------------
(***************************************************************************)
(* Theorems about the tasks of a worker tick, for any number of tasks,     *)
(* requests, workers and failures: type correctness, and what a tick owes  *)
(* to a check-in on every way through a run, its catch and its recovery.   *)
(***************************************************************************)
EXTENDS TaskScheduler, FiniteSetTheorems, TLAPS

USE TaskAssumption, SchedulerAssumption

\* Where a worker has a task at hand, and where it records what came of it.
Settling == {"reading", "writing", "noting"}
Leaving == {"covering", "listing"}
Running == {"messaging", "running", "queueing", "catching"}
Working == Settling \cup Leaving \cup Running

\* What a request has read is still so where it matters: the row is there and
\* is the same kind of task.
RequestOK(r) ==
  request[r].at \in {"reading", "writing"} =>
    /\ request[r].change \in ChangeKinds \ {"create"}
    /\ request[r].change = "status" => request[r].value \in TaskStatuses \ {"absent"}
    /\ request[r].change = "schedule" => request[r].value \in DueDates
    /\ request[r].task \in TaskIds /\ Exists(request[r].task)
    /\ request[r].at = "writing" =>
         /\ request[r].row.kind = task[request[r].task].kind
         /\ request[r].row.status # "absent"

\* What a worker has in memory, by the phase it is in,
PhaseOK(mem) ==
  /\ mem.at \in {"idle", "recovering"} => mem.phase = "recovery" /\ mem.outcome = "failed"
  /\ mem.at = "claiming" => mem.phase = "upkeep"
  /\ mem.at \in Running \cup {"picking"} => mem.phase = "runs"
  /\ mem.at \in Settling \cup Leaving => mem.phase \in {"recovery", "runs"}
  /\ mem.at = "catching" => mem.outcome = "failed"
  /\ mem.phase = "recovery" => mem.errors = 0

\* by the rows it holds,
RowsOK(mem) ==
  /\ \A claim \in mem.todo : claim.task \in TaskIds /\ Exists(claim.task)
  /\ mem.at \in Working => mem.current.task \in TaskIds /\ Exists(mem.current.task)
  /\ mem.at = "writing" =>
       mem.row.kind = task[mem.current.task].kind /\ mem.row.status # "absent"

\* and by the kind of the task at hand.
KindOK(mem) ==
  LET kind == task[mem.current.task].kind
  IN  /\ mem.at \in Leaving => kind \in Recurrences
      /\ mem.at = "messaging" => kind = "message"
      /\ mem.at = "running" => kind # "message"
      /\ mem.at = "queueing" => kind = CheckIn
      /\ kind = CheckIn /\ (mem.at = "listing" \/ (mem.at \in Settling /\ mem.phase = "runs"))
           => mem.tried
      /\ /\ kind \in {CheckIn, "message"}
         /\ mem.at \in Settling /\ mem.outcome = "completed"
         => mem.sent

MemoryOK(mem) == PhaseOK(mem) /\ RowsOK(mem) /\ KindOK(mem)

TaskInv ==
  /\ TypeOK
  /\ \A r \in Requests : RequestOK(r)
  /\ \A w \in Workers : MemoryOK(worker[w])

\* No step but Forget takes a row away or changes what it is.
RowsStay ==
  \A t \in TaskIds : Exists(t) => Exists(t)' /\ task'[t].kind = task[t].kind

-----------------------------------------------------------------------------
LEMMA InitTaskInv == Init => TaskInv
<1> SUFFICES ASSUME Init PROVE TaskInv
  OBVIOUS
<1> USE DEF Init, StoreInit
<1>1. NoTask \in Task /\ NewTask("message", "now") \in Task
  BY DEF NoTask, NewTask, Task, Kinds, OneOff, TaskStatuses, ActiveStatuses, DueDates
<1>2. task \in [TaskIds -> Task]
  BY <1>1
<1>3. credit \in [TaskIds -> Int]
  <2>1. \A s \in SUBSET {1}, t \in TaskIds : Cardinality(s \cap {t}) \in Int
    <3> TAKE s \in SUBSET {1}, t \in TaskIds
    <3>1. IsFiniteSet(s \cap {t})
      BY FS_Singleton, FS_Subset
    <3> QED BY <3>1, FS_CardinalityType
  <2> QED BY <2>1
<1>4. AtRest \in Memory /\ \A r \in Requests : NoRequest("idle") \in Request
  BY <1>1 DEF AtRest, Memory, WorkerPoints, NoClaim, Claim, EndedStatuses, NoRequest, Request, DueDates
<1>5. TypeOK
  BY <1>1, <1>2, <1>3, <1>4 DEF TypeOK, StoreTypeOK
<1>6. \A r \in Requests : RequestOK(r)
  BY DEF RequestOK, NoRequest
<1>7. \A w \in Workers : MemoryOK(worker[w])
  BY DEF MemoryOK, PhaseOK, RowsOK, KindOK, AtRest, Working, Running, Settling, Leaving
<1> QED BY <1>5, <1>6, <1>7 DEF TaskInv

\* The types of the parts, as the cases below use them.
LEMMA Types ==
  ASSUME TypeOK
  PROVE  /\ task \in [TaskIds -> Task] /\ request \in [Requests -> Request]
         /\ owed \in [TaskIds -> SUBSET Requests] /\ credit \in [TaskIds -> Int]
         /\ worker \in [Workers -> Memory]
         /\ \A t \in TaskIds : task[t] \in Task
         /\ \A r \in Requests : request[r] \in Request
         /\ \A w \in Workers : worker[w] \in Memory
         /\ TaskIds \subseteq Nat \ {0}
BY DEF TypeOK, StoreTypeOK, TaskIds

\* A step that leaves rows where they are disturbs no memory of them,
LEMMA RememberedStays ==
  ASSUME RowsStay, NEW mem, MemoryOK(mem)
  PROVE  MemoryOK(mem)'
<1>1. PhaseOK(mem) /\ RowsOK(mem) /\ KindOK(mem)
  BY DEF MemoryOK
<1>2. PhaseOK(mem)' /\ RowsOK(mem)'
  BY <1>1 DEF PhaseOK, RowsOK, RowsStay, Exists, Working, Settling
<1>3. CASE mem.at \in Working
  <2>1. task'[mem.current.task].kind = task[mem.current.task].kind
    BY <1>1, <1>3 DEF RowsOK, RowsStay
  <2> QED BY <1>1, <1>2, <2>1 DEF KindOK, MemoryOK
<1>4. CASE mem.at \notin Working
  BY <1>2, <1>4 DEF KindOK, MemoryOK, Working, Running, Settling, Leaving
<1> QED BY <1>3, <1>4

\* nor anything else that others hold.
LEMMA OthersStay ==
  ASSUME TaskInv, RowsStay
  PROVE  /\ \A r \in Requests : request'[r] = request[r] => RequestOK(r)'
         /\ \A w \in Workers : worker'[w] = worker[w] => MemoryOK(worker[w])'
<1>1. ASSUME NEW r \in Requests, request'[r] = request[r] PROVE RequestOK(r)'
  BY <1>1 DEF TaskInv, RowsStay, RequestOK, Exists
<1>2. ASSUME NEW w \in Workers, worker'[w] = worker[w] PROVE MemoryOK(worker[w])'
  <2>1. PICK mem : mem = worker[w]
    OBVIOUS
  <2>2. MemoryOK(mem)'
    BY <2>1, RememberedStays DEF TaskInv
  <2> QED BY <1>2, <2>1, <2>2 DEF MemoryOK, PhaseOK, RowsOK, KindOK
<1> QED BY <1>1, <1>2

\* A step of one worker.
LEMMA WorkerTaskInv ==
  ASSUME TaskInv, NEW w \in Workers, NEW mem \in Memory,
         worker' = [worker EXCEPT ![w] = mem], MemoryOK(mem),
         RowsStay, StoreTypeOK', failures' \in 0..MaxFailures, UNCHANGED request
  PROVE  TaskInv'
<1>1. /\ worker'[w] = mem /\ worker' \in [Workers -> Memory]
      /\ \A v \in Workers : v # w => worker'[v] = worker[v]
  BY Types DEF TaskInv
<1>2. TypeOK'
  BY <1>1 DEF TypeOK
<1>3. MemoryOK(worker[w])'
  <2>1. MemoryOK(mem)'
    BY RememberedStays
  <2> QED BY <1>1, <2>1 DEF MemoryOK, PhaseOK, RowsOK, KindOK
<1> QED BY <1>1, <1>2, <1>3, OthersStay DEF TaskInv

\* A step of one worker that leaves the store alone.
LEMMA MemoryTaskInv ==
  ASSUME TaskInv, NEW w \in Workers, NEW mem \in Memory,
         worker' = [worker EXCEPT ![w] = mem], MemoryOK(mem),
         failures' \in 0..MaxFailures, UNCHANGED storeVars
  PROVE  TaskInv'
<1>1. StoreTypeOK' /\ RowsStay /\ UNCHANGED request
  BY DEF TaskInv, TypeOK, StoreTypeOK, RowsStay, Exists, storeVars
<1> QED BY <1>1, WorkerTaskInv

-----------------------------------------------------------------------------
LEMMA RestTypes == NoTask \in Task /\ NoClaim \in Claim /\ AtRest \in Memory
<1>1. NoTask \in Task /\ NoClaim \in Claim
  BY DEF NoTask, Task, Kinds, OneOff, TaskStatuses, DueDates, NoClaim, Claim
<1> QED BY <1>1 DEF AtRest, Memory, WorkerPoints, EndedStatuses

\* What is known of the worker that takes a step.
LEMMA Mine ==
  ASSUME TaskInv, NEW w \in Workers
  PROVE  /\ worker[w] \in Memory /\ worker \in [Workers -> Memory]
         /\ PhaseOK(worker[w]) /\ RowsOK(worker[w]) /\ KindOK(worker[w])
         /\ worker[w].at \in Working => Current(w) \in TaskIds /\ CurrentKind(w) \in Kinds
         /\ failures \in 0..MaxFailures
<1>1. worker[w] \in Memory /\ worker \in [Workers -> Memory] /\ failures \in 0..MaxFailures
  BY Types DEF TaskInv, TypeOK
<1>2. PhaseOK(worker[w]) /\ RowsOK(worker[w]) /\ KindOK(worker[w])
  BY DEF TaskInv, MemoryOK
<1>3. worker[w].at \in Working => Current(w) \in TaskIds
  BY <1>2 DEF RowsOK, Current
<1>4. worker[w].at \in Working => CurrentKind(w) \in Kinds
  BY <1>3, Types DEF TaskInv, CurrentKind, Task
<1> QED BY <1>1, <1>2, <1>3, <1>4

LEMMA MyMemory ==
  ASSUME TaskInv, NEW w \in Workers
  PROVE  worker[w] \in Memory
BY Types DEF TaskInv

\* A worker that has nothing at hand holds good whatever the rows are.
LEMMA RestTaskInv ==
  ASSUME TaskInv, NEW w \in Workers, worker' = [worker EXCEPT ![w] = AtRest],
         failures' \in 0..MaxFailures, UNCHANGED storeVars
  PROVE  TaskInv'
<1>1. MemoryOK(AtRest)
  BY DEF MemoryOK, PhaseOK, RowsOK, KindOK, AtRest, Working, Running, Settling, Leaving
<1> QED BY <1>1, RestTypes, MemoryTaskInv

\* On to the next row of the phase.
LEMMA NextRowTaskInv ==
  ASSUME TaskInv, NEW w \in Workers,
         NEW phase \in {"recovery", "upkeep", "runs"},
         NEW point \in {"recovering", "claiming", "picking"},
         NextRow(w, phase, point), failures' \in 0..MaxFailures, UNCHANGED storeVars,
         point = "recovering" => phase = "recovery",
         point = "claiming" => phase = "upkeep",
         point = "picking" => phase = "runs"
  PROVE  TaskInv'
<1> DEFINE mem == [AtRest EXCEPT !.at = point, !.phase = phase, !.todo = worker[w].todo]
<1>1. worker' = [worker EXCEPT ![w] = mem]
  BY DEF NextRow
<1>2. mem \in Memory
  BY Mine, RestTypes DEF Memory, WorkerPoints
<1>3. /\ mem.at = point /\ mem.phase = phase /\ mem.todo = worker[w].todo
      /\ mem.outcome = "failed" /\ mem.errors = 0
  BY DEF AtRest
<1> HIDE DEF mem
<1>4. MemoryOK(mem)
  BY <1>3, Mine DEF MemoryOK, PhaseOK, RowsOK, KindOK, Working, Running, Settling, Leaving
<1> QED BY <1>1, <1>2, <1>4, MemoryTaskInv

\* The finally block, after a run or a recovered claim.
LEMMA LeaveTaskInv ==
  ASSUME TaskInv, NEW w \in Workers, NEW errors \in 0..2, LeaveTask(w, errors),
         worker[w].at \in Settling, worker[w].phase = "recovery" => errors = 0,
         failures' \in 0..MaxFailures, UNCHANGED storeVars
  PROVE  TaskInv'
<1>p. worker[w].phase \in {"recovery", "runs"} /\ worker[w].at \in Working
  BY Mine DEF PhaseOK, Working
<1>1. CASE CurrentKind(w) \in Recurrences
  <2> DEFINE point == IF NeedsCover(w) THEN "covering" ELSE "listing"
             mem == [worker[w] EXCEPT !.at = point, !.errors = errors, !.row = NoTask]
  <2>0. /\ worker' = [worker EXCEPT ![w].errors = errors, ![w].row = NoTask, ![w].at = point]
        /\ point \in Leaving
        /\ point = "listing" => worker[w].phase = "runs" \/ CurrentKind(w) # CheckIn
    BY <1>1, <1>p DEF LeaveTask, NeedsCover, Leaving, Phase
  <2> HIDE DEF point
  <2>1. worker' = [worker EXCEPT ![w] = mem]
    BY <2>0, Mine DEF Memory
  <2>2. mem \in Memory
    BY <2>0, Mine, RestTypes DEF Memory, WorkerPoints, Leaving
  <2>3. /\ mem.at = point /\ mem.phase = worker[w].phase /\ mem.todo = worker[w].todo
        /\ mem.current = worker[w].current /\ mem.outcome = worker[w].outcome
        /\ mem.tried = worker[w].tried /\ mem.errors = errors
    BY Mine DEF Memory
  <2> HIDE DEF mem
  <2>5. PhaseOK(mem) /\ RowsOK(mem)
    BY <1>p, <2>3, <2>0, Mine DEF PhaseOK, RowsOK, Working, Running, Settling, Leaving
  <2>6. KindOK(mem)
    BY <1>1, <1>p, <2>3, <2>0, Mine
       DEF KindOK, Running, Settling, Leaving, CurrentKind, Current
  <2> QED BY <2>1, <2>2, <2>5, <2>6, MemoryTaskInv DEF MemoryOK
<1>2. CASE CurrentKind(w) \notin Recurrences
  <2>1. CASE errors = 2
    BY <1>2, <2>1, RestTaskInv DEF LeaveTask
  <2>2. CASE errors # 2 /\ worker[w].phase = "recovery"
    <3>1. NextRow(w, "recovery", "recovering")
      BY <1>2, <2>2 DEF LeaveTask, Phase
    <3> QED BY <3>1, NextRowTaskInv
  <2>3. CASE errors # 2 /\ worker[w].phase = "runs"
    <3>1. NextRow(w, "runs", "picking")
      BY <1>2, <2>3 DEF LeaveTask, Phase
    <3> QED BY <3>1, NextRowTaskInv
  <2> QED BY <2>1, <2>2, <2>3, <1>p
<1> QED BY <1>1, <1>2

\* The types of what an error leaves in memory.
LEMMA CaughtTypes ==
  ASSUME NEW m \in Memory, NEW w, NEW point \in WorkerPoints, NEW errors \in 0..2,
         NEW outcome \in EndedStatuses
  PROVE  [m EXCEPT !.at = point, !.errors = errors, !.outcome = outcome,
                   !.tried = @ \/ At(w, "queueing")] \in Memory
BY DEF Memory

LEMMA CatchTaskInv ==
  ASSUME TaskInv, NEW w \in Workers, ToCatch(w),
         worker[w].at \in Running \cup Settling, worker[w].phase = "runs",
         failures' \in 0..MaxFailures, UNCHANGED storeVars
  PROVE  TaskInv'
<1> DEFINE mem == [worker[w] EXCEPT !.at = "catching", !.errors = 1, !.outcome = "failed",
                                    !.tried = @ \/ At(w, "queueing")]
<1>1. worker' = [worker EXCEPT ![w] = mem]
  BY Mine DEF ToCatch, Memory
<1>2. mem \in Memory
  <2>1. "catching" \in WorkerPoints /\ 1 \in 0..2 /\ "failed" \in EndedStatuses
    BY DEF WorkerPoints, EndedStatuses
  <2> QED BY <2>1, Mine, CaughtTypes
<1>3. /\ mem.at = "catching" /\ mem.phase = "runs" /\ mem.todo = worker[w].todo
      /\ mem.current = worker[w].current /\ mem.outcome = "failed"
  BY Mine DEF Memory
<1> HIDE DEF mem
<1>4. MemoryOK(mem)
  BY <1>3, Mine DEF MemoryOK, PhaseOK, RowsOK, KindOK, Working, Running, Settling, Leaving
<1> QED BY <1>1, <1>2, <1>4, MemoryTaskInv

\* What a listing decides, with nothing in hand that the decision needs later.
LEMMA ReconcileTaskInv ==
  ASSUME TaskInv, NEW w \in Workers, NEW kinds \in SUBSET Recurrences, NEW mem,
         \E phase \in {"recovery", "upkeep", "runs"}, current \in Claim :
           (phase = "recovery" => worker[w].errors = 0) /\ mem = [worker[w] EXCEPT !.at = "reconciling", !.duplicates = Duplicates(kinds),
                    !.missing = Missing(kinds), !.phase = phase, !.current = current],
         worker' = [worker EXCEPT ![w] = mem],
         failures' \in 0..MaxFailures, UNCHANGED storeVars
  PROVE  TaskInv'
<1>1. Duplicates(kinds) \in SUBSET TaskIds /\ Missing(kinds) \in SUBSET Recurrences
  BY DEF Duplicates, Missing, Occurrences
<1>2. mem \in Memory
  BY <1>1, Mine DEF Memory, WorkerPoints
<1>3. /\ mem.at = "reconciling" /\ mem.todo = worker[w].todo
      /\ mem.phase = "recovery" => mem.errors = 0
  BY Mine DEF Memory
<1>4. MemoryOK(mem)
  BY <1>3, Mine DEF MemoryOK, PhaseOK, RowsOK, KindOK, Working, Running, Settling, Leaving
<1> QED BY <1>2, <1>4, MemoryTaskInv

-----------------------------------------------------------------------------
(***************************************************************************)
(* The writes.                                                             *)
(***************************************************************************)
LEMMA OverwriteRows ==
  ASSUME TypeOK, NEW t \in TaskIds, Exists(t), NEW row \in Task,
         row.kind = task[t].kind, row.status # "absent", Overwrite(t, row)
  PROVE  task' \in [TaskIds -> Task] /\ RowsStay
<1> DEFINE new == [row EXCEPT !.stale = FALSE]
<1>1. new \in Task /\ new.kind = task[t].kind /\ new.status # "absent"
  BY DEF Task
<1>2. task' = [task EXCEPT ![t] = new]
  BY DEF Overwrite
<1> HIDE DEF new
<1> QED BY <1>1, <1>2, Types DEF RowsStay, Exists

LEMMA InsertRows ==
  ASSUME TypeOK, NEW t \in TaskIds, NEW kind \in Kinds, NEW due \in DueDates,
         InsertTask(t, kind, due)
  PROVE  task' \in [TaskIds -> Task] /\ credit' \in [TaskIds -> Int] /\ RowsStay
<1> DEFINE new == NewTask(kind, due)
<1>1. new \in Task
  BY DEF NewTask, NoTask, Task, TaskStatuses, ActiveStatuses
<1>2. /\ ~Exists(t) /\ task' = [task EXCEPT ![t] = new]
      /\ credit' = [credit EXCEPT ![t] = 1]
  BY DEF InsertTask
<1> HIDE DEF new
<1> QED BY <1>1, <1>2, Types DEF RowsStay, Exists

LEMMA ClaimRows ==
  ASSUME TypeOK, NEW batch \in SUBSET TaskIds, \A t \in batch : Exists(t), ClaimTasks(batch)
  PROVE  task' \in [TaskIds -> Task] /\ RowsStay
<1>1. \A t \in TaskIds : /\ [task[t] EXCEPT !.status = "claimed", !.stale = FALSE] \in Task
                         /\ [task[t] EXCEPT !.status = "claimed", !.stale = FALSE].kind = task[t].kind
                         /\ [task[t] EXCEPT !.status = "claimed", !.stale = FALSE].status = "claimed"
  BY Types DEF Task, TaskStatuses, ActiveStatuses
<1> QED BY <1>1, Types DEF ClaimTasks, RowsStay, Exists

\* A step of one request.
LEMMA OneRequest ==
  ASSUME TaskInv, NEW r \in Requests, NEW new \in Request,
         request' = [request EXCEPT ![r] = new], RequestOK(r)',
         RowsStay, task' \in [TaskIds -> Task], owed' \in [TaskIds -> SUBSET Requests],
         credit' \in [TaskIds -> Int], UNCHANGED <<worker, failures>>
  PROVE  TaskInv'
<1>1. /\ request' \in [Requests -> Request]
      /\ \A q \in Requests : q # r => request'[q] = request[q]
  BY Types DEF TaskInv
<1>2. TypeOK'
  BY <1>1 DEF TaskInv, TypeOK, StoreTypeOK
<1> QED BY <1>1, <1>2, OthersStay DEF TaskInv

LEMMA NoRequestType == \A at \in {"idle", "done"} : NoRequest(at) \in Request /\ NoRequest(at).at = at
BY RestTypes DEF NoRequest, Request, DueDates

LEMMA AskTaskInv ==
  ASSUME TaskInv, NEW r \in Requests, NEW t \in TaskIds, NEW change, NEW value, NEW at,
         Ask(r, t, change, value, at), change \in ChangeKinds \ {"create"},
         \/ change = "append" /\ at = "reading" /\ value = "pending"
         \/ change = "status" /\ at = "writing" /\ value \in TaskStatuses \ {"absent"}
         \/ change = "schedule" /\ at = "writing" /\ value \in DueDates,
         UNCHANGED <<worker, failures>>
  PROVE  TaskInv'
<1> DEFINE new == [at |-> at, change |-> change, value |-> value, task |-> t,
                   asked |-> IF at = "reading" THEN task[t].asked ELSE {},
                   row |-> IF at = "reading" THEN NoTask ELSE task[t]]
<1>1. /\ request' = [request EXCEPT ![r] = new] /\ UNCHANGED <<task, owed, credit>>
      /\ change \in Changes /\ Exists(t)
  BY DEF Ask
<1>2. task[t] \in Task /\ task[t].asked \in SUBSET Requests
  BY Types DEF TaskInv, Task
<1>3. value \in TaskStatuses \cup DueDates
  BY DEF TaskStatuses, ActiveStatuses
<1>4. new \in Request
  BY <1>1, <1>2, <1>3, RestTypes DEF Request
<1>5. /\ new.at = at /\ new.change = change /\ new.value = value /\ new.task = t
      /\ at = "writing" => new.row = task[t]
  OBVIOUS
<1> HIDE DEF new
<1>6. request'[r] = new
  BY <1>1, Types DEF TaskInv
<1>7. RequestOK(r)'
  BY <1>1, <1>5, <1>6 DEF RequestOK, Exists
<1>8. RowsStay
  BY <1>1 DEF RowsStay, Exists
<1> QED BY <1>1, <1>4, <1>7, <1>8, OneRequest, Types DEF TaskInv

\* What a request writes is the row it read with one change.
LEMMA ChangedRow ==
  ASSUME TaskInv, NEW r \in Requests, request[r].at = "writing"
  PROVE  /\ request[r].task \in TaskIds /\ Exists(request[r].task)
         /\ Changed(r) \in Task /\ Changed(r).kind = task[request[r].task].kind
         /\ Changed(r).status # "absent"
<1> DEFINE ask == request[r]
<1>1. ask \in Request /\ RequestOK(r)
  BY Types DEF TaskInv
<1>2. /\ ask.row \in Task /\ ask.row.kind = task[ask.task].kind /\ ask.row.status # "absent"
      /\ ask.task \in TaskIds /\ Exists(ask.task) /\ ask.asked \in SUBSET Requests
      /\ ask.change \in {"append", "status", "schedule"}
  BY <1>1 DEF RequestOK, Request, ChangeKinds
<1>3. CASE ask.change = "append"
  BY <1>2, <1>3 DEF Changed, Task, TaskStatuses, ActiveStatuses
<1>4. CASE ask.change = "status"
  <2>1. ask.value \in TaskStatuses \ {"absent"}
    BY <1>1, <1>4 DEF RequestOK
  <2> QED BY <1>2, <1>4, <2>1 DEF Changed, Task
<1>5. CASE ask.change = "schedule"
  <2>1. ask.value \in DueDates
    BY <1>1, <1>5 DEF RequestOK
  <2> QED BY <1>2, <1>5, <2>1 DEF Changed, Task
<1> QED BY <1>2, <1>3, <1>4, <1>5

LEMMA RequestTaskInv ==
  ASSUME TaskInv, NEW r \in Requests, RequestStep(r), UNCHANGED <<worker, failures>>
  PROVE  TaskInv'
<1>t. TypeOK /\ request[r] \in Request /\ RequestOK(r)
  BY Types DEF TaskInv
<1>d. NoRequest("done") \in Request /\ NoRequest("done").at = "done"
  BY NoRequestType
<1>1. ASSUME NEW t \in TaskIds, CreateTask(r, t) PROVE TaskInv'
  <2>1. PICK kind \in OneOff, due \in SetDates : InsertTask(t, kind, due)
    BY <1>1 DEF CreateTask
  <2>2. task' \in [TaskIds -> Task] /\ credit' \in [TaskIds -> Int] /\ RowsStay /\ UNCHANGED owed
    BY <2>1, <1>t, InsertRows DEF Kinds, SetDates, DueDates, InsertTask
  <2>3. request' = [request EXCEPT ![r] = NoRequest("done")]
    BY <1>1 DEF CreateTask
  <2>4. RequestOK(r)'
    BY <2>3, <1>d, <1>t, Types DEF RequestOK
  <2> QED BY <2>2, <2>3, <2>4, <1>d, <1>t, OneRequest, Types
<1>2. ASSUME NEW t \in TaskIds, AppendPrompt(r, t) PROVE TaskInv'
  BY <1>2, AskTaskInv DEF AppendPrompt, ChangeKinds
<1>3. ASSUME NEW t \in TaskIds, SetStatus(r, t) PROVE TaskInv'
  BY <1>3, AskTaskInv DEF SetStatus, ChangeKinds
<1>4. ASSUME NEW t \in TaskIds, Reschedule(r, t) PROVE TaskInv'
  BY <1>4, AskTaskInv DEF Reschedule, ChangeKinds, SetDates, DueDates
<1>5. CASE ReadTask(r)
  <2> DEFINE new == [request[r] EXCEPT !.at = "writing", !.row = task[request[r].task]]
  <2>1. request[r].task \in TaskIds /\ task[request[r].task] \in Task
    BY <1>5, <1>t, Types DEF ReadTask, RequestOK
  <2>2. /\ request' = [request EXCEPT ![r] = new] /\ UNCHANGED <<task, owed, credit>>
        /\ request[r].at = "reading"
    BY <1>5, <1>t, Types DEF ReadTask, Request
  <2>3. /\ new \in Request /\ new.row = task[request[r].task] /\ new.task = request[r].task
        /\ new.change = request[r].change /\ new.value = request[r].value /\ new.at = "writing"
    BY <2>1, <1>t DEF Request
  <2> HIDE DEF new
  <2>4. RequestOK(r)' /\ RowsStay
    BY <2>1, <2>2, <2>3, <1>t, Types DEF RequestOK, Exists, RowsStay
  <2> QED BY <2>2, <2>3, <2>4, <1>t, OneRequest, Types
<1>6. CASE WriteTask(r)
  <2>1. /\ request[r].at = "writing" /\ Overwrite(request[r].task, Changed(r))
        /\ request' = [request EXCEPT ![r] = NoRequest("done")]
    BY <1>6 DEF WriteTask
  <2>2. task' \in [TaskIds -> Task] /\ RowsStay /\ request[r].task \in TaskIds
    BY <2>1, <1>t, ChangedRow, OverwriteRows
  <2>3. owed' \in [TaskIds -> SUBSET Requests]
    BY <1>6, <1>t, Types DEF WriteTask
  <2>4. credit' \in [TaskIds -> Int]
    <3>1. credit' = credit \/ credit' = [credit EXCEPT ![request[r].task] = @ + 1]
      BY <1>6 DEF WriteTask
    <3> QED BY <3>1, <2>2, <1>t, Types
  <2>5. RequestOK(r)'
    BY <2>1, <1>d, <1>t, Types DEF RequestOK
  <2> QED BY <2>1, <2>2, <2>3, <2>4, <2>5, <1>d, OneRequest
<1>7. CASE DropRequest(r)
  <2>1. request' = [request EXCEPT ![r] = NoRequest("done")] /\ UNCHANGED <<task, owed, credit>>
    BY <1>7 DEF DropRequest
  <2>2. RequestOK(r)' /\ RowsStay
    BY <2>1, <1>d, <1>t, Types DEF RequestOK, RowsStay, Exists
  <2> QED BY <2>1, <2>2, <1>d, <1>t, OneRequest, Types
<1> QED BY <1>1, <1>2, <1>3, <1>4, <1>5, <1>6, <1>7 DEF RequestStep, FinishRequest

-----------------------------------------------------------------------------
(***************************************************************************)
(* The steps of a worker, in the order of a tick.                          *)
(***************************************************************************)
LEMMA RecoveryTaskInv ==
  ASSUME TaskInv, NEW w \in Workers, UNCHANGED failures,
         StartTick(w) \/ RecoverClaim(w) \/ Cover(w)
  PROVE  TaskInv'
<1>f. failures' \in 0..MaxFailures
  BY Mine
<1>1. CASE StartTick(w)
  <2> DEFINE todo == {ClaimOf(t) : t \in {u \in TaskIds : ExpiredClaim(u)}}
             mem == [worker[w] EXCEPT !.at = "recovering", !.todo = todo]
  <2>1. \A claim \in todo : claim \in Claim /\ claim.task \in TaskIds /\ Exists(claim.task)
    BY Types DEF TaskInv, ClaimOf, ExpiredClaim, Exists, Claim, Task
  <2>2. /\ worker' = [worker EXCEPT ![w].at = "recovering", ![w].todo = todo]
        /\ UNCHANGED storeVars /\ At(w, "idle")
    BY <1>1 DEF StartTick
  <2> HIDE DEF todo
  <2>3. worker' = [worker EXCEPT ![w] = mem]
    BY <2>2, Mine DEF Memory
  <2>4. mem \in Memory
    BY <2>1, MyMemory DEF Memory, WorkerPoints
  <2>5. /\ mem.at = "recovering" /\ mem.todo = todo /\ mem.phase = worker[w].phase
        /\ mem.outcome = worker[w].outcome /\ mem.errors = worker[w].errors
    BY Mine DEF Memory
  <2> HIDE DEF mem
  <2>6. MemoryOK(mem)
    BY <2>1, <2>2, <2>5, Mine
       DEF MemoryOK, PhaseOK, RowsOK, KindOK, Working, Running, Settling, Leaving, At
  <2> QED BY <2>2, <2>3, <2>4, <2>6, <1>f, MemoryTaskInv
<1>2. CASE RecoverClaim(w)
  <2>1. PICK claim \in worker[w].todo : TakeUp(w, claim, "reading")
    BY <1>2 DEF RecoverClaim
  <2> DEFINE mem == [worker[w] EXCEPT !.at = "reading", !.current = claim, !.todo = @ \ {claim}]
  <2>2. /\ worker' = [worker EXCEPT ![w] = mem] /\ UNCHANGED storeVars
        /\ worker[w].at = "recovering"
    BY <1>2, <2>1, Mine DEF TakeUp, Memory, RecoverClaim, At
  <2>3. claim \in Claim /\ claim.task \in TaskIds /\ Exists(claim.task)
    BY <2>1, Mine DEF Memory, RowsOK
  <2>4. mem \in Memory
    BY <2>3, MyMemory DEF Memory, WorkerPoints
  <2>5. /\ mem.at = "reading" /\ mem.todo \subseteq worker[w].todo /\ mem.phase = worker[w].phase
        /\ mem.outcome = worker[w].outcome /\ mem.current = claim
        /\ mem.errors = worker[w].errors
    BY Mine DEF Memory
  <2> HIDE DEF mem
  <2>6. MemoryOK(mem)
    BY <2>2, <2>3, <2>5, Mine
       DEF MemoryOK, PhaseOK, RowsOK, KindOK, Working, Running, Settling, Leaving
  <2> QED BY <2>2, <2>4, <2>6, <1>f, MemoryTaskInv
<1>3. CASE Cover(w)
  <2> DEFINE mem == [worker[w] EXCEPT !.at = "listing", !.tried = TRUE]
  <2>1. /\ worker' = [worker EXCEPT ![w] = mem] /\ UNCHANGED storeVars
        /\ worker[w].at = "covering"
    BY <1>3, Mine DEF Memory, Cover, At
  <2>2. mem \in Memory
    BY MyMemory DEF Memory, WorkerPoints
  <2>3. /\ mem.at = "listing" /\ mem.todo = worker[w].todo /\ mem.phase = worker[w].phase
        /\ mem.current = worker[w].current /\ mem.tried /\ mem.errors = worker[w].errors
    BY Mine DEF Memory
  <2> HIDE DEF mem
  <2>4. MemoryOK(mem)
    BY <2>1, <2>3, Mine
       DEF MemoryOK, PhaseOK, RowsOK, KindOK, Working, Running, Settling, Leaving
  <2> QED BY <2>1, <2>2, <2>4, <1>f, MemoryTaskInv
<1> QED BY <1>1, <1>2, <1>3

LEMMA UpkeepTaskInv ==
  ASSUME TaskInv, NEW w \in Workers, UNCHANGED failures,
         \/ Maintain(w) \/ ListRecurrence(w) \/ Reconciled(w) \/ EndTick(w)
         \/ \E t \in TaskIds :
              CancelDuplicate(w, t) \/ \E kind \in Recurrences : CreateMissing(w, kind, t)
  PROVE  TaskInv'
<1>f. failures' \in 0..MaxFailures /\ TypeOK
  BY Mine DEF TaskInv
<1>1. CASE Maintain(w)
  <2>1. /\ worker' = [worker EXCEPT ![w] =
             [worker[w] EXCEPT !.at = "reconciling", !.duplicates = Duplicates(Recurrences),
                !.missing = Missing(Recurrences), !.phase = "upkeep", !.current = @]]
        /\ UNCHANGED storeVars
    BY <1>1, Mine DEF Maintain, Reconcile, Memory
  <2>2. worker[w].current \in Claim
    BY Mine DEF Memory
  <2> QED BY <2>1, <2>2, <1>f, ReconcileTaskInv
<1>2. CASE ListRecurrence(w)
  <2>1. /\ CurrentKind(w) \in Recurrences /\ worker[w].phase \in {"recovery", "runs"}
        /\ worker[w].phase = "recovery" => worker[w].errors = 0
    BY <1>2, Mine DEF ListRecurrence, KindOK, PhaseOK, Leaving, At, CurrentKind, Current
  <2> DEFINE kinds == {CurrentKind(w)}
  <2>2. kinds \in SUBSET Recurrences
    BY <2>1
  <2>3. /\ worker' = [worker EXCEPT ![w] =
             [worker[w] EXCEPT !.at = "reconciling", !.duplicates = Duplicates(kinds),
                !.missing = Missing(kinds), !.phase = @, !.current = NoClaim]]
        /\ UNCHANGED storeVars
    BY <1>2, Mine DEF ListRecurrence, Reconcile, Memory
  <2> HIDE DEF kinds
  <2> QED BY <2>1, <2>2, <2>3, <1>f, RestTypes, ReconcileTaskInv
<1>3. CASE Reconciled(w)
  <2>1. UNCHANGED storeVars
    BY <1>3 DEF Reconciled
  <2>2. CASE NextRow(w, "recovery", "recovering")
    BY <2>1, <2>2, <1>f, NextRowTaskInv
  <2>3. CASE NextRow(w, "upkeep", "claiming")
    BY <2>1, <2>3, <1>f, NextRowTaskInv
  <2>4. CASE NextRow(w, "runs", "picking")
    BY <2>1, <2>4, <1>f, NextRowTaskInv
  <2>5. CASE worker' = [worker EXCEPT ![w] = AtRest]
    BY <2>1, <2>5, <1>f, RestTaskInv
  <2>6. \/ NextRow(w, "recovery", "recovering") \/ NextRow(w, "upkeep", "claiming")
        \/ NextRow(w, "runs", "picking") \/ worker' = [worker EXCEPT ![w] = AtRest]
    <3>1. CASE Phase(w) = "recovery"
      BY <1>3, <3>1 DEF Reconciled
    <3>2. CASE Phase(w) = "upkeep"
      BY <1>3, <3>2 DEF Reconciled
    <3>3. CASE Phase(w) = "runs"
      BY <1>3, <3>3 DEF Reconciled
    <3> QED BY <3>1, <3>2, <3>3, Mine DEF Phase, Memory
  <2> QED BY <2>2, <2>3, <2>4, <2>5, <2>6
<1>4. CASE EndTick(w)
  BY <1>4, <1>f, RestTaskInv DEF EndTick
<1>5. ASSUME NEW t \in TaskIds, CancelDuplicate(w, t) PROVE TaskInv'
  <2> DEFINE mem == [worker[w] EXCEPT !.duplicates = @ \ {t}]
  <2>1. /\ worker' = [worker EXCEPT ![w] = mem] /\ UNCHANGED <<request, owed, credit>>
        /\ worker[w].at = "reconciling"
    BY <1>5, Mine DEF Memory, CancelDuplicate, At
  <2> DEFINE row == [task[t] EXCEPT !.status = "cancelled"]
  <2>2. /\ row \in Task /\ row.kind = task[t].kind /\ row.status # "absent"
        /\ [row EXCEPT !.stale = FALSE] \in Task
        /\ [row EXCEPT !.stale = FALSE].kind = task[t].kind
        /\ [row EXCEPT !.stale = FALSE].status = "cancelled"
    BY <1>f, Types DEF Task, TaskStatuses, EndedStatuses
  <2>3. task' = [task EXCEPT ![t] = [row EXCEPT !.stale = FALSE]]
    BY <1>5 DEF CancelDuplicate, Overwrite
  <2>4. task' \in [TaskIds -> Task] /\ RowsStay
    <3> HIDE DEF row
    <3> QED BY <2>2, <2>3, <1>f, Types DEF RowsStay, Exists
  <2>5. StoreTypeOK'
    BY <2>1, <2>4, <1>f DEF TypeOK, StoreTypeOK
  <2>6. /\ mem \in Memory /\ mem.at = "reconciling" /\ mem.todo = worker[w].todo
        /\ mem.phase = worker[w].phase /\ mem.errors = worker[w].errors
    BY <2>1, MyMemory DEF Memory
  <2> HIDE DEF mem
  <2>7. MemoryOK(mem)
    BY <2>6, Mine
       DEF MemoryOK, PhaseOK, RowsOK, KindOK, Working, Running, Settling, Leaving
  <2> QED BY <2>1, <2>4, <2>5, <2>6, <2>7, <1>f, WorkerTaskInv
<1>6. ASSUME NEW t \in TaskIds, NEW kind \in Recurrences, CreateMissing(w, kind, t)
      PROVE  TaskInv'
  <2> DEFINE mem == [worker[w] EXCEPT !.missing = @ \ {kind}]
  <2>1. /\ worker' = [worker EXCEPT ![w] = mem] /\ UNCHANGED <<request, owed>>
        /\ worker[w].at = "reconciling" /\ InsertTask(t, kind, "later")
    BY <1>6, Mine DEF Memory, CreateMissing, InsertTask, At
  <2>2. task' \in [TaskIds -> Task] /\ credit' \in [TaskIds -> Int] /\ RowsStay
    BY <2>1, <1>f, InsertRows DEF Kinds, DueDates
  <2>3. StoreTypeOK'
    BY <2>1, <2>2, <1>f DEF TypeOK, StoreTypeOK
  <2>4. /\ mem \in Memory /\ mem.at = "reconciling" /\ mem.todo = worker[w].todo
        /\ mem.phase = worker[w].phase /\ mem.errors = worker[w].errors
    BY <2>1, MyMemory DEF Memory
  <2> HIDE DEF mem
  <2>5. MemoryOK(mem)
    BY <2>4, Mine
       DEF MemoryOK, PhaseOK, RowsOK, KindOK, Working, Running, Settling, Leaving
  <2> QED BY <2>1, <2>2, <2>3, <2>4, <2>5, <1>f, WorkerTaskInv
<1> QED BY <1>1, <1>2, <1>3, <1>4, <1>5, <1>6

LEMMA ClaimTaskInv ==
  ASSUME TaskInv, NEW w \in Workers, UNCHANGED failures,
         ClaimDue(w) \/ \E claim \in worker[w].todo : BeginRun(w, claim)
  PROVE  TaskInv'
<1>f. failures' \in 0..MaxFailures /\ TypeOK
  BY Mine DEF TaskInv
<1>1. CASE ClaimDue(w)
  <2>1. PICK batch \in ClaimableBatches(ClaimLimit) :
          /\ ClaimTasks(batch)
          /\ worker' = [worker EXCEPT ![w] = [AtRest EXCEPT !.at = "picking", !.phase = "runs",
                                                !.todo = {ClaimOf(t) : t \in batch}]]
    BY <1>1 DEF ClaimDue
  <2>2. batch \in SUBSET TaskIds /\ \A t \in batch : Exists(t)
    BY DEF ClaimableBatches, Claimable, Exists
  <2> DEFINE todo == {ClaimOf(t) : t \in batch}
             mem == [AtRest EXCEPT !.at = "picking", !.phase = "runs", !.todo = todo]
  <2>3. \A claim \in todo : claim \in Claim /\ claim.task \in TaskIds /\ Exists(claim.task)
    BY <2>2, <1>f, Types DEF ClaimOf, Claim, Task
  <2>4. worker' = [worker EXCEPT ![w] = mem]
    BY <2>1
  <2> HIDE DEF todo
  <2>5. mem \in Memory /\ mem.at = "picking" /\ mem.phase = "runs" /\ mem.todo = todo
    BY <2>3, RestTypes DEF Memory, WorkerPoints
  <2> HIDE DEF mem
  <2>6. MemoryOK(mem)
    BY <2>3, <2>5 DEF MemoryOK, PhaseOK, RowsOK, KindOK, Working, Running, Settling, Leaving
  <2>7. task' \in [TaskIds -> Task] /\ RowsStay /\ UNCHANGED <<request, owed, credit>>
    BY <2>1, <2>2, <1>f, ClaimRows DEF ClaimTasks
  <2>8. StoreTypeOK'
    BY <2>7, <1>f DEF TypeOK, StoreTypeOK
  <2> QED BY <2>4, <2>5, <2>6, <2>7, <2>8, <1>f, WorkerTaskInv
<1>2. ASSUME NEW claim \in worker[w].todo, BeginRun(w, claim) PROVE TaskInv'
  <2> DEFINE point == IF task[claim.task].kind = "message" THEN "messaging" ELSE "running"
             mem == [worker[w] EXCEPT !.at = point, !.current = claim, !.todo = @ \ {claim}]
  <2>1. /\ worker' = [worker EXCEPT ![w].at = point, ![w].current = claim, ![w].todo = @ \ {claim}]
        /\ worker[w].at = "picking" /\ UNCHANGED <<task, request>>
    BY <1>2 DEF BeginRun, TakeUp, At
  <2>2. claim \in Claim /\ claim.task \in TaskIds /\ Exists(claim.task)
    BY Mine DEF Memory, RowsOK
  <2>3. /\ point \in {"messaging", "running"}
        /\ point = "messaging" => task[claim.task].kind = "message"
        /\ point = "running" => task[claim.task].kind # "message"
    OBVIOUS
  <2> HIDE DEF point
  <2>4. worker' = [worker EXCEPT ![w] = mem]
    BY <2>1, Mine DEF Memory
  <2>5. mem \in Memory
    <3>1. point \in WorkerPoints
      BY <2>3 DEF WorkerPoints
    <3> QED BY <2>2, <3>1, MyMemory DEF Memory
  <2>6. /\ mem.at = point /\ mem.todo \subseteq worker[w].todo /\ mem.phase = worker[w].phase
        /\ mem.current = claim
    BY MyMemory DEF Memory
  <2> HIDE DEF mem
  <2>7. MemoryOK(mem)
    BY <2>1, <2>2, <2>3, <2>6, Mine
       DEF MemoryOK, PhaseOK, RowsOK, KindOK, Working, Running, Settling, Leaving
  <2>8. owed' \in [TaskIds -> SUBSET Requests] /\ credit' \in [TaskIds -> Int]
    <3>1. /\ owed' = [owed EXCEPT ![claim.task] = @ \ claim.asked]
          /\ credit' = [credit EXCEPT ![claim.task] = @ - 1]
      BY <1>2 DEF BeginRun
    <3>2. owed \in [TaskIds -> SUBSET Requests] /\ credit \in [TaskIds -> Int]
      BY <1>f, Types
    <3>3. owed[claim.task] \ claim.asked \in SUBSET Requests /\ credit[claim.task] - 1 \in Int
      BY <2>2, <3>2
    <3> QED BY <3>1, <3>2, <3>3
  <2>9. StoreTypeOK' /\ RowsStay /\ UNCHANGED request
    BY <2>1, <2>8, <1>f DEF TypeOK, StoreTypeOK, RowsStay, Exists
  <2> QED BY <2>4, <2>5, <2>7, <2>9, <1>f, WorkerTaskInv
<1> QED BY <1>1, <1>2

\* The steps of a run that only change what the worker remembers.
LEMMA RunTaskInv ==
  ASSUME TaskInv, NEW w \in Workers, UNCHANGED failures,
         \/ QueueOwnerMessage(w) \/ RefuseOwnerMessage(w)
         \/ \E outcome \in {"completed", "failed"} : EndRun(w, outcome)
         \/ QueueCheckIn(w) \/ Catch(w)
  PROVE  TaskInv'
<1>f. failures' \in 0..MaxFailures
  BY Mine
<1>1. CASE QueueOwnerMessage(w)
  <2> DEFINE mem == [worker[w] EXCEPT !.at = "reading", !.outcome = "completed", !.sent = TRUE]
  <2>1. /\ worker' = [worker EXCEPT ![w] = mem] /\ UNCHANGED storeVars
        /\ worker[w].at = "messaging"
    BY <1>1, Mine DEF QueueOwnerMessage, Memory, At
  <2>2. mem \in Memory
    BY MyMemory DEF Memory, WorkerPoints, EndedStatuses
  <2>3. /\ mem.at = "reading" /\ mem.todo = worker[w].todo /\ mem.phase = worker[w].phase
        /\ mem.current = worker[w].current /\ mem.sent
    BY MyMemory DEF Memory
  <2> HIDE DEF mem
  <2>4. MemoryOK(mem)
    BY <2>1, <2>3, Mine
       DEF MemoryOK, PhaseOK, RowsOK, KindOK, Working, Running, Settling, Leaving, OneOff
  <2> QED BY <2>1, <2>2, <2>4, <1>f, MemoryTaskInv
<1>2. CASE RefuseOwnerMessage(w)
  <2>1. /\ ToCatch(w) /\ UNCHANGED storeVars /\ worker[w].at \in Running
        /\ worker[w].phase = "runs"
    BY <1>2, Mine DEF RefuseOwnerMessage, PhaseOK, Running, At
  <2> QED BY <2>1, <1>f, CatchTaskInv
<1>3. ASSUME NEW outcome \in {"completed", "failed"}, EndRun(w, outcome) PROVE TaskInv'
  <2> DEFINE point == AfterRun(w)
             mem == [worker[w] EXCEPT !.at = point, !.outcome = outcome]
  <2>1. /\ worker' = [worker EXCEPT ![w] = mem] /\ UNCHANGED storeVars
        /\ worker[w].at = "running"
    BY <1>3, Mine DEF EndRun, Memory, At
  <2>2. /\ point \in {"queueing", "reading"}
        /\ point = "queueing" <=> task[worker[w].current.task].kind = CheckIn
    BY DEF AfterRun, CurrentKind, Current
  <2> HIDE DEF point
  <2>3. mem \in Memory
    BY <2>2, MyMemory DEF Memory, WorkerPoints, EndedStatuses
  <2>4. /\ mem.at = point /\ mem.todo = worker[w].todo /\ mem.phase = worker[w].phase
        /\ mem.current = worker[w].current
    BY MyMemory DEF Memory
  <2> HIDE DEF mem
  <2>5. MemoryOK(mem)
    BY <2>1, <2>2, <2>4, Mine
       DEF MemoryOK, PhaseOK, RowsOK, KindOK, Working, Running, Settling, Leaving
  <2> QED BY <2>1, <2>3, <2>5, <1>f, MemoryTaskInv
<1>4. CASE QueueCheckIn(w)
  <2> DEFINE mem == [worker[w] EXCEPT !.at = "reading", !.tried = TRUE, !.sent = TRUE]
  <2>1. /\ worker' = [worker EXCEPT ![w] = mem] /\ UNCHANGED storeVars
        /\ worker[w].at = "queueing"
    BY <1>4, Mine DEF QueueCheckIn, Memory, At
  <2>2. mem \in Memory
    BY MyMemory DEF Memory, WorkerPoints
  <2>3. /\ mem.at = "reading" /\ mem.todo = worker[w].todo /\ mem.phase = worker[w].phase
        /\ mem.current = worker[w].current /\ mem.sent /\ mem.tried
    BY MyMemory DEF Memory
  <2> HIDE DEF mem
  <2>4. MemoryOK(mem)
    BY <2>1, <2>3, Mine
       DEF MemoryOK, PhaseOK, RowsOK, KindOK, Working, Running, Settling, Leaving
  <2> QED BY <2>1, <2>2, <2>4, <1>f, MemoryTaskInv
<1>5. CASE Catch(w)
  <2> DEFINE mem == [worker[w] EXCEPT !.at = "reading", !.tried = @ \/ CurrentKind(w) = CheckIn]
  <2>1. /\ worker' = [worker EXCEPT ![w] = mem] /\ UNCHANGED storeVars
        /\ worker[w].at = "catching"
    BY <1>5, Mine DEF Catch, Memory, At
  <2>2. mem \in Memory
    BY MyMemory DEF Memory, WorkerPoints
  <2>3. /\ mem.at = "reading" /\ mem.todo = worker[w].todo /\ mem.phase = worker[w].phase
        /\ mem.current = worker[w].current /\ mem.outcome = worker[w].outcome
        /\ task[worker[w].current.task].kind = CheckIn => mem.tried
    BY MyMemory DEF Memory, CurrentKind, Current
  <2> HIDE DEF mem
  <2>4. MemoryOK(mem)
    BY <2>1, <2>3, Mine
       DEF MemoryOK, PhaseOK, RowsOK, KindOK, Working, Running, Settling, Leaving
  <2> QED BY <2>1, <2>2, <2>4, <1>f, MemoryTaskInv
<1> QED BY <1>1, <1>2, <1>3, <1>4, <1>5

LEMMA SettleTaskInv ==
  ASSUME TaskInv, NEW w \in Workers, UNCHANGED failures, ReadRow(w) \/ WriteRow(w) \/ Note(w)
  PROVE  TaskInv'
<1>f. failures' \in 0..MaxFailures /\ TypeOK
  BY Mine DEF TaskInv
<1>1. CASE ReadRow(w)
  <2> DEFINE mem == [worker[w] EXCEPT !.at = "writing", !.row = task[Current(w)]]
  <2>1. /\ worker' = [worker EXCEPT ![w] = mem] /\ UNCHANGED storeVars
        /\ worker[w].at = "reading" /\ Current(w) = worker[w].current.task
    BY <1>1, Mine DEF ReadRow, Memory, At, Current
  <2>2. task[Current(w)] \in Task
    BY <2>1, Mine, Types, <1>f DEF Working, Settling
  <2>3. mem \in Memory
    BY <2>2, MyMemory DEF Memory, WorkerPoints
  <2>4. /\ mem.at = "writing" /\ mem.todo = worker[w].todo /\ mem.phase = worker[w].phase
        /\ mem.current = worker[w].current /\ mem.outcome = worker[w].outcome
        /\ mem.tried = worker[w].tried /\ mem.sent = worker[w].sent
        /\ mem.errors = worker[w].errors
        /\ mem.row = task[worker[w].current.task]
    BY <2>1, MyMemory DEF Memory
  <2> HIDE DEF mem
  <2>5. MemoryOK(mem)
    BY <2>1, <2>4, Mine
       DEF MemoryOK, PhaseOK, RowsOK, KindOK, Working, Running, Settling, Leaving, Exists
  <2> QED BY <2>1, <2>3, <2>5, <1>f, MemoryTaskInv
<1>2. CASE WriteRow(w)
  <2> DEFINE mem == [worker[w] EXCEPT !.at = "noting", !.row = NoTask]
  <2>1. /\ worker' = [worker EXCEPT ![w] = mem] /\ UNCHANGED <<request, owed, credit>>
        /\ worker[w].at = "writing" /\ Overwrite(Current(w), Settled(w))
        /\ Current(w) = worker[w].current.task
    BY <1>2, Mine DEF WriteRow, Memory, At, Current
  <2>2. mem \in Memory
    BY MyMemory, RestTypes DEF Memory, WorkerPoints
  <2>3. /\ mem.at = "noting" /\ mem.todo = worker[w].todo /\ mem.phase = worker[w].phase
        /\ mem.current = worker[w].current /\ mem.outcome = worker[w].outcome
        /\ mem.tried = worker[w].tried /\ mem.sent = worker[w].sent
        /\ mem.errors = worker[w].errors
    BY MyMemory DEF Memory
  <2> HIDE DEF mem
  <2>4. MemoryOK(mem)
    BY <2>1, <2>3, Mine
       DEF MemoryOK, PhaseOK, RowsOK, KindOK, Working, Running, Settling, Leaving
  <2>5. /\ worker[w].row \in Task /\ worker[w].outcome \in EndedStatuses
        /\ Current(w) \in TaskIds /\ Exists(Current(w))
        /\ worker[w].row.kind = task[Current(w)].kind
    BY <2>1, Mine DEF Memory, RowsOK, Working, Settling
  <2>6. /\ Settled(w) \in Task /\ Settled(w).kind = task[Current(w)].kind
        /\ Settled(w).status # "absent"
    BY <2>5 DEF Settled, Task, TaskStatuses, EndedStatuses
  <2>7. task' \in [TaskIds -> Task] /\ RowsStay
    BY <2>1, <2>5, <2>6, <1>f, OverwriteRows
  <2>8. StoreTypeOK'
    BY <2>1, <2>7, <1>f DEF TypeOK, StoreTypeOK
  <2> QED BY <2>1, <2>2, <2>4, <2>7, <2>8, <1>f, WorkerTaskInv
<1>3. CASE Note(w)
  <2>1. /\ LeaveTask(w, worker[w].errors) /\ UNCHANGED storeVars
        /\ worker[w].at \in Settling /\ worker[w].errors \in 0..2
    BY <1>3, MyMemory DEF Note, At, Settling, Memory
  <2>2. worker[w].phase = "recovery" => worker[w].errors = 0
    BY Mine DEF PhaseOK
  <2> QED BY <2>1, <2>2, <1>f, LeaveTaskInv
<1> QED BY <1>1, <1>2, <1>3

-----------------------------------------------------------------------------
(***************************************************************************)
(* What is not a step of the program, and the whole.                       *)
(***************************************************************************)
LEMMA FailTaskInv ==
  ASSUME TaskInv, Fail
  PROVE  TaskInv'
<1>1. failures' \in 0..MaxFailures
  BY DEF Fail, TaskInv, TypeOK
<1>2. ASSUME NEW w \in Workers, Throw(w) PROVE TaskInv'
  <2>1. /\ ToCatch(w) /\ UNCHANGED storeVars /\ worker[w].phase = "runs"
        /\ worker[w].at \in Running \cup Settling
    BY <1>2 DEF Throw, Phase, Running, Settling
  <2> QED BY <2>1, <1>1, CatchTaskInv
<1>3. ASSUME NEW w \in Workers, ThrowInCatch(w) PROVE TaskInv'
  <2>1. /\ LeaveTask(w, 2) /\ UNCHANGED storeVars /\ worker[w].phase = "runs"
        /\ worker[w].at \in Settling
    BY <1>3 DEF ThrowInCatch, Phase, Settling
  <2> QED BY <2>1, <1>1, LeaveTaskInv
<1>4. ASSUME NEW w \in Workers, Crash(w) PROVE TaskInv'
  BY <1>1, <1>4, RestTaskInv DEF Crash
<1> QED BY <1>2, <1>3, <1>4 DEF Fail

LEMMA ClockTaskInv ==
  ASSUME TaskInv, NEW t \in TaskIds, TimePasses(t)
  PROVE  TaskInv'
<1>1. /\ task' = [task EXCEPT ![t].due = "now"] \/ task' = [task EXCEPT ![t].stale = TRUE]
      /\ UNCHANGED <<request, owed, credit, worker, failures>>
  BY DEF TimePasses
<1>2. /\ \A u \in TaskIds : task'[u] \in Task /\ task'[u].kind = task[u].kind
                            /\ task'[u].status = task[u].status
      /\ task' \in [TaskIds -> Task]
  <2> DEFINE due == [task[t] EXCEPT !.due = "now"]
             old == [task[t] EXCEPT !.stale = TRUE]
  <2>1. /\ due \in Task /\ due.kind = task[t].kind /\ due.status = task[t].status
        /\ old \in Task /\ old.kind = task[t].kind /\ old.status = task[t].status
    BY Types DEF TaskInv, Task, DueDates
  <2>2. task' = [task EXCEPT ![t] = due] \/ task' = [task EXCEPT ![t] = old]
    BY <1>1
  <2> HIDE DEF due, old
  <2> QED BY <2>1, <2>2, Types DEF TaskInv
<1>3. TypeOK' /\ RowsStay
  BY <1>1, <1>2 DEF TaskInv, TypeOK, StoreTypeOK, RowsStay, Exists
<1> QED BY <1>1, <1>3, OthersStay DEF TaskInv

LEMMA ForgetTaskInv ==
  ASSUME TaskInv, NEW t \in TaskIds, Forget(t)
  PROVE  TaskInv'
<1>1. /\ task' = [task EXCEPT ![t] = NoTask] /\ owed' = [owed EXCEPT ![t] = {}]
      /\ credit' = [credit EXCEPT ![t] = 0] /\ UNCHANGED <<request, worker, failures>>
      /\ \A r \in Requests : request[r].task # t
      /\ \A w \in Workers : worker[w].current.task # t
      /\ \A w \in Workers : \A claim \in worker[w].todo : claim.task # t
  BY DEF Forget, InUse, Holds, Current
<1>2. TypeOK'
  BY <1>1, RestTypes, Types DEF TaskInv, TypeOK, StoreTypeOK
<1>3. \A u \in TaskIds : u # t => task'[u] = task[u]
  BY <1>1, Types DEF TaskInv
<1>4. \A r \in Requests : RequestOK(r)'
  BY <1>1, <1>3 DEF TaskInv, RequestOK, Exists
<1>5. ASSUME NEW w \in Workers PROVE MemoryOK(worker[w])'
  <2>1. PhaseOK(worker[w])' /\ RowsOK(worker[w])'
    BY <1>1, <1>3, Mine DEF PhaseOK, RowsOK, Exists, Working, Settling
  <2>2. CASE worker[w].at \in Working
    <3>1. task'[worker[w].current.task] = task[worker[w].current.task]
      BY <1>1, <1>3, <2>2, Mine DEF RowsOK
    <3> QED BY <1>1, <2>1, <3>1, Mine DEF KindOK, MemoryOK
  <2>3. CASE worker[w].at \notin Working
    BY <1>1, <2>1, <2>3 DEF KindOK, MemoryOK, Working, Running, Settling, Leaving
  <2> QED BY <2>2, <2>3
<1> QED BY <1>2, <1>4, <1>5 DEF TaskInv

LEMMA WorkerStepTaskInv ==
  ASSUME TaskInv, NEW w \in Workers, WorkerStep(w)
  PROVE  TaskInv'
<1>1. UNCHANGED failures
  BY DEF WorkerStep
<1>2. \/ StartTick(w) \/ RecoverClaim(w) \/ Cover(w)
      \/ \/ Maintain(w) \/ ListRecurrence(w) \/ Reconciled(w) \/ EndTick(w)
         \/ \E t \in TaskIds :
              CancelDuplicate(w, t) \/ \E kind \in Recurrences : CreateMissing(w, kind, t)
      \/ ClaimDue(w) \/ \E claim \in worker[w].todo : BeginRun(w, claim)
      \/ \/ QueueOwnerMessage(w) \/ RefuseOwnerMessage(w)
         \/ \E outcome \in {"completed", "failed"} : EndRun(w, outcome)
         \/ QueueCheckIn(w) \/ Catch(w)
      \/ ReadRow(w) \/ WriteRow(w) \/ Note(w)
  BY DEF WorkerStep
<1> QED BY <1>1, <1>2, RecoveryTaskInv, UpkeepTaskInv, ClaimTaskInv, RunTaskInv, SettleTaskInv

LEMMA NextTaskInv ==
  ASSUME TaskInv, [Next]_vars
  PROVE  TaskInv'
<1>1. CASE UNCHANGED vars
  <2>1. UNCHANGED <<task, request, owed, credit, worker, failures>>
    BY <1>1 DEF vars, storeVars
  <2>2. TypeOK' /\ RowsStay
    BY <2>1 DEF TaskInv, TypeOK, StoreTypeOK, RowsStay, Exists
  <2> QED BY <2>1, <2>2, OthersStay DEF TaskInv
<1>2. CASE Next
  BY <1>2, WorkerStepTaskInv, RequestTaskInv, FailTaskInv, ClockTaskInv, ForgetTaskInv DEF Next
<1> QED BY <1>1, <1>2

(***************************************************************************)
(* Every variable has the type the store and the scheduler give it.        *)
(***************************************************************************)
THEOREM TaskTypeCorrect == Spec => []TypeOK
<1>1. TaskInv => TypeOK
  BY DEF TaskInv
<1> QED BY <1>1, InitTaskInv, NextTaskInv, PTL DEF Spec

(***************************************************************************)
(* No next check-in is scheduled before that of today was handed to the    *)
(* outbox, whichever await of the run, its catch or its recovery failed.   *)
(***************************************************************************)
THEOREM CheckInTried == Spec => []CheckInIsTried
<1>1. ASSUME TaskInv PROVE CheckInIsTried
  <2> SUFFICES ASSUME NEW w \in Workers, At(w, "listing"), CurrentKind(w) = CheckIn
               PROVE  worker[w].tried
    BY DEF CheckInIsTried
  <2> QED BY <1>1, Mine DEF KindOK, At, CurrentKind, Current
<1> QED BY <1>1, InitTaskInv, NextTaskInv, PTL DEF Spec

(***************************************************************************)
(* A run completes a check-in or a scheduled owner message only with its   *)
(* message in the outbox.                                                  *)
(***************************************************************************)
THEOREM CompletedQueued == Spec => []CompletedIsQueued
<1>1. ASSUME TaskInv PROVE CompletedIsQueued
  <2> SUFFICES ASSUME NEW w \in Workers, At(w, "noting"), worker[w].outcome = "completed",
                      CurrentKind(w) \in {CheckIn, "message"}
               PROVE  worker[w].sent
    BY DEF CompletedIsQueued
  <2> QED BY <1>1, Mine DEF KindOK, At, CurrentKind, Current, Settling
<1> QED BY <1>1, InitTaskInv, NextTaskInv, PTL DEF Spec

-----------------------------------------------------------------------------
(***************************************************************************)
(* Runs are asked for.  A claim is a permission to run that a worker holds *)
(* until it begins the run; the credit of a task covers its claims and the *)
(* one its pending row may still become.                                   *)
(***************************************************************************)
Claimed(mem, t) == mem.phase = "runs" /\ \E claim \in mem.todo : claim.task = t
Claimants(t) == {w \in Workers : Claimed(worker[w], t)}

Covered(t) ==
  Cardinality(Claimants(t)) + (IF task[t].status = "pending" THEN 1 ELSE 0) <= credit[t]

OneClaimEach(mem) ==
  mem.phase = "runs" =>
    \A claim \in mem.todo, other \in mem.todo : claim.task = other.task => claim = other

CreditInv ==
  /\ \A t \in TaskIds : Covered(t)
  /\ \A w \in Workers : OneClaimEach(worker[w])

LEMMA ClaimantsFinite ==
  \A t : /\ IsFiniteSet(Claimants(t)) /\ Cardinality(Claimants(t)) \in Nat
BY FS_Subset, FS_CardinalityType DEF Claimants

\* Nobody has claimed anything new.
Quiet ==
  \A w \in Workers :
    worker'[w].phase = "runs" =>
      worker[w].phase = "runs" /\ worker'[w].todo \subseteq worker[w].todo

LEMMA QuietClaimants ==
  ASSUME Quiet
  PROVE  /\ \A t : IsFiniteSet(Claimants(t)') /\ Cardinality(Claimants(t)') \in Nat
         /\ \A t : Cardinality(Claimants(t)') <= Cardinality(Claimants(t))
         /\ (\A w \in Workers : OneClaimEach(worker[w])) =>
              \A w \in Workers : OneClaimEach(worker[w])'
<1>1. ASSUME NEW t PROVE Claimants(t)' \subseteq Claimants(t)
  BY DEF Quiet, Claimants, Claimed
<1>2. \A t : IsFiniteSet(Claimants(t)') /\ Cardinality(Claimants(t)') \in Nat
             /\ Cardinality(Claimants(t)') <= Cardinality(Claimants(t))
  BY <1>1, ClaimantsFinite, FS_Subset, FS_CardinalityType
<1>3. (\A w \in Workers : OneClaimEach(worker[w])) => \A w \in Workers : OneClaimEach(worker[w])'
  BY DEF Quiet, OneClaimEach
<1> QED BY <1>2, <1>3

\* Going on to the next row of a phase, or out of the tick.
LEMMA QuietNext ==
  ASSUME TaskInv, NEW w \in Workers, NEW phase, NEW point,
         \/ NextRow(w, phase, point) /\ (phase = "runs" => worker[w].phase = "runs")
         \/ worker' = [worker EXCEPT ![w] = AtRest]
  PROVE  Quiet
<1> DEFINE next == [AtRest EXCEPT !.at = point, !.phase = phase, !.todo = worker[w].todo]
<1>1. next.phase = phase /\ next.todo = worker[w].todo /\ AtRest.phase = "recovery"
  BY DEF AtRest
<1>2. worker' = [worker EXCEPT ![w] = next] \/ worker' = [worker EXCEPT ![w] = AtRest]
  BY DEF NextRow
<1> HIDE DEF next
<1> QED BY <1>1, <1>2, Mine DEF Quiet, NextRow, next

LEMMA QuietLeaving ==
  ASSUME TaskInv, NEW w \in Workers, NEW errors \in 0..2, LeaveTask(w, errors),
         worker[w].phase \in {"recovery", "runs"}
  PROVE  Quiet
<1>1. CASE CurrentKind(w) \in Recurrences
  BY <1>1, Mine DEF LeaveTask, Quiet, Memory
<1>2. CASE CurrentKind(w) \notin Recurrences
  <2>1. \/ NextRow(w, "recovery", "recovering")
        \/ NextRow(w, "runs", "picking") /\ worker[w].phase = "runs"
        \/ worker' = [worker EXCEPT ![w] = AtRest]
    <3>1. CASE errors = 2
      BY <1>2, <3>1 DEF LeaveTask
    <3>2. CASE errors # 2 /\ worker[w].phase = "recovery"
      BY <1>2, <3>2 DEF LeaveTask, Phase
    <3>3. CASE errors # 2 /\ worker[w].phase = "runs"
      BY <1>2, <3>3 DEF LeaveTask, Phase
    <3> QED BY <3>1, <3>2, <3>3
  <2>2. CASE NextRow(w, "recovery", "recovering")
    BY <2>2, QuietNext
  <2>3. CASE NextRow(w, "runs", "picking") /\ worker[w].phase = "runs"
    BY <2>3, QuietNext
  <2>4. CASE worker' = [worker EXCEPT ![w] = AtRest]
    BY <2>4, QuietNext
  <2> QED BY <2>1, <2>2, <2>3, <2>4
<1> QED BY <1>1, <1>2

LEMMA QuietWorker ==
  ASSUME TaskInv, NEW w \in Workers, WorkerStep(w), ~ClaimDue(w),
         ~\E claim \in worker[w].todo : BeginRun(w, claim)
  PROVE  Quiet
<1>t. worker \in [Workers -> Memory] /\ worker[w] \in Memory
  BY Mine
<1>1. CASE StartTick(w)
  <2>1. worker[w].phase = "recovery"
    BY <1>1, Mine DEF StartTick, At, PhaseOK
  <2> QED BY <1>1, <2>1, <1>t DEF StartTick, Quiet, Memory
<1>2. CASE RecoverClaim(w)
  BY <1>2, <1>t DEF RecoverClaim, TakeUp, Quiet, Memory
<1>3. CASE Maintain(w)
  BY <1>3, <1>t DEF Maintain, Reconcile, Quiet, Memory
<1>4. CASE Cover(w) \/ QueueOwnerMessage(w) \/ QueueCheckIn(w) \/ Catch(w)
  BY <1>4, <1>t DEF Cover, QueueOwnerMessage, QueueCheckIn, Catch, Quiet, Memory
<1>5. CASE ListRecurrence(w)
  BY <1>5, <1>t DEF ListRecurrence, Reconcile, Quiet, Memory
<1>6. ASSUME NEW t \in TaskIds, CancelDuplicate(w, t) PROVE Quiet
  BY <1>6, <1>t DEF CancelDuplicate, Quiet, Memory
<1>7. ASSUME NEW t \in TaskIds, NEW kind \in Recurrences, CreateMissing(w, kind, t) PROVE Quiet
  BY <1>7, <1>t DEF CreateMissing, Quiet, Memory
<1>8. CASE Reconciled(w)
  <2>1. CASE Phase(w) = "recovery"
    BY <1>8, <2>1, QuietNext DEF Reconciled
  <2>2. CASE Phase(w) = "upkeep"
    BY <1>8, <2>2, QuietNext DEF Reconciled
  <2>3. CASE Phase(w) = "runs"
    <3>1. NextRow(w, "runs", "picking") \/ worker' = [worker EXCEPT ![w] = AtRest]
      BY <1>8, <2>3 DEF Reconciled
    <3> QED BY <3>1, <2>3, QuietNext DEF Phase
  <2> QED BY <2>1, <2>2, <2>3, <1>t DEF Phase, Memory
<1>9. CASE EndTick(w)
  BY <1>9, QuietNext DEF EndTick
<1>10. CASE RefuseOwnerMessage(w)
  BY <1>10, <1>t DEF RefuseOwnerMessage, ToCatch, Quiet, Memory
<1>11. ASSUME NEW outcome, EndRun(w, outcome) PROVE Quiet
  BY <1>11, <1>t DEF EndRun, Quiet, Memory
<1>12. CASE ReadRow(w) \/ WriteRow(w)
  BY <1>12, <1>t DEF ReadRow, WriteRow, Quiet, Memory
<1>13. CASE Note(w)
  <2>1. /\ LeaveTask(w, worker[w].errors) /\ worker[w].errors \in 0..2
        /\ worker[w].phase \in {"recovery", "runs"}
    BY <1>13, <1>t, Mine DEF Note, PhaseOK, At, Settling, Memory
  <2> QED BY <2>1, QuietLeaving
<1> QED BY <1>1, <1>2, <1>3, <1>4, <1>5, <1>6, <1>7, <1>8, <1>9, <1>10, <1>11, <1>12, <1>13
        DEF WorkerStep

\* A quiet step keeps the credit of a task covered if it asks for no more runs
\* than it gives credit for.
LEMMA QuietCredit ==
  ASSUME TaskInv, CreditInv, Quiet,
         \A t \in TaskIds :
           \/ /\ task'[t].status = "pending" => task[t].status = "pending"
              /\ credit'[t] = credit[t]
           \/ credit'[t] = credit[t] + 1
           \/ ~Exists(t) /\ credit'[t] = 1
           \/ /\ \A w \in Workers : ~Claimed(worker[w], t)
              /\ credit'[t] = 0 /\ task'[t].status = "absent"
  PROVE  CreditInv'
<1>1. ASSUME NEW t \in TaskIds PROVE Covered(t)'
  <2>1. /\ Cardinality(Claimants(t)) \in Nat /\ Cardinality(Claimants(t)') \in Nat
        /\ Cardinality(Claimants(t)') <= Cardinality(Claimants(t))
        /\ Covered(t) /\ credit[t] \in Int
    BY ClaimantsFinite, QuietClaimants, Types DEF CreditInv, TaskInv
  <2>2. (\A w \in Workers : ~Claimed(worker[w], t)) => Cardinality(Claimants(t)) = 0
    BY FS_EmptySet DEF Claimants
  <2>3. ~Exists(t) => \A w \in Workers : ~Claimed(worker[w], t)
    BY Mine DEF Claimed, RowsOK, Exists
  <2>4. CASE task'[t].status = "pending" => task[t].status = "pending"
    <3>1. CASE credit'[t] = credit[t]
      BY <2>1, <2>4, <3>1 DEF Covered
    <3>2. CASE credit'[t] # credit[t]
      BY <2>1, <2>2, <2>3, <3>2 DEF Covered
    <3> QED BY <3>1, <3>2
  <2>5. CASE credit'[t] = credit[t] + 1
    BY <2>1, <2>5 DEF Covered
  <2>6. CASE ~Exists(t) /\ credit'[t] = 1
    BY <2>1, <2>2, <2>3, <2>6 DEF Covered
  <2> QED BY <2>1, <2>4, <2>5, <2>6
<1> QED BY <1>1, QuietClaimants DEF CreditInv

LEMMA RequestCredit ==
  ASSUME TaskInv, CreditInv, NEW r \in Requests, RequestStep(r), UNCHANGED <<worker, failures>>
  PROVE  CreditInv'
<1>q. Quiet
  BY DEF Quiet
<1>t. credit \in [TaskIds -> Int] /\ task \in [TaskIds -> Task] /\ TypeOK
  BY Types DEF TaskInv
<1>1. CASE UNCHANGED <<task, owed, credit>>
  BY <1>1, <1>q, QuietCredit
<1>2. ASSUME NEW t \in TaskIds, CreateTask(r, t) PROVE CreditInv'
  <2>1. PICK kind \in OneOff, due \in SetDates : InsertTask(t, kind, due)
    BY <1>2 DEF CreateTask
  <2>2. /\ ~Exists(t) /\ credit' = [credit EXCEPT ![t] = 1]
        /\ \A u \in TaskIds : u # t => task'[u] = task[u]
    BY <2>1, <1>t DEF InsertTask
  <2> QED BY <2>2, <1>q, <1>t, QuietCredit
<1>3. CASE WriteTask(r)
  <2> DEFINE t == request[r].task
  <2>1. t \in TaskIds /\ Changed(r) \in Task
    BY <1>3, ChangedRow DEF WriteTask
  <2>2. \A u \in TaskIds : u # t => task'[u] = task[u]
    BY <1>3, <1>t DEF WriteTask, Overwrite
  <2>3. task'[t].status = Changed(r).status
    BY <1>3, <1>t, <2>1 DEF WriteTask, Overwrite, Task
  <2>4. CASE Changed(r).status = "pending"
    <3>1. credit' = [credit EXCEPT ![t] = @ + 1]
      BY <1>3, <2>4 DEF WriteTask
    <3> HIDE DEF t
    <3> QED BY <3>1, <2>1, <2>2, <1>q, <1>t, QuietCredit
  <2>5. CASE Changed(r).status # "pending"
    <3>1. credit' = credit
      BY <1>3, <2>5 DEF WriteTask
    <3> HIDE DEF t
    <3> QED BY <3>1, <2>1, <2>2, <2>3, <2>5, <1>q, <1>t, QuietCredit
  <2> QED BY <2>4, <2>5
<1> QED BY <1>1, <1>2, <1>3 DEF RequestStep, FinishRequest, ReadTask, DropRequest,
           AppendPrompt, SetStatus, Reschedule, Ask

\* The two steps that trade a permission to run.
LEMMA ClaimCredit ==
  ASSUME TaskInv, CreditInv, NEW w \in Workers, ClaimDue(w)
  PROVE  CreditInv'
<1>t. /\ credit \in [TaskIds -> Int] /\ task \in [TaskIds -> Task] /\ TypeOK
      /\ worker \in [Workers -> Memory]
  BY Types DEF TaskInv
<1>1. PICK batch \in ClaimableBatches(ClaimLimit) :
        /\ ClaimTasks(batch)
        /\ worker' = [worker EXCEPT ![w] = [AtRest EXCEPT !.at = "picking", !.phase = "runs",
                                              !.todo = {ClaimOf(t) : t \in batch}]]
  BY DEF ClaimDue
<1>2. /\ batch \in SUBSET TaskIds /\ \A t \in batch : task[t].status = "pending"
      /\ UNCHANGED credit
      /\ \A t \in TaskIds : t \in batch => task'[t].status = "claimed"
      /\ \A t \in TaskIds : t \notin batch => task'[t] = task[t]
  BY <1>1, <1>t DEF ClaimableBatches, Claimable, ClaimTasks, Task
<1>3. /\ worker'[w].todo = {ClaimOf(t) : t \in batch}
      /\ \A v \in Workers : v # w => worker'[v] = worker[v]
  BY <1>1, <1>t DEF AtRest
<1>4. ASSUME NEW t \in TaskIds PROVE Covered(t)'
  <2>1. /\ Cardinality(Claimants(t)) \in Nat /\ IsFiniteSet(Claimants(t))
        /\ Covered(t) /\ credit[t] \in Int
    BY ClaimantsFinite, <1>t DEF CreditInv
  <2>2. CASE t \in batch
    <3>1. Claimants(t)' \subseteq Claimants(t) \cup {w}
      BY <1>3 DEF Claimants, Claimed
    <3>2. /\ IsFiniteSet(Claimants(t) \cup {w})
          /\ Cardinality(Claimants(t) \cup {w}) <= Cardinality(Claimants(t)) + 1
      <4>1. /\ IsFiniteSet(Claimants(t) \cup {w})
            /\ Cardinality(Claimants(t) \cup {w}) =
                 IF w \in Claimants(t) THEN Cardinality(Claimants(t))
                                       ELSE Cardinality(Claimants(t)) + 1
        BY <2>1, FS_AddElement, Zenon
      <4>2. CASE w \in Claimants(t)
        BY <4>1, <4>2, <2>1
      <4>3. CASE w \notin Claimants(t)
        BY <4>1, <4>3, <2>1
      <4> QED BY <4>2, <4>3
    <3>3. /\ Cardinality(Claimants(t)') <= Cardinality(Claimants(t)) + 1
          /\ Cardinality(Claimants(t)') \in Nat
      BY <3>1, <3>2, <2>1, FS_Subset, FS_CardinalityType
    <3> QED BY <3>3, <2>1, <2>2, <1>2 DEF Covered
  <2>3. CASE t \notin batch
    <3>1. Claimants(t)' \subseteq Claimants(t)
      BY <1>3, <2>3 DEF Claimants, Claimed, ClaimOf
    <3>2. /\ Cardinality(Claimants(t)') <= Cardinality(Claimants(t))
          /\ Cardinality(Claimants(t)') \in Nat
      BY <3>1, <2>1, FS_Subset, FS_CardinalityType
    <3> QED BY <3>2, <2>1, <2>3, <1>2 DEF Covered
  <2> QED BY <2>2, <2>3
<1>5. ASSUME NEW v \in Workers PROVE OneClaimEach(worker[v])'
  BY <1>3 DEF CreditInv, OneClaimEach, ClaimOf
<1> QED BY <1>4, <1>5 DEF CreditInv

LEMMA BeginCredit ==
  ASSUME TaskInv, CreditInv, NEW w \in Workers, NEW claim \in worker[w].todo, BeginRun(w, claim)
  PROVE  CreditInv'
<1>t. /\ credit \in [TaskIds -> Int] /\ worker \in [Workers -> Memory] /\ worker[w] \in Memory
      /\ claim.task \in TaskIds /\ worker[w].phase = "runs"
  BY Types, Mine DEF TaskInv, RowsOK, PhaseOK, BeginRun, At
<1>1. /\ worker'[w].todo = worker[w].todo \ {claim} /\ worker'[w].phase = "runs"
      /\ \A v \in Workers : v # w => worker'[v] = worker[v]
      /\ UNCHANGED task /\ credit' = [credit EXCEPT ![claim.task] = @ - 1]
  BY <1>t DEF BeginRun, TakeUp, Memory
<1>q. Quiet
  BY <1>1, <1>t DEF Quiet
<1>2. ASSUME NEW t \in TaskIds PROVE Covered(t)'
  <2>1. /\ Cardinality(Claimants(t)) \in Nat /\ IsFiniteSet(Claimants(t))
        /\ Cardinality(Claimants(t)') \in Nat
        /\ Cardinality(Claimants(t)') <= Cardinality(Claimants(t))
        /\ Covered(t) /\ credit[t] \in Int
    BY ClaimantsFinite, QuietClaimants, <1>q, <1>t DEF CreditInv
  <2>2. CASE t # claim.task
    BY <2>1, <2>2, <1>1, <1>t DEF Covered
  <2>3. CASE t = claim.task
    <3>1. w \in Claimants(t)
      BY <2>3, <1>t DEF Claimants, Claimed
    <3>2. Claimants(t)' \subseteq Claimants(t) \ {w}
      BY <2>3, <1>1, <1>t DEF Claimants, Claimed, CreditInv, OneClaimEach
    <3>3. /\ IsFiniteSet(Claimants(t) \ {w})
          /\ Cardinality(Claimants(t) \ {w}) = Cardinality(Claimants(t)) - 1
      BY <3>1, <2>1, FS_RemoveElement
    <3>4. Cardinality(Claimants(t)') <= Cardinality(Claimants(t)) - 1
      BY <3>2, <3>3, FS_Subset
    <3> QED BY <3>4, <2>1, <2>3, <1>1, <1>t DEF Covered
  <2> QED BY <2>2, <2>3
<1> QED BY <1>2, <1>q, QuietClaimants DEF CreditInv

LEMMA WorkerCredit ==
  ASSUME TaskInv, CreditInv, NEW w \in Workers, WorkerStep(w)
  PROVE  CreditInv'
<1>t. credit \in [TaskIds -> Int] /\ task \in [TaskIds -> Task]
  BY Types DEF TaskInv
<1>1. CASE ClaimDue(w)
  BY <1>1, ClaimCredit
<1>2. ASSUME NEW claim \in worker[w].todo, BeginRun(w, claim) PROVE CreditInv'
  BY <1>2, BeginCredit
<1>3. CASE ~ClaimDue(w) /\ ~\E claim \in worker[w].todo : BeginRun(w, claim)
  <2>q. Quiet
    BY <1>3, QuietWorker
  <2>1. CASE UNCHANGED <<task, credit>>
    BY <2>1, <2>q, QuietCredit
  <2>2. ASSUME NEW t \in TaskIds, CancelDuplicate(w, t) PROVE CreditInv'
    <3>1. /\ UNCHANGED credit /\ task'[t].status = "cancelled"
          /\ \A u \in TaskIds : u # t => task'[u] = task[u]
      BY <2>2, <1>t DEF CancelDuplicate, Overwrite, Task
    <3> QED BY <3>1, <2>q, QuietCredit
  <2>3. ASSUME NEW t \in TaskIds, NEW kind, CreateMissing(w, kind, t) PROVE CreditInv'
    <3>1. /\ ~Exists(t) /\ credit' = [credit EXCEPT ![t] = 1]
          /\ \A u \in TaskIds : u # t => task'[u] = task[u]
      BY <2>3, <1>t DEF CreateMissing, InsertTask
    <3> QED BY <3>1, <2>q, <1>t, QuietCredit
  <2>4. CASE WriteRow(w)
    <3>1. /\ Current(w) \in TaskIds /\ worker[w].row \in Task /\ worker[w].outcome \in EndedStatuses
          /\ UNCHANGED credit
      BY <2>4, Mine DEF WriteRow, At, Working, Settling, Memory
    <3>2. /\ task'[Current(w)].status = worker[w].outcome
          /\ \A u \in TaskIds : u # Current(w) => task'[u] = task[u]
      BY <2>4, <3>1, <1>t DEF WriteRow, Overwrite, Settled, Task
    <3> QED BY <3>1, <3>2, <2>q, QuietCredit DEF EndedStatuses
  <2> QED BY <1>3, <2>1, <2>2, <2>3, <2>4
          DEF WorkerStep, storeVars, StartTick, RecoverClaim, Maintain, Cover, ListRecurrence,
              Reconciled, EndTick, QueueOwnerMessage, RefuseOwnerMessage, EndRun, QueueCheckIn,
              Catch, ReadRow, Note
<1> QED BY <1>1, <1>2, <1>3

LEMMA NextCredit ==
  ASSUME TaskInv, CreditInv, [Next]_vars
  PROVE  CreditInv'
<1>t. credit \in [TaskIds -> Int] /\ task \in [TaskIds -> Task]
  BY Types DEF TaskInv
<1>1. CASE UNCHANGED vars
  <2>1. Quiet /\ UNCHANGED <<task, credit>>
    BY <1>1 DEF vars, storeVars, Quiet
  <2> QED BY <2>1, QuietCredit
<1>2. CASE Fail
  <2>1. UNCHANGED <<task, credit>>
    BY <1>2 DEF Fail, Throw, ThrowInCatch, Crash, storeVars
  <2>2. ASSUME NEW w \in Workers, Throw(w) \/ ThrowInCatch(w) \/ Crash(w) PROVE Quiet
    <3>1. CASE Throw(w)
      BY <3>1, Mine DEF Throw, ToCatch, Quiet, Memory
    <3>2. CASE ThrowInCatch(w)
      BY <3>2, QuietLeaving DEF ThrowInCatch, Phase
    <3>3. CASE Crash(w)
      BY <3>3, QuietNext DEF Crash
    <3> QED BY <2>2, <3>1, <3>2, <3>3
  <2> QED BY <1>2, <2>1, <2>2, QuietCredit DEF Fail
<1>3. ASSUME NEW t \in TaskIds, TimePasses(t) PROVE CreditInv'
  <2>1. /\ Quiet /\ UNCHANGED credit
        /\ \A u \in TaskIds : task'[u].status = task[u].status
    BY <1>3, <1>t DEF TimePasses, Quiet, Task
  <2> QED BY <2>1, QuietCredit
<1>4. ASSUME NEW t \in TaskIds, Forget(t) PROVE CreditInv'
  <2>1. /\ Quiet /\ \A w \in Workers : ~Claimed(worker[w], t)
        /\ credit'[t] = 0 /\ task'[t].status = "absent"
        /\ \A u \in TaskIds : u # t => task'[u] = task[u] /\ credit'[u] = credit[u]
    BY <1>4, <1>t DEF Forget, Quiet, Claimed, Holds, NoTask
  <2> QED BY <2>1, QuietCredit
<1> QED BY <1>1, <1>2, <1>3, <1>4, WorkerCredit, RequestCredit DEF Next

LEMMA InitCredit == Init => CreditInv
<1> SUFFICES ASSUME Init PROVE CreditInv
  OBVIOUS
<1>1. ASSUME NEW t \in TaskIds PROVE Covered(t)
  <2>1. Claimants(t) = {}
    BY DEF Claimants, Claimed, Init, AtRest
  <2>2. PICK scheduled \in SUBSET {1} :
          /\ task = [u \in TaskIds |-> IF u \in scheduled THEN NewTask("message", "now") ELSE NoTask]
          /\ credit = [u \in TaskIds |-> Cardinality(scheduled \cap {u})]
    BY DEF Init, StoreInit
  <2>3. CASE t \in scheduled
    <3>1. scheduled \cap {t} = {t} /\ Cardinality({t}) = 1
      BY <2>3, FS_Singleton
    <3>2. credit[t] = 1
      BY <2>2, <3>1
    <3> QED BY <2>1, <3>2, FS_EmptySet DEF Covered
  <2>4. CASE t \notin scheduled
    <3>1. scheduled \cap {t} = {} /\ Cardinality({}) = 0
      BY <2>4, FS_EmptySet
    <3>2. credit[t] = 0 /\ task[t].status = "absent"
      BY <2>2, <2>4, <3>1 DEF NoTask
    <3> QED BY <2>1, <3>1, <3>2 DEF Covered
  <2> QED BY <2>3, <2>4
<1>2. \A w \in Workers : OneClaimEach(worker[w])
  BY DEF OneClaimEach, Init, AtRest
<1> QED BY <1>1, <1>2 DEF CreditInv

(***************************************************************************)
(* However many workers there are, and whatever they lose on the way, no   *)
(* task is begun more often than it was asked for.                         *)
(***************************************************************************)
THEOREM RunsAsked == Spec => []RunsAreAsked
<1>1. ASSUME TaskInv, CreditInv PROVE RunsAreAsked
  <2> SUFFICES ASSUME NEW t \in TaskIds PROVE credit[t] >= 0
    BY DEF RunsAreAsked
  <2>1. Cardinality(Claimants(t)) \in Nat /\ Covered(t) /\ credit[t] \in Int
    BY <1>1, ClaimantsFinite, Types DEF CreditInv, TaskInv
  <2> QED BY <2>1 DEF Covered
<1>2. Init => TaskInv /\ CreditInv
  BY InitTaskInv, InitCredit
<1>3. (TaskInv /\ CreditInv) /\ [Next]_vars => (TaskInv /\ CreditInv)'
  BY NextTaskInv, NextCredit
<1> QED BY <1>1, <1>2, <1>3, PTL DEF Spec
=============================================================================
