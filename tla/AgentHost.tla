----------------------------- MODULE AgentHost -----------------------------
(***************************************************************************)
(* The side-effect path of the assistant, composed: requests in the API    *)
(* and in the agent's tools, and worker ticks, over the two tables of      *)
(* AgentStore, with the SMTP provider and the target applications outside. *)
(***************************************************************************)
EXTENDS ApprovalPolicy, StuckRecovery, ApprovalExecutor, SmtpSender

CONSTANT MaxFailures   \* bound: crashes and failed awaits of one behaviour

ASSUME MaxFailuresAssumption == MaxFailures \in Nat

VARIABLE failures   \* how many there were

externals == <<accepted, calls>>
vars == <<storeVars, policyVars, worker, externals, failures>>

Init ==
  /\ StoreInit
  /\ PolicyInit
  /\ WorkerInit
  /\ ExecutorInit
  /\ SenderInit
  /\ failures = 0

\* The daily check-in task queues under its dated key, when it runs and when
\* the recovery that begins a tick finds it unfinished (queueDailyCheckInMessage).
QueueDailyCheckIn(w) ==
  /\ WorkerAt(w, "idle") \/ WorkerAt(w, "tasks")
  /\ \E m \in DailyCheckIns : QueueOutboundMessage(m, "pending", None)
  /\ UNCHANGED <<approvals, decisions, worker>>

WorkerStep(w) ==
  /\ \/ RecoveryStep(w) /\ UNCHANGED externals
     \/ QueueDailyCheckIn(w) /\ UNCHANGED externals
     \/ ExecutorStep(w) /\ UNCHANGED accepted
     \/ SenderStep(w) /\ UNCHANGED calls
  /\ UNCHANGED <<policyVars, failures>>

RequestProgress(r) == RequestStep(r) /\ UNCHANGED <<worker, externals, failures>>

Fail ==
  /\ failures < MaxFailures
  /\ failures' = failures + 1
  /\ \/ \E r \in Requests : AbandonRequest(r) /\ UNCHANGED worker
     \/ \E w \in Workers : AbandonTick(w) /\ UNCHANGED policyVars
  /\ UNCHANGED externals

ApprovalAges(a) ==
  /\ LapseApproval(a) \/ AgeExecution(a)
  /\ UNCHANGED <<policyVars, worker, externals, failures>>

MessageAges(m) ==
  /\ AgeSend(m) \/ ComeDue(m)
  /\ UNCHANGED <<policyVars, worker, externals, failures>>

TimePasses ==
  \/ \E a \in Approvals : ApprovalAges(a)
  \/ \E m \in Messages : MessageAges(m)

Next ==
  \/ \E r \in Requests : RequestProgress(r)
  \/ \E w \in Workers : WorkerStep(w)
  \/ Fail
  \/ TimePasses

Spec == Init /\ [][Next]_vars

\* setInterval keeps the worker ticking and the clock keeps running; nothing
\* obliges the owner or the model to call a handler, or a call to complete.
Fairness ==
  /\ \A w \in Workers : WF_vars(WorkerStep(w))
  /\ \A a \in Approvals : WF_vars(ApprovalAges(a))
  /\ \A m \in Messages : WF_vars(MessageAges(m))

FairSpec == Spec /\ Fairness

-----------------------------------------------------------------------------
TypeOK ==
  /\ StoreTypeOK
  /\ PolicyTypeOK
  /\ WorkerTypeOK
  /\ ExecutorTypeOK
  /\ SenderTypeOK
  /\ failures \in Nat

(***************************************************************************)
(* Cross-application writes                                                *)
(***************************************************************************)

\* "Duplicate worker ticks cannot execute the same approval": whatever the
\* order of ticks, crashes, recoveries and decisions, the target application
\* performs the write of an approval at most once (approvalExecutor.ts).
AtMostOneCall == \A a \in Approvals : calls[a] <= 1

\* The write is performed only on an approval whose owner's approval is on
\* record, and a recorded success means that it was performed.
CallsAreApproved ==
  \A a \in Approvals :
    /\ calls[a] > 0 => a \in CrossAppApprovals /\ "approved" \in decisions[a]
    /\ approvals[a].execution = "succeeded" => calls[a] = 1

\* An execution only moves forward, and its recorded outcome is final: a late
\* answer never overwrites the failure recovery recorded, nor the reverse.
ExecutionRank ==
  [not_applicable |-> 0, pending |-> 1, running |-> 2, succeeded |-> 3, failed |-> 3]

ExecutionMovesForward ==
  [][\A a \in Approvals :
       approvals'[a].execution # approvals[a].execution =>
         ExecutionRank[approvals'[a].execution] = ExecutionRank[approvals[a].execution] + 1]_vars

Authorized == {a \in CrossAppApprovals : "approved" \in decisions[a]}
Performed == [a \in CrossAppApprovals |-> calls[a]]
Outcome ==
  [a \in CrossAppApprovals |->
     IF approvals[a].execution \in {"succeeded", "failed"}
     THEN approvals[a].execution ELSE "none"]

Promise == INSTANCE CrossAppWrite WITH
  Writes <- CrossAppApprovals,
  authorized <- Authorized, performed <- Performed, outcome <- Outcome

\* The tables, ticks, claims and crashes implement the promise CrossAppWrite
\* makes of a cross-application write (claimApprovalExecution to
\* completeApprovalExecution and failApprovalExecution).
KeepsPromise == Promise!Spec

(***************************************************************************)
(* Outbound messages                                                       *)
(***************************************************************************)

\* A message queued under an approval reaches the provider only after the
\* owner approved, on any interleaving of edits, decisions, expiry, delivery
\* and recovery, when no client PATCHes a row to "pending" (the UI does not).
ApprovalGate ==
  \A m \in Messages :
    LET a == outbox[m].approval
    IN  (a # None /\ (accepted[m] > 0 \/ Deliverable(m))) => "approved" \in decisions[a]

\* "keeps concurrent or repeated worker ticks from sending the same owner
\* message twice": ticks, crashes and recovery never deliver a message more
\* often than requests made it deliverable.  Only daily check-ins are retried.
DeliveredOncePerArming ==
  \A m \in Messages \ DailyCheckIns : accepted[m] <= armings[m]

\* The provider is contacted at most once per claimed attempt, and a daily
\* check-in is claimed at most MaxDeliveryAttempts times beyond what manual
\* changes of its row ask for (one worker).
DailyAttemptsBounded ==
  \A m \in DailyCheckIns :
    /\ accepted[m] <= outbox[m].attempts
    /\ outbox[m].attempts <= MaxDeliveryAttempts + armings[m]

(***************************************************************************)
(* What the tick must eventually do                                        *)
(***************************************************************************)

\* Whatever was sending when a tick died is settled by a later one.
StuckSendsSettle ==
  \A m \in Messages : outbox[m].status = "sending" ~> outbox[m].status # "sending"

\* A message that may be delivered is claimed or settled: the queue of one
\* message per tick starves none.
DeliverablesDrain == \A m \in Messages : Deliverable(m) ~> ~Deliverable(m)

\* An approval nobody decided does not stay pending beyond its time.
LapsedApprovalsExpire ==
  \A a \in Approvals : approvals[a].status = "pending" ~> approvals[a].status # "pending"

\* "Stale running cross-app approvals become failed approval executions".
RunningExecutionsEnd ==
  \A a \in Approvals :
    approvals[a].execution = "running" ~> approvals[a].execution # "running"
=============================================================================
