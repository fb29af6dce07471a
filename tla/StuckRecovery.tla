--------------------------- MODULE StuckRecovery ---------------------------
(***************************************************************************)
(* recoverStuckWorkerState (api/src/scheduler/taskQueue.ts), the first     *)
(* thing a tick does: expire approvals whose time has passed, settle sends *)
(* and executions an earlier tick left unfinished.  Every listing is read  *)
(* once and worked through row by row, so a row may have changed by the    *)
(* time it is written.  (Its task part belongs to the scheduler's model.)  *)
(***************************************************************************)
EXTENDS WorkerTick

\* Mutant of ListLapsedApprovals: only approvals with a linked message expire.
ListLapsedApprovals_LinkedOnly(w) ==
  /\ ListFor(w, "idle", "expiring",
       {[approval |-> a, message |-> approvals[a].link, retry |-> FALSE] :
          a \in {b \in Approvals \ CrossAppApprovals :
            approvals[b].status = "pending" /\ approvals[b].lapsed /\ approvals[b].link # None}})
  /\ UNCHANGED storeVars

\* listApprovals(["pending"]), of which only those past expires_at matter.
ListLapsedApprovals(w) ==
  /\ ListFor(w, "idle", "expiring",
       {[approval |-> a, message |-> IF a \in CrossAppApprovals THEN None ELSE approvals[a].link,
         retry |-> FALSE] :
          a \in {b \in Approvals : approvals[b].status = "pending" /\ approvals[b].lapsed}})
  /\ UNCHANGED storeVars

ExpireApproval(w) ==
  /\ WorkerAt(w, "expiring")
  /\ \E j \in worker[w].todo :
       /\ UpdateApprovalStatus(j.approval, "expired")
       /\ IF j.message = None THEN Finish(w, j) ELSE TakeUp(w, j, "cancelling")
  /\ UNCHANGED <<outbox, inserted>>

CancelLinkedOutbox(w) ==
  /\ WorkerAt(w, "cancelling")
  /\ UpdateOutboundMessageStatus(worker[w].job.message, "cancelled", TRUE)
  /\ Resume(w, "expiring")
  /\ UNCHANGED <<inserted, approvals, decisions>>

\* Mutant of ListStuckSends: only rows that will be retried are listed.
ListStuckSends_RetriesOnly(w) ==
  /\ ListFor(w, "expiring", "failing_sends",
       {[MessageJob(m) EXCEPT !.retry = TRUE] :
          m \in {n \in Messages :
            outbox[n].status = "sending" /\ outbox[n].stale /\ AttemptsLeft(n)}})
  /\ UNCHANGED storeVars

ListStuckSends(w) ==
  /\ ListFor(w, "expiring", "failing_sends",
       {[MessageJob(m) EXCEPT !.retry = AttemptsLeft(m)] :
          m \in {n \in Messages : outbox[n].status = "sending" /\ outbox[n].stale}})
  /\ UNCHANGED storeVars

\* Mutant of SettleStuckSend: every stuck row is retried.
SettleStuckSend_RetriesAll(w) ==
  /\ WorkerAt(w, "failing_sends")
  /\ \E j \in worker[w].todo :
       /\ UpdateOutboundMessageStatus(j.message, "pending", TRUE)
       /\ Finish(w, j)
  /\ UNCHANGED <<inserted, approvals, decisions>>

\* A daily check-in is retried at once while attempts are left; other rows fail.
SettleStuckSend(w) ==
  /\ WorkerAt(w, "failing_sends")
  /\ \E j \in worker[w].todo :
       /\ UpdateOutboundMessageStatus(j.message, IF j.retry THEN "pending" ELSE "failed", TRUE)
       /\ Finish(w, j)
  /\ UNCHANGED <<inserted, approvals, decisions>>

\* Mutant of ListStuckExecutions: lapsed approvals are left out.
ListStuckExecutions_CurrentOnly(w) ==
  /\ ListFor(w, "failing_sends", "failing_executions",
       {ApprovalJob(a) : a \in {b \in CrossAppApprovals :
          /\ approvals[b].status = "approved"
          /\ approvals[b].execution = "running"
          /\ approvals[b].stale
          /\ ~approvals[b].lapsed}})
  /\ UNCHANGED storeVars

ListStuckExecutions(w) ==
  /\ ListFor(w, "failing_sends", "failing_executions",
       {ApprovalJob(a) : a \in {b \in CrossAppApprovals :
          /\ approvals[b].status = "approved"
          /\ approvals[b].execution = "running"
          /\ approvals[b].stale}})
  /\ UNCHANGED storeVars

\* Mutant of FailStuckExecution: a stuck execution is queued again.
FailStuckExecution_Retries(w) ==
  /\ WorkerAt(w, "failing_executions")
  /\ \E j \in worker[w].todo :
       /\ FinishApprovalExecution(j.approval, "pending")
       /\ Finish(w, j)
  /\ UNCHANGED <<outbox, inserted, decisions>>

FailStuckExecution(w) ==
  /\ WorkerAt(w, "failing_executions")
  /\ \E j \in worker[w].todo :
       /\ FinishApprovalExecution(j.approval, "failed")
       /\ Finish(w, j)
  /\ UNCHANGED <<outbox, inserted, decisions>>

EndRecovery(w) ==
  /\ ListFor(w, "failing_executions", "tasks", {})
  /\ UNCHANGED storeVars

RecoveryStep(w) ==
  \/ ListLapsedApprovals(w) \/ ExpireApproval(w) \/ CancelLinkedOutbox(w)
  \/ ListStuckSends(w) \/ SettleStuckSend(w)
  \/ ListStuckExecutions(w) \/ FailStuckExecution(w)
  \/ EndRecovery(w)
=============================================================================
