-------------------------- MODULE ApprovalExecutor --------------------------
(***************************************************************************)
(* executeApprovedCrossAppApprovals (api/src/scheduler/                    *)
(* approvalExecutor.ts): claim each approved, pending execution, call the  *)
(* target application once, record what came of it.                        *)
(***************************************************************************)
EXTENDS WorkerTick

CONSTANT
  CallOutcomes   \* what callIntegrationActionApi can come back with

\* "ok"      the target performed the write and answered 2xx
\* "lost"    the target performed the write, the answer was lost or not 2xx
\* "unsent"  nothing reached the target (no token, connection refused, ...)
ASSUME CallOutcomesAssumption == CallOutcomes \subseteq {"ok", "lost", "unsent"}

VARIABLE calls   \* external: the writes the target performed for each approval

ExecutorTypeOK == calls \in [Approvals -> Nat]
ExecutorInit == calls = [a \in Approvals |-> 0]

\* listApprovals(["approved"]) and the filter; the batch of five is larger
\* than any set of approvals modelled.
ListExecutable(w) ==
  /\ ListFor(w, "tasks", "executing", {ApprovalJob(a) : a \in {b \in Approvals : Executable(b)}})
  /\ UNCHANGED <<storeVars, calls>>

ClaimExecution(w) ==
  /\ WorkerAt(w, "executing")
  /\ \E j \in worker[w].todo :
       \/ /\ ClaimApprovalExecution(j.approval)
          /\ TakeUp(w, j, "calling")
       \/ /\ ~Executable(j.approval)
          /\ Finish(w, j)
          /\ UNCHANGED approvals
  /\ UNCHANGED <<outbox, inserted, decisions, calls>>

\* The claimed row has lapsed, or its payload no longer names a write action.
RefuseExecution(w) ==
  /\ WorkerAt(w, "calling")
  /\ Proceed(w, "called_failed")
  /\ UNCHANGED <<storeVars, calls>>

CallTargetApp(w) ==
  LET a == worker[w].job.approval
  IN  /\ WorkerAt(w, "calling")
      /\ ~approvals[a].lapsed
      /\ \E outcome \in CallOutcomes :
           /\ calls' = IF outcome = "unsent" THEN calls ELSE [calls EXCEPT ![a] = @ + 1]
           /\ Proceed(w, IF outcome = "ok" THEN "called_ok" ELSE "called_failed")
      /\ UNCHANGED storeVars

\* Mutant of RecordExecution: the outcome of the call is not looked at.
RecordExecution_AlwaysSucceeded(w) ==
  /\ \/ WorkerAt(w, "called_ok")
     \/ WorkerAt(w, "called_failed")
  /\ FinishApprovalExecution(worker[w].job.approval, "succeeded")
  /\ Resume(w, "executing")
  /\ UNCHANGED <<outbox, inserted, decisions, calls>>

RecordExecution(w) ==
  /\ \/ /\ WorkerAt(w, "called_ok")
        /\ FinishApprovalExecution(worker[w].job.approval, "succeeded")
     \/ /\ WorkerAt(w, "called_failed")
        /\ FinishApprovalExecution(worker[w].job.approval, "failed")
  /\ Resume(w, "executing")
  /\ UNCHANGED <<outbox, inserted, decisions, calls>>

ExecutorStep(w) ==
  \/ ListExecutable(w) \/ ClaimExecution(w) \/ RefuseExecution(w)
  \/ CallTargetApp(w) \/ RecordExecution(w)
=============================================================================
