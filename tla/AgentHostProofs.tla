-------------------------- MODULE AgentHostProofs --------------------------
(***************************************************************************)
(* Theorems of AgentHost, for every set of rows, requests and workers and  *)
(* every number of failures.  TypeOK comes first; the other invariants are *)
(* proved with it.  One lemma per store function says what it does to the  *)
(* types of the two tables; a step of Next then follows action by action.  *)
(* Then cross-application writes, up to the refinement of CrossAppWrite,   *)
(* and what outbound messages are approved for and how often they go out.  *)
(***************************************************************************)
EXTENDS AgentHost, FiniteSetTheorems, TLAPS

(***************************************************************************)
(* The tables                                                              *)
(***************************************************************************)

OutboxTypeOK == outbox \in [Messages -> OutboxRow] /\ inserted \in Nat
ApprovalsTypeOK ==
  /\ approvals \in [Approvals -> ApprovalRow]
  /\ decisions \in [Approvals -> SUBSET DecisionStatuses]

\* The two tables make up the store.
LEMMA StoreTypeSplits == StoreTypeOK <=> OutboxTypeOK /\ ApprovalsTypeOK
  BY DEF StoreTypeOK, OutboxTypeOK, ApprovalsTypeOK

\* queueOutboundMessage writes a well-formed row or none.
LEMMA QueueOutboundMessageType ==
  ASSUME OutboxTypeOK, NEW m \in Messages, NEW status \in OutboxStatuses,
         NEW a \in Approvals \cup {None}, QueueOutboundMessage(m, status, a)
  PROVE  OutboxTypeOK'
<1>1. CASE outbox[m].status = "absent"
  <2>1. [NoOutboxRow EXCEPT !.status = status, !.approval = a, !.created = inserted]
          \in OutboxRow
    BY DEF NoOutboxRow, OutboxRow, OutboxTypeOK
  <2>2. QED
    BY <1>1, <2>1 DEF QueueOutboundMessage, OutboxTypeOK
<1>2. CASE outbox[m].status # "absent"
  <2>1. outbox[m] \in OutboxRow
    BY DEF OutboxTypeOK
  <2>2. [outbox[m] EXCEPT !.status = "pending", !.due = TRUE, !.stale = FALSE] \in OutboxRow
    BY <2>1 DEF OutboxRow, OutboxStatuses, DeliverableStatuses
  <2>3. QED
    BY <1>2, <2>2 DEF QueueOutboundMessage, OutboxTypeOK
<1>3. QED
  BY <1>1, <1>2

\* updateOutboundMessageStatus keeps rows well-formed.
LEMMA UpdateOutboundMessageStatusType ==
  ASSUME OutboxTypeOK, NEW m \in Messages, NEW status \in OutboxStatuses,
         NEW due \in BOOLEAN, UpdateOutboundMessageStatus(m, status, due), inserted' = inserted
  PROVE  OutboxTypeOK'
<1>1. [outbox[m] EXCEPT !.status = status, !.due = due, !.stale = FALSE] \in OutboxRow
  BY DEF OutboxRow, OutboxTypeOK
<1>2. QED
  BY <1>1 DEF UpdateOutboundMessageStatus, OutboxTypeOK

\* claimOutboundMessageForSending keeps rows well-formed.
LEMMA ClaimOutboundMessageType ==
  ASSUME OutboxTypeOK, NEW m \in Messages,
         ClaimOutboundMessageForSending(m), inserted' = inserted
  PROVE  OutboxTypeOK'
<1> DEFINE attempts == outbox[m].attempts + 1
<1>1. attempts \in Nat
  BY DEF OutboxRow, OutboxTypeOK
<1> HIDE DEF attempts
<1>2. [outbox[m] EXCEPT !.status = "sending", !.due = TRUE, !.stale = FALSE,
                        !.attempts = attempts] \in OutboxRow
  BY <1>1 DEF OutboxRow, OutboxTypeOK, OutboxStatuses, LockedOutboxStatuses
<1>3. outbox' = [outbox EXCEPT ![m] =
        [outbox[m] EXCEPT !.status = "sending", !.due = TRUE, !.stale = FALSE,
                          !.attempts = attempts]]
  BY DEF ClaimOutboundMessageForSending, OutboxTypeOK, OutboxRow, attempts
<1>4. QED
  BY <1>2, <1>3 DEF OutboxTypeOK

\* createApproval keeps rows well-formed.
LEMMA CreateApprovalType ==
  ASSUME ApprovalsTypeOK, NEW a \in Approvals, CreateApproval(a), decisions' = decisions
  PROVE  ApprovalsTypeOK'
<1>1. [approvals[a] EXCEPT !.status = "pending"] \in ApprovalRow
  BY DEF ApprovalRow, ApprovalsTypeOK, ApprovalStatuses
<1>2. QED
  BY <1>1 DEF CreateApproval, ApprovalsTypeOK

\* updateApprovalStatus keeps rows well-formed and records a known event.
LEMMA UpdateApprovalStatusType ==
  ASSUME ApprovalsTypeOK, NEW a \in Approvals, NEW status \in DecisionStatuses,
         UpdateApprovalStatus(a, status)
  PROVE  ApprovalsTypeOK'
<1> DEFINE execution == IF /\ status = "approved"
                           /\ a \in CrossAppApprovals
                           /\ approvals[a].execution = "not_applicable"
                        THEN "pending" ELSE approvals[a].execution
<1>1. approvals[a] \in ApprovalRow
  BY DEF ApprovalsTypeOK
<1>2. execution \in ExecutionStatuses
  BY <1>1 DEF ApprovalRow, ExecutionStatuses
<1> HIDE DEF execution
<1>3. [approvals[a] EXCEPT !.status = status, !.stale = FALSE, !.execution = execution]
        \in ApprovalRow
  BY <1>1, <1>2 DEF ApprovalRow, ApprovalStatuses
<1>4. approvals' = [approvals EXCEPT ![a] =
        [approvals[a] EXCEPT !.status = status, !.stale = FALSE, !.execution = execution]]
  BY <1>1 DEF UpdateApprovalStatus, ApprovalsTypeOK, execution, ApprovalRow
<1>5. approvals' \in [Approvals -> ApprovalRow]
  <2> DEFINE row == [approvals[a] EXCEPT !.status = status, !.stale = FALSE,
                                        !.execution = execution]
  <2>1. row \in ApprovalRow /\ approvals' = [approvals EXCEPT ![a] = row]
    BY <1>3, <1>4
  <2> HIDE DEF row
  <2>2. QED
    BY <2>1 DEF ApprovalsTypeOK
<1>6. decisions' \in [Approvals -> SUBSET DecisionStatuses]
  BY DEF UpdateApprovalStatus, ApprovalsTypeOK
<1>7. QED
  BY <1>5, <1>6 DEF ApprovalsTypeOK

\* updateApprovalPayload keeps rows well-formed.
LEMMA UpdateApprovalPayloadType ==
  ASSUME ApprovalsTypeOK, NEW a \in Approvals, NEW link \in Messages \cup {None},
         UpdateApprovalPayload(a, link), decisions' = decisions
  PROVE  ApprovalsTypeOK'
<1>1. [approvals[a] EXCEPT !.link = link, !.stale = FALSE] \in ApprovalRow
  BY DEF ApprovalRow, ApprovalsTypeOK
<1>2. QED
  BY <1>1 DEF UpdateApprovalPayload, ApprovalsTypeOK

\* claimApprovalExecution, completeApprovalExecution and failApprovalExecution
\* keep rows well-formed.
LEMMA ExecutionWriteType ==
  ASSUME ApprovalsTypeOK, NEW a \in Approvals, NEW result \in ExecutionStatuses,
         \/ FinishApprovalExecution(a, result)
         \/ ClaimApprovalExecution(a),
         decisions' = decisions
  PROVE  ApprovalsTypeOK'
<1>1. \A e \in ExecutionStatuses :
        [approvals[a] EXCEPT !.execution = e, !.stale = FALSE] \in ApprovalRow
  BY DEF ApprovalRow, ApprovalsTypeOK
<1>2. "running" \in ExecutionStatuses
  BY DEF ExecutionStatuses
<1>3. QED
  BY <1>1, <1>2 DEF FinishApprovalExecution, ClaimApprovalExecution, ApprovalsTypeOK

(***************************************************************************)
(* The calls in progress                                                   *)
(***************************************************************************)

\* Beyond its type, what a call has read by the point it has reached.
RequestHolds(q) ==
  /\ q.at \in {"propose_queue", "propose_link", "read_approval", "write_status",
               "write_outbox", "edit_payload", "edit_cancel", "edit_queue", "edit_link"}
       => q.approval \in Approvals
  /\ q.at \in {"propose_link", "edit_link", "write_patch"} => q.message \in Messages
  /\ q.at \in {"write_outbox", "edit_cancel"} => q.link \in Messages
  /\ q.at = "read_approval" => q.verdict \in {"approved", "rejected"}
  /\ q.at \in {"write_status", "write_outbox"} => q.verdict \in DecisionStatuses
  /\ q.at = "write_patch" => q.verdict \in {"pending", "approved", "cancelled"}

RequestsOK ==
  /\ request \in [Requests -> RequestRecord]
  /\ \A r \in Requests : RequestHolds(request[r])

ArmingsOK == armings \in [Messages -> Nat]

\* A call that has not begun or has returned holds nothing.
LEMMA IdleHolds ==
  /\ Idle("new") \in RequestRecord /\ RequestHolds(Idle("new"))
  /\ Idle("done") \in RequestRecord /\ RequestHolds(Idle("done"))
  BY DEF Idle, RequestRecord, RequestHolds, RequestPoints

\* A call moves to a record that is well-formed for its point.
LEMMA BecomeType ==
  ASSUME RequestsOK, NEW r \in Requests, NEW q \in RequestRecord, RequestHolds(q),
         Become(r, q)
  PROVE  RequestsOK'
  BY DEF RequestsOK, Become

\* A handler that returns leaves a well-formed record.
LEMMA ReturnType ==
  ASSUME RequestsOK, NEW r \in Requests, Return(r)
  PROVE  RequestsOK'
  BY IdleHolds, BecomeType DEF Return

\* Arming is counted for the messages of the table only.
LEMMA NoteArmingType ==
  ASSUME ArmingsOK, NEW m \in Messages, NEW status, NoteArming(m, status)
  PROVE  ArmingsOK'
  BY DEF ArmingsOK, NoteArming

\* The read of decideApproval, of the owner's route and of the outbox route.
LEMMA ReadForDecisionType ==
  ASSUME ApprovalsTypeOK, RequestsOK, NEW r \in Requests, NEW a \in Approvals,
         NEW verdict \in {"approved", "rejected"}, ReadForDecision(r, a, verdict)
  PROVE  RequestsOK'
<1> DEFINE q == [Idle("write_status") EXCEPT
                   !.approval = a,
                   !.verdict = IF approvals[a].lapsed THEN "expired" ELSE verdict,
                   !.link = LinkAsRead(a)]
<1>1. CASE Become(r, q)
  <2>1. LinkAsRead(a) \in Messages \cup {None}
    BY DEF LinkAsRead, ApprovalsTypeOK, ApprovalRow
  <2>2. q \in RequestRecord /\ RequestHolds(q)
    BY <2>1 DEF Idle, RequestRecord, RequestHolds, RequestPoints, DecisionStatuses
  <2>3. QED
    BY <1>1, <2>2, BecomeType
<1>2. CASE Return(r)
  BY <1>2, ReturnType
<1>3. QED
  BY <1>1, <1>2 DEF ReadForDecision

\* Queueing a held message, for a proposal or for an edit.
LEMMA QueueHeldType ==
  ASSUME OutboxTypeOK, RequestsOK, NEW r \in Requests,
         NEW from \in {"propose_queue", "edit_queue"},
         NEW to \in {"propose_link", "edit_link"}, QueueHeld(r, from, to)
  PROVE  OutboxTypeOK' /\ RequestsOK'
<1>1. PICK m \in Messages :
        /\ QueueOutboundMessage(m, "requires_approval", request[r].approval)
        /\ Become(r, [request[r] EXCEPT !.at = to, !.message = m])
  BY DEF QueueHeld
<1>2. request[r] \in RequestRecord /\ request[r].approval \in Approvals
  BY DEF RequestsOK, RequestHolds, QueueHeld, At
<1>3. OutboxTypeOK'
  <2>1. "requires_approval" \in OutboxStatuses
    BY DEF OutboxStatuses
  <2>2. QED
    BY <1>1, <1>2, <2>1, QueueOutboundMessageType
<1>4. RequestsOK'
  <2> DEFINE q == [request[r] EXCEPT !.at = to, !.message = m]
  <2>1. q \in RequestRecord
    BY <1>2 DEF RequestRecord, RequestPoints
  <2>2. RequestHolds(q)
    BY <1>2 DEF RequestRecord, RequestHolds
  <2>3. QED
    BY <1>1, <2>1, <2>2, BecomeType
<1>5. QED
  BY <1>3, <1>4

\* Linking a held message, for a proposal or for an edit.
LEMMA LinkHeldType ==
  ASSUME ApprovalsTypeOK, RequestsOK, NEW r \in Requests,
         NEW from \in {"propose_link", "edit_link"}, LinkHeld(r, from)
  PROVE  ApprovalsTypeOK' /\ RequestsOK'
<1>1. request[r].approval \in Approvals /\ request[r].message \in Messages
  BY DEF RequestsOK, RequestHolds, LinkHeld, At
<1>2. QED
  BY <1>1, UpdateApprovalPayloadType, ReturnType DEF LinkHeld

\* Every step of a call keeps the tables and the calls well-formed.
LEMMA RequestStepType ==
  ASSUME OutboxTypeOK, ApprovalsTypeOK, RequestsOK, ArmingsOK,
         NEW r \in Requests, RequestStep(r)
  PROVE  OutboxTypeOK' /\ ApprovalsTypeOK' /\ RequestsOK' /\ ArmingsOK'
<1> USE DEF At
<1>a. request[r] \in RequestRecord /\ RequestHolds(request[r])
  BY DEF RequestsOK
<1>b. /\ (outbox' = outbox /\ inserted' = inserted) => OutboxTypeOK'
      /\ (approvals' = approvals /\ decisions' = decisions) => ApprovalsTypeOK'
      /\ armings' = armings => ArmingsOK'
  BY DEF OutboxTypeOK, ApprovalsTypeOK, ArmingsOK
<1>1. CASE ProposeMessage(r)
  <2>1. PICK a \in Approvals : /\ CreateApproval(a)
                              /\ Become(r, [Idle("propose_queue") EXCEPT !.approval = a])
    BY <1>1 DEF ProposeMessage
  <2>2. ApprovalsTypeOK'
    BY <1>1, <2>1, CreateApprovalType DEF ProposeMessage
  <2> DEFINE q == [Idle("propose_queue") EXCEPT !.approval = a]
  <2>3. q \in RequestRecord /\ RequestHolds(q)
    BY DEF Idle, RequestRecord, RequestHolds, RequestPoints
  <2>4. RequestsOK'
    BY <2>1, <2>3, BecomeType
  <2>5. QED
    BY <1>1, <1>b, <2>2, <2>4 DEF ProposeMessage
<1>2. CASE QueueProposal(r)
  BY <1>2, <1>b, QueueHeldType DEF QueueProposal, QueueHeld
<1>3. CASE LinkProposal(r)
  BY <1>3, <1>b, LinkHeldType DEF LinkProposal, LinkHeld
<1>4. CASE ProposeCrossAppWrite(r)
  <2>1. PICK a \in CrossAppApprovals : CreateApproval(a)
    BY <1>4 DEF ProposeCrossAppWrite
  <2>2. a \in Approvals
    BY <2>1, StoreAssumption
  <2>3. QED
    BY <1>4, <1>b, <2>1, <2>2, CreateApprovalType, ReturnType DEF ProposeCrossAppWrite
<1>5. CASE Decide(r)
  <2>1. PICK a \in Approvals, verdict \in {"approved", "rejected"} :
          ReadForDecision(r, a, verdict)
    BY <1>5 DEF Decide
  <2>2. QED
    BY <1>b, <2>1, ReadForDecisionType DEF ReadForDecision, storeVars
<1>6. CASE WriteDecision(r)
  <2>1. request[r].approval \in Approvals /\ request[r].verdict \in DecisionStatuses
    BY <1>6, <1>a DEF WriteDecision, RequestHolds
  <2>2. ApprovalsTypeOK'
    BY <1>6, <2>1, UpdateApprovalStatusType DEF WriteDecision
  <2>3. CASE request[r].link = None
    BY <1>6, <1>b, <2>2, <2>3, ReturnType DEF WriteDecision
  <2>4. CASE request[r].link # None
    <3> DEFINE q == [request[r] EXCEPT !.at = "write_outbox"]
    <3>1. q \in RequestRecord
      BY <1>a DEF RequestRecord, RequestPoints
    <3>2. RequestHolds(q)
      BY <1>a, <2>1, <2>4 DEF RequestHolds, RequestRecord
    <3>3. Become(r, q)
      BY <1>6, <2>4 DEF WriteDecision, GoTo, Become, RequestsOK
    <3>4. QED
      BY <1>6, <1>b, <2>2, <3>1, <3>2, <3>3, BecomeType DEF WriteDecision
  <2>5. QED
    BY <2>3, <2>4
<1>7. CASE WriteLinkedOutbox(r)
  <2> DEFINE status == IF request[r].verdict = "approved" THEN "approved" ELSE "cancelled"
  <2>1. request[r].link \in Messages /\ status \in OutboxStatuses
    BY <1>7, <1>a DEF WriteLinkedOutbox, RequestHolds, OutboxStatuses,
                      DeliverableStatuses, LockedOutboxStatuses
  <2>2. /\ UpdateOutboundMessageStatus(request[r].link, status, TRUE)
        /\ NoteArming(request[r].link, status)
        /\ Return(r)
        /\ UNCHANGED <<inserted, approvals, decisions>>
    BY <1>7 DEF WriteLinkedOutbox
  <2>3. QED
    BY <1>b, <2>1, <2>2, UpdateOutboundMessageStatusType, NoteArmingType, ReturnType
<1>8. CASE Edit(r)
  <2>1. PICK a \in Approvals :
          Become(r,
            IF approvals[a].status # "pending" THEN Idle("done")
            ELSE IF approvals[a].lapsed
            THEN [Idle("write_status") EXCEPT
                    !.approval = a, !.verdict = "expired", !.link = LinkAsRead(a)]
            ELSE IF a \in CrossAppApprovals THEN Idle("done")
            ELSE [Idle("edit_payload") EXCEPT !.approval = a, !.link = approvals[a].link])
    BY <1>8 DEF Edit
  <2>2. LinkAsRead(a) \in Messages \cup {None} /\ approvals[a].link \in Messages \cup {None}
    BY DEF LinkAsRead, ApprovalsTypeOK, ApprovalRow
  <2> DEFINE expire == [Idle("write_status") EXCEPT
                          !.approval = a, !.verdict = "expired", !.link = LinkAsRead(a)]
             rewrite == [Idle("edit_payload") EXCEPT !.approval = a, !.link = approvals[a].link]
  <2>3. expire \in RequestRecord /\ RequestHolds(expire)
    BY <2>2 DEF Idle, RequestRecord, RequestHolds, RequestPoints, DecisionStatuses
  <2>4. rewrite \in RequestRecord /\ RequestHolds(rewrite)
    BY <2>2 DEF Idle, RequestRecord, RequestHolds, RequestPoints
  <2>5. RequestsOK'
    BY <2>1, <2>3, <2>4, IdleHolds, BecomeType
  <2>6. QED
    BY <1>8, <1>b, <2>5 DEF Edit, storeVars
<1>9. CASE WriteEditedPayload(r)
  <2>1. request[r].approval \in Approvals /\ request[r].link \in Messages \cup {None}
    BY <1>9, <1>a DEF WriteEditedPayload, RequestHolds, RequestRecord
  <2>2. ApprovalsTypeOK'
    BY <1>9, <2>1, UpdateApprovalPayloadType DEF WriteEditedPayload
  <2>3. CASE request[r].link = None
    BY <1>9, <1>b, <2>2, <2>3, ReturnType DEF WriteEditedPayload
  <2>4. CASE request[r].link # None
    <3> DEFINE q == [request[r] EXCEPT !.at = "edit_cancel"]
    <3>1. q \in RequestRecord
      BY <1>a DEF RequestRecord, RequestPoints
    <3>2. RequestHolds(q)
      BY <1>a, <2>1, <2>4 DEF RequestHolds, RequestRecord
    <3>3. Become(r, q)
      BY <1>9, <2>4 DEF WriteEditedPayload, GoTo, Become, RequestsOK
    <3>4. QED
      BY <1>9, <1>b, <2>2, <3>1, <3>2, <3>3, BecomeType DEF WriteEditedPayload
  <2>5. QED
    BY <2>3, <2>4
<1>10. CASE CancelEditedMessage(r)
  <2>1. request[r].link \in Messages /\ request[r].approval \in Approvals
    BY <1>10, <1>a DEF CancelEditedMessage, RequestHolds
  <2>2. OutboxTypeOK'
    BY <1>10, <2>1, UpdateOutboundMessageStatusType
    DEF CancelEditedMessage, OutboxStatuses, LockedOutboxStatuses
  <2> DEFINE q == [request[r] EXCEPT !.at = "edit_queue"]
  <2>3. q \in RequestRecord
    BY <1>a DEF RequestRecord, RequestPoints
  <2>4. RequestHolds(q)
    BY <1>a, <2>1 DEF RequestHolds, RequestRecord
  <2>5. Become(r, q)
    BY <1>10 DEF CancelEditedMessage, GoTo, Become, RequestsOK
  <2>6. QED
    BY <1>10, <1>b, <2>2, <2>3, <2>4, <2>5, BecomeType DEF CancelEditedMessage
<1>11. CASE QueueEditedMessage(r)
  BY <1>11, <1>b, QueueHeldType DEF QueueEditedMessage, QueueHeld
<1>12. CASE LinkEditedMessage(r)
  BY <1>12, <1>b, LinkHeldType DEF LinkEditedMessage, LinkHeld
<1>13. CASE PatchOutbox(r)
  <2>1. PICK m \in Messages, status \in PatchStatuses :
          Become(r,
            IF outbox[m].approval # None /\ status \in {"approved", "cancelled"}
            THEN [Idle("read_approval") EXCEPT
                    !.approval = outbox[m].approval,
                    !.verdict = IF status = "approved" THEN "approved" ELSE "rejected"]
            ELSE [Idle("write_patch") EXCEPT !.message = m, !.verdict = status])
    BY <1>13 DEF PatchOutbox
  <2>2. outbox[m].approval \in Approvals \cup {None}
    BY DEF OutboxTypeOK, OutboxRow
  <2>3. status \in {"pending", "approved", "cancelled"}
    BY PolicyAssumption
  <2> DEFINE decide == [Idle("read_approval") EXCEPT
                          !.approval = outbox[m].approval,
                          !.verdict = IF status = "approved" THEN "approved" ELSE "rejected"]
             write == [Idle("write_patch") EXCEPT !.message = m, !.verdict = status]
  <2>4. ASSUME outbox[m].approval # None
        PROVE  decide \in RequestRecord /\ RequestHolds(decide)
    BY <2>2, <2>4 DEF Idle, RequestRecord, RequestHolds, RequestPoints, DecisionStatuses
  <2>5. write \in RequestRecord /\ RequestHolds(write)
    BY <2>3 DEF Idle, RequestRecord, RequestHolds, RequestPoints, DecisionStatuses,
                OutboxStatuses, DeliverableStatuses, LockedOutboxStatuses
  <2>6. RequestsOK'
    BY <2>1, <2>4, <2>5, BecomeType
  <2>7. QED
    BY <1>13, <1>b, <2>6 DEF PatchOutbox, storeVars
<1>14. CASE DecidePatched(r)
  <2>1. request[r].approval \in Approvals /\ request[r].verdict \in {"approved", "rejected"}
    BY <1>14, <1>a DEF DecidePatched, RequestHolds
  <2>2. QED
    BY <1>14, <1>b, <2>1, ReadForDecisionType DEF DecidePatched, ReadForDecision, storeVars
<1>15. CASE WritePatch(r)
  <2>1. /\ request[r].message \in Messages
        /\ request[r].verdict \in OutboxStatuses
    BY <1>15, <1>a DEF WritePatch, RequestHolds, OutboxStatuses,
                       DeliverableStatuses, LockedOutboxStatuses
  <2>2. QED
    BY <1>15, <1>b, <2>1, UpdateOutboundMessageStatusType, NoteArmingType, ReturnType
    DEF WritePatch
<1>16. CASE QueueOwnerMessage(r)
  <2>1. PICK m \in Messages : QueueOutboundMessage(m, "pending", None) /\ NoteArming(m, "pending")
    BY <1>16 DEF QueueOwnerMessage
  <2>2. "pending" \in OutboxStatuses
    BY DEF OutboxStatuses, DeliverableStatuses
  <2>3. QED
    BY <1>16, <1>b, <2>1, <2>2, QueueOutboundMessageType, NoteArmingType, ReturnType
    DEF QueueOwnerMessage
<1>17. QED
  BY <1>1, <1>2, <1>3, <1>4, <1>5, <1>6, <1>7, <1>8, <1>9, <1>10, <1>11, <1>12,
     <1>13, <1>14, <1>15, <1>16 DEF RequestStep

(***************************************************************************)
(* The workers                                                             *)
(***************************************************************************)

ApprovalPoints ==
  {"expiring", "cancelling", "failing_executions", "executing", "calling",
   "called_ok", "called_failed"}
MessagePoints == {"failing_sends", "delivering", "sending", "accepted", "refused"}

\* Beyond its type, what a tick has listed and taken up by the point it is at.
WorkerHolds(v) ==
  /\ v.at \in ApprovalPoints => \A j \in v.todo : j.approval \in Approvals
  /\ v.at \in MessagePoints => \A j \in v.todo : j.message \in Messages
  /\ v.at = "cancelling" => v.job.message \in Messages
  /\ v.at \in {"calling", "called_ok", "called_failed"} => v.job.approval \in Approvals
  /\ v.at \in {"sending", "accepted", "refused"} => v.job.message \in Messages

WorkerRecord == [at : WorkerPoints, todo : SUBSET Job, job : Job]

WorkersOK ==
  /\ worker \in [Workers -> WorkerRecord]
  /\ \A w \in Workers : WorkerHolds(worker[w])

\* A worker moves to a record that is well-formed for its point.
LEMMA MoveType ==
  ASSUME WorkersOK, NEW w \in Workers, NEW v \in WorkerRecord, WorkerHolds(v),
         worker' = [worker EXCEPT ![w] = v]
  PROVE  WorkersOK'
  BY DEF WorkersOK

\* A listing holds the rows its phase is about.
LEMMA ListForType ==
  ASSUME WorkersOK, NEW w \in Workers, NEW from,
         NEW to \in {"idle", "expiring", "failing_sends", "failing_executions", "tasks",
                     "executing", "delivering"},
         NEW jobs \in SUBSET Job,
         to \in ApprovalPoints => \A j \in jobs : j.approval \in Approvals,
         to \in MessagePoints => \A j \in jobs : j.message \in Messages,
         ListFor(w, from, to, jobs)
  PROVE  WorkersOK'
<1> DEFINE v == [at |-> to, todo |-> jobs, job |-> NoJob]
<1>1. v \in WorkerRecord
  BY DEF WorkerRecord, WorkerPoints, NoJob, Job
<1>2. WorkerHolds(v)
  BY DEF WorkerHolds
<1>3. QED
  BY <1>1, <1>2, MoveType DEF ListFor

\* Taking a row off the list leaves the rest of it.
LEMMA FinishType ==
  ASSUME WorkersOK, NEW w \in Workers, NEW j, Finish(w, j)
  PROVE  WorkersOK'
<1> DEFINE v == [worker[w] EXCEPT !.todo = worker[w].todo \ {j}]
<1>1. worker[w] \in WorkerRecord /\ WorkerHolds(worker[w])
  BY DEF WorkersOK
<1>2. v \in WorkerRecord
  BY <1>1 DEF WorkerRecord
<1>3. WorkerHolds(v)
  BY <1>1 DEF WorkerHolds, WorkerRecord
<1>4. worker' = [worker EXCEPT ![w] = v]
  BY DEF Finish, WorkersOK
<1>5. QED
  BY <1>2, <1>3, <1>4, MoveType

\* Moving on with one row of the list, possibly as the claim returned it.
LEMMA TakeUpType ==
  ASSUME WorkersOK, NEW w \in Workers, NEW j, NEW k \in Job,
         NEW point \in {"cancelling", "calling", "sending"},
         point \in {"cancelling", "calling"} =>
           worker[w].at \in ApprovalPoints /\ k.approval \in Approvals,
         point = "sending" => worker[w].at \in MessagePoints,
         point \in {"cancelling", "sending"} => k.message \in Messages,
         worker' = [worker EXCEPT ![w] = [at |-> point, todo |-> worker[w].todo \ {j}, job |-> k]]
  PROVE  WorkersOK'
<1> DEFINE v == [at |-> point, todo |-> worker[w].todo \ {j}, job |-> k]
<1>1. worker[w] \in WorkerRecord /\ WorkerHolds(worker[w])
  BY DEF WorkersOK
<1>2. v \in WorkerRecord
  BY <1>1 DEF WorkerRecord, WorkerPoints
<1>3. WorkerHolds(v)
  BY <1>1 DEF WorkerHolds, WorkerRecord, ApprovalPoints, MessagePoints
<1>4. QED
  BY <1>2, <1>3, MoveType

\* The row at hand is followed up, to the answer of the call or of the provider.
LEMMA ProceedType ==
  ASSUME WorkersOK, NEW w \in Workers,
         NEW point \in {"called_ok", "called_failed", "accepted", "refused"},
         point \in {"called_ok", "called_failed"} => worker[w].at = "calling",
         point \in {"accepted", "refused"} => worker[w].at = "sending",
         Proceed(w, point)
  PROVE  WorkersOK'
<1> DEFINE v == [worker[w] EXCEPT !.at = point]
<1>1. worker[w] \in WorkerRecord /\ WorkerHolds(worker[w])
  BY DEF WorkersOK
<1>2. v \in WorkerRecord
  BY <1>1 DEF WorkerRecord, WorkerPoints
<1>3. WorkerHolds(v)
  BY <1>1 DEF WorkerHolds, WorkerRecord, ApprovalPoints, MessagePoints
<1>4. worker' = [worker EXCEPT ![w] = v]
  BY DEF Proceed, WorkersOK
<1>5. QED
  BY <1>2, <1>3, <1>4, MoveType

\* Back to the list, once the row at hand is settled.
LEMMA ResumeType ==
  ASSUME WorkersOK, NEW w \in Workers,
         NEW point \in {"expiring", "executing", "delivering"},
         point \in {"expiring", "executing"} => worker[w].at \in ApprovalPoints,
         point = "delivering" => worker[w].at \in MessagePoints,
         Resume(w, point)
  PROVE  WorkersOK'
<1> DEFINE v == [worker[w] EXCEPT !.at = point, !.job = NoJob]
<1>1. worker[w] \in WorkerRecord /\ WorkerHolds(worker[w])
  BY DEF WorkersOK
<1>2. v \in WorkerRecord
  BY <1>1 DEF WorkerRecord, WorkerPoints, NoJob, Job
<1>3. WorkerHolds(v)
  BY <1>1 DEF WorkerHolds, WorkerRecord, ApprovalPoints, MessagePoints
<1>4. worker' = [worker EXCEPT ![w] = v]
  BY DEF Resume, WorkersOK
<1>5. QED
  BY <1>2, <1>3, <1>4, MoveType

\* The jobs a listing makes of rows.
LEMMA JobTypes ==
  /\ \A a \in Approvals : ApprovalJob(a) \in Job /\ ApprovalJob(a).approval = a
  /\ \A m \in Messages : MessageJob(m) \in Job /\ MessageJob(m).message = m
  BY DEF ApprovalJob, MessageJob, NoJob, Job

\* Every step of recoverStuckWorkerState keeps tables and workers well-formed.
LEMMA RecoveryStepType ==
  ASSUME OutboxTypeOK, ApprovalsTypeOK, WorkersOK, NEW w \in Workers, RecoveryStep(w)
  PROVE  OutboxTypeOK' /\ ApprovalsTypeOK' /\ WorkersOK'
<1> USE DEF WorkerAt
<1>a. worker[w] \in WorkerRecord /\ WorkerHolds(worker[w])
  BY DEF WorkersOK
<1>b. /\ (outbox' = outbox /\ inserted' = inserted) => OutboxTypeOK'
      /\ (approvals' = approvals /\ decisions' = decisions) => ApprovalsTypeOK'
  BY DEF OutboxTypeOK, ApprovalsTypeOK
<1>1. CASE ListLapsedApprovals(w)
  <2> DEFINE lapsed == {b \in Approvals : approvals[b].status = "pending" /\ approvals[b].lapsed}
             job(a) == [approval |-> a,
                        message |-> IF a \in CrossAppApprovals THEN None ELSE approvals[a].link,
                        retry |-> FALSE]
             jobs == {job(a) : a \in lapsed}
  <2>1. \A a \in Approvals : approvals[a].link \in Messages \cup {None}
    BY DEF ApprovalsTypeOK, ApprovalRow
  <2>2. \A a \in lapsed : job(a) \in Job /\ job(a).approval \in Approvals
    BY <2>1 DEF Job
  <2>3. ListFor(w, "idle", "expiring", jobs)
    BY <1>1 DEF ListLapsedApprovals
  <2>4. jobs \in SUBSET Job /\ \A j \in jobs : j.approval \in Approvals
    BY <2>2
  <2> HIDE DEF jobs
  <2>5. WorkersOK'
    BY <2>3, <2>4, ListForType DEF MessagePoints
  <2>6. QED
    BY <1>1, <1>b, <2>5 DEF ListLapsedApprovals, storeVars
<1>2. CASE ExpireApproval(w)
  <2>1. PICK j \in worker[w].todo :
          /\ UpdateApprovalStatus(j.approval, "expired")
          /\ IF j.message = None THEN Finish(w, j) ELSE TakeUp(w, j, "cancelling")
    BY <1>2 DEF ExpireApproval
  <2>2. j \in Job /\ j.approval \in Approvals
    BY <1>2, <1>a, <2>1 DEF ExpireApproval, WorkerHolds, WorkerRecord, ApprovalPoints
  <2>3. ApprovalsTypeOK'
    BY <2>1, <2>2, UpdateApprovalStatusType DEF DecisionStatuses
  <2>4. CASE j.message = None
    BY <1>2, <1>b, <2>1, <2>3, <2>4, FinishType DEF ExpireApproval
  <2>5. CASE j.message # None
    <3>1. j.message \in Messages
      BY <2>2, <2>5 DEF Job
    <3>2. worker' = [worker EXCEPT ![w] =
            [at |-> "cancelling", todo |-> worker[w].todo \ {j}, job |-> j]]
      BY <2>1, <2>5 DEF TakeUp, WorkersOK
    <3>3. WorkersOK'
      BY <1>2, <2>2, <3>1, <3>2, TakeUpType DEF ExpireApproval, ApprovalPoints
    <3>4. QED
      BY <1>2, <1>b, <2>3, <3>3 DEF ExpireApproval
  <2>6. QED
    BY <2>4, <2>5
<1>3. CASE CancelLinkedOutbox(w)
  <2>1. worker[w].job.message \in Messages
    BY <1>3, <1>a DEF CancelLinkedOutbox, WorkerHolds
  <2>2. OutboxTypeOK'
    BY <1>3, <2>1, UpdateOutboundMessageStatusType
    DEF CancelLinkedOutbox, OutboxStatuses, LockedOutboxStatuses
  <2>3. WorkersOK'
    BY <1>3, ResumeType DEF CancelLinkedOutbox, ApprovalPoints
  <2>4. QED
    BY <1>3, <1>b, <2>2, <2>3 DEF CancelLinkedOutbox
<1>4. CASE ListStuckSends(w)
  <2> DEFINE stuck == {n \in Messages : outbox[n].status = "sending" /\ outbox[n].stale}
             job(m) == [MessageJob(m) EXCEPT !.retry = AttemptsLeft(m)]
             jobs == {job(m) : m \in stuck}
  <2>1. \A m \in stuck : job(m) \in Job /\ job(m).message \in Messages
    BY DEF Job, MessageJob, NoJob, AttemptsLeft
  <2>2. ListFor(w, "expiring", "failing_sends", jobs)
    BY <1>4 DEF ListStuckSends
  <2>3. jobs \in SUBSET Job /\ \A j \in jobs : j.message \in Messages
    BY <2>1
  <2> HIDE DEF jobs
  <2>4. WorkersOK'
    BY <2>2, <2>3, ListForType DEF ApprovalPoints
  <2>5. QED
    BY <1>4, <1>b, <2>4 DEF ListStuckSends, storeVars
<1>5. CASE SettleStuckSend(w)
  <2>1. PICK j \in worker[w].todo :
          /\ UpdateOutboundMessageStatus(j.message, IF j.retry THEN "pending" ELSE "failed", TRUE)
          /\ Finish(w, j)
    BY <1>5 DEF SettleStuckSend
  <2>2. j.message \in Messages
    BY <1>5, <1>a, <2>1 DEF SettleStuckSend, WorkerHolds, MessagePoints
  <2>3. (IF j.retry THEN "pending" ELSE "failed") \in OutboxStatuses
    BY DEF OutboxStatuses, DeliverableStatuses, LockedOutboxStatuses
  <2>4. QED
    BY <1>5, <1>b, <2>1, <2>2, <2>3, UpdateOutboundMessageStatusType, FinishType
    DEF SettleStuckSend
<1>6. CASE ListStuckExecutions(w)
  <2> DEFINE stuck == {b \in CrossAppApprovals : /\ approvals[b].status = "approved"
                                                 /\ approvals[b].execution = "running"
                                                 /\ approvals[b].stale}
             jobs == {ApprovalJob(a) : a \in stuck}
  <2>1. ListFor(w, "failing_sends", "failing_executions", jobs)
    BY <1>6 DEF ListStuckExecutions
  <2>2. jobs \in SUBSET Job /\ \A j \in jobs : j.approval \in Approvals
    BY JobTypes, StoreAssumption
  <2> HIDE DEF jobs
  <2>3. WorkersOK'
    BY <2>1, <2>2, ListForType DEF MessagePoints
  <2>4. QED
    BY <1>6, <1>b, <2>3 DEF ListStuckExecutions, storeVars
<1>7. CASE FailStuckExecution(w)
  <2>1. PICK j \in worker[w].todo :
          /\ FinishApprovalExecution(j.approval, "failed")
          /\ Finish(w, j)
    BY <1>7 DEF FailStuckExecution
  <2>2. j.approval \in Approvals
    BY <1>7, <1>a, <2>1 DEF FailStuckExecution, WorkerHolds, ApprovalPoints
  <2>3. QED
    BY <1>7, <1>b, <2>1, <2>2, ExecutionWriteType, FinishType
    DEF FailStuckExecution, ExecutionStatuses
<1>8. CASE EndRecovery(w)
  BY <1>8, <1>b, ListForType DEF EndRecovery, storeVars, ApprovalPoints, MessagePoints
<1>9. QED
  BY <1>1, <1>2, <1>3, <1>4, <1>5, <1>6, <1>7, <1>8 DEF RecoveryStep

\* Every step of executeApprovedCrossAppApprovals keeps tables, workers and the
\* count of performed writes well-formed.
LEMMA ExecutorStepType ==
  ASSUME OutboxTypeOK, ApprovalsTypeOK, WorkersOK, ExecutorTypeOK,
         NEW w \in Workers, ExecutorStep(w)
  PROVE  OutboxTypeOK' /\ ApprovalsTypeOK' /\ WorkersOK' /\ ExecutorTypeOK'
<1> USE DEF WorkerAt
<1>a. worker[w] \in WorkerRecord /\ WorkerHolds(worker[w])
  BY DEF WorkersOK
<1>b. /\ (outbox' = outbox /\ inserted' = inserted) => OutboxTypeOK'
      /\ (approvals' = approvals /\ decisions' = decisions) => ApprovalsTypeOK'
      /\ calls' = calls => ExecutorTypeOK'
  BY DEF OutboxTypeOK, ApprovalsTypeOK, ExecutorTypeOK
<1>1. CASE ListExecutable(w)
  <2> DEFINE jobs == {ApprovalJob(a) : a \in {b \in Approvals : Executable(b)}}
  <2>1. jobs \in SUBSET Job /\ \A j \in jobs : j.approval \in Approvals
    BY JobTypes
  <2>2. ListFor(w, "tasks", "executing", jobs)
    BY <1>1 DEF ListExecutable
  <2> HIDE DEF jobs
  <2>3. WorkersOK'
    BY <2>1, <2>2, ListForType DEF MessagePoints
  <2>4. QED
    BY <1>1, <1>b, <2>3 DEF ListExecutable, storeVars
<1>2. CASE ClaimExecution(w)
  <2>1. PICK j \in worker[w].todo :
          \/ ClaimApprovalExecution(j.approval) /\ TakeUp(w, j, "calling")
          \/ ~Executable(j.approval) /\ Finish(w, j) /\ approvals' = approvals
    BY <1>2 DEF ClaimExecution
  <2>2. j \in Job /\ j.approval \in Approvals
    BY <1>2, <1>a, <2>1 DEF ClaimExecution, WorkerHolds, WorkerRecord, ApprovalPoints
  <2>3. CASE ClaimApprovalExecution(j.approval) /\ TakeUp(w, j, "calling")
    <3>1. worker' = [worker EXCEPT ![w] =
            [at |-> "calling", todo |-> worker[w].todo \ {j}, job |-> j]]
      BY <2>3 DEF TakeUp, WorkersOK
    <3>2. WorkersOK'
      BY <1>2, <2>2, <3>1, TakeUpType DEF ClaimExecution, ApprovalPoints
    <3>3. ApprovalsTypeOK'
      BY <1>2, <2>2, <2>3, ExecutionWriteType DEF ClaimExecution, ExecutionStatuses
    <3>4. QED
      BY <1>2, <1>b, <3>2, <3>3 DEF ClaimExecution
  <2>4. CASE Finish(w, j) /\ approvals' = approvals
    BY <1>2, <1>b, <2>4, FinishType DEF ClaimExecution
  <2>5. QED
    BY <2>1, <2>3, <2>4
<1>3. CASE RefuseExecution(w)
  BY <1>3, <1>b, ProceedType DEF RefuseExecution, storeVars
<1>4. CASE CallTargetApp(w)
  <2>1. worker[w].job.approval \in Approvals
    BY <1>4, <1>a DEF CallTargetApp, WorkerHolds
  <2>2. ExecutorTypeOK'
    BY <1>4, <2>1 DEF CallTargetApp, ExecutorTypeOK
  <2>3. WorkersOK'
    BY <1>4, ProceedType DEF CallTargetApp
  <2>4. QED
    BY <1>4, <1>b, <2>2, <2>3 DEF CallTargetApp, storeVars
<1>5. CASE RecordExecution(w)
  <2>1. worker[w].job.approval \in Approvals /\ worker[w].at \in ApprovalPoints
    BY <1>5, <1>a DEF RecordExecution, WorkerHolds, ApprovalPoints
  <2>2. ApprovalsTypeOK'
    BY <1>5, <2>1, ExecutionWriteType DEF RecordExecution, ExecutionStatuses
  <2>3. WorkersOK'
    BY <1>5, <2>1, ResumeType DEF RecordExecution
  <2>4. QED
    BY <1>5, <1>b, <2>2, <2>3 DEF RecordExecution
<1>6. QED
  BY <1>1, <1>2, <1>3, <1>4, <1>5 DEF ExecutorStep

\* Every step of processOutboundQueue keeps tables, workers and the count of
\* accepted messages well-formed.
LEMMA SenderStepType ==
  ASSUME OutboxTypeOK, ApprovalsTypeOK, WorkersOK, SenderTypeOK,
         NEW w \in Workers, SenderStep(w)
  PROVE  OutboxTypeOK' /\ ApprovalsTypeOK' /\ WorkersOK' /\ SenderTypeOK'
<1> USE DEF WorkerAt
<1>a. worker[w] \in WorkerRecord /\ WorkerHolds(worker[w])
  BY DEF WorkersOK
<1>b. /\ (outbox' = outbox /\ inserted' = inserted) => OutboxTypeOK'
      /\ (approvals' = approvals /\ decisions' = decisions) => ApprovalsTypeOK'
      /\ accepted' = accepted => SenderTypeOK'
  BY DEF OutboxTypeOK, ApprovalsTypeOK, SenderTypeOK
<1>c. {"pending", "failed", "sent"} \subseteq OutboxStatuses
  BY DEF OutboxStatuses, DeliverableStatuses, LockedOutboxStatuses
<1>1. CASE ListDeliverable(w)
  <2> DEFINE jobs == {MessageJob(m) : m \in FirstDue}
  <2>1. jobs \in SUBSET Job /\ \A j \in jobs : j.message \in Messages
    BY JobTypes DEF FirstDue, DueMessages
  <2>2. ListFor(w, "executing", "delivering", jobs)
    BY <1>1 DEF ListDeliverable
  <2> HIDE DEF jobs
  <2>3. WorkersOK'
    BY <2>1, <2>2, ListForType DEF ApprovalPoints
  <2>4. QED
    BY <1>1, <1>b, <2>3 DEF ListDeliverable, storeVars
<1>2. CASE FailBeforeClaim(w)
  <2>1. PICK j \in worker[w].todo :
          UpdateOutboundMessageStatus(j.message, "failed", TRUE) /\ Finish(w, j)
    BY <1>2 DEF FailBeforeClaim
  <2>2. j.message \in Messages
    BY <1>2, <1>a, <2>1 DEF FailBeforeClaim, WorkerHolds, MessagePoints
  <2>3. QED
    BY <1>2, <1>b, <1>c, <2>1, <2>2, UpdateOutboundMessageStatusType, FinishType
    DEF FailBeforeClaim
<1>3. CASE ClaimMessage(w)
  <2> DEFINE claimed(j) == [j EXCEPT !.retry =
               /\ j.message \in DailyCheckIns
               /\ outbox[j.message].attempts + 1 < MaxDeliveryAttempts]
  <2>1. PICK j \in worker[w].todo :
          \/ /\ ClaimOutboundMessageForSending(j.message)
             /\ worker' = [worker EXCEPT ![w] =
                  [at |-> "sending", todo |-> worker[w].todo \ {j}, job |-> claimed(j)]]
          \/ Finish(w, j) /\ outbox' = outbox
    BY <1>3 DEF ClaimMessage, WorkersOK
  <2>2. j \in Job /\ j.message \in Messages /\ worker[w].at = "delivering"
    BY <1>3, <1>a, <2>1 DEF ClaimMessage, WorkerHolds, WorkerRecord, MessagePoints
  <2>3. CASE /\ ClaimOutboundMessageForSending(j.message)
             /\ worker' = [worker EXCEPT ![w] =
                  [at |-> "sending", todo |-> worker[w].todo \ {j}, job |-> claimed(j)]]
    <3>1. claimed(j) \in Job /\ claimed(j).message \in Messages
      BY <2>2 DEF Job
    <3> HIDE DEF claimed
    <3>2. WorkersOK'
      BY <2>2, <2>3, <3>1, TakeUpType DEF MessagePoints
    <3>3. OutboxTypeOK'
      BY <1>3, <2>2, <2>3, ClaimOutboundMessageType DEF ClaimMessage
    <3>4. QED
      BY <1>3, <1>b, <3>2, <3>3 DEF ClaimMessage
  <2>4. CASE Finish(w, j) /\ outbox' = outbox
    BY <1>3, <1>b, <2>4, FinishType DEF ClaimMessage
  <2>5. QED
    BY <2>1, <2>3, <2>4
<1>4. CASE SendMail(w)
  <2>1. worker[w].job.message \in Messages
    BY <1>4, <1>a DEF SendMail, WorkerHolds
  <2>2. SenderTypeOK'
    BY <1>4, <2>1 DEF SendMail, SenderTypeOK
  <2>3. WorkersOK'
    BY <1>4, ProceedType DEF SendMail
  <2>4. QED
    BY <1>4, <1>b, <2>2, <2>3 DEF SendMail, storeVars
<1>5. CASE RecordSent(w)
  <2>1. worker[w].job.message \in Messages /\ worker[w].at \in MessagePoints
    BY <1>5, <1>a DEF RecordSent, WorkerHolds, MessagePoints
  <2>2. QED
    BY <1>5, <1>b, <1>c, <2>1, UpdateOutboundMessageStatusType, ResumeType DEF RecordSent
<1>6. CASE RecordRefusal(w)
  <2> DEFINE j == worker[w].job
  <2>1. j \in Job /\ j.message \in Messages /\ worker[w].at \in MessagePoints
    BY <1>6, <1>a DEF RecordRefusal, WorkerHolds, WorkerRecord, MessagePoints
  <2>2. /\ UpdateOutboundMessageStatus(j.message, IF j.retry THEN "pending" ELSE "failed", ~j.retry)
        /\ Resume(w, "delivering")
        /\ UNCHANGED <<inserted, approvals, decisions, accepted>>
    BY <1>6 DEF RecordRefusal
  <2>3. (IF j.retry THEN "pending" ELSE "failed") \in OutboxStatuses /\ (~j.retry) \in BOOLEAN
    BY <1>c
  <2>4. OutboxTypeOK'
    BY <2>1, <2>2, <2>3, UpdateOutboundMessageStatusType
  <2>5. WorkersOK'
    BY <2>1, <2>2, ResumeType
  <2>6. QED
    BY <1>b, <2>2, <2>4, <2>5
<1>7. CASE EndTick(w)
  BY <1>7, <1>b, ListForType DEF EndTick, storeVars, ApprovalPoints, MessagePoints
<1>8. QED
  BY <1>1, <1>2, <1>3, <1>4, <1>5, <1>6, <1>7 DEF SenderStep

(***************************************************************************)
(* Type correctness of the whole                                           *)
(***************************************************************************)

TypeInv ==
  /\ OutboxTypeOK
  /\ ApprovalsTypeOK
  /\ RequestsOK
  /\ ArmingsOK
  /\ WorkersOK
  /\ ExecutorTypeOK
  /\ SenderTypeOK
  /\ failures \in Nat

\* What the calls and the ticks hold is more than TypeOK asks for.
LEMMA TypeInvImpliesTypeOK == TypeInv => TypeOK
  BY DEF TypeInv, TypeOK, StoreTypeOK, OutboxTypeOK, ApprovalsTypeOK, PolicyTypeOK,
         RequestsOK, ArmingsOK, WorkerTypeOK, WorkersOK, WorkerRecord

\* The empty database and idle processes are well-formed.
LEMMA InitTypeInv == Init => TypeInv
<1> SUFFICES ASSUME Init PROVE TypeInv
  OBVIOUS
<1> USE DEF Init
<1>1. OutboxTypeOK /\ ApprovalsTypeOK
  BY DEF StoreInit, OutboxTypeOK, ApprovalsTypeOK, NoOutboxRow, OutboxRow, OutboxStatuses,
         NoApprovalRow, ApprovalRow, ApprovalStatuses, ExecutionStatuses
<1>2. RequestsOK /\ ArmingsOK
  BY IdleHolds DEF PolicyInit, RequestsOK, ArmingsOK
<1>3. WorkersOK
  BY DEF WorkerInit, WorkersOK, AtRest, WorkerRecord, WorkerPoints, NoJob, Job, WorkerHolds,
         ApprovalPoints, MessagePoints
<1>4. ExecutorTypeOK /\ SenderTypeOK
  BY DEF ExecutorInit, SenderInit, ExecutorTypeOK, SenderTypeOK
<1>5. QED
  BY <1>1, <1>2, <1>3, <1>4 DEF TypeInv

\* The passing of time keeps the rows well-formed.
LEMMA TimePassesType ==
  ASSUME OutboxTypeOK, ApprovalsTypeOK, TimePasses
  PROVE  OutboxTypeOK' /\ ApprovalsTypeOK'
<1>1. ASSUME NEW a \in Approvals, ApprovalAges(a)
      PROVE  OutboxTypeOK' /\ ApprovalsTypeOK'
  <2>1. /\ [approvals[a] EXCEPT !.lapsed = TRUE] \in ApprovalRow
        /\ [approvals[a] EXCEPT !.stale = TRUE] \in ApprovalRow
    BY DEF ApprovalRow, ApprovalsTypeOK
  <2>2. QED
    BY <1>1, <2>1 DEF ApprovalAges, LapseApproval, AgeExecution, ApprovalsTypeOK, OutboxTypeOK
<1>2. ASSUME NEW m \in Messages, MessageAges(m)
      PROVE  OutboxTypeOK' /\ ApprovalsTypeOK'
  <2>1. /\ [outbox[m] EXCEPT !.stale = TRUE] \in OutboxRow
        /\ [outbox[m] EXCEPT !.due = TRUE] \in OutboxRow
    BY DEF OutboxRow, OutboxTypeOK
  <2>2. QED
    BY <1>2, <2>1 DEF MessageAges, AgeSend, ComeDue, ApprovalsTypeOK, OutboxTypeOK
<1>3. QED
  BY <1>1, <1>2 DEF TimePasses

\* A step of a worker, whatever the phase of its tick.
LEMMA WorkerStepType ==
  ASSUME TypeInv, NEW w \in Workers, WorkerStep(w)
  PROVE  TypeInv'
<1> USE DEF TypeInv
<1>1. (policyVars' = policyVars /\ failures' = failures)
        /\ (accepted' = accepted => SenderTypeOK') /\ (calls' = calls => ExecutorTypeOK')
        /\ RequestsOK' /\ ArmingsOK' /\ failures' \in Nat
  BY DEF WorkerStep, policyVars, RequestsOK, ArmingsOK, SenderTypeOK, ExecutorTypeOK
<1>2. CASE RecoveryStep(w) /\ UNCHANGED externals
  BY <1>1, <1>2, RecoveryStepType DEF externals
<1>3. CASE QueueDailyCheckIn(w) /\ UNCHANGED externals
  <2>1. PICK m \in DailyCheckIns : QueueOutboundMessage(m, "pending", None)
    BY <1>3 DEF QueueDailyCheckIn
  <2>2. m \in Messages /\ "pending" \in OutboxStatuses
    BY StoreAssumption DEF OutboxStatuses, DeliverableStatuses
  <2>3. OutboxTypeOK'
    BY <2>1, <2>2, QueueOutboundMessageType
  <2>4. QED
    BY <1>1, <1>3, <2>3 DEF QueueDailyCheckIn, externals, ApprovalsTypeOK, WorkersOK
<1>4. CASE ExecutorStep(w) /\ UNCHANGED accepted
  BY <1>1, <1>4, ExecutorStepType
<1>5. CASE SenderStep(w) /\ UNCHANGED calls
  BY <1>1, <1>5, SenderStepType
<1>6. QED
  BY <1>2, <1>3, <1>4, <1>5 DEF WorkerStep

\* An abandoned call returns; an abandoned tick forgets everything.
LEMMA FailType ==
  ASSUME TypeInv, Fail
  PROVE  TypeInv'
<1> USE DEF TypeInv
<1>1. ASSUME NEW r \in Requests, AbandonRequest(r), UNCHANGED worker
      PROVE  TypeInv'
  BY <1>1, ReturnType DEF Fail, AbandonRequest, storeVars, externals, OutboxTypeOK,
     ApprovalsTypeOK, ArmingsOK, WorkersOK, ExecutorTypeOK, SenderTypeOK
<1>2. ASSUME NEW w \in Workers, AbandonTick(w), UNCHANGED policyVars
      PROVE  TypeInv'
  <2>1. AtRest \in WorkerRecord /\ WorkerHolds(AtRest)
    BY DEF AtRest, WorkerRecord, WorkerPoints, NoJob, Job, WorkerHolds,
           ApprovalPoints, MessagePoints
  <2>2. WorkersOK'
    BY <1>2, <2>1, MoveType DEF AbandonTick
  <2>3. QED
    BY <1>2, <2>2 DEF Fail, AbandonTick, storeVars, externals, policyVars, OutboxTypeOK,
       ApprovalsTypeOK, RequestsOK, ArmingsOK, ExecutorTypeOK, SenderTypeOK
<1>3. QED
  BY <1>1, <1>2 DEF Fail

\* Every step keeps the strengthened type invariant.
LEMMA NextTypeInv == TypeInv /\ [Next]_vars => TypeInv'
<1> SUFFICES ASSUME TypeInv, [Next]_vars PROVE TypeInv'
  OBVIOUS
<1>1. ASSUME NEW r \in Requests, RequestProgress(r) PROVE TypeInv'
  BY <1>1, RequestStepType DEF RequestProgress, TypeInv, externals, WorkersOK,
     ExecutorTypeOK, SenderTypeOK
<1>2. ASSUME NEW w \in Workers, WorkerStep(w) PROVE TypeInv'
  BY <1>2, WorkerStepType
<1>3. CASE Fail
  BY <1>3, FailType
<1>4. CASE TimePasses
  <2>1. UNCHANGED <<policyVars, worker, externals, failures>>
    BY <1>4 DEF TimePasses, ApprovalAges, MessageAges
  <2>2. QED
    BY <1>4, <2>1, TimePassesType DEF TypeInv, policyVars, externals, RequestsOK, ArmingsOK,
       WorkersOK, ExecutorTypeOK, SenderTypeOK
<1>5. CASE UNCHANGED vars
  BY <1>5 DEF vars, storeVars, policyVars, externals, TypeInv, OutboxTypeOK, ApprovalsTypeOK,
     RequestsOK, ArmingsOK, WorkersOK, ExecutorTypeOK, SenderTypeOK
<1>6. QED
  BY <1>1, <1>2, <1>3, <1>4, <1>5 DEF Next

\* Every call and every tick holds the rows its next step needs, always.
THEOREM HandlersHoldTheirRows == Spec => []TypeInv
  BY InitTypeInv, NextTypeInv, PTL DEF Spec

\* The two tables, the calls, the ticks and the two counters outside have
\* their types in every reachable state (TypeOK).
THEOREM TypeCorrect == Spec => []TypeOK
  BY HandlersHoldTheirRows, TypeInvImpliesTypeOK, PTL

(***************************************************************************)
(* Cross-application writes: at most one call, only after the owner's      *)
(* approval, an execution status that only moves forward, and the          *)
(* refinement of CrossAppWrite, for any number of workers and requests.    *)
(*                                                                         *)
(* An execution that has left "pending" never returns to it, and leaving   *)
(* it is what makes a worker the caller of the approval: so there is one   *)
(* caller ever, and it calls once.  ExecInv says so of every caller.       *)
(***************************************************************************)

CallPoints == {"calling", "called_ok", "called_failed"}

\* The execution has been claimed, now or earlier.
Claimed(a) == approvals[a].execution \notin {"not_applicable", "pending"}

CallsInv ==
  \A a \in Approvals :
    /\ calls[a] \in {0, 1}
    /\ calls[a] = 1 => Claimed(a)
    /\ approvals[a].execution = "succeeded" => calls[a] = 1
    /\ approvals[a].execution # "not_applicable" =>
         a \in CrossAppApprovals /\ "approved" \in decisions[a]

Calling(w, a) == worker[w].at \in CallPoints /\ worker[w].job.approval = a

CallersInv ==
  \A w \in Workers, a \in Approvals : Calling(w, a) =>
    /\ Claimed(a)
    /\ worker[w].at = "calling" => calls[a] = 0
    /\ worker[w].at = "called_ok" => calls[a] = 1
    /\ \A u \in Workers \ {w} : ~Calling(u, a)

ExecInv == CallsInv /\ CallersInv

(***************************************************************************)
(* The kinds of steps, as far as executions are concerned                  *)
(***************************************************************************)

\* No worker becomes the caller of an approval.
CallersKept ==
  \A w \in Workers : worker'[w].at \in CallPoints =>
    worker'[w].at = worker[w].at /\ worker'[w].job = worker[w].job

Unconcerned ==
  /\ \A a \in Approvals : approvals'[a].execution = approvals[a].execution
  /\ UNCHANGED <<decisions, calls>>
  /\ CallersKept

Decided ==
  /\ \E a \in Approvals, status \in DecisionStatuses : UpdateApprovalStatus(a, status)
  /\ calls' = calls
  /\ CallersKept

GivenUp ==
  /\ \E a \in Approvals : FinishApprovalExecution(a, "failed")
  /\ UNCHANGED <<decisions, calls>>
  /\ CallersKept

ExecutorKind ==
  \E w \in Workers :
    ClaimExecution(w) \/ RefuseExecution(w) \/ CallTargetApp(w) \/ RecordExecution(w)

\* createApproval and updateApprovalPayload leave the execution alone.
LEMMA ExecutionUntouched ==
  ASSUME ApprovalsTypeOK, NEW a \in Approvals,
         CreateApproval(a) \/ \E link : UpdateApprovalPayload(a, link)
  PROVE  \A b \in Approvals : approvals'[b].execution = approvals[b].execution
<1>1. CASE CreateApproval(a)
  BY <1>1 DEF ApprovalsTypeOK, ApprovalRow, CreateApproval
<1>2. ASSUME NEW link, UpdateApprovalPayload(a, link)
      PROVE  \A b \in Approvals : approvals'[b].execution = approvals[b].execution
  <2> DEFINE row == [approvals[a] EXCEPT !.link = link, !.stale = FALSE]
  <2>1. row.execution = approvals[a].execution
    BY DEF ApprovalsTypeOK, ApprovalRow
  <2>2. approvals' = approvals \/ approvals' = [approvals EXCEPT ![a] = row]
    BY <1>2 DEF UpdateApprovalPayload, ApprovalsTypeOK
  <2> HIDE DEF row
  <2>3. QED
    BY <2>1, <2>2 DEF ApprovalsTypeOK
<1>3. QED
  BY <1>1, <1>2

\* A step of a call of a handler decides an approval or leaves executions alone.
LEMMA RequestKinds ==
  ASSUME TypeInv, NEW r \in Requests, RequestProgress(r)
  PROVE  Unconcerned \/ Decided
<1>a. CallersKept /\ calls' = calls
  BY DEF RequestProgress, CallersKept, externals
<1>b. request[r] \in RequestRecord /\ RequestHolds(request[r])
  BY DEF TypeInv, RequestsOK
<1>1. CASE UNCHANGED <<approvals, decisions>>
  BY <1>1, <1>a DEF Unconcerned
<1>2. CASE \E a \in Approvals : CreateApproval(a) /\ decisions' = decisions
  BY <1>2, <1>a, ExecutionUntouched DEF Unconcerned, TypeInv
<1>3. CASE \E a \in Approvals : (\E link : UpdateApprovalPayload(a, link)) /\ decisions' = decisions
  BY <1>3, <1>a, ExecutionUntouched DEF Unconcerned, TypeInv
<1>4. CASE WriteDecision(r)
  BY <1>4, <1>a, <1>b DEF WriteDecision, Decided, RequestHolds, At
<1>5. CASE ProposeMessage(r) \/ ProposeCrossAppWrite(r)
  BY <1>2, <1>5, StoreAssumption DEF ProposeMessage, ProposeCrossAppWrite
<1>6. CASE LinkProposal(r) \/ LinkEditedMessage(r)
  BY <1>3, <1>6, <1>b DEF LinkProposal, LinkEditedMessage, LinkHeld, RequestHolds, At
<1>7. CASE WriteEditedPayload(r)
  BY <1>3, <1>7, <1>b DEF WriteEditedPayload, RequestHolds, At
<1>8. CASE \/ QueueProposal(r) \/ Decide(r) \/ WriteLinkedOutbox(r) \/ Edit(r)
           \/ CancelEditedMessage(r) \/ QueueEditedMessage(r) \/ PatchOutbox(r)
           \/ DecidePatched(r) \/ WritePatch(r) \/ QueueOwnerMessage(r)
  BY <1>1, <1>8 DEF QueueProposal, Decide, WriteLinkedOutbox, Edit, CancelEditedMessage,
     QueueEditedMessage, PatchOutbox, DecidePatched, WritePatch, QueueOwnerMessage,
     QueueHeld, ReadForDecision, storeVars
<1>9. QED
  BY <1>4, <1>5, <1>6, <1>7, <1>8 DEF RequestProgress, RequestStep

\* A step of a tick outside the executor decides (expires) an approval, gives an
\* execution up, or leaves executions alone.
LEMMA WorkerKinds ==
  ASSUME TypeInv, NEW w \in Workers, WorkerStep(w)
  PROVE  Unconcerned \/ Decided \/ GivenUp \/ ExecutorKind
<1>a. worker \in [Workers -> WorkerRecord] /\ WorkerHolds(worker[w])
  BY DEF TypeInv, WorkersOK
<1>b. ASSUME NEW v, worker' = [worker EXCEPT ![w] = v],
             v.at \in CallPoints => v.at = worker[w].at /\ v.job = worker[w].job
      PROVE  CallersKept
  BY <1>a, <1>b DEF CallersKept
<1>c. ASSUME NEW from, NEW to, NEW jobs, ListFor(w, from, to, jobs), to \notin CallPoints
      PROVE  CallersKept
  BY <1>b, <1>c DEF ListFor
<1>d. ASSUME NEW j, Finish(w, j)
      PROVE  CallersKept
  <2>1. worker' = [worker EXCEPT ![w] = [worker[w] EXCEPT !.todo = worker[w].todo \ {j}]]
    BY <1>a, <1>d DEF Finish
  <2>2. QED
    BY <1>a, <1>b, <2>1 DEF WorkerRecord
<1>e. ASSUME NEW point, Resume(w, point), point \notin CallPoints
      PROVE  CallersKept
  <2>1. worker' = [worker EXCEPT ![w] = [worker[w] EXCEPT !.at = point, !.job = NoJob]]
    BY <1>a, <1>e DEF Resume
  <2>2. QED
    BY <1>a, <1>b, <1>e, <2>1 DEF WorkerRecord
<1>f. ASSUME NEW point, Proceed(w, point), point \notin CallPoints
      PROVE  CallersKept
  <2>1. worker' = [worker EXCEPT ![w] = [worker[w] EXCEPT !.at = point]]
    BY <1>a, <1>f DEF Proceed
  <2>2. QED
    BY <1>a, <1>b, <1>f, <2>1 DEF WorkerRecord
<1>g. CallersKept /\ UNCHANGED <<approvals, decisions, calls>> => Unconcerned
  BY DEF Unconcerned
<1>1. CASE RecoveryStep(w) /\ UNCHANGED externals
  <2>a. calls' = calls
    BY <1>1 DEF externals
  <2>1. CASE ExpireApproval(w)
    <3>1. PICK j \in worker[w].todo :
            /\ UpdateApprovalStatus(j.approval, "expired")
            /\ IF j.message = None THEN Finish(w, j) ELSE TakeUp(w, j, "cancelling")
      BY <2>1 DEF ExpireApproval
    <3>2. j.approval \in Approvals
      BY <1>a, <2>1 DEF ExpireApproval, WorkerAt, WorkerHolds, ApprovalPoints
    <3>3. CASE Finish(w, j)
      BY <1>d, <2>a, <3>1, <3>2, <3>3 DEF Decided, DecisionStatuses
    <3>4. CASE TakeUp(w, j, "cancelling")
      BY <1>a, <1>b, <2>a, <3>1, <3>2, <3>4 DEF TakeUp, CallPoints, Decided, DecisionStatuses
    <3>5. QED
      BY <3>1, <3>3, <3>4
  <2>2. CASE FailStuckExecution(w)
    <3>1. PICK j \in worker[w].todo : FinishApprovalExecution(j.approval, "failed") /\ Finish(w, j)
      BY <2>2 DEF FailStuckExecution
    <3>2. j.approval \in Approvals
      BY <1>a, <2>2 DEF FailStuckExecution, WorkerAt, WorkerHolds, ApprovalPoints
    <3>3. QED
      BY <1>d, <2>2, <2>a, <3>1, <3>2 DEF GivenUp, FailStuckExecution
  <2>3. CASE \/ ListLapsedApprovals(w) \/ ListStuckSends(w) \/ ListStuckExecutions(w)
             \/ EndRecovery(w)
    BY <1>c, <1>g, <2>3, <2>a DEF ListLapsedApprovals, ListStuckSends, ListStuckExecutions,
       EndRecovery, CallPoints, storeVars
  <2>4. CASE CancelLinkedOutbox(w)
    BY <1>e, <1>g, <2>4, <2>a DEF CancelLinkedOutbox, CallPoints
  <2>5. CASE SettleStuckSend(w)
    BY <1>d, <1>g, <2>5, <2>a DEF SettleStuckSend
  <2>6. QED
    BY <1>1, <2>1, <2>2, <2>3, <2>4, <2>5 DEF RecoveryStep
<1>2. CASE QueueDailyCheckIn(w) /\ UNCHANGED externals
  BY <1>2, <1>g DEF QueueDailyCheckIn, CallersKept, externals
<1>3. CASE ExecutorStep(w)
  BY <1>c, <1>g, <1>3 DEF ExecutorStep, ExecutorKind, ListExecutable, CallPoints, storeVars
<1>4. CASE SenderStep(w) /\ UNCHANGED calls
  <2>1. CASE ListDeliverable(w) \/ EndTick(w)
    BY <1>c, <1>g, <1>4, <2>1 DEF ListDeliverable, EndTick, CallPoints, storeVars
  <2>2. CASE FailBeforeClaim(w)
    BY <1>d, <1>g, <1>4, <2>2 DEF FailBeforeClaim
  <2>3. CASE ClaimMessage(w)
    <3>1. PICK j \in worker[w].todo :
            \/ \E k : worker' = [worker EXCEPT ![w] =
                 [at |-> "sending", todo |-> worker[w].todo \ {j}, job |-> k]]
            \/ Finish(w, j)
      BY <1>a, <2>3 DEF ClaimMessage
    <3>2. CallersKept
      BY <1>b, <1>d, <3>1 DEF CallPoints
    <3>3. QED
      BY <1>g, <1>4, <2>3, <3>2 DEF ClaimMessage
  <2>4. CASE SendMail(w)
    BY <1>f, <1>g, <1>4, <2>4 DEF SendMail, CallPoints, storeVars
  <2>5. CASE RecordSent(w) \/ RecordRefusal(w)
    BY <1>e, <1>g, <1>4, <2>5 DEF RecordSent, RecordRefusal, CallPoints
  <2>6. QED
    BY <1>4, <2>1, <2>2, <2>3, <2>4, <2>5 DEF SenderStep
<1>5. QED
  BY <1>1, <1>2, <1>3, <1>4 DEF WorkerStep

\* Every step is of one of the kinds.
LEMMA StepKinds ==
  ASSUME TypeInv, [Next]_vars
  PROVE  Unconcerned \/ Decided \/ GivenUp \/ ExecutorKind
<1>1. ASSUME NEW r \in Requests, RequestProgress(r)
      PROVE  Unconcerned \/ Decided
  BY <1>1, RequestKinds
<1>2. ASSUME NEW w \in Workers, WorkerStep(w)
      PROVE  Unconcerned \/ Decided \/ GivenUp \/ ExecutorKind
  BY <1>2, WorkerKinds
<1>3. CASE Fail
  <2>1. UNCHANGED <<approvals, decisions, calls>>
    BY <1>3 DEF Fail, AbandonRequest, AbandonTick, storeVars, externals
  <2>2. CallersKept
    BY <1>3 DEF Fail, AbandonTick, AtRest, CallersKept, CallPoints, TypeInv, WorkersOK
  <2>3. QED
    BY <2>1, <2>2 DEF Unconcerned
<1>4. CASE TimePasses
  <2>1. \A a \in Approvals : approvals'[a].execution = approvals[a].execution
    BY <1>4 DEF TimePasses, ApprovalAges, MessageAges, LapseApproval, AgeExecution,
       AgeSend, ComeDue, TypeInv, ApprovalsTypeOK, ApprovalRow
  <2>2. UNCHANGED <<decisions, calls, worker>>
    BY <1>4 DEF TimePasses, ApprovalAges, MessageAges, LapseApproval, AgeExecution,
       AgeSend, ComeDue, externals
  <2>3. QED
    BY <2>1, <2>2 DEF Unconcerned, CallersKept
<1>5. CASE UNCHANGED vars
  BY <1>5 DEF vars, storeVars, externals, Unconcerned, CallersKept
<1>6. QED
  BY <1>1, <1>2, <1>3, <1>4, <1>5 DEF Next

(***************************************************************************)
(* The invariant                                                           *)
(***************************************************************************)

\* What the two unconditional writers of executions may do to them.
LEMMA DecidedExecutions ==
  ASSUME TypeInv, NEW a \in Approvals, NEW status \in DecisionStatuses,
         UpdateApprovalStatus(a, status)
  PROVE  /\ \A b \in Approvals :
               \/ approvals'[b].execution = approvals[b].execution
               \/ /\ approvals[b].execution = "not_applicable"
                  /\ approvals'[b].execution = "pending"
                  /\ b \in CrossAppApprovals
                  /\ "approved" \in decisions'[b]
         /\ \A b \in Approvals : decisions[b] \subseteq decisions'[b]
  BY DEF TypeInv, ApprovalsTypeOK, ApprovalRow, UpdateApprovalStatus

\* A finished execution was running; the others are left alone.
LEMMA FinishedExecutions ==
  ASSUME TypeInv, NEW a \in Approvals, NEW result, FinishApprovalExecution(a, result)
  PROVE  \A b \in Approvals :
           \/ approvals'[b].execution = approvals[b].execution
           \/ /\ b = a
              /\ approvals[b].execution = "running"
              /\ approvals'[b].execution = result
  BY DEF TypeInv, ApprovalsTypeOK, ApprovalRow, FinishApprovalExecution

\* A claimed execution was pending and is running; the others are left alone.
LEMMA ClaimedExecutions ==
  ASSUME TypeInv, NEW a \in Approvals, ClaimApprovalExecution(a)
  PROVE  /\ a \in CrossAppApprovals
         /\ approvals[a].execution = "pending"
         /\ approvals'[a].execution = "running"
         /\ \A b \in Approvals \ {a} : approvals'[b].execution = approvals[b].execution
  BY DEF TypeInv, ApprovalsTypeOK, ApprovalRow, ClaimApprovalExecution, Executable

\* Nothing is claimed, called or being called at first.
LEMMA InitExecInv == Init => ExecInv
  BY DEF Init, StoreInit, ExecutorInit, WorkerInit, AtRest, NoApprovalRow, ExecInv,
         CallsInv, CallersInv, Calling, Claimed, CallPoints

\* Steps that make no new caller and move executions forward, or not at all.
LEMMA QuietStepExecInv ==
  ASSUME TypeInv, ExecInv, CallersKept, calls' = calls,
         \A a \in Approvals : decisions[a] \subseteq decisions'[a],
         \A a \in Approvals :
           \/ approvals'[a].execution = approvals[a].execution
           \/ /\ approvals[a].execution = "not_applicable"
              /\ approvals'[a].execution = "pending"
              /\ a \in CrossAppApprovals
              /\ "approved" \in decisions'[a]
           \/ /\ approvals[a].execution = "running"
              /\ approvals'[a].execution = "failed"
  PROVE  ExecInv'
<1>1. \A a \in Approvals : Claimed(a) => Claimed(a)'
  BY DEF Claimed
<1>2. CallsInv'
  BY <1>1 DEF ExecInv, CallsInv, Claimed
<1>3. CallersInv'
  <2>1. \A w \in Workers, a \in Approvals :
          Calling(w, a)' => Calling(w, a) /\ worker'[w].at = worker[w].at
    BY DEF Calling, CallersKept
  <2>2. QED
    BY <1>1, <2>1 DEF ExecInv, CallersInv
<1>4. QED
  BY <1>2, <1>3 DEF ExecInv

\* A step of the executor: the claim makes the only caller, the call is made by
\* it, and what it records agrees with what happened.
LEMMA ExecutorStepExecInv ==
  ASSUME TypeInv, ExecInv, NEW w \in Workers,
         ClaimExecution(w) \/ RefuseExecution(w) \/ CallTargetApp(w) \/ RecordExecution(w)
  PROVE  ExecInv'
<1> USE DEF WorkerAt
<1>a. worker \in [Workers -> WorkerRecord] /\ WorkerHolds(worker[w])
  BY DEF TypeInv, WorkersOK
<1>b. approvals \in [Approvals -> ApprovalRow] /\ calls \in [Approvals -> Nat]
  BY DEF TypeInv, ApprovalsTypeOK, ExecutorTypeOK
<1>1. CASE ClaimExecution(w)
  <2>1. PICK j \in worker[w].todo :
          \/ ClaimApprovalExecution(j.approval) /\ TakeUp(w, j, "calling")
          \/ Finish(w, j) /\ approvals' = approvals
    BY <1>1 DEF ClaimExecution
  <2>2. j.approval \in Approvals /\ worker[w].at = "executing"
    BY <1>1, <1>a, <2>1 DEF ClaimExecution, WorkerHolds, ApprovalPoints
  <2>3. UNCHANGED <<decisions, calls>>
    BY <1>1 DEF ClaimExecution
  <2>4. CASE ClaimApprovalExecution(j.approval) /\ TakeUp(w, j, "calling")
    <3> DEFINE a == j.approval
    <3>1. /\ a \in Approvals /\ a \in CrossAppApprovals
          /\ approvals[a].execution = "pending"
          /\ approvals'[a].execution = "running"
          /\ \A b \in Approvals \ {a} : approvals'[b].execution = approvals[b].execution
      BY <2>2, <2>4, ClaimedExecutions
    <3>2. /\ worker'[w].at = "calling" /\ worker'[w].job.approval = a
          /\ \A u \in Workers \ {w} : worker'[u] = worker[u]
      BY <1>a, <2>4 DEF TakeUp
    <3>3. calls[a] = 0
      BY <3>1 DEF ExecInv, CallsInv, Claimed
    <3>4. \A u \in Workers : worker[u].at \in CallPoints =>
            worker[u].job.approval # a /\ worker[u].job.approval \in Approvals
      BY <3>1 DEF ExecInv, CallersInv, Calling, Claimed, TypeInv, WorkersOK, WorkerHolds, CallPoints
    <3> HIDE DEF a
    <3>5. CallsInv'
      BY <2>3, <3>1, <3>3 DEF ExecInv, CallsInv, Claimed
    <3>6. CallersInv'
      BY <2>3, <3>1, <3>2, <3>3, <3>4 DEF ExecInv, CallersInv, Calling, Claimed, CallPoints
    <3>7. QED
      BY <3>5, <3>6 DEF ExecInv
  <2>5. CASE Finish(w, j) /\ approvals' = approvals
    <3>1. CallersKept
      BY <1>a, <2>5 DEF Finish, CallersKept, WorkerRecord
    <3>2. QED
      BY <2>3, <2>5, <3>1, QuietStepExecInv
  <2>6. QED
    BY <2>1, <2>4, <2>5
<1>2. CASE RefuseExecution(w) \/ CallTargetApp(w)
  <2> DEFINE a == worker[w].job.approval
  <2>1. /\ a \in Approvals /\ worker[w].at = "calling" /\ Claimed(a) /\ calls[a] = 0
        /\ \A u \in Workers \ {w} :
             worker[u].at \in CallPoints =>
               worker[u].job.approval \in Approvals /\ worker[u].job.approval # a
    BY <1>2, <1>a DEF RefuseExecution, CallTargetApp, ExecInv, CallersInv, Calling, CallPoints,
       WorkerHolds, TypeInv, WorkersOK
  <2>2. UNCHANGED <<approvals, decisions>>
    BY <1>2 DEF RefuseExecution, CallTargetApp, storeVars
  <2>3. PICK point \in {"called_ok", "called_failed"} :
          /\ Proceed(w, point)
          /\ \/ calls' = calls /\ point = "called_failed"
             \/ calls' = [calls EXCEPT ![a] = calls[a] + 1]
    BY <1>2 DEF RefuseExecution, CallTargetApp
  <2>4. /\ worker'[w].at = point /\ worker'[w].job = worker[w].job
        /\ \A u \in Workers \ {w} : worker'[u] = worker[u]
    BY <1>a, <2>3 DEF Proceed, WorkerRecord
  <2>5. /\ calls'[a] \in {0, 1}
        /\ point = "called_ok" => calls'[a] = 1
        /\ \A b \in Approvals \ {a} : calls'[b] = calls[b]
    BY <1>b, <2>1, <2>3
  <2>6. worker'[w].job.approval = a
    BY <2>4
  <2> HIDE DEF a
  <2>7. CallsInv'
    BY <2>1, <2>2, <2>5 DEF ExecInv, CallsInv, Claimed
  <2>8. CallersInv'
    BY <2>1, <2>2, <2>3, <2>4, <2>5, <2>6 DEF ExecInv, CallersInv, Calling, Claimed, CallPoints
  <2>9. QED
    BY <2>7, <2>8 DEF ExecInv
<1>3. CASE RecordExecution(w)
  <2> DEFINE a == worker[w].job.approval
  <2>1. PICK result \in {"succeeded", "failed"} :
          /\ FinishApprovalExecution(a, result)
          /\ result = "succeeded" => worker[w].at = "called_ok"
    BY <1>3 DEF RecordExecution
  <2>2. /\ a \in Approvals
        /\ worker[w].at = "called_ok" => calls[a] = 1
        /\ \A u \in Workers \ {w} :
             worker[u].at \in CallPoints => worker[u].job.approval \in Approvals
    BY <1>3, <1>a DEF RecordExecution, WorkerHolds, ExecInv, CallersInv, Calling, CallPoints,
       TypeInv, WorkersOK
  <2>3. UNCHANGED <<decisions, calls>> /\ Resume(w, "executing")
    BY <1>3 DEF RecordExecution
  <2>4. worker'[w].at = "executing" /\ \A u \in Workers \ {w} : worker'[u] = worker[u]
    BY <1>a, <2>3 DEF Resume, WorkerRecord
  <2> HIDE DEF a
  <2>5. \A b \in Approvals :
          \/ approvals'[b].execution = approvals[b].execution
          \/ /\ b = a /\ approvals[b].execution = "running"
             /\ approvals'[b].execution = result
    BY <2>1, <2>2, FinishedExecutions
  <2>6. CallsInv'
    BY <2>1, <2>2, <2>3, <2>5 DEF ExecInv, CallsInv, Claimed
  <2>7. CallersInv'
    BY <2>2, <2>3, <2>4, <2>5 DEF ExecInv, CallersInv, Calling, Claimed, CallPoints
  <2>8. QED
    BY <2>6, <2>7 DEF ExecInv
<1>4. QED
  BY <1>1, <1>2, <1>3

\* Every step keeps the invariant.
LEMMA NextExecInv == TypeInv /\ ExecInv /\ [Next]_vars => ExecInv'
<1> SUFFICES ASSUME TypeInv, ExecInv, [Next]_vars PROVE ExecInv'
  OBVIOUS
<1>1. CASE Unconcerned
  BY <1>1, QuietStepExecInv DEF Unconcerned
<1>2. CASE Decided
  BY <1>2, DecidedExecutions, QuietStepExecInv DEF Decided
<1>3. CASE GivenUp
  BY <1>3, FinishedExecutions, QuietStepExecInv DEF GivenUp
<1>4. CASE ExecutorKind
  BY <1>4, ExecutorStepExecInv DEF ExecutorKind
<1>5. QED
  BY <1>1, <1>2, <1>3, <1>4, StepKinds

\* One caller ever, at most one call, in every reachable state.
THEOREM OneCallerEver == Spec => []ExecInv
<1>1. Spec => []TypeInv
  BY HandlersHoldTheirRows
<1>2. QED
  BY <1>1, InitExecInv, NextExecInv, PTL DEF Spec

\* The target application performs the write of an approval at most once
\* (claimApprovalExecution, executeApprovedCrossAppApprovals).
THEOREM CalledAtMostOnce == Spec => []AtMostOneCall
<1>1. TypeInv /\ ExecInv => AtMostOneCall
  BY DEF TypeInv, ExecutorTypeOK, ExecInv, CallsInv, AtMostOneCall
<1>2. QED
  BY <1>1, HandlersHoldTheirRows, OneCallerEver, PTL

\* The write is performed only after the owner approved it, and a recorded
\* success was performed (completeApprovalExecution).
THEOREM CalledOnlyIfApproved == Spec => []CallsAreApproved
<1>1. TypeInv /\ ExecInv => CallsAreApproved
  BY DEF TypeInv, ExecutorTypeOK, ExecInv, CallsInv, CallsAreApproved, Claimed
<1>2. QED
  BY <1>1, HandlersHoldTheirRows, OneCallerEver, PTL

(***************************************************************************)
(* The action property                                                     *)
(***************************************************************************)

\* The claim and the record of the executor, as steps of one execution.
LEMMA ExecutorExecutions ==
  ASSUME TypeInv, NEW w \in Workers,
         ClaimExecution(w) \/ RefuseExecution(w) \/ CallTargetApp(w) \/ RecordExecution(w)
  PROVE  \A b \in Approvals :
           \/ approvals'[b].execution = approvals[b].execution
           \/ approvals[b].execution = "pending" /\ approvals'[b].execution = "running"
           \/ /\ approvals[b].execution = "running"
              /\ approvals'[b].execution \in {"succeeded", "failed"}
<1>a. WorkerHolds(worker[w])
  BY DEF TypeInv, WorkersOK
<1>1. CASE ClaimExecution(w)
  <2>1. PICK j \in worker[w].todo : ClaimApprovalExecution(j.approval) \/ approvals' = approvals
    BY <1>1 DEF ClaimExecution
  <2>2. j.approval \in Approvals
    BY <1>1, <1>a, <2>1 DEF ClaimExecution, WorkerAt, WorkerHolds, ApprovalPoints
  <2>3. QED
    BY <2>1, <2>2, ClaimedExecutions
<1>2. CASE RefuseExecution(w) \/ CallTargetApp(w)
  BY <1>2 DEF RefuseExecution, CallTargetApp, storeVars
<1>3. CASE RecordExecution(w)
  <2>1. worker[w].job.approval \in Approvals
    BY <1>3, <1>a DEF RecordExecution, WorkerAt, WorkerHolds
  <2>2. QED
    BY <1>3, <2>1, FinishedExecutions DEF RecordExecution
<1>4. QED
  BY <1>1, <1>2, <1>3

\* Every step moves an execution one rank up or leaves it alone.
LEMMA NextMovesForward ==
  ASSUME TypeInv, [Next]_vars, NEW a \in Approvals
  PROVE  approvals'[a].execution # approvals[a].execution =>
           ExecutionRank[approvals'[a].execution] = ExecutionRank[approvals[a].execution] + 1
<1> DEFINE old == approvals[a].execution
           new == approvals'[a].execution
<1>1. \/ new = old
      \/ old = "not_applicable" /\ new = "pending"
      \/ old = "pending" /\ new = "running"
      \/ old = "running" /\ new \in {"succeeded", "failed"}
  <2>1. CASE Unconcerned
    BY <2>1 DEF Unconcerned
  <2>2. CASE Decided
    BY <2>2, DecidedExecutions DEF Decided
  <2>3. CASE GivenUp
    BY <2>3, FinishedExecutions DEF GivenUp
  <2>4. CASE ExecutorKind
    BY <2>4, ExecutorExecutions DEF ExecutorKind
  <2>5. QED
    BY <2>1, <2>2, <2>3, <2>4, StepKinds
<1>2. QED
  BY <1>1 DEF ExecutionRank

\* An execution status only moves forward and a recorded outcome is final
\* (updateApprovalStatus, claimApprovalExecution, completeApprovalExecution,
\* failApprovalExecution).
THEOREM ExecutionsMoveForward == Spec => ExecutionMovesForward
<1>1. TypeInv /\ [Next]_vars =>
        [\A a \in Approvals :
           approvals'[a].execution # approvals[a].execution =>
             ExecutionRank[approvals'[a].execution] =
               ExecutionRank[approvals[a].execution] + 1]_vars
  BY NextMovesForward
<1>2. QED
  BY <1>1, HandlersHoldTheirRows, PTL DEF Spec, ExecutionMovesForward

(***************************************************************************)
(* The refinement                                                          *)
(***************************************************************************)

\* The empty database is the abstract initial state.
LEMMA InitPromise == Init => Promise!Init
  BY StoreAssumption DEF Init, StoreInit, ExecutorInit, NoApprovalRow, Promise!Init,
     Authorized, Performed, Outcome

\* A decision authorizes at most the approval it is about.
LEMMA DecidedPromise ==
  ASSUME TypeInv, Decided
  PROVE  [Promise!Next]_(Promise!vars)
<1>1. PICK a \in Approvals, status \in DecisionStatuses : UpdateApprovalStatus(a, status)
  BY DEF Decided
<1>2. Performed' = Performed
  BY DEF Performed, Decided
<1>3. Outcome' = Outcome
  BY <1>1, DecidedExecutions, StoreAssumption DEF Outcome
<1>4. CASE status = "approved" /\ a \in CrossAppApprovals
  <2>1. Authorized' = Authorized \cup {a}
    BY <1>1, <1>4, StoreAssumption
    DEF Authorized, UpdateApprovalStatus, TypeInv, ApprovalsTypeOK
  <2>2. Promise!Authorize(a)
    BY <1>2, <1>3, <2>1 DEF Promise!Authorize
  <2>3. QED
    BY <1>4, <2>2 DEF Promise!Next
<1>5. CASE status # "approved" \/ a \notin CrossAppApprovals
  <2>1. Authorized' = Authorized
    BY <1>1, <1>5, StoreAssumption
    DEF Authorized, UpdateApprovalStatus, TypeInv, ApprovalsTypeOK
  <2>2. QED
    BY <1>2, <1>3, <2>1 DEF Promise!vars
<1>6. QED
  BY <1>4, <1>5

\* Recording an outcome concludes the write, or finds it concluded.
LEMMA FinishedPromise ==
  ASSUME TypeInv, ExecInv, NEW a \in Approvals, NEW result \in {"succeeded", "failed"},
         FinishApprovalExecution(a, result), UNCHANGED <<decisions, calls>>,
         result = "succeeded" => calls[a] = 1
  PROVE  [Promise!Next]_(Promise!vars)
<1>1. Authorized' = Authorized /\ Performed' = Performed
  BY DEF Authorized, Performed
<1>2. CASE /\ a \in CrossAppApprovals
           /\ approvals[a].execution = "running"
           /\ approvals'[a].execution = result
  <2>1. a \in Authorized
    BY <1>2 DEF Authorized, ExecInv, CallsInv
  <2>2. Outcome[a] = "none" /\ Outcome' = [Outcome EXCEPT ![a] = result]
    <3>1. \A b \in CrossAppApprovals \ {a} :
            approvals'[b].execution = approvals[b].execution
      BY FinishedExecutions, StoreAssumption
    <3>2. QED
      BY <1>2, <3>1 DEF Outcome
  <2>3. result = "succeeded" => Performed[a] = 1
    BY <1>2 DEF Performed
  <2>4. Promise!Conclude(a, result)
    BY <1>1, <2>1, <2>2, <2>3 DEF Promise!Conclude
  <2>5. QED
    BY <1>2, <2>4 DEF Promise!Next
<1>3. CASE approvals'[a].execution = approvals[a].execution
  <2>1. Outcome' = Outcome
    BY <1>3, FinishedExecutions, StoreAssumption DEF Outcome
  <2>2. QED
    BY <1>1, <2>1 DEF Promise!vars
<1>4. a \in CrossAppApprovals \/ approvals[a].execution = "not_applicable"
  BY DEF ExecInv, CallsInv
<1>5. QED
  BY <1>2, <1>3, <1>4, FinishedExecutions

\* A step of the executor performs the write, concludes it, or stutters.
LEMMA ExecutorPromise ==
  ASSUME TypeInv, ExecInv, NEW w \in Workers,
         ClaimExecution(w) \/ RefuseExecution(w) \/ CallTargetApp(w) \/ RecordExecution(w)
  PROVE  [Promise!Next]_(Promise!vars)
<1> DEFINE a == worker[w].job.approval
<1>a. WorkerHolds(worker[w])
  BY DEF TypeInv, WorkersOK
<1>1. CASE ClaimExecution(w)
  <2>1. PICK j \in worker[w].todo : ClaimApprovalExecution(j.approval) \/ approvals' = approvals
    BY <1>1 DEF ClaimExecution
  <2>2. j.approval \in Approvals
    BY <1>1, <1>a, <2>1 DEF ClaimExecution, WorkerAt, WorkerHolds, ApprovalPoints
  <2>3. Outcome' = Outcome
    BY <2>1, <2>2, ClaimedExecutions, StoreAssumption DEF Outcome
  <2>4. Authorized' = Authorized /\ Performed' = Performed
    BY <1>1 DEF ClaimExecution, Authorized, Performed
  <2>5. QED
    BY <2>3, <2>4 DEF Promise!vars
<1>2. CASE RefuseExecution(w) \/ CallTargetApp(w)
  <2>1. a \in Approvals /\ Calling(w, a) /\ worker[w].at = "calling"
    BY <1>2, <1>a DEF RefuseExecution, CallTargetApp, WorkerAt, WorkerHolds, Calling, CallPoints
  <2>2. a \in CrossAppApprovals /\ "approved" \in decisions[a] /\ calls[a] = 0
    BY <2>1 DEF ExecInv, CallersInv, CallsInv, Claimed
  <2>3. Authorized' = Authorized /\ Outcome' = Outcome
    BY <1>2 DEF RefuseExecution, CallTargetApp, storeVars, Authorized, Outcome
  <2>4. calls' = calls \/ calls' = [calls EXCEPT ![a] = calls[a] + 1]
    BY <1>2 DEF RefuseExecution, CallTargetApp
  <2> HIDE DEF a
  <2>5. CASE calls' = calls
    BY <2>3, <2>5 DEF Performed, Promise!vars
  <2>6. CASE calls' = [calls EXCEPT ![a] = calls[a] + 1]
    <3>1. Performed' = [Performed EXCEPT ![a] = 1]
      <4>1. calls'[a] = 1 /\ \A b \in CrossAppApprovals \ {a} : calls'[b] = calls[b]
        BY <2>1, <2>2, <2>6, StoreAssumption DEF TypeInv, ExecutorTypeOK
      <4>2. QED
        BY <2>2, <4>1 DEF Performed
    <3>2. a \in Authorized /\ Performed[a] = 0
      BY <2>2 DEF Authorized, Performed
    <3>3. Promise!Perform(a)
      BY <2>3, <3>1, <3>2 DEF Promise!Perform
    <3>4. QED
      BY <2>2, <3>3 DEF Promise!Next
  <2>7. QED
    BY <2>4, <2>5, <2>6
<1>3. CASE RecordExecution(w)
  <2>1. PICK result \in {"succeeded", "failed"} :
          /\ FinishApprovalExecution(a, result)
          /\ result = "succeeded" => worker[w].at = "called_ok"
    BY <1>3 DEF RecordExecution, WorkerAt
  <2>2. a \in Approvals /\ Calling(w, a)
    BY <1>3, <1>a DEF RecordExecution, WorkerAt, WorkerHolds, Calling, CallPoints
  <2>3. result = "succeeded" => calls[a] = 1
    BY <2>1, <2>2 DEF ExecInv, CallersInv
  <2>4. UNCHANGED <<decisions, calls>>
    BY <1>3 DEF RecordExecution
  <2>5. QED
    BY <2>1, <2>2, <2>3, <2>4, FinishedPromise
<1>4. QED
  BY <1>1, <1>2, <1>3

\* Every step is a step of the promise, or invisible to it.
LEMMA NextPromise == TypeInv /\ ExecInv /\ [Next]_vars => [Promise!Next]_(Promise!vars)
<1> SUFFICES ASSUME TypeInv, ExecInv, [Next]_vars PROVE [Promise!Next]_(Promise!vars)
  OBVIOUS
<1>1. CASE Unconcerned
  BY <1>1, StoreAssumption DEF Unconcerned, Authorized, Performed, Outcome, Promise!vars
<1>2. CASE Decided
  BY <1>2, DecidedPromise
<1>3. CASE GivenUp
  BY <1>3, FinishedPromise DEF GivenUp
<1>4. CASE ExecutorKind
  BY <1>4, ExecutorPromise DEF ExecutorKind
<1>5. QED
  BY <1>1, <1>2, <1>3, <1>4, StepKinds

\* The tables, ticks, claims and crashes implement the promise made of
\* cross-application writes.
THEOREM PromiseKept == Spec => KeepsPromise
<1>1. Init => Promise!Init
  BY InitPromise
<1>2. QED
  BY <1>1, NextPromise, HandlersHoldTheirRows, OneCallerEver, PTL
  DEF Spec, KeepsPromise, Promise!Spec

(***************************************************************************)
(* Outbound messages.  Nothing that waits for an approval is released      *)
(* without one, and no message is delivered more often than requests made  *)
(* it deliverable, for any number of rows, calls, workers and failures;    *)
(* and with the one worker that is deployed, a daily check-in is attempted *)
(* as often as its budget allows for every time a request made it          *)
(* deliverable, no more.                                                   *)
(***************************************************************************)

(***************************************************************************)
(* The invariants                                                          *)
(***************************************************************************)

\* A tick puts back to pending daily check-ins only.
RetriesDaily(v) ==
  /\ v.at \in {"sending", "accepted", "refused"} =>
       (v.job.retry => v.job.message \in DailyCheckIns)
  /\ v.at = "failing_sends" =>
       \A j \in v.todo : j.retry => j.message \in DailyCheckIns
RetryInv == \A w \in Workers : RetriesDaily(worker[w])

\* The approval a message of the table o was queued under, if any, is on record in d.
ApprovedIn(o, d, m) == o[m].approval # None => "approved" \in d[o[m].approval]
Approved(m) == ApprovedIn(outbox, decisions, m)

\* A row that is not there has neither approval nor deliveries, a daily check-in
\* needs no approval, and what is delivered or may be is approved.
RowOK(m) ==
  /\ outbox[m].status = "absent" => outbox[m].approval = None /\ accepted[m] = 0
  /\ outbox[m].approval # None => m \notin DailyCheckIns
  /\ Deliverable(m) \/ accepted[m] > 0 => Approved(m)

\* The link from an approval leads to a row under that approval.
LinkOK(a) == approvals[a].link # None => outbox[approvals[a].link].approval = a

\* A call holds the approval of the message it holds, writes an approved
\* message only after the approval, and patches only what needs none.
CallOK(o, d, q) ==
  /\ q.at \in {"write_status", "write_outbox", "edit_payload", "edit_cancel"} /\ q.link # None =>
       o[q.link].approval = q.approval
  /\ q.at \in {"propose_link", "edit_link"} => o[q.message].approval = q.approval
  /\ q.at = "write_outbox" /\ q.verdict = "approved" => "approved" \in d[q.approval]
  /\ q.at = "write_patch" =>
       /\ o[q.message].status # "absent"
       /\ q.verdict = "cancelled" \/ o[q.message].approval = None

\* What a tick sends exists, and is approved if it has to be.
SendOK(o, d, v) ==
  v.at \in {"sending", "accepted", "refused"} =>
    o[v.job.message].status # "absent" /\ ApprovedIn(o, d, v.job.message)

RowsOK == \A m \in Messages : RowOK(m)
LinksOK == \A a \in Approvals : LinkOK(a)
CallsOK == \A r \in Requests : CallOK(outbox, decisions, request[r])
SendsOK == \A w \in Workers : SendOK(outbox, decisions, worker[w])
GateInv == RowsOK /\ LinksOK /\ CallsOK /\ SendsOK

\* The right to deliver a message: to be claimed, in a tick's hands, or used.
Senders(m) == {w \in Workers : worker[w].at = "sending" /\ worker[w].job.message = m}
Claimable(m) == IF Deliverable(m) THEN 1 ELSE 0
TokenOK(m) ==
  /\ IsFiniteSet(Senders(m))
  /\ accepted[m] + Cardinality(Senders(m)) + Claimable(m) <= armings[m]
TokenInv == \A m \in Messages \ DailyCheckIns : TokenOK(m)

-----------------------------------------------------------------------------
(* What the steps do to rows and to ticks                                   *)
-----------------------------------------------------------------------------
\* An unconditional write changes the status of one row and its approval never.
LEMMA StatusWritten ==
  ASSUME OutboxTypeOK, NEW m \in Messages, NEW status, NEW due,
         UpdateOutboundMessageStatus(m, status, due)
  PROVE  /\ outbox'[m].status = status /\ outbox'[m].approval = outbox[m].approval
         /\ outbox'[m].attempts = outbox[m].attempts
         /\ \A n \in Messages \ {m} : outbox'[n] = outbox[n]
<1>1. outbox[m] \in OutboxRow
  BY DEF OutboxTypeOK
<1>2. outbox' = [outbox EXCEPT ![m] =
                  [outbox[m] EXCEPT !.status = status, !.due = due, !.stale = FALSE]]
  BY DEF UpdateOutboundMessageStatus, OutboxTypeOK
<1> QED BY <1>1, <1>2 DEF OutboxTypeOK, OutboxRow

\* A new row; of those there are, only one that may be tried again.
LEMMA RowQueued ==
  ASSUME OutboxTypeOK, NEW m \in Messages, NEW status, NEW a, QueueOutboundMessage(m, status, a)
  PROVE  /\ outbox[m].status = "absent" =>
              /\ outbox'[m].status = status /\ outbox'[m].approval = a
              /\ outbox'[m].attempts = 0
         /\ outbox[m].status # "absent" =>
              /\ outbox'[m].approval = outbox[m].approval
              /\ outbox'[m].attempts = outbox[m].attempts
              /\ \/ outbox'[m].status = outbox[m].status
                 \/ outbox'[m].status = "pending" /\ outbox[m].attempts < MaxDeliveryAttempts
         /\ \A n \in Messages \ {m} : outbox'[n] = outbox[n]
<1>0. outbox[m] \in OutboxRow
  BY DEF OutboxTypeOK
<1>1. CASE outbox[m].status = "absent"
  BY <1>1 DEF OutboxTypeOK, QueueOutboundMessage, NoOutboxRow
<1>2. CASE outbox[m].status # "absent" /\ Revivable(m)
  <2>1. outbox' = [outbox EXCEPT ![m] =
                    [outbox[m] EXCEPT !.status = "pending", !.due = TRUE, !.stale = FALSE]]
    BY <1>2 DEF OutboxTypeOK, QueueOutboundMessage
  <2> QED BY <1>0, <1>2, <2>1 DEF OutboxTypeOK, OutboxRow, Revivable
<1>3. CASE outbox[m].status # "absent" /\ ~Revivable(m)
  BY <1>3 DEF QueueOutboundMessage
<1> QED BY <1>1, <1>2, <1>3

\* The claim takes a deliverable row.
LEMMA RowClaimed ==
  ASSUME OutboxTypeOK, NEW m \in Messages, ClaimOutboundMessageForSending(m)
  PROVE  /\ Deliverable(m)
         /\ outbox'[m].status = "sending" /\ outbox'[m].approval = outbox[m].approval
         /\ outbox'[m].attempts = outbox[m].attempts + 1
         /\ \A n \in Messages \ {m} : outbox'[n] = outbox[n]
<1>1. outbox[m] \in OutboxRow
  BY DEF OutboxTypeOK
<1>2. outbox' = [outbox EXCEPT ![m] =
        [outbox[m] EXCEPT !.status = "sending", !.due = TRUE, !.stale = FALSE,
                          !.attempts = outbox[m].attempts + 1]]
  BY DEF ClaimOutboundMessageForSending, OutboxTypeOK
<1> QED BY <1>1, <1>2 DEF OutboxTypeOK, OutboxRow, ClaimOutboundMessageForSending

Handing == {"sending", "accepted", "refused"}

\* A tick comes to hand a message over by claiming it, and to settle stuck sends
\* by listing them.
LEMMA TickKinds ==
  ASSUME TypeInv, NEW w \in Workers, WorkerStep(w)
  PROVE  /\ \A u \in Workers \ {w} : worker'[u] = worker[u]
         /\ \/ worker'[w].at \notin Handing \cup {"failing_sends"}
            \/ /\ worker'[w].at = worker[w].at /\ worker'[w].job = worker[w].job
               /\ worker'[w].todo \subseteq worker[w].todo
            \/ ListStuckSends(w) \/ ClaimMessage(w) \/ SendMail(w)
<1>a. worker \in [Workers -> WorkerRecord] /\ WorkerHolds(worker[w])
  BY DEF TypeInv, WorkersOK
<1> DEFINE Others == \A u \in Workers \ {w} : worker'[u] = worker[u]
           Plain == \/ worker'[w].at \notin Handing \cup {"failing_sends"}
                    \/ /\ worker'[w].at = worker[w].at /\ worker'[w].job = worker[w].job
                       /\ worker'[w].todo \subseteq worker[w].todo
<1>b. ASSUME NEW v, worker' = [worker EXCEPT ![w] = v]
      PROVE  Others /\ worker'[w] = v
  BY <1>a, <1>b
<1>c. ASSUME NEW from, NEW to, NEW jobs, ListFor(w, from, to, jobs)
      PROVE  Others /\ worker'[w].at = to
  BY <1>b, <1>c DEF ListFor
<1>d. ASSUME NEW j, Finish(w, j)
      PROVE  Others /\ Plain
  <2>1. worker' = [worker EXCEPT ![w] = [worker[w] EXCEPT !.todo = worker[w].todo \ {j}]]
    BY <1>a, <1>d DEF Finish
  <2>2. worker[w] \in WorkerRecord
    BY <1>a
  <2> QED BY <1>b, <2>1, <2>2 DEF WorkerRecord
<1>e. ASSUME NEW point, Resume(w, point), point \notin Handing \cup {"failing_sends"}
      PROVE  Others /\ Plain
  <2>1. worker' = [worker EXCEPT ![w] = [worker[w] EXCEPT !.at = point, !.job = NoJob]]
    BY <1>a, <1>e DEF Resume
  <2> QED BY <1>a, <1>b, <1>e, <2>1 DEF WorkerRecord
<1>f. ASSUME NEW point, Proceed(w, point)
      PROVE  Others /\ worker'[w].at = point
  <2>1. worker' = [worker EXCEPT ![w] = [worker[w] EXCEPT !.at = point]]
    BY <1>a, <1>f DEF Proceed
  <2> QED BY <1>a, <1>b, <2>1 DEF WorkerRecord
<1>g. ASSUME NEW j, NEW point, TakeUp(w, j, point)
      PROVE  Others /\ worker'[w].at = point
  <2>1. worker' = [worker EXCEPT ![w] = [at |-> point, todo |-> worker[w].todo \ {j}, job |-> j]]
    BY <1>a, <1>g DEF TakeUp
  <2> QED BY <1>b, <2>1
<1> USE DEF Handing
<1>1. CASE RecoveryStep(w)
  <2>1. CASE ListLapsedApprovals(w) \/ ListStuckExecutions(w) \/ EndRecovery(w)
    BY <1>c, <2>1 DEF ListLapsedApprovals, ListStuckExecutions, EndRecovery
  <2>2. CASE ListStuckSends(w)
    BY <1>c, <2>2 DEF ListStuckSends
  <2>3. CASE ExpireApproval(w)
    BY <1>d, <1>g, <2>3 DEF ExpireApproval
  <2>4. CASE CancelLinkedOutbox(w)
    BY <1>e, <2>4 DEF CancelLinkedOutbox
  <2>5. CASE SettleStuckSend(w) \/ FailStuckExecution(w)
    BY <1>d, <2>5 DEF SettleStuckSend, FailStuckExecution
  <2> QED BY <1>1, <2>1, <2>2, <2>3, <2>4, <2>5 DEF RecoveryStep
<1>2. CASE QueueDailyCheckIn(w)
  BY <1>2 DEF QueueDailyCheckIn
<1>3. CASE ExecutorStep(w)
  <2>1. CASE ListExecutable(w)
    BY <1>c, <2>1 DEF ListExecutable
  <2>2. CASE ClaimExecution(w)
    BY <1>d, <1>g, <2>2 DEF ClaimExecution
  <2>3. CASE RefuseExecution(w) \/ CallTargetApp(w)
    BY <1>f, <2>3 DEF RefuseExecution, CallTargetApp
  <2>4. CASE RecordExecution(w)
    BY <1>e, <2>4 DEF RecordExecution
  <2> QED BY <1>3, <2>1, <2>2, <2>3, <2>4 DEF ExecutorStep
<1>4. CASE SenderStep(w)
  <2>1. CASE ListDeliverable(w) \/ EndTick(w)
    BY <1>c, <2>1 DEF ListDeliverable, EndTick
  <2>2. CASE FailBeforeClaim(w)
    BY <1>d, <2>2 DEF FailBeforeClaim
  <2>3. CASE ClaimMessage(w)
    <3>1. Others
      BY <1>b, <1>d, <2>3 DEF ClaimMessage
    <3> QED BY <2>3, <3>1
  <2>4. CASE SendMail(w)
    BY <1>f, <2>4 DEF SendMail
  <2>5. CASE RecordSent(w) \/ RecordRefusal(w)
    BY <1>e, <2>5 DEF RecordSent, RecordRefusal
  <2> QED BY <1>4, <2>1, <2>2, <2>3, <2>4, <2>5 DEF SenderStep
<1> QED BY <1>1, <1>2, <1>3, <1>4 DEF WorkerStep

\* What a claim leaves in a tick's hands.
LEMMA ClaimKinds ==
  ASSUME TypeInv, NEW w \in Workers, ClaimMessage(w)
  PROVE  \/ \E j \in Job :
              /\ j.message \in Messages /\ ClaimOutboundMessageForSending(j.message)
              /\ worker'[w].at = "sending" /\ worker'[w].job.message = j.message
              /\ worker'[w].job.retry =>
                   /\ j.message \in DailyCheckIns
                   /\ outbox[j.message].attempts + 1 < MaxDeliveryAttempts
         \/ /\ outbox' = outbox
            /\ worker'[w].at = "delivering"
<1>a. worker \in [Workers -> WorkerRecord] /\ WorkerHolds(worker[w]) /\ worker[w].at = "delivering"
  BY DEF TypeInv, WorkersOK, ClaimMessage, WorkerAt
<1> DEFINE claimed(j) == [j EXCEPT !.retry =
             /\ j.message \in DailyCheckIns
             /\ outbox[j.message].attempts + 1 < MaxDeliveryAttempts]
<1>1. PICK j \in worker[w].todo :
        \/ /\ ClaimOutboundMessageForSending(j.message)
           /\ worker' = [worker EXCEPT ![w] =
                [at |-> "sending", todo |-> worker[w].todo \ {j}, job |-> claimed(j)]]
        \/ Finish(w, j) /\ outbox' = outbox
  BY <1>a DEF ClaimMessage
<1>2. j \in Job /\ j.message \in Messages
  BY <1>a, <1>1 DEF WorkerHolds, WorkerRecord, MessagePoints
<1>3. CASE /\ ClaimOutboundMessageForSending(j.message)
           /\ worker' = [worker EXCEPT ![w] =
                [at |-> "sending", todo |-> worker[w].todo \ {j}, job |-> claimed(j)]]
  <2> DEFINE again == /\ j.message \in DailyCheckIns
                      /\ outbox[j.message].attempts + 1 < MaxDeliveryAttempts
  <2>1. claimed(j).message = j.message /\ (claimed(j).retry => again)
    <3>1. again \in BOOLEAN
      OBVIOUS
    <3> HIDE DEF again
    <3>2. claimed(j) = [j EXCEPT !.retry = again]
      BY DEF again
    <3> QED BY <1>2, <3>1, <3>2 DEF Job
  <2> HIDE DEF claimed
  <2>2. worker'[w] = [at |-> "sending", todo |-> worker[w].todo \ {j}, job |-> claimed(j)]
    BY <1>a, <1>3
  <2> QED BY <1>2, <1>3, <2>1, <2>2
<1>4. CASE Finish(w, j) /\ outbox' = outbox
  <2>1. worker'[w] = [worker[w] EXCEPT !.todo = worker[w].todo \ {j}]
    BY <1>a, <1>4 DEF Finish
  <2>2. worker[w] \in WorkerRecord
    BY <1>a
  <2>3. worker'[w].at = worker[w].at
    BY <2>1, <2>2 DEF WorkerRecord
  <2> QED BY <1>4, <1>a, <2>3
<1> QED BY <1>1, <1>3, <1>4

-----------------------------------------------------------------------------
(* Retries                                                                  *)
-----------------------------------------------------------------------------
\* Idle ticks retry nothing.
LEMMA RetryInvInit == Init => RetryInv
  BY DEF Init, WorkerInit, AtRest, RetryInv, RetriesDaily

\* Recovery and refusals put back to pending what is dated, and nothing else.
LEMMA RetryInvStep ==
  ASSUME TypeInv, RetryInv, [Next]_vars
  PROVE  RetryInv'
<1>a. worker \in [Workers -> WorkerRecord]
  BY DEF TypeInv, WorkersOK
<1>1. ASSUME NEW w \in Workers, WorkerStep(w) PROVE RetryInv'
  <2>1. \A u \in Workers \ {w} : worker'[u] = worker[u]
    BY <1>1, TickKinds
  <2>2. RetriesDaily(worker'[w])
    <3>1. CASE worker'[w].at \notin Handing \cup {"failing_sends"}
      BY <3>1 DEF RetriesDaily, Handing
    <3>2. CASE /\ worker'[w].at = worker[w].at /\ worker'[w].job = worker[w].job
               /\ worker'[w].todo \subseteq worker[w].todo
      BY <3>2 DEF RetryInv, RetriesDaily
    <3>3. CASE ListStuckSends(w)
      <4> DEFINE stuck == {n \in Messages : outbox[n].status = "sending" /\ outbox[n].stale}
                 job(m) == [MessageJob(m) EXCEPT !.retry = AttemptsLeft(m)]
                 jobs == {job(m) : m \in stuck}
      <4>1. worker'[w] = [at |-> "failing_sends", todo |-> jobs, job |-> NoJob]
        BY <1>a, <3>3 DEF ListStuckSends, ListFor
      <4>2. \A m \in Messages : job(m).message = m /\ (job(m).retry => m \in DailyCheckIns)
        <5> TAKE m \in Messages
        <5>1. AttemptsLeft(m) \in BOOLEAN /\ (AttemptsLeft(m) => m \in DailyCheckIns)
          BY DEF AttemptsLeft
        <5>2. job(m).message = m /\ job(m).retry = AttemptsLeft(m)
          BY <5>1, JobTypes DEF Job
        <5> QED BY <5>1, <5>2, Zenon
      <4> HIDE DEF job
      <4>3. \A j \in jobs : j.retry => j.message \in DailyCheckIns
        BY <4>2
      <4> HIDE DEF jobs
      <4>4. worker'[w].at = "failing_sends" /\ worker'[w].todo = jobs
        BY <4>1
      <4> QED BY <4>3, <4>4 DEF RetriesDaily
    <3>4. CASE ClaimMessage(w)
      <4>1. CASE worker'[w].at = "delivering"
        BY <4>1 DEF RetriesDaily
      <4>2. CASE \E j \in Job :
                   /\ worker'[w].at = "sending" /\ worker'[w].job.message = j.message
                   /\ worker'[w].job.retry => j.message \in DailyCheckIns
        BY <4>2 DEF RetriesDaily
      <4> QED BY <1>1, <3>4, <4>1, <4>2, ClaimKinds
    <3>5. CASE SendMail(w)
      <4>1. worker'[w].at \in {"accepted", "refused"} /\ worker'[w].job = worker[w].job
        BY <1>a, <3>5 DEF SendMail, Proceed, WorkerRecord
      <4>2. worker[w].at = "sending"
        BY <3>5 DEF SendMail, WorkerAt
      <4> QED BY <4>1, <4>2 DEF RetryInv, RetriesDaily
    <3> QED BY <1>1, <3>1, <3>2, <3>3, <3>4, <3>5, TickKinds
  <2> QED BY <2>1, <2>2 DEF RetryInv
<1>2. ASSUME NEW w \in Workers, AbandonTick(w) PROVE RetryInv'
  <2>1. RetriesDaily(AtRest)
    BY DEF AtRest, RetriesDaily
  <2> QED BY <1>a, <1>2, <2>1 DEF AbandonTick, RetryInv
<1>3. CASE worker' = worker
  BY <1>3 DEF RetryInv
<1>4. CASE Fail
  BY <1>2, <1>3, <1>4 DEF Fail
<1>5. CASE TimePasses \/ \E r \in Requests : RequestProgress(r)
  BY <1>3, <1>5 DEF TimePasses, ApprovalAges, MessageAges, RequestProgress
<1>6. CASE UNCHANGED vars
  BY <1>3, <1>6 DEF vars
<1> QED BY <1>1, <1>4, <1>5, <1>6 DEF Next

-----------------------------------------------------------------------------
(* Rows                                                                     *)
-----------------------------------------------------------------------------
\* A request makes a message deliverable, and that is counted.
Arms(m) ==
  /\ armings'[m] = armings[m] + 1
  /\ \/ \E r \in Requests :
          \/ At(r, "write_outbox") /\ request[r].link = m /\ request[r].verdict = "approved"
          \/ At(r, "write_patch") /\ request[r].message = m /\ request[r].verdict # "cancelled"
     \/ outbox'[m].approval = None

\* A row that may be tried again: by a first attempt, while attempts are left,
\* or because a tick has seen that they are.
Retried(m) ==
  \/ outbox[m].status = "absent" \/ outbox[m].attempts < MaxDeliveryAttempts
  \/ \E w \in Workers :
       \/ worker[w].at = "refused" /\ worker[w].job.retry /\ worker[w].job.message = m
       \/ worker[w].at = "failing_sends" /\ \E j \in worker[w].todo : j.retry /\ j.message = m

\* Attempts are counted from the insertion of the row, one for each claim.
AttemptStep(m) ==
  \/ outbox'[m].attempts = outbox[m].attempts
  \/ outbox[m].status = "absent" /\ outbox'[m].attempts = 0
  \/ /\ outbox'[m].attempts = outbox[m].attempts + 1
     /\ Deliverable(m) /\ ~Deliverable(m)'
     /\ \E w \in Workers : worker[w].at = "delivering" /\ worker'[w].at = "sending"

\* What a step may do to a row: its approval is set when it is inserted, and it
\* becomes deliverable by a request or as a daily check-in.
RowStep(m) ==
  /\ outbox[m].status # "absent" =>
       outbox'[m].status # "absent" /\ outbox'[m].approval = outbox[m].approval
  /\ outbox[m].status = "absent" =>
       \/ outbox'[m].approval \in {None, outbox[m].approval}
       \/ m \notin DailyCheckIns /\ outbox'[m].status = "requires_approval"
  /\ outbox'[m].status = "absent" =>
       outbox[m].status = "absent" /\ outbox'[m].approval = outbox[m].approval
  /\ Deliverable(m)' => Deliverable(m) \/ (m \in DailyCheckIns /\ Retried(m)) \/ Arms(m)
  /\ AttemptStep(m)
  /\ armings'[m] \in {armings[m], armings[m] + 1}

RowsSame ==
  /\ \A n \in Messages :
       /\ outbox'[n].status = outbox[n].status /\ outbox'[n].approval = outbox[n].approval
       /\ outbox'[n].attempts = outbox[n].attempts
  /\ armings' = armings

\* A step that changes neither status nor approval of any row makes nothing deliverable.
LEMMA SameRowSteps ==
  ASSUME RowsSame, armings \in [Messages -> Nat]
  PROVE  \A n \in Messages : RowStep(n)
  BY DEF RowsSame, RowStep, AttemptStep, Deliverable

\* A row that is settled, or that may be tried again.
LEMMA StatusRowSteps ==
  ASSUME OutboxTypeOK, ArmingsOK, NEW m \in Messages,
         NEW status \in OutboxStatuses \ {"absent"}, NEW due,
         UpdateOutboundMessageStatus(m, status, due),
         status \in DeliverableStatuses => m \in DailyCheckIns /\ Retried(m), armings' = armings
  PROVE  \A n \in Messages : RowStep(n)
<1>1. /\ outbox'[m].status = status /\ outbox'[m].approval = outbox[m].approval
      /\ outbox'[m].attempts = outbox[m].attempts
      /\ \A n \in Messages \ {m} : outbox'[n] = outbox[n]
  BY StatusWritten
<1>2. \A n \in Messages : armings'[n] = armings[n]
  OBVIOUS
<1> QED BY <1>1, <1>2 DEF RowStep, AttemptStep, Deliverable

\* A request that writes a status counts what it makes deliverable.
LEMMA ArmedRowSteps ==
  ASSUME OutboxTypeOK, ArmingsOK, NEW m \in Messages,
         NEW status \in OutboxStatuses \ {"absent"}, NEW due,
         UpdateOutboundMessageStatus(m, status, due), NoteArming(m, status),
         status \in DeliverableStatuses =>
           \E r \in Requests :
             \/ At(r, "write_outbox") /\ request[r].link = m /\ request[r].verdict = "approved"
             \/ At(r, "write_patch") /\ request[r].message = m /\ request[r].verdict # "cancelled"
  PROVE  \A n \in Messages : RowStep(n)
<1>1. /\ outbox'[m].status = status /\ outbox'[m].approval = outbox[m].approval
      /\ outbox'[m].attempts = outbox[m].attempts
      /\ \A n \in Messages \ {m} : outbox'[n] = outbox[n]
  BY StatusWritten
<1>2. /\ status \in DeliverableStatuses => armings'[m] = armings[m] + 1
      /\ status \notin DeliverableStatuses => armings'[m] = armings[m]
      /\ \A n \in Messages \ {m} : armings'[n] = armings[n]
  BY DEF NoteArming, ArmingsOK
<1>3. RowStep(m)
  BY <1>1, <1>2 DEF RowStep, AttemptStep, Deliverable, Arms
<1>4. \A n \in Messages \ {m} : RowStep(n)
  BY <1>1, <1>2 DEF RowStep, AttemptStep, Deliverable
<1> QED BY <1>3, <1>4

\* A held message and an owner message are new rows.
LEMMA NewRowSteps ==
  ASSUME OutboxTypeOK, ArmingsOK, NEW m \in Messages, NewMessage(m), NEW status, NEW a,
         QueueOutboundMessage(m, status, a),
         \/ status = "requires_approval" /\ armings' = armings
         \/ status = "pending" /\ a = None /\ NoteArming(m, status)
  PROVE  \A n \in Messages : RowStep(n)
<1>1. /\ outbox[m].status = "absent" /\ m \notin DailyCheckIns
      /\ outbox'[m].status = status /\ outbox'[m].approval = a
      /\ outbox'[m].attempts = 0
      /\ \A n \in Messages \ {m} : outbox'[n] = outbox[n]
  BY RowQueued DEF NewMessage
<1>2. /\ status = "pending" => armings'[m] = armings[m] + 1
      /\ status # "pending" => armings'[m] = armings[m]
      /\ \A n \in Messages \ {m} : armings'[n] = armings[n]
  BY DEF NoteArming, ArmingsOK, DeliverableStatuses
<1>3. RowStep(m)
  BY <1>1, <1>2 DEF RowStep, AttemptStep, Deliverable, DeliverableStatuses, Arms
<1>4. \A n \in Messages \ {m} : RowStep(n)
  BY <1>1, <1>2 DEF RowStep, AttemptStep, Deliverable
<1> QED BY <1>3, <1>4

\* A step of a call changes rows as RowStep allows.
LEMMA RequestRowSteps ==
  ASSUME TypeInv, NEW r \in Requests, RequestProgress(r)
  PROVE  \A n \in Messages : RowStep(n)
<1>a. request[r] \in RequestRecord /\ RequestHolds(request[r]) /\ OutboxTypeOK /\ ArmingsOK
  BY DEF TypeInv, RequestsOK
<1>0. CASE UNCHANGED <<outbox, armings>>
  BY <1>0, <1>a, SameRowSteps DEF RowsSame, ArmingsOK
<1>1. CASE WriteLinkedOutbox(r)
  <2> DEFINE status == IF request[r].verdict = "approved" THEN "approved" ELSE "cancelled"
  <2>1. /\ request[r].link \in Messages /\ At(r, "write_outbox")
        /\ UpdateOutboundMessageStatus(request[r].link, status, TRUE)
        /\ NoteArming(request[r].link, status)
    BY <1>1, <1>a DEF WriteLinkedOutbox, RequestHolds, At
  <2>2. /\ status \in OutboxStatuses \ {"absent"}
        /\ status \in DeliverableStatuses => request[r].verdict = "approved"
    BY DEF OutboxStatuses, DeliverableStatuses, LockedOutboxStatuses
  <2> HIDE DEF status
  <2> QED BY <1>a, <2>1, <2>2, ArmedRowSteps
<1>2. CASE WritePatch(r)
  <2> DEFINE status == request[r].verdict
  <2>1. /\ request[r].message \in Messages /\ At(r, "write_patch")
        /\ status \in {"pending", "approved", "cancelled"}
        /\ UpdateOutboundMessageStatus(request[r].message, status, TRUE)
        /\ NoteArming(request[r].message, status)
    BY <1>2, <1>a DEF WritePatch, RequestHolds, At
  <2>2. /\ status \in OutboxStatuses \ {"absent"}
        /\ status \in DeliverableStatuses => request[r].verdict # "cancelled"
    BY <2>1 DEF OutboxStatuses, DeliverableStatuses, LockedOutboxStatuses
  <2> HIDE DEF status
  <2> QED BY <1>a, <2>1, <2>2, ArmedRowSteps
<1>3. CASE CancelEditedMessage(r)
  <2>1. request[r].link \in Messages
    BY <1>3, <1>a DEF CancelEditedMessage, RequestHolds, At
  <2>2. "cancelled" \in OutboxStatuses \ {"absent"} /\ "cancelled" \notin DeliverableStatuses
    BY DEF OutboxStatuses, DeliverableStatuses, LockedOutboxStatuses
  <2> QED BY <1>a, <1>3, <2>1, <2>2, StatusRowSteps DEF CancelEditedMessage
<1>4. CASE QueueProposal(r) \/ QueueEditedMessage(r)
  <2>1. \E m \in Messages :
          /\ NewMessage(m) /\ QueueOutboundMessage(m, "requires_approval", request[r].approval)
          /\ armings' = armings
    BY <1>4 DEF QueueProposal, QueueEditedMessage, QueueHeld
  <2> QED BY <1>a, <2>1, NewRowSteps
<1>5. CASE QueueOwnerMessage(r)
  <2>1. \E m \in Messages :
          NewMessage(m) /\ QueueOutboundMessage(m, "pending", None) /\ NoteArming(m, "pending")
    BY <1>5 DEF QueueOwnerMessage
  <2> QED BY <1>a, <2>1, NewRowSteps
<1>6. CASE \/ ProposeMessage(r) \/ LinkProposal(r) \/ ProposeCrossAppWrite(r) \/ Decide(r)
           \/ WriteDecision(r) \/ Edit(r) \/ WriteEditedPayload(r) \/ LinkEditedMessage(r)
           \/ PatchOutbox(r) \/ DecidePatched(r)
  BY <1>0, <1>6 DEF ProposeMessage, LinkProposal, ProposeCrossAppWrite, Decide, WriteDecision,
     Edit, WriteEditedPayload, LinkEditedMessage, LinkHeld, PatchOutbox, DecidePatched,
     ReadForDecision, storeVars
<1> QED BY <1>1, <1>2, <1>3, <1>4, <1>5, <1>6 DEF RequestProgress, RequestStep

\* A step of a tick changes rows as RowStep allows, and arms none but daily check-ins.
LEMMA WorkerRowSteps ==
  ASSUME TypeInv, RetryInv, NEW w \in Workers, WorkerStep(w)
  PROVE  \A n \in Messages : RowStep(n)
<1>a. /\ worker[w] \in WorkerRecord /\ WorkerHolds(worker[w]) /\ RetriesDaily(worker[w])
      /\ OutboxTypeOK /\ ArmingsOK /\ armings' = armings
  BY DEF TypeInv, WorkersOK, RetryInv, WorkerStep, policyVars
<1>b. /\ {"cancelled", "failed", "sent", "pending"} \subseteq OutboxStatuses \ {"absent"}
      /\ {"cancelled", "failed", "sent"} \cap DeliverableStatuses = {}
  BY DEF OutboxStatuses, DeliverableStatuses, LockedOutboxStatuses
<1>0. CASE UNCHANGED outbox
  BY <1>0, <1>a, SameRowSteps DEF RowsSame, ArmingsOK
<1>1. CASE CancelLinkedOutbox(w)
  <2>1. worker[w].job.message \in Messages
    BY <1>1, <1>a DEF CancelLinkedOutbox, WorkerHolds, WorkerAt
  <2> QED BY <1>a, <1>b, <1>1, <2>1, StatusRowSteps DEF CancelLinkedOutbox
<1>2. CASE SettleStuckSend(w)
  <2>1. PICK j \in worker[w].todo :
          UpdateOutboundMessageStatus(j.message, IF j.retry THEN "pending" ELSE "failed", TRUE)
    BY <1>2 DEF SettleStuckSend
  <2>2. j.message \in Messages /\ (j.retry => j.message \in DailyCheckIns /\ Retried(j.message))
    BY <1>2, <1>a, <2>1
       DEF SettleStuckSend, WorkerAt, WorkerHolds, MessagePoints, RetriesDaily, Retried
  <2> QED BY <1>a, <1>b, <2>1, <2>2, StatusRowSteps
<1>3. CASE QueueDailyCheckIn(w)
  <2>1. PICK m \in DailyCheckIns : QueueOutboundMessage(m, "pending", None)
    BY <1>3 DEF QueueDailyCheckIn
  <2>2. m \in Messages
    BY StoreAssumption
  <2>3. /\ outbox[m].status = "absent" =>
             /\ outbox'[m].status = "pending" /\ outbox'[m].approval = None
             /\ outbox'[m].attempts = 0
        /\ outbox[m].status # "absent" =>
             /\ outbox'[m].approval = outbox[m].approval
             /\ outbox'[m].attempts = outbox[m].attempts
             /\ \/ outbox'[m].status = outbox[m].status
                \/ outbox'[m].status = "pending" /\ outbox[m].attempts < MaxDeliveryAttempts
        /\ \A n \in Messages \ {m} : outbox'[n] = outbox[n]
    BY <1>a, <2>1, <2>2, RowQueued
  <2>4. RowStep(m)
    BY <1>a, <2>1, <2>2, <2>3 DEF RowStep, AttemptStep, Retried, Deliverable
  <2>5. \A n \in Messages \ {m} : RowStep(n)
    BY <1>a, <2>3 DEF RowStep, AttemptStep, Deliverable
  <2> QED BY <2>4, <2>5
<1>4. CASE FailBeforeClaim(w)
  <2>1. PICK j \in worker[w].todo : UpdateOutboundMessageStatus(j.message, "failed", TRUE)
    BY <1>4 DEF FailBeforeClaim
  <2>2. j.message \in Messages
    BY <1>4, <1>a DEF FailBeforeClaim, WorkerAt, WorkerHolds, MessagePoints
  <2> QED BY <1>a, <1>b, <2>1, <2>2, StatusRowSteps
<1>5. CASE ClaimMessage(w)
  <2>1. ASSUME NEW m \in Messages, ClaimOutboundMessageForSending(m), worker'[w].at = "sending"
        PROVE  \A n \in Messages : RowStep(n)
    <3>1. /\ Deliverable(m)
          /\ outbox'[m].status = "sending" /\ outbox'[m].approval = outbox[m].approval
          /\ outbox'[m].attempts = outbox[m].attempts + 1
          /\ \A n \in Messages \ {m} : outbox'[n] = outbox[n]
      BY <1>a, <2>1, RowClaimed
    <3>2. worker[w].at = "delivering"
      BY <1>5 DEF ClaimMessage, WorkerAt
    <3> QED BY <1>a, <2>1, <3>1, <3>2 DEF RowStep, AttemptStep, Deliverable, DeliverableStatuses
  <2> QED BY <1>0, <1>5, <2>1, ClaimKinds
<1>6. CASE RecordSent(w)
  <2>1. worker[w].job.message \in Messages
    BY <1>6, <1>a DEF RecordSent, WorkerHolds, WorkerAt
  <2> QED BY <1>a, <1>b, <1>6, <2>1, StatusRowSteps DEF RecordSent
<1>7. CASE RecordRefusal(w)
  <2> DEFINE j == worker[w].job
  <2>1. UpdateOutboundMessageStatus(j.message, IF j.retry THEN "pending" ELSE "failed", ~j.retry)
    BY <1>7 DEF RecordRefusal
  <2>2. j.message \in Messages /\ (j.retry => j.message \in DailyCheckIns /\ Retried(j.message))
    BY <1>7, <1>a DEF RecordRefusal, WorkerHolds, WorkerAt, RetriesDaily, Retried
  <2> HIDE DEF j
  <2> QED BY <1>a, <1>b, <2>1, <2>2, StatusRowSteps
<1>8. CASE \/ ListLapsedApprovals(w) \/ ExpireApproval(w) \/ ListStuckSends(w)
           \/ ListStuckExecutions(w) \/ FailStuckExecution(w) \/ EndRecovery(w)
           \/ ExecutorStep(w) \/ ListDeliverable(w) \/ SendMail(w) \/ EndTick(w)
  BY <1>0, <1>8 DEF ListLapsedApprovals, ExpireApproval, ListStuckSends, ListStuckExecutions,
     FailStuckExecution, EndRecovery, ExecutorStep, ListExecutable, ClaimExecution,
     RefuseExecution, CallTargetApp, RecordExecution, ListDeliverable, SendMail, EndTick, storeVars
<1> QED BY <1>1, <1>2, <1>3, <1>4, <1>5, <1>6, <1>7, <1>8 DEF WorkerStep, RecoveryStep, SenderStep

\* Every step changes rows as RowStep allows.
LEMMA RowSteps ==
  ASSUME TypeInv, RetryInv, [Next]_vars
  PROVE  \A n \in Messages : RowStep(n)
<1>a. armings \in [Messages -> Nat] /\ outbox \in [Messages -> OutboxRow]
  BY DEF TypeInv, ArmingsOK, OutboxTypeOK
<1>0. CASE UNCHANGED <<outbox, armings>>
  BY <1>0, <1>a, SameRowSteps DEF RowsSame
<1>1. CASE \E r \in Requests : RequestProgress(r)
  BY <1>1, RequestRowSteps
<1>2. CASE \E w \in Workers : WorkerStep(w)
  BY <1>2, WorkerRowSteps
<1>3. CASE Fail
  BY <1>0, <1>3 DEF Fail, AbandonRequest, AbandonTick, storeVars, policyVars
<1>4. CASE TimePasses
  <2>1. armings' = armings
    BY <1>4 DEF TimePasses, ApprovalAges, MessageAges, policyVars
  <2>2. \A n \in Messages :
          /\ outbox'[n].status = outbox[n].status /\ outbox'[n].approval = outbox[n].approval
          /\ outbox'[n].attempts = outbox[n].attempts
    BY <1>4, <1>a DEF TimePasses, ApprovalAges, MessageAges, LapseApproval, AgeExecution, AgeSend,
       ComeDue, OutboxRow
  <2> QED BY <1>a, <2>1, <2>2, SameRowSteps DEF RowsSame
<1>5. CASE UNCHANGED vars
  BY <1>0, <1>5 DEF vars, storeVars, policyVars
<1> QED BY <1>1, <1>2, <1>3, <1>4, <1>5 DEF Next
-----------------------------------------------------------------------------
(* The gate                                                                 *)
-----------------------------------------------------------------------------
\* What a step may do outside the rows: decisions stay on record, and a link is
\* written only by the two calls that hold it.
DecisionsGrow == \A a \in Approvals : decisions[a] \subseteq decisions'[a]

LinkStep(a) ==
  \/ approvals'[a].link = approvals[a].link
  \/ \E r \in Requests :
       /\ request[r].approval = a
       /\ \/ /\ request[r].at \in {"propose_link", "edit_link"}
             /\ approvals'[a].link = request[r].message
          \/ request[r].at = "edit_payload" /\ approvals'[a].link = request[r].link

\* A delivery that nobody else's step can make.
AcceptedStep(m) ==
  \/ accepted'[m] = accepted[m]
  \/ \E w \in Workers : worker[w].at = "sending" /\ worker[w].job.message = m

LinksSame == \A a \in Approvals : approvals'[a].link = approvals[a].link

\* updateApprovalStatus adds to the record and leaves the links.
LEMMA StatusKeepsLinks ==
  ASSUME ApprovalsTypeOK, NEW a \in Approvals, NEW status, UpdateApprovalStatus(a, status)
  PROVE  DecisionsGrow /\ LinksSame
<1>1. DecisionsGrow
  BY DEF UpdateApprovalStatus, ApprovalsTypeOK, DecisionsGrow
<1> DEFINE execution == IF /\ status = "approved"
                           /\ a \in CrossAppApprovals
                           /\ approvals[a].execution = "not_applicable"
                        THEN "pending" ELSE approvals[a].execution
<1>2. approvals[a] \in ApprovalRow
  BY DEF ApprovalsTypeOK
<1>3. approvals' = [approvals EXCEPT ![a] =
        [approvals[a] EXCEPT !.status = status, !.stale = FALSE, !.execution = execution]]
  BY <1>2 DEF UpdateApprovalStatus, ApprovalsTypeOK, ApprovalRow
<1> HIDE DEF execution
<1>4. LinksSame
  BY <1>2, <1>3 DEF ApprovalsTypeOK, ApprovalRow, LinksSame
<1> QED BY <1>1, <1>4

\* createApproval and the writes of executions leave the links.
LEMMA WritesKeepLinks ==
  ASSUME ApprovalsTypeOK, NEW a \in Approvals,
         \/ CreateApproval(a) \/ ClaimApprovalExecution(a)
         \/ \E result \in ExecutionStatuses : FinishApprovalExecution(a, result)
         \/ LapseApproval(a) \/ AgeExecution(a)
  PROVE  LinksSame
<1>1. approvals[a] \in ApprovalRow
  BY DEF ApprovalsTypeOK
<1>2. CASE CreateApproval(a) \/ ClaimApprovalExecution(a)
  BY <1>1, <1>2 DEF CreateApproval, ClaimApprovalExecution, ApprovalsTypeOK, ApprovalRow, LinksSame
<1>3. CASE LapseApproval(a) \/ AgeExecution(a)
  BY <1>1, <1>3 DEF LapseApproval, AgeExecution, ApprovalsTypeOK, ApprovalRow, LinksSame
<1>4. ASSUME NEW result \in ExecutionStatuses, FinishApprovalExecution(a, result)
      PROVE  LinksSame
  <2>1. \A e \in ExecutionStatuses :
          [approvals[a] EXCEPT !.execution = e, !.stale = FALSE].link = approvals[a].link
    BY <1>1 DEF ApprovalRow
  <2>2. \/ approvals' = approvals
        \/ approvals' = [approvals EXCEPT ![a] =
                          [approvals[a] EXCEPT !.execution = result, !.stale = FALSE]]
    BY <1>4, Zenon DEF FinishApprovalExecution
  <2> QED BY <2>1, <2>2 DEF ApprovalsTypeOK, LinksSame
<1> QED BY <1>2, <1>3, <1>4

\* updateApprovalPayload changes the link of its own approval.
LEMMA PayloadLinks ==
  ASSUME ApprovalsTypeOK, NEW a \in Approvals, NEW link, UpdateApprovalPayload(a, link)
  PROVE  /\ approvals'[a].link \in {approvals[a].link, link}
         /\ \A b \in Approvals \ {a} : approvals'[b].link = approvals[b].link
<1>1. approvals[a] \in ApprovalRow
  BY DEF ApprovalsTypeOK
<1> QED BY <1>1 DEF UpdateApprovalPayload, ApprovalsTypeOK, ApprovalRow

\* A step of a call takes no decision back and leaves ticks and deliveries.
LEMMA RequestOtherSteps ==
  ASSUME TypeInv, NEW r \in Requests, RequestProgress(r)
  PROVE  /\ DecisionsGrow
         /\ \A a \in Approvals : LinkStep(a)
         /\ accepted' = accepted /\ worker' = worker
         /\ \A q \in Requests \ {r} : request'[q] = request[q]
<1>a. /\ request \in [Requests -> RequestRecord] /\ RequestHolds(request[r])
      /\ ApprovalsTypeOK /\ accepted' = accepted /\ worker' = worker
  BY DEF TypeInv, RequestsOK, RequestProgress, externals
<1>b. \A q \in Requests \ {r} : request'[q] = request[q]
  <2> DEFINE Others == \A q \in Requests \ {r} : request'[q] = request[q]
  <2>a. ASSUME NEW v, Become(r, v) PROVE Others
    BY <1>a, <2>a DEF Become
  <2>b. ASSUME NEW point, GoTo(r, point) PROVE Others
    BY <1>a, <2>b DEF GoTo
  <2>c. Return(r) => Others
    BY <2>a DEF Return
  <2>d. ASSUME NEW a, NEW verdict, ReadForDecision(r, a, verdict) PROVE Others
    BY <2>a, <2>c, <2>d DEF ReadForDecision
  <2> SUFFICES Others
    OBVIOUS
  <2> HIDE DEF Others
  <2>1. CASE \/ LinkProposal(r) \/ ProposeCrossAppWrite(r) \/ LinkEditedMessage(r)
             \/ QueueOwnerMessage(r) \/ WriteLinkedOutbox(r) \/ WritePatch(r)
    BY <2>1, <2>c DEF LinkProposal, ProposeCrossAppWrite, LinkEditedMessage, LinkHeld,
       QueueOwnerMessage, WriteLinkedOutbox, WritePatch
  <2>2. CASE WriteDecision(r) \/ WriteEditedPayload(r) \/ CancelEditedMessage(r)
    BY <2>2, <2>b, <2>c DEF WriteDecision, WriteEditedPayload, CancelEditedMessage
  <2>3. CASE ProposeMessage(r) \/ QueueProposal(r) \/ QueueEditedMessage(r)
    BY <2>3, <2>a, Zenon DEF ProposeMessage, QueueProposal, QueueEditedMessage, QueueHeld
  <2>4. CASE Edit(r) \/ PatchOutbox(r)
    <3>1. PICK v : Become(r, v)
      BY <2>4, Zenon DEF Edit, PatchOutbox
    <3> QED BY <2>a, <3>1, Zenon
  <2>5. CASE Decide(r) \/ DecidePatched(r)
    BY <2>5, <2>d DEF Decide, DecidePatched
  <2> QED BY <2>1, <2>2, <2>3, <2>4, <2>5 DEF RequestProgress, RequestStep
<1>c. /\ decisions' = decisions => DecisionsGrow
      /\ LinksSame => \A a \in Approvals : LinkStep(a)
      /\ approvals' = approvals => LinksSame
  BY DEF DecisionsGrow, LinksSame, LinkStep
<1>1. CASE WriteDecision(r)
  BY <1>1, <1>a, <1>b, <1>c, StatusKeepsLinks DEF WriteDecision, RequestHolds, At
<1>2. CASE ProposeMessage(r)
  BY <1>2, <1>a, <1>b, <1>c, WritesKeepLinks DEF ProposeMessage
<1>3. CASE ProposeCrossAppWrite(r)
  BY <1>3, <1>a, <1>b, <1>c, WritesKeepLinks, StoreAssumption DEF ProposeCrossAppWrite
<1>4. CASE LinkProposal(r) \/ LinkEditedMessage(r)
  <2>1. /\ request[r].at \in {"propose_link", "edit_link"} /\ request[r].approval \in Approvals
        /\ UpdateApprovalPayload(request[r].approval, request[r].message) /\ decisions' = decisions
    BY <1>4, <1>a DEF LinkProposal, LinkEditedMessage, LinkHeld, RequestHolds, At
  <2>2. \A a \in Approvals : LinkStep(a)
    BY <1>a, <2>1, PayloadLinks DEF LinkStep
  <2> QED BY <1>a, <1>b, <1>c, <2>1, <2>2
<1>5. CASE WriteEditedPayload(r)
  <2>1. /\ request[r].at = "edit_payload" /\ request[r].approval \in Approvals
        /\ UpdateApprovalPayload(request[r].approval, request[r].link) /\ decisions' = decisions
    BY <1>5, <1>a DEF WriteEditedPayload, RequestHolds, At
  <2>2. \A a \in Approvals : LinkStep(a)
    BY <1>a, <2>1, PayloadLinks DEF LinkStep
  <2> QED BY <1>a, <1>b, <1>c, <2>1, <2>2
<1>6. CASE \/ QueueProposal(r) \/ Decide(r) \/ WriteLinkedOutbox(r) \/ Edit(r)
           \/ CancelEditedMessage(r) \/ QueueEditedMessage(r) \/ PatchOutbox(r)
           \/ DecidePatched(r) \/ WritePatch(r) \/ QueueOwnerMessage(r)
  <2> DEFINE Same == approvals' = approvals /\ decisions' = decisions
  <2>a. ASSUME NEW a, NEW verdict, ReadForDecision(r, a, verdict) PROVE Same
    BY <2>a DEF ReadForDecision, storeVars
  <2> SUFFICES Same
    BY <1>a, <1>b, <1>c
  <2> HIDE DEF Same
  <2>1. CASE Decide(r) \/ DecidePatched(r)
    BY <2>1, <2>a DEF Decide, DecidePatched
  <2>2. CASE Edit(r) \/ PatchOutbox(r)
    <3>1. UNCHANGED storeVars
      BY <2>2, Zenon DEF Edit, PatchOutbox
    <3> QED BY <3>1 DEF Same, storeVars
  <2>3. CASE \/ QueueProposal(r) \/ WriteLinkedOutbox(r) \/ CancelEditedMessage(r)
             \/ QueueEditedMessage(r) \/ WritePatch(r) \/ QueueOwnerMessage(r)
    <3>1. UNCHANGED <<approvals, decisions>>
      BY <2>3, Zenon DEF QueueProposal, WriteLinkedOutbox, CancelEditedMessage,
         QueueEditedMessage, QueueHeld, WritePatch, QueueOwnerMessage
    <3> QED BY <3>1 DEF Same
  <2> QED BY <1>6, <2>1, <2>2, <2>3
<1> QED BY <1>1, <1>2, <1>3, <1>4, <1>5, <1>6 DEF RequestProgress, RequestStep

\* A step of a tick takes no decision back, writes no link, and delivers only by SendMail.
LEMMA WorkerOtherSteps ==
  ASSUME TypeInv, NEW w \in Workers, WorkerStep(w)
  PROVE  /\ DecisionsGrow /\ LinksSame /\ request' = request
         /\ accepted' = accepted \/ SendMail(w)
<1>a. /\ worker[w] \in WorkerRecord /\ WorkerHolds(worker[w]) /\ ApprovalsTypeOK
      /\ request' = request
  BY DEF TypeInv, WorkersOK, WorkerStep, policyVars
<1>b. accepted' = accepted \/ SendMail(w)
  BY DEF WorkerStep, externals, SenderStep, ListDeliverable, FailBeforeClaim, ClaimMessage,
     RecordSent, RecordRefusal, EndTick
<1>c. /\ decisions' = decisions => DecisionsGrow
      /\ approvals' = approvals => LinksSame
  BY DEF DecisionsGrow, LinksSame
<1>d. "failed" \in ExecutionStatuses /\ "succeeded" \in ExecutionStatuses
  BY DEF ExecutionStatuses
<1>1. CASE ExpireApproval(w)
  <2>1. PICK j \in worker[w].todo : UpdateApprovalStatus(j.approval, "expired")
    BY <1>1 DEF ExpireApproval
  <2>2. j.approval \in Approvals
    BY <1>1, <1>a DEF ExpireApproval, WorkerAt, WorkerHolds, ApprovalPoints
  <2> QED BY <1>a, <1>b, <2>1, <2>2, StatusKeepsLinks
<1>2. CASE FailStuckExecution(w)
  <2>1. PICK j \in worker[w].todo : FinishApprovalExecution(j.approval, "failed")
    BY <1>2 DEF FailStuckExecution
  <2>2. j.approval \in Approvals
    BY <1>2, <1>a DEF FailStuckExecution, WorkerAt, WorkerHolds, ApprovalPoints
  <2> QED BY <1>2, <1>a, <1>b, <1>c, <1>d, <2>1, <2>2, WritesKeepLinks DEF FailStuckExecution
<1>3. CASE ExecutorStep(w)
  <2>1. decisions' = decisions
    BY <1>3 DEF ExecutorStep, ListExecutable, ClaimExecution, RefuseExecution, CallTargetApp,
       RecordExecution, storeVars
  <2>2. CASE ClaimExecution(w)
    <3>1. PICK j \in worker[w].todo :
            ClaimApprovalExecution(j.approval) \/ approvals' = approvals
      BY <2>2 DEF ClaimExecution
    <3>2. j.approval \in Approvals
      BY <2>2, <1>a DEF ClaimExecution, WorkerAt, WorkerHolds, ApprovalPoints
    <3> QED BY <1>a, <1>b, <1>c, <2>1, <3>1, <3>2, WritesKeepLinks
  <2>3. CASE RecordExecution(w)
    <3>1. worker[w].job.approval \in Approvals
      BY <2>3, <1>a DEF RecordExecution, WorkerAt, WorkerHolds
    <3> QED BY <2>3, <1>a, <1>b, <1>c, <1>d, <2>1, <3>1, WritesKeepLinks DEF RecordExecution
  <2>4. CASE ListExecutable(w) \/ RefuseExecution(w) \/ CallTargetApp(w)
    BY <2>4, <1>a, <1>b, <1>c DEF ListExecutable, RefuseExecution, CallTargetApp, storeVars
  <2> QED BY <1>3, <2>2, <2>3, <2>4 DEF ExecutorStep
<1>4. CASE \/ ListLapsedApprovals(w) \/ CancelLinkedOutbox(w) \/ ListStuckSends(w)
           \/ SettleStuckSend(w) \/ ListStuckExecutions(w) \/ EndRecovery(w)
           \/ QueueDailyCheckIn(w) \/ SenderStep(w)
  <2>1. approvals' = approvals /\ decisions' = decisions
    BY <1>4 DEF ListLapsedApprovals, CancelLinkedOutbox, ListStuckSends, SettleStuckSend,
       ListStuckExecutions, EndRecovery, QueueDailyCheckIn, SenderStep, ListDeliverable,
       FailBeforeClaim, ClaimMessage, SendMail, RecordSent, RecordRefusal, EndTick, storeVars
  <2> QED BY <1>a, <1>b, <1>c, <2>1
<1> QED BY <1>1, <1>2, <1>3, <1>4 DEF WorkerStep, RecoveryStep
\* Rows stay gated.
LEMMA RowsStayOK ==
  ASSUME TypeInv, GateInv, \A n \in Messages : RowStep(n), DecisionsGrow,
         \A n \in Messages : AcceptedStep(n)
  PROVE  RowsOK'
<1> SUFFICES ASSUME NEW m \in Messages PROVE RowOK(m)'
  BY DEF RowsOK
<1>a. /\ RowOK(m) /\ RowStep(m) /\ outbox[m] \in OutboxRow /\ accepted[m] \in Nat
      /\ outbox[m].approval # None => outbox[m].approval \in Approvals
      /\ \A a \in Approvals : "approved" \in decisions[a] => "approved" \in decisions'[a]
  BY DEF GateInv, RowsOK, TypeInv, OutboxTypeOK, SenderTypeOK, OutboxRow, DecisionsGrow
<1>b. accepted'[m] # accepted[m] => outbox[m].status # "absent" /\ Approved(m)
  BY DEF AcceptedStep, GateInv, SendsOK, SendOK, Approved
<1>1. CASE outbox[m].status = "absent"
  <2>1. outbox[m].approval = None /\ accepted[m] = 0 /\ accepted'[m] = 0
    BY <1>1, <1>a, <1>b DEF RowOK
  <2>2. CASE outbox'[m].approval = None
    BY <2>1, <2>2 DEF RowOK, Approved, ApprovedIn
  <2>3. CASE m \notin DailyCheckIns /\ outbox'[m].status = "requires_approval"
    BY <2>1, <2>3 DEF RowOK, Deliverable, DeliverableStatuses
  <2> QED BY <1>1, <1>a, <2>1, <2>2, <2>3 DEF RowStep
<1>2. CASE outbox[m].status # "absent"
  <2>1. outbox'[m].status # "absent" /\ outbox'[m].approval = outbox[m].approval
    BY <1>2, <1>a DEF RowStep
  <2>2. Approved(m) => Approved(m)'
    BY <1>a, <2>1 DEF Approved, ApprovedIn
  <2>3. ASSUME Arms(m) PROVE Approved(m)'
    <3>1. CASE outbox'[m].approval = None
      BY <3>1 DEF Approved, ApprovedIn
    <3>2. ASSUME NEW r \in Requests, At(r, "write_outbox"), request[r].link = m,
                 request[r].verdict = "approved"
          PROVE  Approved(m)'
      <4>1. CallOK(outbox, decisions, request[r]) /\ m # None
        BY StoreAssumption DEF GateInv, CallsOK
      <4>2. /\ outbox[m].approval = request[r].approval
            /\ "approved" \in decisions[request[r].approval]
        BY <3>2, <4>1 DEF CallOK, At
      <4> QED BY <2>2, <4>2 DEF Approved, ApprovedIn
    <3>3. ASSUME NEW r \in Requests, At(r, "write_patch"), request[r].message = m,
                 request[r].verdict # "cancelled"
          PROVE  Approved(m)'
      <4>1. CallOK(outbox, decisions, request[r])
        BY DEF GateInv, CallsOK
      <4>2. outbox[m].approval = None
        BY <3>3, <4>1 DEF CallOK, At
      <4> QED BY <2>1, <4>2 DEF Approved, ApprovedIn
    <3> QED BY <2>3, <3>1, <3>2, <3>3 DEF Arms
  <2>4. Deliverable(m)' => Approved(m)'
    <3>1. CASE Deliverable(m)
      BY <1>a, <2>2, <3>1 DEF RowOK
    <3>2. CASE m \in DailyCheckIns
      BY <1>a, <2>1, <3>2 DEF RowOK, Approved, ApprovedIn
    <3> QED BY <1>a, <2>3, <3>1, <3>2 DEF RowStep
  <2>5. accepted'[m] > 0 => Approved(m)'
    BY <1>a, <1>b, <2>2 DEF RowOK
  <2> QED BY <1>a, <2>1, <2>4, <2>5 DEF RowOK
<1> QED BY <1>1, <1>2

\* A row under an approval stays under it, a row that is there stays, and an
\* approval on record stays on record.
LEMMA RowsStay ==
  ASSUME TypeInv, GateInv, \A n \in Messages : RowStep(n), DecisionsGrow
  PROVE  /\ \A m \in Messages : outbox[m].approval # None =>
              outbox'[m].approval = outbox[m].approval
         /\ \A m \in Messages : outbox[m].status # "absent" =>
              outbox'[m].status # "absent" /\ outbox'[m].approval = outbox[m].approval
         /\ \A m \in Messages : outbox[m].status # "absent" /\ Approved(m) =>
              ApprovedIn(outbox', decisions', m)
         /\ \A a \in Approvals : "approved" \in decisions[a] => "approved" \in decisions'[a]
<1> SUFFICES ASSUME NEW m \in Messages
    PROVE  /\ outbox[m].approval # None => outbox'[m].approval = outbox[m].approval
           /\ outbox[m].status # "absent" =>
                outbox'[m].status # "absent" /\ outbox'[m].approval = outbox[m].approval
           /\ outbox[m].status # "absent" /\ Approved(m) => ApprovedIn(outbox', decisions', m)
  BY DEF DecisionsGrow
<1>1. /\ RowOK(m) /\ RowStep(m)
      /\ outbox[m].approval # None => outbox[m].approval \in Approvals
  BY DEF GateInv, RowsOK, TypeInv, OutboxTypeOK, OutboxRow
<1>2. outbox[m].status # "absent" =>
        outbox'[m].status # "absent" /\ outbox'[m].approval = outbox[m].approval
  BY <1>1 DEF RowStep
<1>3. outbox[m].approval # None => outbox[m].status # "absent"
  BY <1>1 DEF RowOK
<1> QED BY <1>1, <1>2, <1>3 DEF Approved, ApprovedIn, DecisionsGrow

\* What a call that does not move holds stays good.
LEMMA CallStaysOK ==
  ASSUME TypeInv, GateInv, \A n \in Messages : RowStep(n), DecisionsGrow, NEW r \in Requests
  PROVE  CallOK(outbox', decisions', request[r])
<1> DEFINE q == request[r]
<1>a. /\ q \in RequestRecord /\ RequestHolds(q) /\ CallOK(outbox, decisions, q)
  BY DEF TypeInv, RequestsOK, GateInv, CallsOK
<1>b. q.link # None => q.link \in Messages
  BY <1>a DEF RequestRecord
<1> SUFFICES CallOK(outbox', decisions', q)
  OBVIOUS
<1> HIDE DEF q
<1>c. \A a \in Approvals : a # None
  BY StoreAssumption
<1>d. \A m \in Messages :
        /\ outbox[m].approval # None => outbox'[m].approval = outbox[m].approval
        /\ outbox[m].status # "absent" =>
             outbox'[m].status # "absent" /\ outbox'[m].approval = outbox[m].approval
        /\ outbox[m].status # "absent" /\ Approved(m) => ApprovedIn(outbox', decisions', m)
  BY RowsStay
<1>e. \A a \in Approvals : "approved" \in decisions[a] => "approved" \in decisions'[a]
  BY RowsStay
<1>1. CASE q.at \in {"write_status", "write_outbox", "edit_payload", "edit_cancel"}
  <2>1. q.approval \in Approvals
    BY <1>1, <1>a DEF RequestHolds
  <2>2. q.link # None => outbox'[q.link].approval = q.approval
    BY <1>1, <1>a, <1>b, <1>c, <1>d, <2>1 DEF CallOK
  <2>3. q.at = "write_outbox" /\ q.verdict = "approved" => "approved" \in decisions'[q.approval]
    BY <1>a, <1>e, <2>1 DEF CallOK
  <2> QED BY <1>1, <2>2, <2>3 DEF CallOK
<1>2. CASE q.at \in {"propose_link", "edit_link"}
  <2>1. /\ q.approval \in Approvals /\ q.message \in Messages
        /\ outbox[q.message].approval = q.approval
    BY <1>2, <1>a DEF RequestHolds, CallOK
  <2>2. outbox'[q.message].approval = q.approval
    BY <1>c, <1>d, <2>1
  <2> QED BY <1>2, <2>2 DEF CallOK
<1>3. CASE q.at = "write_patch"
  <2>1. /\ q.message \in Messages /\ outbox[q.message].status # "absent"
        /\ q.verdict = "cancelled" \/ outbox[q.message].approval = None
    BY <1>3, <1>a DEF RequestHolds, CallOK
  <2>2. /\ outbox'[q.message].status # "absent"
        /\ outbox'[q.message].approval = outbox[q.message].approval
    BY <1>d, <2>1
  <2> QED BY <1>3, <2>1, <2>2 DEF CallOK
<1>4. CASE q.at \notin {"write_status", "write_outbox", "edit_payload", "edit_cancel",
                        "propose_link", "edit_link", "write_patch"}
  BY <1>4 DEF CallOK
<1> QED BY <1>1, <1>2, <1>3, <1>4

\* What a tick that does not move holds stays good.
LEMMA SendStaysOK ==
  ASSUME TypeInv, GateInv, \A n \in Messages : RowStep(n), DecisionsGrow, NEW w \in Workers
  PROVE  SendOK(outbox', decisions', worker[w])
<1> DEFINE v == worker[w]
<1>1. WorkerHolds(v) /\ SendOK(outbox, decisions, v)
  BY DEF TypeInv, WorkersOK, GateInv, SendsOK
<1> SUFFICES SendOK(outbox', decisions', v)
  OBVIOUS
<1> HIDE DEF v
<1>2. CASE v.at \in {"sending", "accepted", "refused"}
  <2>1. /\ v.job.message \in Messages /\ outbox[v.job.message].status # "absent"
        /\ Approved(v.job.message)
    BY <1>1, <1>2 DEF WorkerHolds, SendOK, Approved
  <2>2. outbox'[v.job.message].status # "absent" /\ ApprovedIn(outbox', decisions', v.job.message)
    BY <2>1, RowsStay
  <2> QED BY <2>2 DEF SendOK
<1> QED BY <1>2 DEF SendOK

\* Links keep leading to rows under their approval.
LEMMA LinksStayOK ==
  ASSUME TypeInv, GateInv, \A n \in Messages : RowStep(n), DecisionsGrow,
         \A a \in Approvals : LinkStep(a)
  PROVE  LinksOK'
<1> SUFFICES ASSUME NEW a \in Approvals PROVE LinkOK(a)'
  BY DEF LinksOK
<1>a. /\ LinkOK(a) /\ LinkStep(a) /\ a # None
      /\ approvals[a].link # None => approvals[a].link \in Messages
  BY StoreAssumption DEF GateInv, LinksOK, TypeInv, ApprovalsTypeOK, ApprovalRow
<1>1. CASE approvals'[a].link = approvals[a].link
  BY <1>1, <1>a, RowsStay DEF LinkOK
<1>2. ASSUME NEW r \in Requests, request[r].approval = a,
             request[r].at \in {"propose_link", "edit_link"},
             approvals'[a].link = request[r].message
      PROVE  LinkOK(a)'
  <2>1. /\ request[r].message \in Messages
        /\ outbox[request[r].message].approval = a
    BY <1>2 DEF TypeInv, RequestsOK, RequestHolds, GateInv, CallsOK, CallOK
  <2> QED BY <1>2, <1>a, <2>1, RowsStay DEF LinkOK
<1>3. ASSUME NEW r \in Requests, request[r].approval = a,
             request[r].at = "edit_payload", approvals'[a].link = request[r].link
      PROVE  LinkOK(a)'
  <2>1. request[r].link # None =>
          request[r].link \in Messages /\ outbox[request[r].link].approval = a
    BY <1>3 DEF TypeInv, RequestsOK, RequestRecord, GateInv, CallsOK, CallOK
  <2> QED BY <1>3, <1>a, <2>1, RowsStay DEF LinkOK
<1> QED BY <1>1, <1>2, <1>3, <1>a DEF LinkStep
\* The points at which the gate rests on what the call holds.
GatedPoints ==
  {"write_status", "write_outbox", "edit_payload", "edit_cancel", "propose_link", "edit_link",
   "write_patch"}

\* At the other points a call holds nothing the gate rests on.
LEMMA UngatedPoint ==
  ASSUME NEW o, NEW d, NEW q, q.at \notin GatedPoints
  PROVE  CallOK(o, d, q)
  BY DEF CallOK, GatedPoints

\* The read of a decision holds the link as it is.
LEMMA DecisionReadOK ==
  ASSUME TypeInv, GateInv, NEW r \in Requests, NEW a \in Approvals, NEW verdict,
         ReadForDecision(r, a, verdict)
  PROVE  CallOK(outbox', decisions', request'[r])
<1>a. request \in [Requests -> RequestRecord] /\ UNCHANGED storeVars
  BY DEF TypeInv, RequestsOK, ReadForDecision
<1>1. CASE Return(r)
  <2>1. request'[r].at = "done"
    BY <1>1, <1>a DEF Return, Become, Idle
  <2> QED BY <2>1, UngatedPoint DEF GatedPoints
<1>2. ASSUME NEW v, Become(r, [Idle("write_status") EXCEPT
                                 !.approval = a, !.verdict = v, !.link = LinkAsRead(a)])
      PROVE  CallOK(outbox', decisions', request'[r])
  <2>1. request'[r] = [at |-> "write_status", approval |-> a, message |-> None,
                       verdict |-> v, link |-> LinkAsRead(a)]
    BY <1>2, <1>a DEF Become, Idle
  <2>2. LinkAsRead(a) # None => outbox[LinkAsRead(a)].approval = a
    BY DEF LinkAsRead, GateInv, LinksOK, LinkOK
  <2>3. outbox' = outbox
    BY <1>a DEF storeVars
  <2> QED BY <2>1, <2>2, <2>3 DEF CallOK
<1> QED BY <1>1, <1>2, Zenon DEF ReadForDecision

\* Where a call moves, it holds what its next step needs.
LEMMA CallMovesOK ==
  ASSUME "pending" \notin PatchStatuses, TypeInv, GateInv, NEW r \in Requests, RequestProgress(r)
  PROVE  CallOK(outbox', decisions', request'[r])
<1> DEFINE Good == CallOK(outbox', decisions', request'[r])
<1> SUFFICES Good
  OBVIOUS
<1>a. /\ request \in [Requests -> RequestRecord] /\ request[r] \in RequestRecord
      /\ RequestHolds(request[r]) /\ CallOK(outbox, decisions, request[r])
      /\ OutboxTypeOK /\ ApprovalsTypeOK
  BY DEF TypeInv, RequestsOK, GateInv, CallsOK
<1>b. ASSUME request'[r].at \notin GatedPoints PROVE Good
  BY <1>b, UngatedPoint
<1>c. ASSUME Return(r) PROVE Good
  <2>1. request'[r].at = "done"
    BY <1>a, <1>c DEF Return, Become, Idle
  <2> QED BY <1>b, <2>1 DEF GatedPoints
<1>d. ASSUME NEW point \in RequestPoints, GoTo(r, point)
      PROVE  /\ request'[r].at = point /\ request'[r].approval = request[r].approval
             /\ request'[r].link = request[r].link /\ request'[r].verdict = request[r].verdict
  <2>1. request'[r] = [request[r] EXCEPT !.at = point]
    BY <1>a, <1>d DEF GoTo
  <2> QED BY <1>a, <2>1 DEF RequestRecord
<1>e. ASSUME NEW from, NEW to \in {"propose_link", "edit_link"}, QueueHeld(r, from, to) PROVE Good
  <2>1. PICK m \in Messages :
          /\ outbox[m].status = "absent"
          /\ QueueOutboundMessage(m, "requires_approval", request[r].approval)
          /\ Become(r, [request[r] EXCEPT !.at = to, !.message = m])
    BY <1>e, Zenon DEF QueueHeld, NewMessage
  <2>2. outbox'[m].approval = request[r].approval
    BY <1>a, <2>1, RowQueued
  <2>3. request'[r] = [request[r] EXCEPT !.at = to, !.message = m]
    BY <1>a, <2>1 DEF Become
  <2>4. /\ request'[r].at = to /\ request'[r].message = m
        /\ request'[r].approval = request[r].approval
    BY <1>a, <2>3 DEF RequestRecord
  <2> QED BY <2>2, <2>4 DEF CallOK
<1>1. CASE \/ LinkProposal(r) \/ ProposeCrossAppWrite(r) \/ LinkEditedMessage(r)
           \/ QueueOwnerMessage(r) \/ WriteLinkedOutbox(r) \/ WritePatch(r)
  BY <1>1, <1>c DEF LinkProposal, ProposeCrossAppWrite, LinkEditedMessage, LinkHeld,
     QueueOwnerMessage, WriteLinkedOutbox, WritePatch
<1>2. CASE ProposeMessage(r)
  <2>1. PICK a \in Approvals : Become(r, [Idle("propose_queue") EXCEPT !.approval = a])
    BY <1>2, Zenon DEF ProposeMessage
  <2>2. request'[r].at = "propose_queue"
    BY <1>a, <2>1 DEF Become, Idle
  <2> QED BY <1>b, <2>2 DEF GatedPoints
<1>3. CASE QueueProposal(r) \/ QueueEditedMessage(r)
  BY <1>3, <1>e DEF QueueProposal, QueueEditedMessage
<1>4. CASE Decide(r)
  BY <1>4, DecisionReadOK DEF Decide
<1>5. CASE DecidePatched(r)
  BY <1>5, <1>a, DecisionReadOK DEF DecidePatched, RequestHolds, At
<1>6. CASE WriteDecision(r)
  <2>1. CASE request[r].link = None
    BY <1>6, <1>c, <2>1 DEF WriteDecision
  <2>2. CASE request[r].link # None
    <3>1. /\ request[r].at = "write_status" /\ request[r].approval \in Approvals
          /\ GoTo(r, "write_outbox") /\ outbox' = outbox
          /\ UpdateApprovalStatus(request[r].approval, request[r].verdict)
      BY <1>6, <1>a, <2>2 DEF WriteDecision, RequestHolds, At
    <3>2. outbox[request[r].link].approval = request[r].approval
      BY <1>a, <2>2, <3>1 DEF CallOK
    <3>3. request[r].verdict \in decisions'[request[r].approval]
      BY <1>a, <3>1 DEF UpdateApprovalStatus, ApprovalsTypeOK
    <3>4. "write_outbox" \in RequestPoints
      BY DEF RequestPoints
    <3> QED BY <1>d, <3>1, <3>2, <3>3, <3>4 DEF CallOK
  <2> QED BY <2>1, <2>2
<1>7. CASE WriteEditedPayload(r)
  <2>1. CASE request[r].link = None
    BY <1>7, <1>c, <2>1 DEF WriteEditedPayload
  <2>2. CASE request[r].link # None
    <3>1. request[r].at = "edit_payload" /\ GoTo(r, "edit_cancel") /\ outbox' = outbox
      BY <1>7, <2>2 DEF WriteEditedPayload, At
    <3>2. outbox[request[r].link].approval = request[r].approval
      BY <1>a, <2>2, <3>1 DEF CallOK
    <3>3. "edit_cancel" \in RequestPoints
      BY DEF RequestPoints
    <3> QED BY <1>d, <3>1, <3>2, <3>3 DEF CallOK
  <2> QED BY <2>1, <2>2
<1>8. CASE CancelEditedMessage(r)
  <2>1. request'[r].at = "edit_queue"
    BY <1>8, <1>d DEF CancelEditedMessage, RequestPoints
  <2> QED BY <1>b, <2>1 DEF GatedPoints
<1>9. CASE Edit(r)
  <2> DEFINE expire(a) == [Idle("write_status") EXCEPT
                             !.approval = a, !.verdict = "expired", !.link = LinkAsRead(a)]
             rewrite(a) == [Idle("edit_payload") EXCEPT !.approval = a, !.link = approvals[a].link]
  <2>1. PICK a \in Approvals :
          Become(r, Idle("done")) \/ Become(r, expire(a)) \/ Become(r, rewrite(a))
    BY <1>9, Zenon DEF Edit
  <2>2. outbox' = outbox
    BY <1>9 DEF Edit, storeVars
  <2>3. /\ LinkAsRead(a) # None => outbox[LinkAsRead(a)].approval = a
        /\ approvals[a].link # None => outbox[approvals[a].link].approval = a
    BY DEF LinkAsRead, GateInv, LinksOK, LinkOK
  <2>4. CASE Become(r, Idle("done"))
    BY <1>c, <2>4 DEF Return
  <2>5. CASE Become(r, expire(a))
    <3>1. request'[r] = [at |-> "write_status", approval |-> a, message |-> None,
                         verdict |-> "expired", link |-> LinkAsRead(a)]
      BY <1>a, <2>5 DEF Become, Idle
    <3> QED BY <2>2, <2>3, <3>1 DEF CallOK
  <2>6. CASE Become(r, rewrite(a))
    <3>1. request'[r] = [at |-> "edit_payload", approval |-> a, message |-> None,
                         verdict |-> None, link |-> approvals[a].link]
      BY <1>a, <2>6 DEF Become, Idle
    <3> QED BY <2>2, <2>3, <3>1 DEF CallOK
  <2> QED BY <2>1, <2>4, <2>5, <2>6
<1>10. CASE PatchOutbox(r)
  <2> DEFINE decide(a, v) == [Idle("read_approval") EXCEPT !.approval = a, !.verdict = v]
             write(m, v) == [Idle("write_patch") EXCEPT !.message = m, !.verdict = v]
  <2>1. PICK m \in Messages, status \in PatchStatuses :
          /\ outbox[m].status \notin {"absent"} \cup LockedOutboxStatuses
          /\ \/ \E v : Become(r, decide(outbox[m].approval, v))
             \/ /\ ~(outbox[m].approval # None /\ status \in {"approved", "cancelled"})
                /\ Become(r, write(m, status))
    BY <1>10, Zenon DEF PatchOutbox
  <2>2. CASE \E v : Become(r, decide(outbox[m].approval, v))
    <3>1. ASSUME NEW v, Become(r, decide(outbox[m].approval, v))
          PROVE  request'[r].at = "read_approval"
      <4>1. request'[r] = [at |-> "read_approval", approval |-> outbox[m].approval,
                           message |-> None, verdict |-> v, link |-> None]
        BY <1>a, <3>1 DEF Become, Idle
      <4> QED BY <4>1
    <3>2. request'[r].at = "read_approval"
      BY <2>2, <3>1, Zenon
    <3> QED BY <1>b, <3>2 DEF GatedPoints
  <2>3. CASE /\ ~(outbox[m].approval # None /\ status \in {"approved", "cancelled"})
             /\ Become(r, write(m, status))
    <3>1. request'[r] = [at |-> "write_patch", approval |-> None, message |-> m,
                         verdict |-> status, link |-> None]
      BY <1>a, <2>3 DEF Become, Idle
    <3>2. outbox[m].status # "absent"
      BY <2>1, Zenon
    <3>3. outbox[m].approval = None
      BY <2>3, PolicyAssumption
    <3>4. outbox' = outbox
      BY <1>10 DEF PatchOutbox, storeVars
    <3> QED BY <3>1, <3>2, <3>3, <3>4 DEF CallOK
  <2> QED BY <2>1, <2>2, <2>3, Zenon
<1> HIDE DEF Good
<1> QED
  BY <1>1, <1>2, <1>3, <1>4, <1>5, <1>6, <1>7, <1>8, <1>9, <1>10 DEF RequestProgress, RequestStep
\* Where a tick moves, what it sends is approved.
LEMMA SendMovesOK ==
  ASSUME TypeInv, GateInv, NEW w \in Workers, WorkerStep(w),
         \A n \in Messages : RowStep(n), DecisionsGrow
  PROVE  SendsOK'
<1>a. /\ worker \in [Workers -> WorkerRecord] /\ SendOK(outbox, decisions, worker[w])
      /\ OutboxTypeOK
      /\ \A u \in Workers \ {w} : worker'[u] = worker[u]
      /\ SendOK(outbox', decisions', worker[w])
  BY TickKinds, SendStaysOK DEF TypeInv, WorkersOK, GateInv, SendsOK
<1>b. \A u \in Workers \ {w} : SendOK(outbox', decisions', worker'[u])
  BY <1>a, SendStaysOK
<1> SUFFICES SendOK(outbox', decisions', worker'[w])
  BY <1>b DEF SendsOK
<1>1. CASE worker'[w].at \notin Handing \cup {"failing_sends"}
  BY <1>1 DEF SendOK, Handing
<1>2. CASE worker'[w].at = worker[w].at /\ worker'[w].job = worker[w].job
  BY <1>2, <1>a DEF SendOK, ApprovedIn
<1>3. CASE ListStuckSends(w)
  <2>1. worker'[w].at = "failing_sends"
    BY <1>3, <1>a DEF ListStuckSends, ListFor
  <2> QED BY <2>1 DEF SendOK
<1>4. CASE ClaimMessage(w)
  <2>1. CASE worker'[w].at = "delivering"
    BY <2>1 DEF SendOK
  <2>2. ASSUME NEW m \in Messages, ClaimOutboundMessageForSending(m),
               worker'[w].job.message = m
        PROVE  SendOK(outbox', decisions', worker'[w])
    <3>1. Deliverable(m) /\ outbox'[m].status = "sending"
      BY <1>a, <2>2, RowClaimed
    <3>2. Approved(m) /\ outbox[m].status # "absent"
      BY <3>1 DEF GateInv, RowsOK, RowOK, Deliverable, DeliverableStatuses
    <3>3. ApprovedIn(outbox', decisions', m)
      BY <3>2, RowsStay
    <3> QED BY <2>2, <3>1, <3>3 DEF SendOK
  <2> QED BY <1>4, <2>1, <2>2, ClaimKinds
<1>5. CASE SendMail(w)
  <2>1. worker'[w].job = worker[w].job
    BY <1>5, <1>a DEF SendMail, Proceed, WorkerRecord
  <2>2. worker[w].at = "sending"
    BY <1>5 DEF SendMail, WorkerAt
  <2> QED BY <1>a, <2>1, <2>2 DEF SendOK, ApprovedIn
<1> QED BY <1>1, <1>2, <1>3, <1>4, <1>5, TickKinds

\* The empty tables and idle processes satisfy the gate.
LEMMA GateInvInit == Init => GateInv
  BY DEF Init, StoreInit, PolicyInit, WorkerInit, SenderInit, GateInv, RowsOK, RowOK, LinksOK,
     LinkOK, CallsOK, CallOK, SendsOK, SendOK, Deliverable, DeliverableStatuses, NoOutboxRow,
     NoApprovalRow, Idle, AtRest

\* With no PATCH to pending, every step keeps the gate.
LEMMA GateInvStep ==
  ASSUME "pending" \notin PatchStatuses, TypeInv, RetryInv, GateInv, [Next]_vars
  PROVE  GateInv'
<1>a. /\ \A n \in Messages : RowStep(n)
      /\ request \in [Requests -> RequestRecord] /\ worker \in [Workers -> WorkerRecord]
      /\ ApprovalsTypeOK
  BY RowSteps DEF TypeInv, RequestsOK, WorkersOK
<1>b. ASSUME DecisionsGrow, \A a \in Approvals : LinkStep(a), \A n \in Messages : AcceptedStep(n)
      PROVE  RowsOK' /\ LinksOK'
  BY <1>a, <1>b, RowsStayOK, LinksStayOK
<1>c. ASSUME DecisionsGrow, request' = request PROVE CallsOK'
  BY <1>a, <1>c, CallStaysOK DEF CallsOK
<1>d. ASSUME DecisionsGrow, worker' = worker PROVE SendsOK'
  BY <1>a, <1>d, SendStaysOK DEF SendsOK
<1>e. /\ decisions' = decisions => DecisionsGrow
      /\ LinksSame => \A a \in Approvals : LinkStep(a)
      /\ approvals' = approvals => LinksSame
      /\ accepted' = accepted => \A n \in Messages : AcceptedStep(n)
  BY DEF DecisionsGrow, LinksSame, LinkStep, AcceptedStep
<1>1. ASSUME NEW r \in Requests, RequestProgress(r) PROVE GateInv'
  <2>1. /\ DecisionsGrow /\ \A a \in Approvals : LinkStep(a)
        /\ accepted' = accepted /\ worker' = worker
        /\ \A q \in Requests \ {r} : request'[q] = request[q]
    BY <1>1, RequestOtherSteps
  <2>2. \A q \in Requests \ {r} : CallOK(outbox', decisions', request'[q])
    BY <1>a, <2>1, CallStaysOK
  <2>3. CallOK(outbox', decisions', request'[r])
    BY <1>1, CallMovesOK
  <2>4. CallsOK'
    BY <2>2, <2>3 DEF CallsOK
  <2> QED BY <1>b, <1>d, <1>e, <2>1, <2>4 DEF GateInv
<1>2. ASSUME NEW w \in Workers, WorkerStep(w) PROVE GateInv'
  <2>1. /\ DecisionsGrow /\ LinksSame /\ request' = request
        /\ accepted' = accepted \/ SendMail(w)
    BY <1>2, WorkerOtherSteps
  <2>2. SendsOK'
    BY <1>2, <1>a, <2>1, SendMovesOK
  <2>3. ASSUME SendMail(w) PROVE \A n \in Messages : AcceptedStep(n)
    <3>1. WorkerAt(w, "sending")
      BY <2>3 DEF SendMail
    <3>2. \/ accepted' = accepted
          \/ accepted' = [accepted EXCEPT ![worker[w].job.message] = @ + 1]
      BY <2>3, Zenon DEF SendMail
    <3>3. accepted \in [Messages -> Nat]
      BY DEF TypeInv, SenderTypeOK
    <3> QED BY <3>1, <3>2, <3>3 DEF AcceptedStep, WorkerAt
  <2> QED BY <1>b, <1>c, <1>e, <2>1, <2>2, <2>3 DEF GateInv
<1>3. CASE Fail
  <2>1. /\ decisions' = decisions /\ approvals' = approvals /\ accepted' = accepted
        /\ outbox' = outbox
    BY <1>3 DEF Fail, AbandonRequest, AbandonTick, storeVars, externals
  <2>2. ASSUME NEW r \in Requests, AbandonRequest(r), UNCHANGED worker PROVE GateInv'
    <3>1. request'[r].at = "done" /\ \A q \in Requests \ {r} : request'[q] = request[q]
      BY <1>a, <2>2 DEF AbandonRequest, Return, Become, Idle
    <3>2. CallOK(outbox', decisions', request'[r])
      BY <3>1, UngatedPoint DEF GatedPoints
    <3>3. \A q \in Requests \ {r} : CallOK(outbox', decisions', request'[q])
      BY <1>a, <1>e, <2>1, <3>1, CallStaysOK
    <3>4. CallsOK'
      BY <3>2, <3>3 DEF CallsOK
    <3> QED BY <1>b, <1>d, <1>e, <2>1, <2>2, <3>4 DEF GateInv
  <2>3. ASSUME NEW w \in Workers, AbandonTick(w), UNCHANGED policyVars PROVE GateInv'
    <3>1. worker'[w].at = "idle" /\ \A u \in Workers \ {w} : worker'[u] = worker[u]
      BY <1>a, <2>3 DEF AbandonTick, AtRest
    <3>2. SendOK(outbox', decisions', worker'[w])
      BY <3>1 DEF SendOK
    <3>3. \A u \in Workers \ {w} : SendOK(outbox', decisions', worker'[u])
      BY <1>a, <1>e, <2>1, <3>1, SendStaysOK
    <3>4. SendsOK'
      BY <3>2, <3>3 DEF SendsOK
    <3> QED BY <1>b, <1>c, <1>e, <2>1, <2>3, <3>4 DEF GateInv, policyVars
  <2> QED BY <1>3, <2>2, <2>3 DEF Fail
<1>4. CASE TimePasses
  <2>1. UNCHANGED <<request, worker, accepted, decisions>>
    BY <1>4 DEF TimePasses, ApprovalAges, MessageAges, policyVars, externals, LapseApproval,
       AgeExecution, AgeSend, ComeDue
  <2>2. LinksSame
    <3>1. ASSUME NEW a \in Approvals, ApprovalAges(a) PROVE LinksSame
      BY <1>a, <3>1, WritesKeepLinks DEF ApprovalAges
    <3>2. ASSUME NEW m \in Messages, MessageAges(m) PROVE LinksSame
      BY <3>2, <1>e DEF MessageAges, AgeSend, ComeDue
    <3> QED BY <1>4, <3>1, <3>2 DEF TimePasses
  <2> QED BY <1>b, <1>c, <1>d, <1>e, <2>1, <2>2 DEF GateInv
<1>5. CASE UNCHANGED vars
  BY <1>5, <1>b, <1>c, <1>d, <1>e DEF vars, storeVars, policyVars, externals, GateInv
<1> QED BY <1>1, <1>2, <1>3, <1>4, <1>5 DEF Next

\* A gated row that is deliverable, or was delivered, is approved.
LEMMA GateInvSuffices == GateInv => ApprovalGate
  BY DEF GateInv, RowsOK, RowOK, Approved, ApprovedIn, ApprovalGate

\* When no client PATCHes a row to pending, nothing queued under an approval is
\* delivered, or may be, before the owner approved (ApprovalGate): whatever the
\* order of proposals, edits, decisions, expiry, delivery, recovery and crashes.
THEOREM GatedUntilApproved ==
  ASSUME "pending" \notin PatchStatuses
  PROVE  Spec => []ApprovalGate
<1>1. Init => TypeInv /\ RetryInv /\ GateInv
  BY InitTypeInv, RetryInvInit, GateInvInit
<1>2. TypeInv /\ RetryInv /\ GateInv /\ [Next]_vars => TypeInv' /\ RetryInv' /\ GateInv'
  BY NextTypeInv, RetryInvStep, GateInvStep
<1>3. GateInv => ApprovalGate
  BY GateInvSuffices
<1> QED BY <1>1, <1>2, <1>3, PTL DEF Spec
-----------------------------------------------------------------------------
(* The right to deliver                                                     *)
-----------------------------------------------------------------------------
\* A step that starts no sending and delivers nothing makes no right out of nothing.
LEMMA QuietStep ==
  ASSUME TypeInv, NEW m \in Messages \ DailyCheckIns, TokenOK(m), RowStep(m),
         accepted'[m] = accepted[m], Senders(m)' \subseteq Senders(m)
  PROVE  TokenOK(m)'
<1>a. /\ accepted[m] \in Nat /\ armings[m] \in Nat /\ IsFiniteSet(Senders(m))
      /\ armings'[m] \in {armings[m], armings[m] + 1}
  BY DEF TypeInv, SenderTypeOK, ArmingsOK, TokenOK, RowStep
<1>1. /\ IsFiniteSet(Senders(m)') /\ Cardinality(Senders(m)') <= Cardinality(Senders(m))
      /\ Cardinality(Senders(m)) \in Nat /\ Cardinality(Senders(m)') \in Nat
  BY <1>a, FS_Subset, FS_CardinalityType
<1>2. Claimable(m)' <= Claimable(m) + (armings'[m] - armings[m])
      /\ Claimable(m) \in Nat /\ Claimable(m)' \in Nat
  BY <1>a DEF RowStep, Arms, Claimable
<1>3. accepted'[m] + Cardinality(Senders(m)') + Claimable(m)' <= armings'[m]
  <2> DEFINE s == Cardinality(Senders(m))
             t == Cardinality(Senders(m)')
             c == Claimable(m)
             d == Claimable(m)'
  <2>1. s \in Nat /\ t \in Nat /\ t <= s /\ c \in Nat /\ d \in Nat
        /\ d <= c + (armings'[m] - armings[m]) /\ accepted[m] + s + c <= armings[m]
    BY <1>1, <1>2 DEF TokenOK
  <2> SUFFICES accepted'[m] + t + d <= armings'[m]
    OBVIOUS
  <2> HIDE DEF s, t, c, d
  <2> QED BY <1>a, <2>1
<1> QED BY <1>1, <1>3 DEF TokenOK

\* A tick that is not sending m after the step, or was before it, joins no senders.
LEMMA SendersShrink ==
  ASSUME TypeInv, NEW w \in Workers, NEW m, \A u \in Workers \ {w} : worker'[u] = worker[u],
         worker'[w].at = "sending" /\ worker'[w].job.message = m =>
           worker[w].at = "sending" /\ worker[w].job.message = m
  PROVE  Senders(m)' \subseteq Senders(m)
  BY DEF Senders

\* The claim turns the claimable row into one more sender.
LEMMA ClaimTokens ==
  ASSUME TypeInv, NEW m \in Messages \ DailyCheckIns, TokenOK(m), NEW w \in Workers,
         worker[w].at = "delivering", Senders(m)' = Senders(m) \cup {w},
         Deliverable(m), ~Deliverable(m)', accepted' = accepted, armings' = armings
  PROVE  TokenOK(m)'
<1>a. accepted[m] \in Nat /\ armings[m] \in Nat /\ IsFiniteSet(Senders(m)) /\ w \notin Senders(m)
  BY DEF TypeInv, SenderTypeOK, ArmingsOK, TokenOK, Senders
<1>1. /\ IsFiniteSet(Senders(m)') /\ Cardinality(Senders(m)') = Cardinality(Senders(m)) + 1
      /\ Cardinality(Senders(m)) \in Nat
  BY <1>a, FS_AddElement, FS_CardinalityType
<1>2. Claimable(m) = 1 /\ Claimable(m)' = 0
  BY DEF Claimable
<1> QED BY <1>a, <1>1, <1>2 DEF TokenOK

\* The delivery uses the right of the tick that makes it.
LEMMA SendTokens ==
  ASSUME TypeInv, NEW m \in Messages \ DailyCheckIns, TokenOK(m), NEW w \in Senders(m),
         Senders(m)' = Senders(m) \ {w}, accepted'[m] \in {accepted[m], accepted[m] + 1},
         outbox' = outbox, armings' = armings
  PROVE  TokenOK(m)'
<1>a. accepted[m] \in Nat /\ armings[m] \in Nat /\ IsFiniteSet(Senders(m))
  BY DEF TypeInv, SenderTypeOK, ArmingsOK, TokenOK
<1>1. /\ IsFiniteSet(Senders(m)') /\ Cardinality(Senders(m)') = Cardinality(Senders(m)) - 1
      /\ Cardinality(Senders(m)) \in Nat
  BY <1>a, FS_RemoveElement, FS_CardinalityType
<1>2. Claimable(m)' = Claimable(m) /\ Claimable(m) \in Nat
  BY DEF Claimable, Deliverable
<1> QED BY <1>a, <1>1, <1>2 DEF TokenOK

\* At first nothing is claimable, in a tick's hands or delivered.
LEMMA TokenInvInit == Init => TokenInv
<1> SUFFICES ASSUME Init, NEW m \in Messages \ DailyCheckIns PROVE TokenOK(m)
  BY DEF TokenInv, TokenOK
<1>1. Senders(m) = {}
  BY DEF Init, WorkerInit, AtRest, Senders
<1>2. Claimable(m) = 0 /\ accepted[m] = 0 /\ armings[m] = 0
  BY DEF Init, StoreInit, PolicyInit, SenderInit, Claimable, Deliverable, NoOutboxRow,
     DeliverableStatuses
<1> QED BY <1>1, <1>2, FS_EmptySet DEF TokenOK

\* What a step may do to the ticks that are sending a message: some of them stop,
\* a claim adds one, or one of them hands it over.
Stops(m) == accepted'[m] = accepted[m] /\ Senders(m)' \subseteq Senders(m)
Claims(m) ==
  /\ accepted' = accepted /\ armings' = armings
  /\ \E w \in Workers : worker[w].at = "delivering" /\ Senders(m)' = Senders(m) \cup {w}
  /\ Deliverable(m) /\ ~Deliverable(m)' /\ outbox'[m].attempts = outbox[m].attempts + 1
HandsOver(m) ==
  /\ \E w \in Senders(m) : Senders(m)' = Senders(m) \ {w}
  /\ accepted'[m] \in {accepted[m], accepted[m] + 1}
  /\ outbox' = outbox /\ armings' = armings

LEMMA SenderSteps ==
  ASSUME TypeInv, [Next]_vars, NEW m \in Messages
  PROVE  Stops(m) \/ Claims(m) \/ HandsOver(m)
<1>a. worker \in [Workers -> WorkerRecord] /\ OutboxTypeOK /\ accepted \in [Messages -> Nat]
  BY DEF TypeInv, WorkersOK, SenderTypeOK
<1>b. ASSUME worker' = worker, accepted' = accepted PROVE Stops(m)
  BY <1>b DEF Stops, Senders
<1>1. CASE \E r \in Requests : RequestProgress(r)
  BY <1>1, <1>b DEF RequestProgress, externals
<1>2. ASSUME NEW w \in Workers, WorkerStep(w) PROVE Stops(m) \/ Claims(m) \/ HandsOver(m)
  <2>a. /\ \A u \in Workers \ {w} : worker'[u] = worker[u]
        /\ accepted' = accepted \/ SendMail(w)
        /\ armings' = armings
    BY <1>2, TickKinds, WorkerOtherSteps DEF WorkerStep, policyVars
  <2>1. CASE SendMail(w)
    <3>1. /\ worker[w].at = "sending" /\ worker'[w].at \in {"accepted", "refused"}
          /\ outbox' = outbox
      BY <1>a, <2>1 DEF SendMail, Proceed, WorkerAt, WorkerRecord, storeVars
    <3>2. \/ accepted' = accepted
          \/ accepted' = [accepted EXCEPT ![worker[w].job.message] = @ + 1]
      BY <2>1, Zenon DEF SendMail
    <3>3. CASE worker[w].job.message = m
      <4>1. w \in Senders(m) /\ Senders(m)' = Senders(m) \ {w}
        BY <2>a, <3>1, <3>3 DEF Senders
      <4>2. accepted'[m] \in {accepted[m], accepted[m] + 1}
        BY <1>a, <3>2, <3>3
      <4> QED BY <2>a, <3>1, <4>1, <4>2 DEF HandsOver
    <3>4. CASE worker[w].job.message # m
      <4>1. Senders(m)' \subseteq Senders(m)
        BY <2>a, <3>1, SendersShrink
      <4>2. accepted'[m] = accepted[m]
        BY <1>a, <3>2, <3>4
      <4> QED BY <4>1, <4>2 DEF Stops
    <3> QED BY <3>3, <3>4
  <2>2. CASE ClaimMessage(w) /\ accepted' = accepted
    <3>1. worker[w].at = "delivering"
      BY <2>2 DEF ClaimMessage, WorkerAt
    <3>2. ASSUME ~(worker'[w].at = "sending" /\ worker'[w].job.message = m) PROVE Stops(m)
      <4>1. Senders(m)' \subseteq Senders(m)
        BY <2>a, <3>2, SendersShrink
      <4> QED BY <2>2, <4>1 DEF Stops
    <3>3. ASSUME ClaimOutboundMessageForSending(m),
                 worker'[w].at = "sending", worker'[w].job.message = m
          PROVE  Claims(m)
      <4>1. Senders(m)' = Senders(m) \cup {w}
        BY <2>a, <3>3 DEF Senders
      <4>2. /\ Deliverable(m) /\ outbox'[m].status = "sending"
            /\ outbox'[m].attempts = outbox[m].attempts + 1
        BY <1>a, <3>3, RowClaimed
      <4>3. ~Deliverable(m)'
        BY <4>2 DEF Deliverable, DeliverableStatuses
      <4> QED BY <2>a, <2>2, <3>1, <4>1, <4>2, <4>3 DEF Claims
    <3> QED BY <1>2, <2>2, <3>2, <3>3, ClaimKinds
  <2>3. CASE ~SendMail(w) /\ ~ClaimMessage(w)
    <3>1. worker'[w].at = "sending" =>
            worker[w].at = "sending" /\ worker'[w].job = worker[w].job
      <4>1. ASSUME ListStuckSends(w) PROVE worker'[w].at = "failing_sends"
        BY <1>a, <4>1 DEF ListStuckSends, ListFor
      <4> QED BY <1>2, <2>3, <4>1, TickKinds DEF Handing
    <3>2. Senders(m)' \subseteq Senders(m)
      BY <2>a, <3>1, SendersShrink
    <3> QED BY <2>a, <2>3, <3>2 DEF Stops
  <2> QED BY <2>a, <2>1, <2>2, <2>3
<1>3. CASE Fail
  <2>1. accepted' = accepted
    BY <1>3 DEF Fail, externals
  <2>2. ASSUME NEW w \in Workers, AbandonTick(w) PROVE Stops(m)
    <3>1. worker'[w].at = "idle" /\ \A u \in Workers \ {w} : worker'[u] = worker[u]
      BY <1>a, <2>2 DEF AbandonTick, AtRest
    <3>2. Senders(m)' \subseteq Senders(m)
      BY <3>1, SendersShrink
    <3> QED BY <2>1, <3>2 DEF Stops
  <2> QED BY <1>3, <1>b, <2>1, <2>2 DEF Fail
<1>4. CASE TimePasses
  BY <1>4, <1>b DEF TimePasses, ApprovalAges, MessageAges, externals
<1>5. CASE UNCHANGED vars
  BY <1>5, <1>b DEF vars, externals
<1> QED BY <1>1, <1>2, <1>3, <1>4, <1>5 DEF Next

\* No step of a call, a tick or the clock, and no failure, makes a second right.
LEMMA TokenInvStep ==
  ASSUME TypeInv, RetryInv, TokenInv, [Next]_vars
  PROVE  TokenInv'
<1> SUFFICES ASSUME NEW m \in Messages \ DailyCheckIns PROVE TokenOK(m)'
  BY DEF TokenInv, TokenOK
<1>a. TokenOK(m) /\ RowStep(m)
  BY RowSteps DEF TokenInv, TokenOK
<1>1. CASE Stops(m)
  BY <1>a, <1>1, QuietStep DEF Stops
<1>2. CASE Claims(m)
  BY <1>a, <1>2, ClaimTokens DEF Claims
<1>3. CASE HandsOver(m)
  BY <1>a, <1>3, SendTokens DEF HandsOver
<1> QED BY <1>1, <1>2, <1>3, SenderSteps

\* Deliveries are among the rights handed out.
LEMMA TokenInvSuffices == TypeInv /\ TokenInv => DeliveredOncePerArming
<1> SUFFICES ASSUME TypeInv, TokenInv, NEW m \in Messages \ DailyCheckIns
             PROVE  accepted[m] <= armings[m]
  BY DEF DeliveredOncePerArming
<1>1. /\ accepted[m] \in Nat /\ armings[m] \in Nat /\ Cardinality(Senders(m)) \in Nat
      /\ Claimable(m) \in Nat
      /\ accepted[m] + Cardinality(Senders(m)) + Claimable(m) <= armings[m]
  BY FS_CardinalityType DEF TypeInv, SenderTypeOK, ArmingsOK, TokenInv, TokenOK, Claimable
<1> QED BY <1>1

\* However many workers tick, crash and recover, the provider accepts a message
\* no more often than requests made it deliverable, daily check-ins excepted
\* (DeliveredOncePerArming): the conditional claim hands out each right once.
THEOREM DeliveredOnce == Spec => []DeliveredOncePerArming
<1>1. Init => TypeInv /\ RetryInv /\ TokenInv
  BY InitTypeInv, RetryInvInit, TokenInvInit
<1>2. TypeInv /\ RetryInv /\ TokenInv /\ [Next]_vars => TypeInv' /\ RetryInv' /\ TokenInv'
  BY NextTypeInv, RetryInvStep, TokenInvStep
<1>3. TypeInv /\ TokenInv => DeliveredOncePerArming
  BY TokenInvSuffices
<1> QED BY <1>1, <1>2, <1>3, PTL DEF Spec

-----------------------------------------------------------------------------
(* Attempts at a daily check-in                                             *)
-----------------------------------------------------------------------------
\* What a tick will put back to pending has an attempt left.
AttemptLeft(o, j) == j.retry => o[j.message].attempts < MaxDeliveryAttempts
AttemptsKept(o, v) ==
  /\ v.at \in Handing => AttemptLeft(o, v.job)
  /\ v.at = "failing_sends" => \A j \in v.todo : AttemptLeft(o, j)
AttemptsKeptInv == \A w \in Workers : AttemptsKept(outbox, worker[w])

\* A row is claimed within the budget of its attempts, and every attempt pays
\* for one delivery.
AttemptsOK(m) ==
  /\ outbox[m].status = "absent" => outbox[m].attempts = 0
  /\ IsFiniteSet(Senders(m)) /\ accepted[m] + Cardinality(Senders(m)) <= outbox[m].attempts
  /\ outbox[m].attempts + Claimable(m) <= MaxDeliveryAttempts + armings[m]
AttemptsInv == \A m \in Messages : AttemptsOK(m)

\* Deployment runs one worker.
SingleWorker == \A v, w \in Workers : v = w

\* A tick that found an attempt left still finds it when it puts the row back:
\* nobody else claims.
LEMMA AttemptsKeptStep ==
  ASSUME SingleWorker, TypeInv, RetryInv, AttemptsKeptInv, AttemptsInv, [Next]_vars
  PROVE  AttemptsKeptInv'
<1>a. /\ worker \in [Workers -> WorkerRecord] /\ OutboxTypeOK
      /\ outbox \in [Messages -> OutboxRow] /\ MaxDeliveryAttempts \in Nat \ {0}
      /\ \A w \in Workers : WorkerHolds(worker[w])
  BY StoreAssumption DEF TypeInv, WorkersOK, OutboxTypeOK
<1>b. \A m \in Messages : AttemptStep(m)
  BY RowSteps DEF RowStep
\* While no row is claimed, what there is left stays.
<1>c. ASSUME NEW w \in Workers, ~(worker[w].at = "delivering" /\ worker'[w].at = "sending"),
             NEW j \in Job, j.message \in Messages, AttemptLeft(outbox, j)
      PROVE  AttemptLeft(outbox', j)
  <2>1. ~\E v \in Workers : worker[v].at = "delivering" /\ worker'[v].at = "sending"
    BY <1>c DEF SingleWorker
  <2> QED BY <1>a, <1>b, <1>c, <2>1 DEF AttemptLeft, AttemptStep
<1>d. ASSUME NEW w \in Workers, worker'[w].at = worker[w].at, worker'[w].job = worker[w].job,
             worker'[w].todo \subseteq worker[w].todo
      PROVE  AttemptsKept(outbox', worker'[w])
  <2>1. AttemptsKept(outbox, worker[w]) /\ WorkerHolds(worker[w]) /\ worker[w] \in WorkerRecord
    BY <1>a DEF AttemptsKeptInv
  <2>2. CASE worker[w].at \in Handing
    <3>1. worker[w].job \in Job /\ worker[w].job.message \in Messages
      BY <2>1, <2>2 DEF WorkerRecord, WorkerHolds, Handing
    <3>2. AttemptLeft(outbox, worker[w].job)
      BY <2>1, <2>2 DEF AttemptsKept
    <3>3. AttemptLeft(outbox', worker[w].job)
      BY <1>c, <1>d, <2>2, <3>1, <3>2 DEF Handing
    <3> QED BY <1>d, <2>2, <3>3 DEF AttemptsKept, Handing
  <2>3. CASE worker[w].at = "failing_sends"
    <3>1. \A j \in worker[w].todo : /\ j \in Job /\ j.message \in Messages
                                    /\ AttemptLeft(outbox, j)
      BY <2>1, <2>3 DEF WorkerRecord, WorkerHolds, MessagePoints, AttemptsKept
    <3>2. \A j \in worker[w].todo : AttemptLeft(outbox', j)
      BY <1>c, <1>d, <2>3, <3>1
    <3> QED BY <1>d, <2>3, <3>2 DEF AttemptsKept, Handing
  <2>4. CASE worker[w].at \notin Handing \cup {"failing_sends"}
    BY <1>d, <2>4 DEF AttemptsKept
  <2> QED BY <2>2, <2>3, <2>4
<1>1. ASSUME NEW w \in Workers, WorkerStep(w) PROVE AttemptsKeptInv'
  <2>1. AttemptsKept(outbox', worker'[w])
    <3>1. CASE worker'[w].at \notin Handing \cup {"failing_sends"}
      BY <3>1 DEF AttemptsKept
    <3>2. CASE /\ worker'[w].at = worker[w].at /\ worker'[w].job = worker[w].job
               /\ worker'[w].todo \subseteq worker[w].todo
      BY <3>2, <1>d
    <3>3. CASE ListStuckSends(w)
      <4> DEFINE stuck == {n \in Messages : outbox[n].status = "sending" /\ outbox[n].stale}
                 job(m) == [MessageJob(m) EXCEPT !.retry = AttemptsLeft(m)]
                 jobs == {job(m) : m \in stuck}
      <4>1. worker'[w] = [at |-> "failing_sends", todo |-> jobs, job |-> NoJob] /\ outbox' = outbox
        BY <1>a, <3>3 DEF ListStuckSends, ListFor, storeVars
      <4>2. \A m \in Messages : AttemptLeft(outbox, job(m))
        <5> TAKE m \in Messages
        <5>1. AttemptsLeft(m) \in BOOLEAN
          BY DEF AttemptsLeft
        <5>2. job(m).message = m /\ job(m).retry = AttemptsLeft(m)
          BY <5>1, JobTypes DEF Job
        <5>3. AttemptsLeft(m) => outbox[m].attempts < MaxDeliveryAttempts
          BY DEF AttemptsLeft
        <5> HIDE DEF job
        <5> QED BY <5>2, <5>3 DEF AttemptLeft
      <4> HIDE DEF job
      <4>3. \A j \in jobs : AttemptLeft(outbox, j)
        BY <4>2
      <4> HIDE DEF jobs
      <4> QED BY <4>1, <4>3 DEF AttemptsKept, Handing
    <3>4. CASE ClaimMessage(w)
      <4>1. CASE worker'[w].at = "delivering"
        BY <4>1 DEF AttemptsKept, Handing
      <4>2. ASSUME NEW j \in Job, j.message \in Messages, ClaimOutboundMessageForSending(j.message),
                   worker'[w].at = "sending", worker'[w].job.message = j.message,
                   worker'[w].job.retry => outbox[j.message].attempts + 1 < MaxDeliveryAttempts
            PROVE  AttemptsKept(outbox', worker'[w])
        <5>1. outbox'[j.message].attempts = outbox[j.message].attempts + 1
          BY <1>a, <4>2, RowClaimed
        <5> QED BY <4>2, <5>1 DEF AttemptsKept, AttemptLeft
      <4> QED BY <1>1, <3>4, <4>1, <4>2, ClaimKinds
    <3>5. CASE SendMail(w)
      <4>1. /\ worker'[w].at \in {"accepted", "refused"} /\ worker'[w].job = worker[w].job
            /\ outbox' = outbox /\ worker[w].at = "sending"
        BY <1>a, <3>5 DEF SendMail, Proceed, WorkerRecord, WorkerAt, storeVars
      <4> QED BY <4>1 DEF AttemptsKeptInv, AttemptsKept, Handing
    <3> QED BY <1>1, <3>1, <3>2, <3>3, <3>4, <3>5, TickKinds
  <2> QED BY <2>1 DEF AttemptsKeptInv, SingleWorker
<1>2. ASSUME NEW w \in Workers, AbandonTick(w) PROVE AttemptsKeptInv'
  <2>1. worker'[w].at = "idle"
    BY <1>a, <1>2 DEF AbandonTick, AtRest
  <2>2. AttemptsKept(outbox', worker'[w])
    BY <2>1 DEF AttemptsKept, Handing
  <2> QED BY <2>2 DEF AttemptsKeptInv, SingleWorker
<1>3. CASE worker' = worker
  <2>1. \A w \in Workers : AttemptsKept(outbox', worker'[w])
    BY <1>3, <1>d
  <2> QED BY <2>1 DEF AttemptsKeptInv
<1>4. CASE Fail
  BY <1>2, <1>3, <1>4 DEF Fail
<1>5. CASE TimePasses \/ \E r \in Requests : RequestProgress(r)
  BY <1>3, <1>5 DEF TimePasses, ApprovalAges, MessageAges, RequestProgress
<1>6. CASE UNCHANGED vars
  BY <1>3, <1>6 DEF vars
<1> QED BY <1>1, <1>4, <1>5, <1>6 DEF Next

\* Every claim counts an attempt, and what makes a row deliverable without a
\* request leaves one.
LEMMA AttemptsStep ==
  ASSUME TypeInv, RetryInv, AttemptsKeptInv, AttemptsInv, [Next]_vars
  PROVE  AttemptsInv'
<1> SUFFICES ASSUME NEW m \in Messages PROVE AttemptsOK(m)'
  BY DEF AttemptsInv, AttemptsOK
<1>a. /\ AttemptsOK(m) /\ RowStep(m) /\ (Stops(m) \/ Claims(m) \/ HandsOver(m))
      /\ \A w \in Workers : AttemptsKept(outbox, worker[w])
  BY RowSteps, SenderSteps DEF AttemptsInv, AttemptsOK, AttemptsKeptInv
<1>t. /\ accepted[m] \in Nat /\ armings[m] \in Nat /\ outbox[m].attempts \in Nat
      /\ MaxDeliveryAttempts \in Nat \ {0} /\ armings'[m] \in {armings[m], armings[m] + 1}
      /\ IsFiniteSet(Senders(m))
  BY <1>a, StoreAssumption
     DEF TypeInv, SenderTypeOK, ArmingsOK, OutboxTypeOK, OutboxRow, RowStep, AttemptsOK
<1>1. outbox'[m].status = "absent" => outbox'[m].attempts = 0
  <2>1. Deliverable(m) => outbox[m].status # "absent"
    BY DEF Deliverable, DeliverableStatuses
  <2> QED BY <1>a, <2>1 DEF RowStep, AttemptStep, AttemptsOK
<1> DEFINE s == Cardinality(Senders(m))
           t == Cardinality(Senders(m)')
           c == Claimable(m)
           d == Claimable(m)'
           tries == outbox[m].attempts
           after == outbox'[m].attempts
<1>n. /\ s \in Nat /\ c \in {0, 1} /\ d \in {0, 1} /\ tries \in Nat
      /\ accepted[m] + s <= tries /\ tries + c <= MaxDeliveryAttempts + armings[m]
  BY <1>a, <1>t, FS_CardinalityType DEF AttemptsOK, Claimable
<1>2. IsFiniteSet(Senders(m)') /\ accepted'[m] + t <= after
  <2>1. CASE Stops(m)
    <3>1. IsFiniteSet(Senders(m)') /\ t \in Nat /\ t <= s /\ accepted'[m] = accepted[m]
      BY <1>t, <2>1, FS_Subset, FS_CardinalityType DEF Stops
    <3>2. after \in {tries, tries + 1}
      <4>1. outbox[m].status = "absent" => tries = 0
        BY <1>a DEF AttemptsOK
      <4> QED BY <1>a, <4>1 DEF RowStep, AttemptStep
    <3> HIDE DEF s, t, tries, after
    <3> QED BY <1>n, <1>t, <3>1, <3>2
  <2>2. CASE Claims(m)
    <3>1. PICK w \in Workers : worker[w].at = "delivering" /\ Senders(m)' = Senders(m) \cup {w}
      BY <2>2 DEF Claims
    <3>2. w \notin Senders(m) /\ accepted'[m] = accepted[m] /\ after = tries + 1
      BY <2>2, <3>1 DEF Claims, Senders
    <3>3. IsFiniteSet(Senders(m)') /\ t = s + 1
      BY <1>t, <3>1, <3>2, FS_AddElement
    <3> HIDE DEF s, t, tries, after
    <3> QED BY <1>n, <1>t, <3>2, <3>3
  <2>3. CASE HandsOver(m)
    <3>1. PICK w \in Senders(m) : Senders(m)' = Senders(m) \ {w}
      BY <2>3 DEF HandsOver
    <3>2. IsFiniteSet(Senders(m)') /\ t = s - 1
      BY <1>t, <3>1, FS_RemoveElement
    <3>3. after = tries /\ accepted'[m] \in {accepted[m], accepted[m] + 1}
      BY <2>3 DEF HandsOver
    <3> HIDE DEF s, t, tries, after
    <3> QED BY <1>n, <1>t, <3>2, <3>3
  <2> QED BY <1>a, <2>1, <2>2, <2>3
<1>3. after + d <= MaxDeliveryAttempts + armings'[m]
  <2>1. CASE after = tries
    <3>1. CASE Deliverable(m)' => Deliverable(m)
      <4>1. d <= c
        BY <3>1 DEF Claimable
      <4> HIDE DEF c, d, tries, after
      <4> QED BY <1>n, <1>t, <2>1, <4>1
    <3>2. CASE armings'[m] = armings[m] + 1
      <4> HIDE DEF c, d, tries, after
      <4> QED BY <1>n, <1>t, <2>1, <3>2
    <3>3. CASE Retried(m)
      <4>1. tries < MaxDeliveryAttempts
        <5>1. outbox[m].status = "absent" => tries < MaxDeliveryAttempts
          BY <1>a, <1>t DEF AttemptsOK
        <5>2. ASSUME NEW w \in Workers,
                     \/ worker[w].at = "refused" /\ worker[w].job.retry /\ worker[w].job.message = m
                     \/ /\ worker[w].at = "failing_sends"
                        /\ \E j \in worker[w].todo : j.retry /\ j.message = m
              PROVE  tries < MaxDeliveryAttempts
          BY <1>a, <5>2 DEF AttemptsKept, AttemptLeft, Handing
        <5> QED BY <3>3, <5>1, <5>2 DEF Retried
      <4> HIDE DEF c, d, tries, after
      <4> QED BY <1>n, <1>t, <2>1, <4>1
    <3> QED BY <1>a, <3>1, <3>2, <3>3 DEF RowStep, Arms
  <2>2. CASE outbox[m].status = "absent" /\ after = 0
    <3> HIDE DEF c, d, tries, after
    <3> QED BY <1>n, <1>t, <2>2
  <2>3. CASE after = tries + 1 /\ Deliverable(m) /\ ~Deliverable(m)'
    <3>1. c = 1 /\ d = 0
      BY <2>3 DEF Claimable
    <3> HIDE DEF c, d, tries, after
    <3> QED BY <1>n, <1>t, <2>3, <3>1
  <2> QED BY <1>a, <2>1, <2>2, <2>3 DEF RowStep, AttemptStep
<1> QED BY <1>1, <1>2, <1>3 DEF AttemptsOK

LEMMA InitAttemptsInv == Init => AttemptsKeptInv /\ AttemptsInv
<1> SUFFICES ASSUME Init PROVE AttemptsKeptInv /\ AttemptsInv
  OBVIOUS
<1>1. AttemptsKeptInv
  BY DEF Init, WorkerInit, AtRest, AttemptsKeptInv, AttemptsKept, Handing
<1>2. ASSUME NEW m \in Messages PROVE AttemptsOK(m)
  <2>1. Senders(m) = {}
    BY DEF Init, WorkerInit, AtRest, Senders
  <2>2. Claimable(m) = 0 /\ accepted[m] = 0 /\ armings[m] = 0 /\ outbox[m].attempts = 0
    BY DEF Init, StoreInit, PolicyInit, SenderInit, Claimable, Deliverable, NoOutboxRow,
       DeliverableStatuses
  <2> QED BY <2>1, <2>2, FS_EmptySet, StoreAssumption DEF AttemptsOK
<1> QED BY <1>1, <1>2 DEF AttemptsInv

\* DailyAttemptsBounded: with one worker the retries of recovery and of refusals
\* stay within DAILY_CHECK_IN_MAX_DELIVERY_ATTEMPTS, and every delivery is one
\* attempt that claimOutboundMessageForSending counted.
THEOREM AttemptsBounded ==
  ASSUME SingleWorker
  PROVE  Spec => []DailyAttemptsBounded
<1> DEFINE Inv == TypeInv /\ RetryInv /\ AttemptsKeptInv /\ AttemptsInv
<1>1. Init => Inv
  BY InitTypeInv, RetryInvInit, InitAttemptsInv
<1>2. Inv /\ [Next]_vars => Inv'
  BY NextTypeInv, RetryInvStep, AttemptsKeptStep, AttemptsStep
<1>3. Inv => DailyAttemptsBounded
  <2> SUFFICES ASSUME Inv, NEW m \in DailyCheckIns
               PROVE  /\ accepted[m] <= outbox[m].attempts
                      /\ outbox[m].attempts <= MaxDeliveryAttempts + armings[m]
    BY DEF DailyAttemptsBounded
  <2> DEFINE s == Cardinality(Senders(m))
             c == Claimable(m)
             tries == outbox[m].attempts
  <2>1. m \in Messages
    BY StoreAssumption
  <2>2. /\ IsFiniteSet(Senders(m)) /\ accepted[m] + s <= tries
        /\ tries + c <= MaxDeliveryAttempts + armings[m]
    BY <2>1 DEF AttemptsInv, AttemptsOK
  <2>3. /\ s \in Nat /\ c \in {0, 1} /\ tries \in Nat /\ accepted[m] \in Nat /\ armings[m] \in Nat
        /\ MaxDeliveryAttempts \in Nat
    BY <2>1, <2>2, FS_CardinalityType, StoreAssumption
       DEF Claimable, TypeInv, OutboxTypeOK, OutboxRow, SenderTypeOK, ArmingsOK
  <2> HIDE DEF s, c
  <2> QED BY <2>2, <2>3
<1> HIDE DEF Inv
<1> QED BY <1>1, <1>2, <1>3, PTL DEF Spec
=============================================================================
