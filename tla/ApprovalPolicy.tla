--------------------------- MODULE ApprovalPolicy ---------------------------
(***************************************************************************)
(* The handlers that propose, decide and edit approvals, change the outbox *)
(* by hand and queue owner messages (api/src/security/approvalPolicy.ts,   *)
(* the approval and outbox routes of api/src/http/app.ts).  They run for   *)
(* the owner's browser, for the owner's YES/NO/EDIT replies and for the    *)
(* agent's tool calls, in two processes, with nothing between them but the *)
(* database.                                                               *)
(*                                                                         *)
(* A request is one call of such a handler.  It takes one step for each    *)
(* await on the store, keeps in `request` the rows it has read, and can be *)
(* interleaved with every other request and with the worker between any    *)
(* two of its awaits.                                                      *)
(***************************************************************************)
EXTENDS AgentStore

CONSTANTS
  Requests,        \* the handler calls of a behaviour
  Operations,      \* the handlers they call
  PatchStatuses    \* the status values sent to PATCH /api/v1/outbox/:id

ASSUME PolicyAssumption ==
  /\ Operations \subseteq {"propose", "cross_app", "decide", "edit", "patch", "notify"}
  /\ PatchStatuses \subseteq {"pending", "approved", "cancelled"}

VARIABLES
  request,   \* the progress and the snapshot of each call
  armings    \* history: how often a request made a message deliverable

policyVars == <<request, armings>>

RequestPoints ==
  {"new", "propose_queue", "propose_link", "read_approval", "write_status",
   "write_outbox", "edit_payload", "edit_cancel", "edit_queue", "edit_link",
   "write_patch", "done"}

RequestRecord ==
  [at : RequestPoints, approval : Approvals \cup {None}, message : Messages \cup {None},
   verdict : OutboxStatuses \cup DecisionStatuses \cup {None},
   link : Messages \cup {None}]

Idle(point) ==
  [at |-> point, approval |-> None, message |-> None, verdict |-> None, link |-> None]

PolicyTypeOK ==
  /\ request \in [Requests -> RequestRecord]
  /\ armings \in [Messages -> Nat]

PolicyInit ==
  /\ request = [r \in Requests |-> Idle("new")]
  /\ armings = [m \in Messages |-> 0]

At(r, point) == request[r].at = point
Starting(r, operation) == At(r, "new") /\ operation \in Operations
Become(r, record) == request' = [request EXCEPT ![r] = record]
GoTo(r, point) == request' = [request EXCEPT ![r].at = point]
Return(r) == Become(r, Idle("done"))

NoteArming(m, status) ==
  armings' = IF status \in DeliverableStatuses
             THEN [armings EXCEPT ![m] = @ + 1] ELSE armings

-----------------------------------------------------------------------------
(* createOutboundApproval: approval, then outbox row, then the link back. *)

ProposeMessage(r) ==
  /\ Starting(r, "propose")
  /\ \E a \in Approvals \ CrossAppApprovals :
       /\ CreateApproval(a)
       /\ Become(r, [Idle("propose_queue") EXCEPT !.approval = a])
  /\ UNCHANGED <<outbox, inserted, decisions, armings>>

QueueHeld(r, from, to) ==
  /\ At(r, from)
  /\ \E m \in Messages :
       /\ NewMessage(m)
       /\ QueueOutboundMessage(m, "requires_approval", request[r].approval)
       /\ Become(r, [request[r] EXCEPT !.at = to, !.message = m])
  /\ UNCHANGED <<approvals, decisions, armings>>

LinkHeld(r, from) ==
  /\ At(r, from)
  /\ UpdateApprovalPayload(request[r].approval, request[r].message)
  /\ Return(r)
  /\ UNCHANGED <<outbox, inserted, decisions, armings>>

QueueProposal(r) == QueueHeld(r, "propose_queue", "propose_link")
LinkProposal(r) == LinkHeld(r, "propose_link")

ProposeCrossAppWrite(r) ==
  /\ Starting(r, "cross_app")
  /\ \E a \in CrossAppApprovals : CreateApproval(a)
  /\ Return(r)
  /\ UNCHANGED <<outbox, inserted, decisions, armings>>

-----------------------------------------------------------------------------
(* decideApproval and expirePendingApproval: read, write the status, then   *)
(* write the linked outbox row, the last two from the row as it was read.   *)

LinkAsRead(a) == IF a \in CrossAppApprovals THEN None ELSE approvals[a].link

ReadForDecision(r, a, verdict) ==
  /\ approvals[a].status # "absent"
  /\ IF approvals[a].status = "pending"
     THEN Become(r, [Idle("write_status") EXCEPT
            !.approval = a,
            !.verdict = IF approvals[a].lapsed THEN "expired" ELSE verdict,
            !.link = LinkAsRead(a)])
     ELSE Return(r)
  /\ UNCHANGED <<storeVars, armings>>

Decide(r) ==
  /\ Starting(r, "decide")
  /\ \E a \in Approvals, verdict \in {"approved", "rejected"} :
       ReadForDecision(r, a, verdict)

WriteDecision(r) ==
  /\ At(r, "write_status")
  /\ UpdateApprovalStatus(request[r].approval, request[r].verdict)
  /\ IF request[r].link = None THEN Return(r) ELSE GoTo(r, "write_outbox")
  /\ UNCHANGED <<outbox, inserted, armings>>

WriteLinkedOutbox(r) ==
  LET status == IF request[r].verdict = "approved" THEN "approved" ELSE "cancelled"
  IN  /\ At(r, "write_outbox")
      /\ UpdateOutboundMessageStatus(request[r].link, status, TRUE)
      /\ NoteArming(request[r].link, status)
      /\ Return(r)
      /\ UNCHANGED <<inserted, approvals, decisions>>

-----------------------------------------------------------------------------
(* editApproval: rewrite the payload, cancel the old message, queue a new   *)
(* one and link it.  The payload written first is the one that was read.    *)

Edit(r) ==
  /\ Starting(r, "edit")
  /\ \E a \in Approvals :
       /\ approvals[a].status # "absent"
       /\ Become(r,
            IF approvals[a].status # "pending" THEN Idle("done")
            ELSE IF approvals[a].lapsed
            THEN [Idle("write_status") EXCEPT
                    !.approval = a, !.verdict = "expired", !.link = LinkAsRead(a)]
            ELSE IF a \in CrossAppApprovals THEN Idle("done")
            ELSE [Idle("edit_payload") EXCEPT !.approval = a, !.link = approvals[a].link])
  /\ UNCHANGED <<storeVars, armings>>

WriteEditedPayload(r) ==
  /\ At(r, "edit_payload")
  /\ UpdateApprovalPayload(request[r].approval, request[r].link)
  /\ IF request[r].link = None THEN Return(r) ELSE GoTo(r, "edit_cancel")
  /\ UNCHANGED <<outbox, inserted, decisions, armings>>

CancelEditedMessage(r) ==
  /\ At(r, "edit_cancel")
  /\ UpdateOutboundMessageStatus(request[r].link, "cancelled", TRUE)
  /\ GoTo(r, "edit_queue")
  /\ UNCHANGED <<inserted, approvals, decisions, armings>>

QueueEditedMessage(r) == QueueHeld(r, "edit_queue", "edit_link")
LinkEditedMessage(r) == LinkHeld(r, "edit_link")

-----------------------------------------------------------------------------
(* PATCH /api/v1/outbox/:id.  The locked statuses are refused on the row as *)
(* it was listed; a gated row goes to decideApproval for the two statuses   *)
(* that decide it, and any other request is written unconditionally.        *)

\* Mutant of PatchOutbox: a gated row is written like any other.
PatchOutbox_Ungated(r) ==
  /\ Starting(r, "patch")
  /\ \E m \in Messages, status \in PatchStatuses :
       /\ outbox[m].status \notin {"absent"} \cup LockedOutboxStatuses
       /\ Become(r, [Idle("write_patch") EXCEPT !.message = m, !.verdict = status])
  /\ UNCHANGED <<storeVars, armings>>

PatchOutbox(r) ==
  /\ Starting(r, "patch")
  /\ \E m \in Messages, status \in PatchStatuses :
       /\ outbox[m].status \notin {"absent"} \cup LockedOutboxStatuses
       /\ Become(r,
            IF outbox[m].approval # None /\ status \in {"approved", "cancelled"}
            THEN [Idle("read_approval") EXCEPT
                    !.approval = outbox[m].approval,
                    !.verdict = IF status = "approved" THEN "approved" ELSE "rejected"]
            ELSE [Idle("write_patch") EXCEPT !.message = m, !.verdict = status])
  /\ UNCHANGED <<storeVars, armings>>

DecidePatched(r) ==
  /\ At(r, "read_approval")
  /\ ReadForDecision(r, request[r].approval, request[r].verdict)

WritePatch(r) ==
  /\ At(r, "write_patch")
  /\ UpdateOutboundMessageStatus(request[r].message, request[r].verdict, TRUE)
  /\ NoteArming(request[r].message, request[r].verdict)
  /\ Return(r)
  /\ UNCHANGED <<inserted, approvals, decisions>>

-----------------------------------------------------------------------------
\* queueOwnerVisibleMessage and queueOwnerReviewNotification: an ungated row.
QueueOwnerMessage(r) ==
  /\ Starting(r, "notify")
  /\ \E m \in Messages :
       /\ NewMessage(m)
       /\ QueueOutboundMessage(m, "pending", None)
       /\ NoteArming(m, "pending")
  /\ Return(r)
  /\ UNCHANGED <<approvals, decisions>>

\* The process ends, or an await on the store throws: what was written stays.
AbandonRequest(r) ==
  /\ request[r].at \notin {"new", "done"}
  /\ Return(r)
  /\ UNCHANGED <<storeVars, armings>>

RequestStep(r) ==
  \/ ProposeMessage(r) \/ QueueProposal(r) \/ LinkProposal(r)
  \/ ProposeCrossAppWrite(r)
  \/ Decide(r) \/ WriteDecision(r) \/ WriteLinkedOutbox(r)
  \/ Edit(r) \/ WriteEditedPayload(r) \/ CancelEditedMessage(r)
  \/ QueueEditedMessage(r) \/ LinkEditedMessage(r)
  \/ PatchOutbox(r) \/ DecidePatched(r) \/ WritePatch(r)
  \/ QueueOwnerMessage(r)
=============================================================================
