----------------------------- MODULE AgentStore -----------------------------
(***************************************************************************)
(* The two PostgreSQL tables every side effect of the assistant goes       *)
(* through, outbound_messages and approvals, and the store functions that  *)
(* write them (api/src/domain/store.ts, createPostgresStore).  Each store  *)
(* function is one SQL statement, hence one atomic step; what is NOT       *)
(* atomic, the reads and writes of one handler, is split over several      *)
(* steps by the modules that extend this one.                              *)
(*                                                                         *)
(* A row's text, addresses and JSON payload are abstracted to the row's    *)
(* identity: a message is a member of Messages, an edit makes a new one.   *)
(* Of an approval's payload only the link outbound_message_id is kept.     *)
(* Timestamps become the facts the code derives from them: `due` (the next *)
(* delivery attempt is not in the future), `stale` (updated_at is older    *)
(* than the worker's grace period) and `lapsed` (expires_at has passed).   *)
(***************************************************************************)
EXTENDS Naturals, FiniteSets

CONSTANTS
  Messages,            \* rows outbound_messages can ever hold
  DailyCheckIns,       \* of them, those whose dedupe key is "daily-check-in:<date>"
  Approvals,           \* rows approvals can ever hold
  CrossAppApprovals,   \* of them, those whose action_type is cross_app_write_action
  MaxDeliveryAttempts, \* DAILY_CHECK_IN_MAX_DELIVERY_ATTEMPTS
  None                 \* SQL NULL, and the absent payload key

ASSUME StoreAssumption ==
  /\ DailyCheckIns \subseteq Messages
  /\ CrossAppApprovals \subseteq Approvals
  /\ MaxDeliveryAttempts \in Nat \ {0}
  /\ None \notin Messages
  /\ None \notin Approvals

VARIABLES
  outbox,      \* outbound_messages
  inserted,    \* how many outbox rows were inserted: the source of created_at
  approvals,   \* approvals
  decisions    \* history: every decision written on each approval

storeVars == <<outbox, inserted, approvals, decisions>>

DeliverableStatuses == {"pending", "approved"}
LockedOutboxStatuses == {"sending", "sent", "failed", "cancelled"}
OutboxStatuses ==
  {"absent", "requires_approval"} \cup DeliverableStatuses \cup LockedOutboxStatuses

OutboxRow ==
  [status : OutboxStatuses, approval : Approvals \cup {None}, created : Nat,
   attempts : Nat, due : BOOLEAN, stale : BOOLEAN]

NoOutboxRow ==
  [status |-> "absent", approval |-> None, created |-> 0,
   attempts |-> 0, due |-> TRUE, stale |-> FALSE]

DecisionStatuses == {"approved", "rejected", "expired"}
ApprovalStatuses == {"absent", "pending"} \cup DecisionStatuses
ExecutionStatuses == {"not_applicable", "pending", "running", "succeeded", "failed"}

ApprovalRow ==
  [status : ApprovalStatuses, execution : ExecutionStatuses,
   link : Messages \cup {None}, lapsed : BOOLEAN, stale : BOOLEAN]

NoApprovalRow ==
  [status |-> "absent", execution |-> "not_applicable", link |-> None,
   lapsed |-> FALSE, stale |-> FALSE]

StoreTypeOK ==
  /\ outbox \in [Messages -> OutboxRow]
  /\ inserted \in Nat
  /\ approvals \in [Approvals -> ApprovalRow]
  /\ decisions \in [Approvals -> SUBSET DecisionStatuses]

StoreInit ==
  /\ outbox = [m \in Messages |-> NoOutboxRow]
  /\ inserted = 0
  /\ approvals = [a \in Approvals |-> NoApprovalRow]
  /\ decisions = [a \in Approvals |-> {}]

-----------------------------------------------------------------------------
(* outbound_messages *)

Deliverable(m) == outbox[m].status \in DeliverableStatuses

\* A message without a dedupe key gets a random id, so it is always a new row.
NewMessage(m) == m \in Messages \ DailyCheckIns /\ outbox[m].status = "absent"

\* INSERT ... ON CONFLICT (user_id, dedupe_key): an existing daily check-in is
\* touched only when it failed with attempts left, and then becomes pending.
Revivable(m) == outbox[m].status = "failed" /\ outbox[m].attempts < MaxDeliveryAttempts

QueueOutboundMessage(m, status, a) ==
  IF outbox[m].status = "absent"
  THEN /\ inserted' = inserted + 1
       /\ outbox' = [outbox EXCEPT ![m] =
            [NoOutboxRow EXCEPT !.status = status, !.approval = a, !.created = inserted]]
  ELSE /\ inserted' = inserted
       /\ outbox' = IF Revivable(m)
                    THEN [outbox EXCEPT ![m].status = "pending", ![m].due = TRUE,
                                        ![m].stale = FALSE]
                    ELSE outbox

\* No condition on the current status: whoever writes last wins.
UpdateOutboundMessageStatus(m, status, due) ==
  outbox' = [outbox EXCEPT ![m].status = status, ![m].due = due, ![m].stale = FALSE]

ClaimOutboundMessageForSending(m) ==
  /\ Deliverable(m)
  /\ outbox' = [outbox EXCEPT ![m].status = "sending", ![m].due = TRUE,
                              ![m].stale = FALSE, ![m].attempts = @ + 1]

-----------------------------------------------------------------------------
(* approvals *)

CreateApproval(a) ==
  /\ approvals[a].status = "absent"
  /\ approvals' = [approvals EXCEPT ![a].status = "pending"]

\* Mutant of UpdateApprovalStatus: approving arms an execution every time.
UpdateApprovalStatus_Rearms(a, status) ==
  /\ approvals' = [approvals EXCEPT
       ![a].status = status,
       ![a].stale = FALSE,
       ![a].execution = IF status = "approved" /\ a \in CrossAppApprovals
                        THEN "pending" ELSE @]
  /\ decisions' = [decisions EXCEPT ![a] = @ \cup {status}]

\* No condition on the current status; approving arms an execution only once.
UpdateApprovalStatus(a, status) ==
  /\ approvals' = [approvals EXCEPT
       ![a].status = status,
       ![a].stale = FALSE,
       ![a].execution = IF status = "approved" /\ a \in CrossAppApprovals
                           /\ @ = "not_applicable"
                        THEN "pending" ELSE @]
  /\ decisions' = [decisions EXCEPT ![a] = @ \cup {status}]

UpdateApprovalPayload(a, link) ==
  approvals' = IF approvals[a].status = "pending"
               THEN [approvals EXCEPT ![a].link = link, ![a].stale = FALSE]
               ELSE approvals

Executable(a) ==
  /\ a \in CrossAppApprovals
  /\ approvals[a].status = "approved"
  /\ approvals[a].execution = "pending"

\* Mutant of ClaimApprovalExecution: the claim does not test execution_status.
ClaimApprovalExecution_AnyExecution(a) ==
  /\ a \in CrossAppApprovals
  /\ approvals[a].status = "approved"
  /\ approvals' = [approvals EXCEPT ![a].execution = "running", ![a].stale = FALSE]

ClaimApprovalExecution(a) ==
  /\ Executable(a)
  /\ approvals' = [approvals EXCEPT ![a].execution = "running", ![a].stale = FALSE]

\* completeApprovalExecution and failApprovalExecution share their WHERE clause;
\* a row that no longer matches is left alone.
FinishApprovalExecution(a, result) ==
  approvals' =
    IF /\ a \in CrossAppApprovals
       /\ approvals[a].status = "approved"
       /\ approvals[a].execution = "running"
    THEN [approvals EXCEPT ![a].execution = result, ![a].stale = FALSE]
    ELSE approvals

-----------------------------------------------------------------------------
(* The clock, seen through the three facts above. *)

LapseApproval(a) ==
  /\ approvals[a].status # "absent"
  /\ ~approvals[a].lapsed
  /\ approvals' = [approvals EXCEPT ![a].lapsed = TRUE]
  /\ UNCHANGED <<outbox, inserted, decisions>>

\* Staleness is read only of running executions and of rows being sent.
AgeExecution(a) ==
  /\ approvals[a].execution = "running"
  /\ ~approvals[a].stale
  /\ approvals' = [approvals EXCEPT ![a].stale = TRUE]
  /\ UNCHANGED <<outbox, inserted, decisions>>

AgeSend(m) ==
  /\ outbox[m].status = "sending"
  /\ ~outbox[m].stale
  /\ outbox' = [outbox EXCEPT ![m].stale = TRUE]
  /\ UNCHANGED <<inserted, approvals, decisions>>

ComeDue(m) ==
  /\ ~outbox[m].due
  /\ outbox' = [outbox EXCEPT ![m].due = TRUE]
  /\ UNCHANGED <<inserted, approvals, decisions>>
=============================================================================
