----------------------------- MODULE SmtpSender -----------------------------
(***************************************************************************)
(* processOutboundQueue and sendOutboundMessage (api/src/connectors/       *)
(* smtpSender.ts): list what is deliverable and due, claim a row, hand it  *)
(* to the SMTP provider, record what came of it.                           *)
(***************************************************************************)
EXTENDS WorkerTick

CONSTANT
  DeliveryLimit   \* outboundMessagesPerWorkerTick

ASSUME DeliveryLimitAssumption == DeliveryLimit \in Nat

VARIABLE accepted   \* external: how often the provider accepted each message

SenderTypeOK == accepted \in [Messages -> Nat]
SenderInit == accepted = [m \in Messages |-> 0]

\* listOutboundMessages(["pending", "approved"]) ORDER BY created_at, those
\* whose next attempt is due, the first DeliveryLimit of them.
\* Mutant of DueMessages: messages that need no approval are not listed.
DueMessages_ApprovedOnly == {m \in Messages : outbox[m].status = "approved" /\ outbox[m].due}

DueMessages == {m \in Messages : Deliverable(m) /\ outbox[m].due}

FirstDue ==
  {m \in DueMessages :
     Cardinality({n \in DueMessages : outbox[n].created < outbox[m].created}) < DeliveryLimit}

ListDeliverable(w) ==
  /\ ListFor(w, "executing", "delivering", {MessageJob(m) : m \in FirstDue})
  /\ UNCHANGED <<storeVars, accepted>>

\* Delivery disabled, SMTP settings incomplete or no owner address: the row is
\* failed without a claim, whatever its status is by now.
FailBeforeClaim(w) ==
  /\ WorkerAt(w, "delivering")
  /\ \E j \in worker[w].todo :
       /\ UpdateOutboundMessageStatus(j.message, "failed", TRUE)
       /\ Finish(w, j)
  /\ UNCHANGED <<inserted, approvals, decisions, accepted>>

\* The retry decision uses the row the claim returned, its attempt counted.
ClaimMessage(w) ==
  /\ WorkerAt(w, "delivering")
  /\ \E j \in worker[w].todo :
       \/ /\ ClaimOutboundMessageForSending(j.message)
          /\ worker' = [worker EXCEPT ![w] =
               [at |-> "sending", todo |-> @.todo \ {j},
                job |-> [j EXCEPT !.retry =
                  /\ j.message \in DailyCheckIns
                  /\ outbox[j.message].attempts + 1 < MaxDeliveryAttempts]]]
       \/ /\ ~Deliverable(j.message)
          /\ Finish(w, j)
          /\ UNCHANGED outbox
  /\ UNCHANGED <<inserted, approvals, decisions, accepted>>

\* transport.sendMail: it resolves after the provider accepted, or throws, and
\* then the provider may still have accepted (the reply was lost).
SendMail(w) ==
  LET m == worker[w].job.message
  IN  /\ WorkerAt(w, "sending")
      /\ \/ accepted' = [accepted EXCEPT ![m] = @ + 1] /\ Proceed(w, "accepted")
         \/ accepted' = [accepted EXCEPT ![m] = @ + 1] /\ Proceed(w, "refused")
         \/ accepted' = accepted /\ Proceed(w, "refused")
      /\ UNCHANGED storeVars

RecordSent(w) ==
  /\ WorkerAt(w, "accepted")
  /\ UpdateOutboundMessageStatus(worker[w].job.message, "sent", TRUE)
  /\ Resume(w, "delivering")
  /\ UNCHANGED <<inserted, approvals, decisions, accepted>>

\* Mutant of RecordRefusal: the retry is recorded with a status of its own.
RecordRefusal_RetryStatus(w) ==
  /\ WorkerAt(w, "refused")
  /\ LET j == worker[w].job
     IN  UpdateOutboundMessageStatus(j.message, IF j.retry THEN "retry" ELSE "failed", ~j.retry)
  /\ Resume(w, "delivering")
  /\ UNCHANGED <<inserted, approvals, decisions, accepted>>

\* A daily check-in goes back to pending, to be tried again later.
RecordRefusal(w) ==
  /\ WorkerAt(w, "refused")
  /\ LET j == worker[w].job
     IN  UpdateOutboundMessageStatus(j.message, IF j.retry THEN "pending" ELSE "failed", ~j.retry)
  /\ Resume(w, "delivering")
  /\ UNCHANGED <<inserted, approvals, decisions, accepted>>

EndTick(w) ==
  /\ ListFor(w, "delivering", "idle", {})
  /\ UNCHANGED <<storeVars, accepted>>

SenderStep(w) ==
  \/ ListDeliverable(w) \/ FailBeforeClaim(w) \/ ClaimMessage(w)
  \/ SendMail(w) \/ RecordSent(w) \/ RecordRefusal(w) \/ EndTick(w)
=============================================================================
