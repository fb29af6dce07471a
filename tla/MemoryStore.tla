---------------------------- MODULE MemoryStore ----------------------------
(***************************************************************************)
(* The store the tests and the development server run on: createMemoryStore*)
(* of api/src/domain/store.ts, maps in the memory of the process behind    *)
(* the interface of the PostgreSQL store.  What the tests establish holds  *)
(* in production as far as the two agree, so each of its operations is     *)
(* given here as the code has it, to be compared with AgentStore and       *)
(* DocumentStore (on the same variables) and with the Pg operators of      *)
(* MarkdownStore (side by side).                                           *)
(*                                                                         *)
(* An operation runs without an await, hence in one step.  The tables do   *)
(* not depend on each other here, so a behaviour is about one part of the  *)
(* store.                                                                  *)
(***************************************************************************)
EXTENDS MarkdownStore

CONSTANTS
  Messages, DailyCheckIns, Approvals, CrossAppApprovals,  \* see AgentStore
  MaxDeliveryAttempts,
  None,
  Documents,    \* ids of documents, in the queue of index jobs
  Texts,        \* what a call writes to a document
  ProviderIds,  \* what identifies a received message
  MaxVersion,   \* bound: versions of a document
  MaxJobs       \* bound: index jobs ever pushed

Parts == {"outbox", "approvals", "documents", "jobs", "mail"}

ASSUME MemoryStoreAssumption ==
  /\ DailyCheckIns \subseteq Messages /\ CrossAppApprovals \subseteq Approvals
  /\ MaxDeliveryAttempts \in Nat \ {0}
  /\ None \notin Messages \cup Approvals \cup Documents
  /\ MaxVersion \in Nat /\ MaxJobs \in Nat

VARIABLES
  part,                                    \* what this behaviour is about
  outbox, inserted, approvals, decisions,  \* as in AgentStore
  document, chunkRows, job, starts,        \* as in DocumentStore
  pgDocs, memDocs,                         \* the documents in either store
  refused,                                 \* history: PostgreSQL has refused a path in use
  inbox                                    \* received messages

effects == <<outbox, inserted, approvals, decisions>>
index == <<document, chunkRows, job, starts>>
library == <<pgDocs, memDocs, refused>>
vars == <<part, outbox, inserted, approvals, decisions, document, chunkRows, job, starts,
          pgDocs, memDocs, refused, inbox>>

Pg == INSTANCE AgentStore
Index == INSTANCE DocumentStore WITH NoDocument <- None

-----------------------------------------------------------------------------
(* outboundMessages *)

\* Mutant of MayRetry: the check-in of a day is queued again for ever.
MayRetry_Always(row) == row.status = "failed"

MayRetry(row) == row.status = "failed" /\ row.attempts < MaxDeliveryAttempts

\* A message with a dedupe key is looked for among those there are.
QueueOutboundMessage(m, status, a) ==
  \/ /\ outbox[m].status = "absent"
     /\ outbox' = [outbox EXCEPT ![m] =
          [status |-> status, approval |-> a, created |-> inserted,
           attempts |-> 0, due |-> TRUE, stale |-> FALSE]]
     /\ inserted' = inserted + 1
  \/ /\ m \in DailyCheckIns /\ outbox[m].status # "absent"
     /\ outbox' = IF MayRetry(outbox[m])
                  THEN [outbox EXCEPT ![m] = [@ EXCEPT !.status = "pending", !.due = TRUE,
                                                       !.stale = FALSE]]
                  ELSE outbox
     /\ UNCHANGED inserted

\* due: no time is given for the next attempt, as there is for a retry.
UpdateOutboundMessageStatus(m, status, due) ==
  /\ outbox[m].status # "absent"
  /\ outbox' = [outbox EXCEPT ![m] = [@ EXCEPT !.status = status, !.due = due,
                                               !.stale = FALSE]]

ClaimOutboundMessageForSending(m) ==
  /\ outbox[m].status \in {"pending", "approved"}
  /\ outbox' = [outbox EXCEPT ![m] = [@ EXCEPT !.status = "sending", !.due = TRUE,
                                               !.stale = FALSE,
                                               !.attempts = outbox[m].attempts + 1]]

OutboxCall ==
  /\ part = "outbox"
  /\ \E m \in Messages :
       \/ \E status \in {"pending", "requires_approval"}, a \in Approvals \cup {None} :
            QueueOutboundMessage(m, status, a)
       \/ /\ \E status \in Pg!OutboxStatuses \ {"absent"}, due \in BOOLEAN :
               (due \/ status = "pending") /\ UpdateOutboundMessageStatus(m, status, due)
          /\ UNCHANGED inserted
       \/ /\ outbox[m].attempts <= MaxDeliveryAttempts
          /\ ClaimOutboundMessageForSending(m)
          /\ UNCHANGED inserted
  /\ UNCHANGED <<part, approvals, decisions, index, library, inbox>>

-----------------------------------------------------------------------------
(* approvals *)

CreateApproval(a) ==
  /\ approvals[a].status = "absent"
  /\ approvals' = [approvals EXCEPT ![a] =
       [status |-> "pending", execution |-> "not_applicable", link |-> None,
        lapsed |-> FALSE, stale |-> FALSE]]
  /\ UNCHANGED decisions

\* The history is no part of the store.
UpdateApprovalStatus(a, status) ==
  LET arms == /\ status = "approved" /\ a \in CrossAppApprovals
              /\ approvals[a].execution = "not_applicable"
  IN  /\ approvals[a].status # "absent"
      /\ approvals' = [approvals EXCEPT ![a] =
           [@ EXCEPT !.status = status, !.stale = FALSE,
                     !.execution = IF arms THEN "pending" ELSE approvals[a].execution]]
      /\ decisions' = [decisions EXCEPT ![a] = @ \cup {status}]

UpdateApprovalPayload(a, link) ==
  /\ approvals[a].status = "pending"
  /\ approvals' = [approvals EXCEPT ![a] = [@ EXCEPT !.link = link, !.stale = FALSE]]
  /\ UNCHANGED decisions

CanExecute(a, execution) ==
  /\ approvals[a].status = "approved" /\ a \in CrossAppApprovals
  /\ approvals[a].execution = execution

SetExecution(a, execution) ==
  /\ approvals' = [approvals EXCEPT ![a] = [@ EXCEPT !.execution = execution,
                                                     !.stale = FALSE]]
  /\ UNCHANGED decisions

ClaimApprovalExecution(a) == CanExecute(a, "pending") /\ SetExecution(a, "running")
CompleteApprovalExecution(a) == CanExecute(a, "running") /\ SetExecution(a, "succeeded")
FailApprovalExecution(a) == CanExecute(a, "running") /\ SetExecution(a, "failed")

ApprovalCall ==
  /\ part = "approvals"
  /\ \E a \in Approvals :
       \/ CreateApproval(a)
       \/ \E status \in Pg!DecisionStatuses : UpdateApprovalStatus(a, status)
       \/ \E m \in Messages : UpdateApprovalPayload(a, m)
       \/ ClaimApprovalExecution(a)
       \/ CompleteApprovalExecution(a)
       \/ FailApprovalExecution(a)
  /\ UNCHANGED <<part, outbox, inserted, index, library, inbox>>

-----------------------------------------------------------------------------
(* markdownIndexJobs and markdownChunks.  A document that is taken out of the *)
(* map is marked as deleted.                                                  *)

Claimed(j) == job[j].status = "claimed"
Active(j) == job[j].status \in {"pending", "claimed"}

\* Nothing keeps a request from being pushed twice.
PushRagJob(d, version, kind) ==
  \E j \in Index!JobIds :
    /\ job[j].status = "absent" /\ \A i \in 1..(j - 1) : job[i].status # "absent"
    /\ job' = [job EXCEPT ![j] =
         [document |-> d, version |-> version, kind |-> kind, status |-> "pending",
          attempts |-> 0, due |-> TRUE, stale |-> FALSE]]

WriteIndexed(d) ==
  /\ ~document[d].deleted /\ document[d].version < MaxVersion
  /\ document' = [document EXCEPT ![d] =
       [@ EXCEPT !.version = document[d].version + 1, !.indexed = FALSE]]
  /\ PushRagJob(d, document[d].version + 1, "index")
  /\ UNCHANGED <<chunkRows, starts>>

DeleteIndexed(d) ==
  /\ document[d].version > 0 /\ ~document[d].deleted
  /\ document' = [document EXCEPT ![d] = [@ EXCEPT !.deleted = TRUE, !.indexed = FALSE]]
  /\ PushRagJob(d, document[d].version, "delete")
  /\ UNCHANGED <<chunkRows, starts>>

ReindexMarkdownPath(d) ==
  /\ document[d].version > 0 /\ ~document[d].deleted
  /\ PushRagJob(d, document[d].version, "index")
  /\ UNCHANGED <<document, chunkRows, starts>>

Ready(j) == (job[j].status = "pending" /\ job[j].due) \/ (Claimed(j) /\ job[j].stale)

\* In the order of the array, those that are ready as long as there are fewer than
\* limit.
ClaimRagIndexJobs(limit) ==
  \E ids \in SUBSET Index!JobIds :
    /\ \A j \in Index!JobIds :
         j \in ids <=> Ready(j) /\ Cardinality({i \in ids : i < j}) < limit
    /\ job' = [j \in Index!JobIds |->
         IF j \in ids
         THEN [job[j] EXCEPT !.status = "claimed", !.attempts = @ + 1, !.stale = FALSE]
         ELSE job[j]]
    /\ UNCHANGED <<document, chunkRows, starts>>

RetryRagIndexJob(j) ==
  LET same == {i \in Index!JobIds \ {j} :
                 /\ Active(i)
                 /\ job[i].document = job[j].document /\ job[i].kind = job[j].kind
                 /\ job[i].version = job[j].version}
  IN  /\ job[j].status = "dead" /\ same = {}
      /\ job' = [job EXCEPT ![j] = [@ EXCEPT !.status = "pending", !.attempts = 0,
                                             !.due = TRUE, !.stale = FALSE]]
      /\ starts' = [starts EXCEPT ![j] = 0]
      /\ UNCHANGED <<document, chunkRows>>

\* The worker ends the jobs it has claimed.
EndRagIndexJob(j, status) ==
  /\ Claimed(j)
  /\ job' = [job EXCEPT ![j] = [@ EXCEPT !.status = status, !.due = (status # "pending")]]
  /\ UNCHANGED <<document, chunkRows, starts>>

CompleteRagIndexJob(j) == EndRagIndexJob(j, "completed")
FailRagIndexJob(j) == EndRagIndexJob(j, "pending")
MarkRagIndexJobDead(j) == EndRagIndexJob(j, "dead")

\* version: of the text the chunks were cut from; 0: chunks of a deleted document.
ReplaceDocumentChunks(d, version) ==
  /\ version # 0 => ~document[d].deleted /\ document[d].version = version
  /\ chunkRows' = [chunkRows EXCEPT ![d] = version]
  /\ document' = [document EXCEPT ![d] =
       [@ EXCEPT !.indexed = TRUE,
                 !.indexedVersion = IF version = 0 THEN document[d].indexedVersion ELSE version]]
  /\ UNCHANGED <<job, starts>>

\* Time passes: a claim becomes old, a retry comes due.
AgeJob(j) ==
  /\ \/ Claimed(j) /\ ~job[j].stale /\ job' = [job EXCEPT ![j].stale = TRUE]
     \/ ~job[j].due /\ job' = [job EXCEPT ![j].due = TRUE]
  /\ UNCHANGED <<document, chunkRows, starts>>

JobCall ==
  /\ part = "jobs"
  /\ \/ \E d \in Documents :
          \/ WriteIndexed(d) \/ DeleteIndexed(d) \/ ReindexMarkdownPath(d)
          \/ \E j \in Index!JobIds :
               /\ Claimed(j) /\ job[j].document = d
               /\ ReplaceDocumentChunks(d, IF job[j].kind = "index" THEN job[j].version ELSE 0)
     \/ \E limit \in 1..2 : (\A j \in Index!JobIds : job[j].attempts < 2) /\ ClaimRagIndexJobs(limit)
     \/ \E j \in Index!JobIds :
          \/ RetryRagIndexJob(j) \/ CompleteRagIndexJob(j) \/ FailRagIndexJob(j)
          \/ MarkRagIndexJobDead(j) \/ AgeJob(j)
  /\ UNCHANGED <<part, effects, library, inbox>>

-----------------------------------------------------------------------------
(* markdownDocuments: a map keyed by path. *)

MemVersion(docs, p) == IF docs[p].state = "live" THEN docs[p].version ELSE 0

MemWrite(docs, p, text, expected, newId) ==
  IF expected # NoVersion /\ MemVersion(docs, p) # expected THEN Returns(docs, "conflict")
  ELSE Returns([docs EXCEPT ![p] =
                  [state |-> "live", text |-> text, version |-> MemVersion(docs, p) + 1,
                   id |-> IF docs[p].state = "live" THEN docs[p].id ELSE newId]], "written")

MemDelete(docs, p, expected) ==
  IF docs[p].state # "live" THEN Returns(docs, "missing")
  ELSE IF expected # NoVersion /\ docs[p].version # expected THEN Returns(docs, "conflict")
  ELSE Returns([docs EXCEPT ![p] = NoDocument], "written")

\* Mutant of MemMove: a document keeps its version when it moves.
MemMove_SameVersion(docs, from, to, expected) ==
  LET writers(q) == {p \in MovedRows(docs, from) : q \in {p, Renamed(from, to, p)}}
      last(q) == CHOOSE p \in writers(q) : \A r \in writers(q) : r = p \/ Before(r, p)
  IN  IF docs[from].state = "live" /\ expected # NoVersion /\ docs[from].version # expected
      THEN Returns(docs, "conflict")
      ELSE Returns([q \in Paths |->
                      IF writers(q) = {} THEN docs[q]
                      ELSE IF Renamed(from, to, last(q)) = q THEN docs[last(q)]
                      ELSE NoDocument], "written")

\* One by one in the order of the paths, each is taken out and put at its target,
\* whatever is there: a path holds what the last of them made of it.
MemMove(docs, from, to, expected) ==
  LET writers(q) == {p \in MovedRows(docs, from) : q \in {p, Renamed(from, to, p)}}
      last(q) == CHOOSE p \in writers(q) : \A r \in writers(q) : r = p \/ Before(r, p)
  IN  IF docs[from].state = "live" /\ expected # NoVersion /\ docs[from].version # expected
      THEN Returns(docs, "conflict")
      ELSE Returns([q \in Paths |->
                      IF writers(q) = {} THEN docs[q]
                      ELSE IF Renamed(from, to, last(q)) = q THEN MovedRow(docs[last(q)])
                      ELSE NoDocument], "written")

\* The same call on both stores, of which the one in memory refuses nothing.
Both(pgResult, memResult) ==
  /\ pgDocs' = pgResult.docs
  /\ memDocs' = memResult.docs
  /\ refused' = (refused \/ pgResult.outcome = "failed")

NewId == 1 + Cardinality({p \in Paths : pgDocs[p].state # "absent"})

Expected(p) == {NoVersion, 0, 1, memDocs[p].version}
Bounded(docs) == \A p \in Paths : docs[p].version <= MaxVersion

DocumentCall ==
  /\ part = "documents" /\ ~refused
  /\ \/ \E p \in Paths, text \in Texts : \E expected \in Expected(p) :
          Both(PgWrite(pgDocs, p, text, expected, NewId),
               MemWrite(memDocs, p, text, expected, NewId))
     \/ \E p \in Paths : \E expected \in Expected(p) :
          Both(PgDelete(pgDocs, p, expected), MemDelete(memDocs, p, expected))
     \/ \E from, to \in Paths : \E expected \in Expected(from) :
          /\ \A p \in MovedRows(memDocs, from) : Renamed(from, to, p) \in Paths
          /\ Both(PgMove(pgDocs, from, to, expected), MemMove(memDocs, from, to, expected))
  /\ Bounded(pgDocs') /\ Bounded(memDocs')
  /\ UNCHANGED <<part, effects, index, inbox>>

-----------------------------------------------------------------------------
(* inboundMessages.  A field of a handling that the caller does not name is  *)
(* kept; the fields are one link here.                                       *)

Unhandled == [classification |-> "none", action |-> "none", link |-> "none"]
Links == {"none", "task", "thread"}

RecordInboundMessage(id, classification) ==
  /\ id \notin DOMAIN inbox
  /\ inbox' = [k \in DOMAIN inbox \cup {id} |->
                 IF k = id THEN [Unhandled EXCEPT !.classification = classification]
                 ELSE inbox[k]]

UpdateInboundMessageHandling(id, action, named, link) ==
  /\ id \in DOMAIN inbox
  /\ inbox' = [inbox EXCEPT ![id] = [@ EXCEPT !.action = action,
                                              !.link = IF named THEN link
                                                          ELSE inbox[id].link]]

\* auth_json || patch, where the patch holds the fields that are named.
PgUpdateInboundMessageHandling(id, action, named, link) ==
  LET patch == [f \in {"action"} \cup (IF named THEN {"link"} ELSE {}) |->
                  IF f = "action" THEN action ELSE link]
  IN  /\ id \in DOMAIN inbox
      /\ inbox' = [inbox EXCEPT ![id] = [f \in DOMAIN inbox[id] |->
                     IF f \in DOMAIN patch THEN patch[f] ELSE inbox[id][f]]]

MailCall ==
  /\ part = "mail"
  /\ \E id \in ProviderIds :
       \/ \E classification \in {"owner", "untrusted"} : RecordInboundMessage(id, classification)
       \/ \E action \in {"handled", "ignored"}, named \in BOOLEAN, link \in Links :
            UpdateInboundMessageHandling(id, action, named, link)
  /\ UNCHANGED <<part, effects, index, library>>

-----------------------------------------------------------------------------
Init ==
  /\ part \in Parts
  /\ Pg!StoreInit
  /\ Index!StoreInit
  /\ pgDocs = NoDocuments /\ memDocs = NoDocuments /\ refused = FALSE
  /\ inbox = << >>

Next == OutboxCall \/ ApprovalCall \/ DocumentCall \/ JobCall \/ MailCall

Spec == Init /\ [][Next]_vars

-----------------------------------------------------------------------------
OutboxAgrees ==
  \A m \in Messages, status \in Pg!OutboxStatuses \ {"absent"} :
    /\ \A a \in Approvals \cup {None} :
         QueueOutboundMessage(m, status, a) => Pg!QueueOutboundMessage(m, status, a)
    /\ \A due \in BOOLEAN :
         UpdateOutboundMessageStatus(m, status, due) =>
           Pg!UpdateOutboundMessageStatus(m, status, due)
    /\ ClaimOutboundMessageForSending(m) => Pg!ClaimOutboundMessageForSending(m)

ApprovalsAgree ==
  \A a \in Approvals :
    /\ CreateApproval(a) => Pg!CreateApproval(a)
    /\ \A status \in Pg!DecisionStatuses :
         UpdateApprovalStatus(a, status) => Pg!UpdateApprovalStatus(a, status)
    /\ \A m \in Messages : UpdateApprovalPayload(a, m) => Pg!UpdateApprovalPayload(a, m)
    /\ ClaimApprovalExecution(a) => Pg!ClaimApprovalExecution(a)
    /\ CompleteApprovalExecution(a) => Pg!FinishApprovalExecution(a, "succeeded")
    /\ FailApprovalExecution(a) => Pg!FinishApprovalExecution(a, "failed")

\* PostgreSQL merges a request with an equal one that is not finished.
Coalesced(d, kind) ==
  \E j \in Index!JobIds : Active(j) /\ Index!Asks(j, d, document[d].version, kind)

JobsAgree ==
  /\ \A d \in Documents :
       /\ WriteIndexed(d) => Index!WriteDocument(d)
       /\ DeleteIndexed(d) => Coalesced(d, "delete") \/ Index!DeleteDocument(d)
       /\ ReindexMarkdownPath(d) => Coalesced(d, "index") \/ Index!ReindexDocument(d)
       /\ \A v \in 1..MaxVersion : ReplaceDocumentChunks(d, v) => Index!ReplaceChunks(d, v)
       /\ ReplaceDocumentChunks(d, 0) => Index!RemoveChunks(d)
  /\ \A limit \in 1..2 : ClaimRagIndexJobs(limit) => Index!ClaimJobs(Index!ClaimBatch(limit))
  /\ \A j \in Index!JobIds :
       /\ RetryRagIndexJob(j) => Index!RetryJob(j)
       /\ CompleteRagIndexJob(j) => Index!SetJob(j, "completed")
       /\ FailRagIndexJob(j) => Index!SetJob(j, "pending")
       /\ MarkRagIndexJobDead(j) => Index!SetJob(j, "dead")

MailAgrees ==
  \A id \in ProviderIds, action \in {"handled", "ignored"}, named \in BOOLEAN, link \in Links :
    UpdateInboundMessageHandling(id, action, named, link) =>
      PgUpdateInboundMessageHandling(id, action, named, link)

\* Every call of the store in memory does to its maps what PostgreSQL does to the
\* rows, whatever calls came before: what is queued again, what may be claimed,
\* which decision arms an execution, which result is too late.  The one exception
\* is named: an index job that is asked for twice is pushed twice.
CallsAgree == [][OutboxAgrees /\ ApprovalsAgree /\ JobsAgree /\ MailAgrees]_vars

\* After the same calls both stores hold the same documents, versions and ids,
\* as long as PostgreSQL has not refused a path whose row is still there: a
\* deleted document's path, which the store in memory gives away again.
DocumentsAgree ==
  ~refused => \A p \in Paths :
    IF memDocs[p].state = "live" THEN pgDocs[p] = memDocs[p] ELSE pgDocs[p].state # "live"
=============================================================================
