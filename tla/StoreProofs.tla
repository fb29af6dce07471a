---------------------------- MODULE StoreProofs ----------------------------
(***************************************************************************)
(* The store in memory makes the steps of the PostgreSQL store             *)
(* (CallsAreThoseOfPostgres, for any rows, jobs and messages), and after   *)
(* the same calls the two hold the same documents (StoresHoldTheSame, for  *)
(* any paths and texts).  The work is where they differ in form: the claim *)
(* of a batch is a loop here and a query there, an insert merges with an   *)
(* equal request there and not here, and a move replaces here what it      *)
(* fails on there.                                                         *)
(***************************************************************************)
EXTENDS MemoryStore, FiniteSetTheorems, SequenceTheorems, TLAPS

(***************************************************************************)
(* The invariant.  A row that is not there has its default values, and no  *)
(* job is asked for a version its document does not have yet.              *)
(***************************************************************************)

EffectsOK ==
  /\ outbox \in [Messages -> Pg!OutboxRow]
  /\ \A m \in Messages : outbox[m].status = "absent" => outbox[m] = Pg!NoOutboxRow
  /\ approvals \in [Approvals -> Pg!ApprovalRow]
  /\ \A a \in Approvals : approvals[a].status = "absent" => approvals[a] = Pg!NoApprovalRow

JobsOK ==
  /\ Index!StoreTypeOK
  /\ \A j \in Index!JobIds : job[j].status # "absent" =>
       /\ job[j].document \in Documents
       /\ job[j].version <= document[job[j].document].version

Handling ==
  [classification : {"none", "owner", "untrusted"},
   action : {"none", "handled", "ignored"}, link : Links]
MailOK == inbox \in UNION {[ids -> Handling] : ids \in SUBSET ProviderIds}

StoreInv == EffectsOK /\ JobsOK /\ MailOK

(***************************************************************************)
(* Outbound messages and approvals                                         *)
(***************************************************************************)

\* What the store in memory does to its messages PostgreSQL does to the rows.
LEMMA OutboxCallsAgree == EffectsOK => OutboxAgrees
<1> SUFFICES ASSUME EffectsOK PROVE OutboxAgrees
  OBVIOUS
<1> SUFFICES ASSUME NEW m \in Messages, NEW status \in Pg!OutboxStatuses \ {"absent"}
    PROVE  /\ \A a \in Approvals \cup {None} :
                QueueOutboundMessage(m, status, a) => Pg!QueueOutboundMessage(m, status, a)
           /\ \A due \in BOOLEAN :
                UpdateOutboundMessageStatus(m, status, due) =>
                  Pg!UpdateOutboundMessageStatus(m, status, due)
           /\ ClaimOutboundMessageForSending(m) => Pg!ClaimOutboundMessageForSending(m)
  BY DEF OutboxAgrees
<1>0. outbox \in [Messages -> Pg!OutboxRow] /\ outbox[m] \in Pg!OutboxRow
  BY DEF EffectsOK
<1>1. ASSUME NEW a \in Approvals \cup {None}, QueueOutboundMessage(m, status, a)
      PROVE  Pg!QueueOutboundMessage(m, status, a)
  <2>1. CASE outbox[m].status = "absent"
    BY <2>1, <1>1 DEF QueueOutboundMessage, Pg!QueueOutboundMessage, Pg!NoOutboxRow
  <2>2. CASE outbox[m].status # "absent"
    BY <2>2, <1>0, <1>1 DEF QueueOutboundMessage, Pg!QueueOutboundMessage, MayRetry,
      Pg!Revivable, Pg!OutboxRow
  <2>3. QED
    BY <2>1, <2>2
<1>2. ASSUME NEW due \in BOOLEAN, UpdateOutboundMessageStatus(m, status, due)
      PROVE  Pg!UpdateOutboundMessageStatus(m, status, due)
  BY <1>0, <1>2 DEF UpdateOutboundMessageStatus, Pg!UpdateOutboundMessageStatus, Pg!OutboxRow
<1>3. ASSUME ClaimOutboundMessageForSending(m)
      PROVE  Pg!ClaimOutboundMessageForSending(m)
  BY <1>0, <1>3 DEF ClaimOutboundMessageForSending, Pg!ClaimOutboundMessageForSending,
    Pg!Deliverable, Pg!DeliverableStatuses, Pg!OutboxRow
<1>4. QED
  BY <1>1, <1>2, <1>3

\* An approval is what its columns say.
LEMMA ApprovalIsItsFields ==
  ASSUME NEW r \in Pg!ApprovalRow, NEW s \in Pg!ApprovalRow,
         r.status = s.status, r.execution = s.execution, r.link = s.link,
         r.lapsed = s.lapsed, r.stale = s.stale
  PROVE  r = s
  BY DEF Pg!ApprovalRow

\* Of approvals: a decision arms an execution once, a result that is too late is
\* dropped.
LEMMA ApprovalCallsAgree == EffectsOK => ApprovalsAgree
<1> SUFFICES ASSUME EffectsOK, NEW a \in Approvals
    PROVE  /\ CreateApproval(a) => Pg!CreateApproval(a)
           /\ \A status \in Pg!DecisionStatuses :
                UpdateApprovalStatus(a, status) => Pg!UpdateApprovalStatus(a, status)
           /\ \A m \in Messages :
                UpdateApprovalPayload(a, m) => Pg!UpdateApprovalPayload(a, m)
           /\ ClaimApprovalExecution(a) => Pg!ClaimApprovalExecution(a)
           /\ CompleteApprovalExecution(a) => Pg!FinishApprovalExecution(a, "succeeded")
           /\ FailApprovalExecution(a) => Pg!FinishApprovalExecution(a, "failed")
  BY DEF ApprovalsAgree
<1>0. /\ approvals \in [Approvals -> Pg!ApprovalRow] /\ approvals[a] \in Pg!ApprovalRow
      /\ approvals[a].status = "absent" => approvals[a] = Pg!NoApprovalRow
  BY DEF EffectsOK
<1>1. ASSUME CreateApproval(a)
      PROVE  Pg!CreateApproval(a)
  <2> DEFINE new == [status |-> "pending", execution |-> "not_applicable", link |-> None,
                     lapsed |-> FALSE, stale |-> FALSE]
  <2>1. approvals[a] = Pg!NoApprovalRow
    BY <1>0, <1>1 DEF CreateApproval
  <2>2. [approvals[a] EXCEPT !.status = "pending"] = new
    <3> DEFINE old == [approvals[a] EXCEPT !.status = "pending"]
    <3>1. old \in Pg!ApprovalRow /\ new \in Pg!ApprovalRow
      BY <1>0 DEF Pg!ApprovalRow, Pg!ApprovalStatuses, Pg!ExecutionStatuses
    <3>2. /\ old.status = "pending" /\ old.execution = "not_applicable" /\ old.link = None
          /\ old.lapsed = FALSE /\ old.stale = FALSE
      BY <1>0, <2>1 DEF Pg!NoApprovalRow, Pg!ApprovalRow
    <3>3. /\ new.status = "pending" /\ new.execution = "not_applicable" /\ new.link = None
          /\ new.lapsed = FALSE /\ new.stale = FALSE
      OBVIOUS
    <3> HIDE DEF old, new
    <3>4. old = new
      BY <3>1, <3>2, <3>3, ApprovalIsItsFields
    <3>5. QED
      BY <3>4 DEF old
  <2>3. approvals[a].status = "absent" /\ approvals' = [approvals EXCEPT ![a] = new]
    BY <1>1 DEF CreateApproval
  <2> HIDE DEF new
  <2>4. QED
    BY <2>1, <2>2, <2>3 DEF Pg!CreateApproval
<1>2. ASSUME NEW status \in Pg!DecisionStatuses, UpdateApprovalStatus(a, status)
      PROVE  Pg!UpdateApprovalStatus(a, status)
  <2> DEFINE arms == /\ status = "approved" /\ a \in CrossAppApprovals
                     /\ approvals[a].execution = "not_applicable"
             new == [approvals[a] EXCEPT !.status = status, !.stale = FALSE,
                       !.execution = IF arms THEN "pending" ELSE approvals[a].execution]
  <2>1. approvals' = [approvals EXCEPT ![a] = new]
    BY <1>2 DEF UpdateApprovalStatus
  <2>2. QED
    BY <2>1, <1>0, <1>2 DEF UpdateApprovalStatus, Pg!UpdateApprovalStatus, Pg!ApprovalRow
<1>3. ASSUME NEW m \in Messages, UpdateApprovalPayload(a, m)
      PROVE  Pg!UpdateApprovalPayload(a, m)
  BY <1>0, <1>3 DEF UpdateApprovalPayload, Pg!UpdateApprovalPayload, Pg!ApprovalRow
<1>4. ClaimApprovalExecution(a) => Pg!ClaimApprovalExecution(a)
  BY <1>0 DEF ClaimApprovalExecution, CanExecute, SetExecution, Pg!ClaimApprovalExecution,
    Pg!Executable, Pg!ApprovalRow
<1>5. ASSUME NEW result \in {"succeeded", "failed"}, CanExecute(a, "running"),
             SetExecution(a, result)
      PROVE  Pg!FinishApprovalExecution(a, result)
  BY <1>0, <1>5 DEF CanExecute, SetExecution, Pg!FinishApprovalExecution, Pg!ApprovalRow
<1>6. QED
  BY <1>1, <1>2, <1>3, <1>4, <1>5 DEF CompleteApprovalExecution, FailApprovalExecution

(***************************************************************************)
(* Index jobs                                                              *)
(***************************************************************************)

\* Of the claim: in the order of the array, as long as there are fewer than limit,
\* is the same as the oldest limit of them.
LEMMA ClaimedIsTheBatch ==
  ASSUME NEW limit \in Nat, NEW ids \in SUBSET Index!JobIds,
         \A j \in Index!JobIds :
           j \in ids <=> Ready(j) /\ Cardinality({i \in ids : i < j}) < limit
  PROVE  ids = Index!ClaimBatch(limit)
<1> DEFINE Taken(j) == {i \in ids : i < j}
           UpTo(j) == {i \in 1..j : Ready(i)}
<1>0. \A j \in ids : Ready(j)
  OBVIOUS
<1>1. /\ \A j \in Index!JobIds : j \in Nat /\ j >= 1 /\ 1..j \subseteq Index!JobIds
      /\ ids \subseteq Index!JobIds /\ Index!JobIds \subseteq Nat
  BY MemoryStoreAssumption DEF Index!JobIds
<1>2. \A j \in Index!JobIds : Index!Claimable(j) <=> Ready(j)
  BY DEF Index!Claimable, Ready, Claimed
<1>3. \A j \in Index!JobIds : {i \in 1..j : Index!Claimable(i)} = UpTo(j)
  BY <1>1, <1>2
<1>4. \A j \in Index!JobIds : IsFiniteSet(1..j) /\ IsFiniteSet(UpTo(j)) /\ IsFiniteSet(Taken(j))
  <2> TAKE j \in Index!JobIds
  <2>1. IsFiniteSet(1..j)
    BY <1>1, FS_Interval
  <2>2. UpTo(j) \subseteq 1..j
    OBVIOUS
  <2>3. ASSUME NEW i \in Taken(j)
        PROVE  i \in 1..j
    BY <1>1, <2>3
  <2>4. QED
    BY <2>1, <2>2, <2>3, FS_Subset
<1>5. ASSUME NEW j \in ids
      PROVE  Index!Claimable(j) /\ Cardinality(UpTo(j)) <= limit
  <2>0. j \in Index!JobIds /\ Ready(j) /\ Cardinality(Taken(j)) < limit
    OBVIOUS
  <2>1. ASSUME NEW i \in UpTo(j), i # j
        PROVE  i \in Taken(j)
    <3>1. i \in Index!JobIds /\ Ready(i) /\ i < j
      BY <1>1, <2>0, <2>1
    <3>2. ASSUME NEW k \in Taken(i)
          PROVE  k \in Taken(j)
      <4>1. k \in ids /\ k \in Nat /\ i \in Nat /\ j \in Nat /\ k < i
        BY <1>1, <2>0, <3>1, <3>2
      <4>2. QED
        BY <4>1, <3>1
    <3>3. Cardinality(Taken(i)) <= Cardinality(Taken(j))
      BY <1>4, <2>0, <3>2, FS_Subset
    <3>4. Cardinality(Taken(i)) \in Nat /\ Cardinality(Taken(j)) \in Nat
      BY <1>4, <2>0, <3>1, FS_CardinalityType
    <3>5. Cardinality(Taken(i)) < limit
      BY <2>0, <3>3, <3>4
    <3>6. QED
      BY <3>1, <3>5
  <2>2. UpTo(j) = Taken(j) \cup {j}
    <3>1. ASSUME NEW i \in Taken(j)
          PROVE  i \in UpTo(j)
      BY <1>0, <1>1, <2>0, <3>1
    <3>2. j \in UpTo(j)
      BY <1>1, <2>0
    <3>3. QED
      BY <2>1, <3>1, <3>2
  <2>3. j \notin Taken(j)
    BY <1>1, <2>0
  <2>4. Cardinality(UpTo(j)) = Cardinality(Taken(j)) + 1 /\ Cardinality(Taken(j)) \in Nat
    BY <1>4, <2>0, <2>2, <2>3, FS_AddElement, FS_CardinalityType
  <2>5. QED
    BY <1>2, <2>0, <2>4
<1>6. ASSUME NEW j \in Index!JobIds, Index!Claimable(j), Cardinality(UpTo(j)) <= limit
      PROVE  j \in ids
  <2>1. Ready(j) /\ j \in UpTo(j)
    BY <1>1, <1>2, <1>6
  <2>2. ASSUME NEW i \in Taken(j)
        PROVE  i \in UpTo(j) \ {j}
    BY <1>0, <1>1, <2>2
  <2>3. Cardinality(UpTo(j) \ {j}) = Cardinality(UpTo(j)) - 1 /\ IsFiniteSet(UpTo(j) \ {j})
    BY <1>4, <2>1, FS_RemoveElement
  <2>4. Cardinality(Taken(j)) <= Cardinality(UpTo(j) \ {j})
    BY <2>2, <2>3, FS_Subset
  <2>5. Cardinality(UpTo(j)) \in Nat /\ Cardinality(Taken(j)) \in Nat
    BY <1>4, FS_CardinalityType
  <2>6. Cardinality(Taken(j)) < limit
    BY <1>6, <2>3, <2>4, <2>5
  <2>7. QED
    BY <2>1, <2>6
<1>7. QED
  <2>1. Index!ClaimBatch(limit) =
          {j \in Index!JobIds : Index!Claimable(j) /\ Cardinality(UpTo(j)) <= limit}
    BY <1>3, Zenon DEF Index!ClaimBatch, Index!Cardinality, Cardinality
  <2> HIDE DEF UpTo, Taken
  <2>2. QED
    BY <1>5, <1>6, <2>1

\* A job is what its columns say.
LEMMA JobIsItsFields ==
  ASSUME NEW r \in Index!JobRow, NEW s \in Index!JobRow,
         r.document = s.document, r.version = s.version, r.kind = s.kind,
         r.status = s.status, r.attempts = s.attempts, r.due = s.due, r.stale = s.stale
  PROVE  r = s
  BY DEF Index!JobRow

\* What is pushed is the row PostgreSQL inserts, unless such a request is active.
LEMMA PushedIsEnqueued ==
  ASSUME NEW d \in Documents, NEW v \in Index!Versions, NEW kind \in {"index", "delete"},
         PushRagJob(d, v, kind),
         ~\E j \in Index!JobIds : Active(j) /\ Index!Asks(j, d, v, kind)
  PROVE  Index!Enqueue(d, v, kind)
<1>1. Index!NewJob(d, v, kind) =
        [document |-> d, version |-> v, kind |-> kind, status |-> "pending",
         attempts |-> 0, due |-> TRUE, stale |-> FALSE]
  <2> DEFINE row == Index!NewJob(d, v, kind)
             pushed == [document |-> d, version |-> v, kind |-> kind, status |-> "pending",
                        attempts |-> 0, due |-> TRUE, stale |-> FALSE]
  <2>1. Index!NoJobRow \in Index!JobRow
    BY MemoryStoreAssumption
      DEF Index!NoJobRow, Index!JobRow, Index!Versions, Index!ActiveStatuses
  <2>2. row \in Index!JobRow /\ pushed \in Index!JobRow
    BY <2>1 DEF Index!NewJob, Index!JobRow, Index!ActiveStatuses
  <2>3. /\ row.document = d /\ row.version = v /\ row.kind = kind /\ row.status = "pending"
        /\ row.attempts = 0 /\ row.due = TRUE /\ row.stale = FALSE
    <3>1. Index!NoJobRow.attempts = 0 /\ Index!NoJobRow.due = TRUE /\ Index!NoJobRow.stale = FALSE
      BY DEF Index!NoJobRow
    <3>2. QED
      BY <2>1, <3>1 DEF Index!NewJob, Index!JobRow
  <2>4. /\ pushed.document = d /\ pushed.version = v /\ pushed.kind = kind
        /\ pushed.status = "pending" /\ pushed.attempts = 0 /\ pushed.due = TRUE
        /\ pushed.stale = FALSE
    OBVIOUS
  <2> HIDE DEF row, pushed
  <2>5. row = pushed
    BY <2>2, <2>3, <2>4, JobIsItsFields
  <2>6. QED
    BY <2>5 DEF row, pushed
<1>2. ~\E j \in Index!JobIds : Index!ActiveJob(j) /\ Index!Asks(j, d, v, kind)
  BY DEF Active, Index!ActiveJob, Index!ActiveStatuses
<1>3. \E j \in Index!JobIds :
        /\ job[j].status = "absent" /\ \A i \in 1..(j - 1) : job[i].status # "absent"
        /\ job' = [job EXCEPT ![j] = Index!NewJob(d, v, kind)]
  BY <1>1, Zenon DEF PushRagJob
<1>4. QED
  BY <1>2, <1>3 DEF Index!Enqueue

\* A write asks for a version no job knows yet; a deletion and a request to index
\* again may be asked for twice.
LEMMA JobCallsAgree == JobsOK => JobsAgree
<1> SUFFICES ASSUME JobsOK PROVE JobsAgree
  OBVIOUS
<1>1. ASSUME NEW d \in Documents
      PROVE  /\ document \in [Documents -> Index!DocumentRow]
             /\ document[d] \in Index!DocumentRow /\ document[d].version \in Index!Versions
             /\ document[d].version \in Nat
  BY MemoryStoreAssumption DEF JobsOK, Index!StoreTypeOK, Index!DocumentRow, Index!Versions
<1>2. ASSUME NEW d \in Documents, WriteIndexed(d)
      PROVE  Index!WriteDocument(d)
  <2>1. ~\E j \in Index!JobIds : Active(j) /\ Index!Asks(j, d, document[d].version + 1, "index")
    BY <1>1 DEF JobsOK, Active, Index!Asks
  <2>2. Index!Enqueue(d, document[d].version + 1, "index")
    <3>1. document[d].version + 1 \in Index!Versions
      BY <1>1, <1>2, MemoryStoreAssumption DEF WriteIndexed, Index!Versions
    <3>2. QED
      BY <1>2, <2>1, <3>1, PushedIsEnqueued DEF WriteIndexed
  <2>3. document' = [document EXCEPT ![d].version = @ + 1, ![d].indexed = FALSE]
    BY <1>1, <1>2 DEF WriteIndexed, Index!DocumentRow
  <2>4. QED
    BY <1>2, <2>2, <2>3 DEF WriteIndexed, Index!WriteDocument
<1>3. ASSUME NEW d \in Documents, DeleteIndexed(d), ~Coalesced(d, "delete")
      PROVE  Index!DeleteDocument(d)
  <2>1. Index!Enqueue(d, document[d].version, "delete")
    BY <1>1, <1>3, PushedIsEnqueued DEF DeleteIndexed, Coalesced
  <2>2. document' = [document EXCEPT ![d].deleted = TRUE, ![d].indexed = FALSE]
    BY <1>1, <1>3 DEF DeleteIndexed, Index!DocumentRow
  <2>3. QED
    BY <1>3, <2>1, <2>2 DEF DeleteIndexed, Index!DeleteDocument, Index!Live
<1>4. ASSUME NEW d \in Documents, ReindexMarkdownPath(d), ~Coalesced(d, "index")
      PROVE  Index!ReindexDocument(d)
  <2>1. Index!Enqueue(d, document[d].version, "index")
    BY <1>1, <1>4, PushedIsEnqueued DEF ReindexMarkdownPath, Coalesced
  <2>2. QED
    BY <1>4, <2>1 DEF ReindexMarkdownPath, Index!ReindexDocument, Index!Live
<1>5. ASSUME NEW d \in Documents, NEW v \in 1..MaxVersion, ReplaceDocumentChunks(d, v)
      PROVE  Index!ReplaceChunks(d, v)
  <2>1. v \in Nat /\ v # 0
    BY MemoryStoreAssumption
  <2>2. ~document[d].deleted /\ document[d].version = v /\ Index!IsCurrent(d, v)
    BY <1>5, <2>1 DEF ReplaceDocumentChunks, Index!IsCurrent, Index!Live
  <2>3. document' = [document EXCEPT ![d].indexed = TRUE, ![d].indexedVersion = v]
    BY <1>1, <1>5, <2>1 DEF ReplaceDocumentChunks, Index!DocumentRow
  <2>4. QED
    BY <1>5, <2>2, <2>3 DEF ReplaceDocumentChunks, Index!ReplaceChunks
<1>6. ASSUME NEW d \in Documents, ReplaceDocumentChunks(d, 0)
      PROVE  Index!RemoveChunks(d)
  <2>1. document' = [document EXCEPT ![d].indexed = TRUE]
    BY <1>1, <1>6 DEF ReplaceDocumentChunks, Index!DocumentRow
  <2>2. QED
    BY <1>6, <2>1 DEF ReplaceDocumentChunks, Index!RemoveChunks
<1>7. ASSUME NEW limit \in 1..2, ClaimRagIndexJobs(limit)
      PROVE  Index!ClaimJobs(Index!ClaimBatch(limit))
  <2>1. limit \in Nat
    OBVIOUS
  <2>2. PICK ids \in SUBSET Index!JobIds :
          /\ \A j \in Index!JobIds :
               j \in ids <=> Ready(j) /\ Cardinality({i \in ids : i < j}) < limit
          /\ job' = [j \in Index!JobIds |->
               IF j \in ids
               THEN [job[j] EXCEPT !.status = "claimed", !.attempts = @ + 1, !.stale = FALSE]
               ELSE job[j]]
    BY <1>7, Zenon DEF ClaimRagIndexJobs
  <2>3. ids = Index!ClaimBatch(limit)
    BY <2>1, <2>2, ClaimedIsTheBatch
  <2>4. QED
    BY <2>2, <2>3, Zenon DEF Index!ClaimJobs
<1>8. ASSUME NEW j \in Index!JobIds
      PROVE  job \in [Index!JobIds -> Index!JobRow] /\ job[j] \in Index!JobRow
  BY DEF JobsOK, Index!StoreTypeOK
<1>9. ASSUME NEW j \in Index!JobIds, RetryRagIndexJob(j)
      PROVE  Index!RetryJob(j)
  <2>1. ~\E i \in Index!JobIds \ {j} :
           Index!ActiveJob(i) /\ Index!Asks(i, job[j].document, job[j].version, job[j].kind)
    BY <1>9 DEF RetryRagIndexJob, Active, Index!ActiveJob, Index!ActiveStatuses, Index!Asks
  <2>2. job' = [job EXCEPT ![j].status = "pending", ![j].attempts = 0,
                           ![j].due = TRUE, ![j].stale = FALSE]
    BY <1>8, <1>9 DEF RetryRagIndexJob, Index!JobRow
  <2>3. QED
    BY <1>9, <2>1, <2>2 DEF RetryRagIndexJob, Index!RetryJob
<1>10. ASSUME NEW j \in Index!JobIds, NEW status, EndRagIndexJob(j, status)
       PROVE  Index!SetJob(j, status)
  BY <1>8, <1>10 DEF EndRagIndexJob, Index!SetJob, Index!JobRow
<1>11. QED
  BY <1>2, <1>3, <1>4, <1>5, <1>6, <1>7, <1>9, <1>10
    DEF JobsAgree, CompleteRagIndexJob, FailRagIndexJob, MarkRagIndexJobDead

(***************************************************************************)
(* Received messages                                                       *)
(***************************************************************************)

\* A message on record has a handling.
LEMMA InboxHolds ==
  ASSUME MailOK
  PROVE  /\ inbox \in [DOMAIN inbox -> Handling] /\ DOMAIN inbox \subseteq ProviderIds
         /\ \A id \in DOMAIN inbox : inbox[id] \in Handling
  BY DEF MailOK

\* The fields a call names are those the patch replaces.
LEMMA MailCallsAgree == MailOK => MailAgrees
<1> SUFFICES ASSUME MailOK, NEW id \in ProviderIds, NEW action \in {"handled", "ignored"},
                    NEW named \in BOOLEAN, NEW link \in Links,
                    UpdateInboundMessageHandling(id, action, named, link)
             PROVE  PgUpdateInboundMessageHandling(id, action, named, link)
  BY DEF MailAgrees
<1> DEFINE row == inbox[id]
           patch == [f \in {"action"} \cup (IF named THEN {"link"} ELSE {}) |->
                       IF f = "action" THEN action ELSE link]
           new == [row EXCEPT !.action = action, !.link = IF named THEN link ELSE row.link]
           merged == [f \in DOMAIN row |-> IF f \in DOMAIN patch THEN patch[f] ELSE row[f]]
<1>1. id \in DOMAIN inbox /\ row \in Handling
  BY InboxHolds DEF UpdateInboundMessageHandling
<1>2. DOMAIN row = {"classification", "action", "link"}
  BY <1>1 DEF Handling
<1>3. /\ merged["classification"] = row["classification"]
      /\ merged["action"] = action
      /\ merged["link"] = IF named THEN link ELSE row["link"]
  BY <1>2
<1>4. /\ DOMAIN new = {"classification", "action", "link"}
      /\ new = [f \in DOMAIN new |-> new[f]]
      /\ new["classification"] = row["classification"] /\ new["action"] = action
      /\ new["link"] = IF named THEN link ELSE row["link"]
  BY <1>1, <1>2 DEF Handling
<1> HIDE DEF new, patch, row
<1>5. merged = new
  BY <1>2, <1>3, <1>4
<1>6. inbox' = [inbox EXCEPT ![id] = new]
  BY DEF UpdateInboundMessageHandling, new, row
<1>7. QED
  BY <1>1, <1>5, <1>6 DEF PgUpdateInboundMessageHandling, patch, row

(***************************************************************************)
(* Documents                                                               *)
(***************************************************************************)

Row ==
  [state : {"absent", "live", "deleted"}, id : Nat, version : Nat, text : Texts \cup {<<>>}]
Library == [Paths -> Row]
Agrees(pg, mem) ==
  \A p \in Paths : IF mem[p].state = "live" THEN pg[p] = mem[p] ELSE pg[p].state # "live"

Present(docs) == {p \in Paths : docs[p].state # "absent"}

\* As long as no path was refused the documents have finitely many rows, the same in
\* both stores.
LibraryInv ==
  ~refused => /\ pgDocs \in Library /\ memDocs \in Library /\ Agrees(pgDocs, memDocs)
              /\ IsFiniteSet(Present(pgDocs))

\* A row is what its columns say.
LEMMA RowIsItsFields ==
  ASSUME NEW r \in Row, NEW s \in Row,
         r.state = s.state, r.id = s.id, r.version = s.version, r.text = s.text
  PROVE  r = s
  BY DEF Row

\* Where both agree they see the same versions.
LEMMA SameVersions ==
  ASSUME NEW pg \in Library, NEW mem \in Library, Agrees(pg, mem), NEW p \in Paths
  PROVE  /\ pg[p] \in Row /\ mem[p] \in Row
         /\ pg[p].state = "live" <=> mem[p].state = "live"
         /\ mem[p].state = "live" => pg[p] = mem[p]
         /\ PgVersion(pg, p) = MemVersion(mem, p) /\ MemVersion(mem, p) \in Nat
         /\ NoDocument \in Row
  BY DEF Library, Row, Agrees, PgVersion, MemVersion, NoDocument

\* The same row on either side keeps the agreement, as does one that is live on none.
LEMMA AgreesAfter ==
  ASSUME NEW pg \in Library, NEW mem \in Library, Agrees(pg, mem), NEW p \in Paths,
         NEW r \in Row, NEW s \in Row, IF s.state = "live" THEN r = s ELSE r.state # "live"
  PROVE  /\ [pg EXCEPT ![p] = r] \in Library /\ [mem EXCEPT ![p] = s] \in Library
         /\ Agrees([pg EXCEPT ![p] = r], [mem EXCEPT ![p] = s])
  BY DEF Library, Agrees

\* A write: an insert on a path PostgreSQL still has a row for is refused.
LEMMA WritesAgree ==
  ASSUME NEW pg \in Library, NEW mem \in Library, Agrees(pg, mem), NEW p \in Paths,
         NEW text \in Texts, NEW expected, NEW newId \in Nat,
         NEW r, r = PgWrite(pg, p, text, expected, newId),
         NEW s, s = MemWrite(mem, p, text, expected, newId)
  PROVE  /\ r.docs \in Library /\ s.docs \in Library
         /\ r.outcome # "failed" => Agrees(r.docs, s.docs)
<1> DEFINE version == MemVersion(mem, p)
           more == version + 1
           id == IF mem[p].state = "live" THEN mem[p].id ELSE newId
           new == [state |-> "live", text |-> text, version |-> more, id |-> id]
<1>0. /\ pg[p] \in Row /\ mem[p] \in Row
      /\ pg[p].state = "live" <=> mem[p].state = "live"
      /\ mem[p].state = "live" => pg[p] = mem[p]
      /\ PgVersion(pg, p) = version /\ version \in Nat
  BY SameVersions
<1>1. more \in Nat /\ id \in Nat
  BY <1>0 DEF Row
<1>2. new \in Row /\ new.state = "live"
  <2> HIDE DEF more, id
  <2>1. QED
    BY <1>1 DEF Row
<1>3. CASE expected # NoVersion /\ version # expected
  BY <1>0, <1>3 DEF PgWrite, MemWrite, Returns
<1>4. CASE ~(expected # NoVersion /\ version # expected)
  <2>1. s = Returns([mem EXCEPT ![p] = new], "written")
    BY <1>4 DEF MemWrite
  <2>2. r = IF pg[p].state = "live" THEN PgUpdate(pg, p, text) ELSE PgInsert(pg, p, text, newId)
    BY <1>0, <1>4 DEF PgWrite
  <2>3. /\ [pg EXCEPT ![p] = new] \in Library /\ [mem EXCEPT ![p] = new] \in Library
        /\ Agrees([pg EXCEPT ![p] = new], [mem EXCEPT ![p] = new])
    <3> HIDE DEF new
    <3>1. QED
      BY <1>2, AgreesAfter
  <2>4. CASE pg[p].state = "live"
    <3> DEFINE v == [pg[p] EXCEPT !.version = pg[p].version + 1, !.text = text]
    <3>1. r = Returns([pg EXCEPT ![p] = v], "written")
      BY <1>0, <2>2, <2>4 DEF PgUpdate, Library, Row
    <3>2. more = pg[p].version + 1 /\ id = pg[p].id
      BY <1>0, <2>4 DEF MemVersion
    <3>3. v \in Row /\ v.state = "live" /\ v.id = id /\ v.version = more /\ v.text = text
      <4>1. v = [pg[p] EXCEPT !.version = more, !.text = text]
        BY <3>2
      <4> HIDE DEF v, more
      <4>2. QED
        BY <1>0, <1>1, <2>4, <3>2, <4>1 DEF Row
    <3>4. new.id = id /\ new.version = more /\ new.text = text
      OBVIOUS
    <3> HIDE DEF v, new
    <3>5. v = new
      BY <1>2, <3>3, <3>4, RowIsItsFields
    <3>6. r.docs = [pg EXCEPT ![p] = new] /\ s.docs = [mem EXCEPT ![p] = new]
      BY <2>1, <3>1, <3>5 DEF Returns
    <3>7. QED
      BY <2>3, <3>6
  <2>5. CASE pg[p].state = "absent"
    <3>1. more = 1 /\ id = newId
      BY <1>0, <2>5 DEF MemVersion
    <3>2. r = Returns([pg EXCEPT ![p] = new], "written")
      BY <2>2, <2>5, <3>1 DEF PgInsert
    <3>3. r.docs = [pg EXCEPT ![p] = new] /\ s.docs = [mem EXCEPT ![p] = new]
      BY <2>1, <3>2 DEF Returns
    <3> HIDE DEF new
    <3>4. QED
      BY <2>3, <3>3
  <2>6. CASE pg[p].state \notin {"live", "absent"}
    BY <2>1, <2>2, <2>3, <2>6 DEF PgInsert, Returns
  <2>7. QED
    BY <2>4, <2>5, <2>6
<1>5. QED
  BY <1>3, <1>4

\* A deletion: PostgreSQL keeps the row, the store in memory does not.
LEMMA DeletionsAgree ==
  ASSUME NEW pg \in Library, NEW mem \in Library, Agrees(pg, mem), NEW p \in Paths, NEW expected,
         NEW r, r = PgDelete(pg, p, expected), NEW s, s = MemDelete(mem, p, expected)
  PROVE  r.docs \in Library /\ s.docs \in Library /\ Agrees(r.docs, s.docs)
<1>0. /\ pg[p] \in Row /\ mem[p] \in Row /\ NoDocument \in Row
      /\ pg[p].state = "live" <=> mem[p].state = "live"
      /\ mem[p].state = "live" => pg[p] = mem[p]
  BY SameVersions
<1>1. CASE pg[p].state # "live"
  BY <1>0, <1>1 DEF PgDelete, MemDelete, Returns
<1>2. CASE pg[p].state = "live" /\ StaleVersion(pg, p, expected)
  BY <1>0, <1>2 DEF PgDelete, MemDelete, Returns, StaleVersion
<1>3. CASE pg[p].state = "live" /\ ~StaleVersion(pg, p, expected)
  <2> DEFINE v == [pg[p] EXCEPT !.state = "deleted"]
  <2>1. r = Returns([pg EXCEPT ![p] = v], "written")
    BY <1>0, <1>3 DEF PgDelete, Library, Row
  <2>2. s = Returns([mem EXCEPT ![p] = NoDocument], "written")
    BY <1>0, <1>3 DEF MemDelete, StaleVersion
  <2>3. v \in Row /\ v.state = "deleted" /\ NoDocument.state = "absent"
    BY <1>0 DEF Row, NoDocument
  <2>4. r.docs = [pg EXCEPT ![p] = v] /\ s.docs = [mem EXCEPT ![p] = NoDocument]
    BY <2>1, <2>2 DEF Returns
  <2> HIDE DEF v
  <2>5. QED
    BY <1>0, <2>3, <2>4, AgreesAfter
<1>4. QED
  BY <1>1, <1>2, <1>3

\* A path is below itself.
LEMMA BelowItself ==
  ASSUME NEW p \in Paths
  PROVE  Below(p, p)
<1>1. p \in Seq(Nat) /\ Len(p) \in Nat
  BY PathAssumption, LenProperties
<1>2. QED
  BY <1>1, SubSeqFull DEF Below

\* What is below a path begins with its names.
LEMMA BelowBegins ==
  ASSUME NEW p \in Paths, NEW q \in Paths, Below(p, q)
  PROVE  Len(p) <= Len(q) /\ \A k \in 1..Len(p) : q[k] = p[k]
<1>1. /\ p \in Seq(Nat) /\ q \in Seq(Nat) /\ Len(p) \in Nat /\ Len(q) \in Nat
      /\ Len(p) <= Len(q) /\ SubSeq(q, 1, Len(p)) = p
      /\ \A k \in 1..Len(q) : q[k] \in Nat
  BY PathAssumption, LenProperties, ElementOfSeq DEF Below
<1>2. \A k \in 1..Len(p) : q[k] \in Nat
  BY <1>1
<1>3. \A k \in 1..(Len(p) - 1 + 1) : SubSeq(q, 1, Len(p))[k] = q[1 + k - 1]
  BY <1>1, <1>2, SubSeqProperties
<1>4. QED
  BY <1>1, <1>3

\* The order of the paths is strict.
LEMMA BeforeIsStrict ==
  ASSUME NEW p \in Paths, NEW q \in Paths, Before(p, q)
  PROVE  ~Before(q, p)
<1>1. /\ p \in Seq(Nat) /\ q \in Seq(Nat) /\ Len(p) \in Nat /\ Len(q) \in Nat
      /\ DOMAIN p = 1..Len(p) /\ DOMAIN q = 1..Len(q)
      /\ (\A k \in 1..Len(p) : p[k] \in Nat) /\ (\A k \in 1..Len(q) : q[k] \in Nat)
  BY PathAssumption, LenProperties, ElementOfSeq
<1> DEFINE Differs(r, s, i) == i \in DOMAIN r \cap DOMAIN s /\ r[i] < s[i]
                                /\ \A k \in 1..(i - 1) : r[k] = s[k]
<1>2. ASSUME Below(p, q), Below(q, p)
      PROVE  p = q
  <2>1. Len(p) <= Len(q) /\ \A k \in 1..Len(p) : q[k] = p[k]
    BY <1>2, BelowBegins
  <2>2. Len(q) <= Len(p)
    BY <1>2, BelowBegins
  <2>3. Len(p) = Len(q)
    <3> DEFINE m == Len(p)
               n == Len(q)
    <3>1. m \in Nat /\ n \in Nat /\ m <= n /\ n <= m
      BY <1>1, <2>1, <2>2
    <3> HIDE DEF m, n
    <3>2. m = n
      BY <3>1
    <3>3. QED
      BY <3>2 DEF m, n
  <2>4. QED
    BY <1>1, <2>1, <2>3, SeqEqual
<1>3. ASSUME NEW r \in {p, q}, NEW s \in {p, q}, Below(r, s), NEW i,
             Differs(s, r, i) \/ Differs(r, s, i)
      PROVE  FALSE
  <2>1. /\ r \in Paths /\ s \in Paths /\ i \in DOMAIN r /\ i \in DOMAIN s
        /\ s[i] < r[i] \/ r[i] < s[i]
    BY <1>3
  <2>2. i \in 1..Len(r) /\ r[i] \in Nat /\ s[i] \in Nat
    BY <1>1, <2>1
  <2>3. s[i] = r[i]
    BY <1>3, <2>1, <2>2, BelowBegins
  <2>4. QED
    BY <2>1, <2>2, <2>3
<1>4. ASSUME NEW i, NEW j, Differs(p, q, i), Differs(q, p, j)
      PROVE  FALSE
  <2>1. /\ i \in Nat /\ j \in Nat /\ i >= 1 /\ j >= 1
        /\ p[i] < q[i] /\ q[j] < p[j] /\ p[i] \in Nat /\ q[i] \in Nat
        /\ p[j] \in Nat /\ q[j] \in Nat
    BY <1>1, <1>4
  <2>2. CASE i < j
    <3>1. q[i] = p[i]
      BY <1>4, <2>1, <2>2
    <3>2. QED
      BY <2>1, <3>1
  <2>3. CASE j < i
    <3>1. p[j] = q[j]
      BY <1>4, <2>1, <2>3
    <3>2. QED
      BY <2>1, <3>1
  <2>4. CASE i = j
    BY <2>1, <2>4
  <2>5. QED
    BY <2>1, <2>2, <2>3, <2>4
<1>5. /\ (p # q /\ Below(p, q)) \/ \E i : Differs(p, q, i)
      /\ Before(q, p) => (p # q /\ Below(q, p)) \/ \E i : Differs(q, p, i)
  BY DEF Before
<1> HIDE DEF Differs
<1>6. QED
  BY <1>2, <1>3, <1>4, <1>5

\* What is below a path is recovered from its new name.
LEMMA RenamedApart ==
  ASSUME NEW from \in Paths, NEW to \in Paths, NEW p \in Paths, NEW q \in Paths,
         Below(from, p), Below(from, q), Renamed(from, to, p) = Renamed(from, to, q)
  PROVE  p = q
<1> DEFINE n == Len(from)
           Rest(r) == SubSeq(r, n + 1, Len(r))
<1>1. from \in Seq(Nat) /\ to \in Seq(Nat) /\ p \in Seq(Nat) /\ q \in Seq(Nat) /\ n \in Nat
  BY PathAssumption, LenProperties
<1>2. ASSUME NEW r \in Paths, Below(from, r)
      PROVE  Rest(r) \in Seq(Nat) /\ from \o Rest(r) = r
  <2>1. r \in Seq(Nat) /\ Len(r) \in Nat /\ n <= Len(r) /\ \A i \in 1..Len(r) : r[i] \in Nat
    BY <1>1, <1>2, PathAssumption, LenProperties, ElementOfSeq DEF Below
  <2>2. \A i \in (n + 1)..Len(r) : r[i] \in Nat
    BY <1>1, <2>1
  <2>3. Rest(r) \in Seq(Nat)
    BY <1>1, <2>1, <2>2, SubSeqProperties
  <2>4. SubSeq(r, 1, n) \o SubSeq(r, n + 1, Len(r)) = SubSeq(r, 1, Len(r))
    <3> DEFINE l == Len(r)
    <3>1. 1 \in 1..(l + 1) /\ n \in (1 - 1)..l /\ l \in n..l
      BY <1>1, <2>1
    <3> HIDE DEF n
    <3>2. SubSeq(r, 1, n) \o SubSeq(r, n + 1, l) = SubSeq(r, 1, l)
      BY <2>1, <3>1, ConcatAdjacentSubSeq
    <3> QED BY <3>2
  <2>5. SubSeq(r, 1, n) = from /\ SubSeq(r, 1, Len(r)) = r
    BY <1>2, <2>1, SubSeqFull DEF Below
  <2> QED BY <2>3, <2>4, <2>5
<1>3. to \o Rest(p) = to \o Rest(q)
  BY DEF Renamed
<1>4. Rest(p) \in Seq(Nat) /\ Rest(q) \in Seq(Nat) /\ from \o Rest(p) = p /\ from \o Rest(q) = q
  BY <1>2
<1> HIDE DEF Rest
<1>5. Rest(p) = Rest(q)
  BY <1>1, <1>3, <1>4, ConcatSimplifications
<1> QED BY <1>4, <1>5

\* A move: PostgreSQL refuses a target that is taken at that moment; where it refuses
\* none, nothing that is moved later takes a path from what was moved there.
LEMMA MovesAgree ==
  ASSUME NEW pg \in Library, NEW mem \in Library, Agrees(pg, mem), NEW from \in Paths,
         NEW to \in Paths, NEW expected,
         NEW r, r = PgMove(pg, from, to, expected), NEW s, s = MemMove(mem, from, to, expected)
  PROVE  r.outcome # "failed" =>
           r.docs \in Library /\ s.docs \in Library /\ Agrees(r.docs, s.docs)
<1> DEFINE rows == MovedRows(mem, from)
           target(p) == Renamed(from, to, p)
           source(q) == CHOOSE p \in rows : target(p) = q
           writers(q) == {p \in rows : q \in {p, target(p)}}
           last(q) == CHOOSE p \in writers(q) : \A x \in writers(q) : x = p \/ Before(x, p)
           pgMoved == [q \in Paths |->
                         IF \E p \in rows : target(p) = q THEN MovedRow(pg[source(q)])
                         ELSE IF q \in rows THEN NoDocument ELSE pg[q]]
           memMoved == [q \in Paths |->
                          IF writers(q) = {} THEN mem[q]
                          ELSE IF target(last(q)) = q THEN MovedRow(mem[last(q)])
                          ELSE NoDocument]
           free(p) == \/ pg[target(p)].state = "absent"
                      \/ target(p) = p
                      \/ target(p) \in rows /\ Before(target(p), p)
           conflict == from \in rows /\ StaleVersion(pg, from, expected)
<1>1. /\ MovedRows(pg, from) = rows
      /\ \A p \in rows : p \in Paths /\ Below(from, p) /\ mem[p].state = "live"
      /\ from \in rows <=> mem[from].state = "live"
  BY SameVersions, BelowItself DEF MovedRows, LivePaths
<1>2. \A p \in rows : pg[p] = mem[p] /\ mem[p] \in Row
  BY <1>1, SameVersions
<1>3. conflict <=> mem[from].state = "live" /\ expected # NoVersion /\ mem[from].version # expected
  BY <1>1, <1>2 DEF StaleVersion
<1>4. r = IF conflict THEN Returns(pg, "conflict")
          ELSE IF \E p \in rows : ~free(p) THEN Returns(pg, "failed")
          ELSE Returns(pgMoved, "written")
  BY <1>1 DEF PgMove
<1>5. s = IF conflict THEN Returns(mem, "conflict") ELSE Returns(memMoved, "written")
  BY <1>3 DEF MemMove
<1>6. ASSUME NEW p \in rows, NEW q \in rows, target(p) = target(q)
      PROVE  p = q
  BY <1>1, <1>6, RenamedApart
<1>7. ASSUME NEW p \in rows
      PROVE  MovedRow(mem[p]) \in Row /\ MovedRow(mem[p]).state = "live"
  BY <1>1, <1>2, <1>7 DEF MovedRow, Row
<1>8. ASSUME \A p \in rows : free(p), NEW q \in Paths
      PROVE  /\ pgMoved[q] \in Row /\ memMoved[q] \in Row
             /\ IF memMoved[q].state = "live" THEN pgMoved[q] = memMoved[q]
                ELSE pgMoved[q].state # "live"
  <2>1. CASE writers(q) = {}
    <3>1. q \notin rows /\ ~\E p \in rows : target(p) = q
      BY <2>1
    <3>2. pgMoved[q] = pg[q] /\ memMoved[q] = mem[q]
      BY <2>1, <3>1
    <3>3. QED
      BY <3>2, SameVersions
  <2>2. CASE q \in rows /\ ~\E p \in rows : target(p) = q
    <3>1. writers(q) = {q}
      BY <2>2
    <3>2. last(q) = q /\ target(q) # q
      BY <2>2, <3>1
    <3>3. pgMoved[q] = NoDocument /\ memMoved[q] = NoDocument
      BY <2>2, <3>1, <3>2
    <3>4. NoDocument \in Row /\ NoDocument.state = "absent"
      BY DEF NoDocument, Row
    <3>5. QED
      BY <3>3, <3>4
  <2>3. ASSUME NEW p \in rows, target(p) = q
        PROVE  /\ pgMoved[q] = MovedRow(pg[p]) /\ memMoved[q] = MovedRow(mem[p])
    <3>1. source(q) = p
      BY <1>6, <2>3
    <3>2. pgMoved[q] = MovedRow(pg[p])
      BY <2>3, <3>1
    <3>3. p \in writers(q) /\ writers(q) \subseteq {p, q}
      BY <1>6, <2>3
    <3>4. ASSUME q \in rows, q # p
          PROVE  Before(q, p) /\ ~Before(p, q)
      <4>1. pg[q].state = "live"
        BY <1>1, <1>2, <3>4
      <4>2. Before(q, p)
        BY <1>8, <2>3, <3>4, <4>1
      <4>3. QED
        BY <1>1, <3>4, <4>2, BeforeIsStrict
    <3>5. \A x \in writers(q) : x = p \/ Before(x, p)
      BY <3>3, <3>4
    <3>6. ASSUME NEW y \in writers(q), \A x \in writers(q) : x = y \/ Before(x, y)
          PROVE  y = p
      BY <3>3, <3>4, <3>6
    <3> HIDE DEF writers
    <3>7. last(q) = p
      BY <3>3, <3>5, <3>6
    <3>8. memMoved[q] = IF target(last(q)) = q THEN MovedRow(mem[last(q)]) ELSE NoDocument
      BY <3>3
    <3>9. QED
      BY <2>3, <3>2, <3>7, <3>8
  <2>4. CASE \E p \in rows : target(p) = q
    BY <1>2, <1>7, <2>3, <2>4
  <2>5. QED
    BY <2>1, <2>2, <2>4
<1>9. pgMoved = [q \in Paths |-> pgMoved[q]] /\ memMoved = [q \in Paths |-> memMoved[q]]
  OBVIOUS
<1> HIDE DEF pgMoved, memMoved, free, conflict
<1>10. CASE conflict
  <2>1. r.docs = pg /\ s.docs = mem
    BY <1>4, <1>5, <1>10 DEF Returns
  <2>2. QED
    BY <2>1
<1>11. CASE ~conflict /\ \A p \in rows : free(p)
  <2>1. r.docs = pgMoved /\ s.docs = memMoved
    BY <1>4, <1>5, <1>11 DEF Returns
  <2>2. \A q \in Paths :
          /\ pgMoved[q] \in Row /\ memMoved[q] \in Row
          /\ IF memMoved[q].state = "live" THEN pgMoved[q] = memMoved[q]
             ELSE pgMoved[q].state # "live"
    BY <1>8, <1>11
  <2>3. pgMoved \in Library /\ memMoved \in Library
    BY <1>9, <2>2 DEF Library
  <2>4. QED
    BY <2>1, <2>2, <2>3 DEF Agrees
<1>12. CASE ~conflict /\ \E p \in rows : ~free(p)
  BY <1>4, <1>12 DEF Returns
<1>13. QED
  BY <1>10, <1>11, <1>12

\* A call touches finitely many rows of PostgreSQL.
LEMMA RowsStayFinite ==
  ASSUME NEW pg, IsFiniteSet(Present(pg)), NEW e, NEW X, IsFiniteSet(X),
         \A q \in Paths \ X : e[q] = pg[q] \/ e[q] = NoDocument
  PROVE  IsFiniteSet(Present(e))
<1>1. Present(e) \in SUBSET (Present(pg) \cup X)
  BY DEF Present, NoDocument
<1>2. IsFiniteSet(Present(pg) \cup X)
  BY FS_Union
<1>3. QED
  BY <1>1, <1>2, FS_Subset

LEMMA CallsTouchFew ==
  ASSUME NEW pg \in Library, IsFiniteSet(Present(pg)), NEW p \in Paths, NEW expected
  PROVE  /\ \A text, newId : IsFiniteSet(Present(PgWrite(pg, p, text, expected, newId).docs))
         /\ IsFiniteSet(Present(PgDelete(pg, p, expected).docs))
         /\ \A to \in Paths : IsFiniteSet(Present(PgMove(pg, p, to, expected).docs))
<1>1. ASSUME NEW text, NEW newId, NEW e, e = PgWrite(pg, p, text, expected, newId).docs
      PROVE  IsFiniteSet(Present(e))
  <2>1. \A q \in Paths \ {p} : e[q] = pg[q]
    BY <1>1 DEF PgWrite, PgInsert, PgUpdate, Returns, Library
  <2>2. QED
    BY <2>1, RowsStayFinite, FS_Singleton
<1>2. ASSUME NEW e, e = PgDelete(pg, p, expected).docs
      PROVE  IsFiniteSet(Present(e))
  <2>1. \A q \in Paths \ {p} : e[q] = pg[q]
    BY <1>2 DEF PgDelete, Returns, Library
  <2>2. QED
    BY <2>1, RowsStayFinite, FS_Singleton
<1>3. ASSUME NEW to \in Paths, NEW e, e = PgMove(pg, p, to, expected).docs
      PROVE  IsFiniteSet(Present(e))
  <2> DEFINE rows == MovedRows(pg, p)
             target(q) == Renamed(p, to, q)
             T == {target(q) : q \in rows}
             f == [q \in rows |-> target(q)]
  <2>1. \A q \in Paths \ T : e[q] = pg[q] \/ e[q] = NoDocument
    BY <1>3 DEF PgMove, Returns
  <2>2. rows \in SUBSET Present(pg)
    BY DEF MovedRows, LivePaths, Present
  <2>3. IsFiniteSet(rows)
    BY <2>2, FS_Subset
  <2>4. f \in Surjection(rows, T)
    BY DEF Surjection
  <2> HIDE DEF f, T, rows
  <2>5. IsFiniteSet(T)
    BY <2>3, <2>4, FS_Surjection
  <2>6. QED
    BY <2>1, <2>5, RowsStayFinite
<1>4. QED
  BY <1>1, <1>2, <1>3

\* A call on both stores keeps them alike, or PostgreSQL refuses it.
LEMMA DocumentCallKeeps ==
  ASSUME LibraryInv, DocumentCall
  PROVE  LibraryInv'
<1>1. /\ pgDocs \in Library /\ memDocs \in Library /\ Agrees(pgDocs, memDocs) /\ ~refused
      /\ IsFiniteSet(Present(pgDocs))
  BY DEF LibraryInv, DocumentCall
<1>2. ASSUME NEW r, NEW s, Both(r, s), IsFiniteSet(Present(r.docs)),
             r.outcome # "failed" =>
               r.docs \in Library /\ s.docs \in Library /\ Agrees(r.docs, s.docs)
      PROVE  LibraryInv'
  BY <1>1, <1>2 DEF Both, LibraryInv
<1>3. NewId \in Nat
  <2>1. Cardinality(Present(pgDocs)) \in Nat
    BY <1>1, FS_CardinalityType
  <2>2. NewId = 1 + Cardinality(Present(pgDocs))
    BY DEF NewId, Present
  <2>3. QED
    BY <2>1, <2>2
<1>4. ASSUME NEW p \in Paths, NEW text \in Texts, NEW expected,
             Both(PgWrite(pgDocs, p, text, expected, NewId),
                  MemWrite(memDocs, p, text, expected, NewId))
      PROVE  LibraryInv'
  BY <1>1, <1>2, <1>3, <1>4, WritesAgree, CallsTouchFew
<1>5. ASSUME NEW p \in Paths, NEW expected,
             Both(PgDelete(pgDocs, p, expected), MemDelete(memDocs, p, expected))
      PROVE  LibraryInv'
  BY <1>1, <1>2, <1>5, DeletionsAgree, CallsTouchFew
<1>6. ASSUME NEW from \in Paths, NEW to \in Paths, NEW expected,
             Both(PgMove(pgDocs, from, to, expected), MemMove(memDocs, from, to, expected))
      PROVE  LibraryInv'
  BY <1>1, <1>2, <1>6, MovesAgree, CallsTouchFew
<1>7. QED
  BY <1>4, <1>5, <1>6, Zenon DEF DocumentCall

(***************************************************************************)
(* The invariant is kept                                                   *)
(***************************************************************************)

\* A message is written with a status that is not "absent".
LEMMA OutboxCallKeeps ==
  ASSUME EffectsOK, inserted \in Nat, OutboxCall
  PROVE  EffectsOK' /\ inserted' \in Nat
<1>0. /\ outbox \in [Messages -> Pg!OutboxRow]
      /\ \A m \in Messages : outbox[m] \in Pg!OutboxRow
      /\ approvals' = approvals
  BY DEF EffectsOK, OutboxCall, effects
<1>1. ASSUME NEW m \in Messages, NEW new \in Pg!OutboxRow, new.status # "absent",
             outbox' = [outbox EXCEPT ![m] = new]
      PROVE  EffectsOK'
  BY <1>0, <1>1 DEF EffectsOK
<1>2. PICK m \in Messages :
        \/ \E status \in {"pending", "requires_approval"}, a \in Approvals \cup {None} :
             QueueOutboundMessage(m, status, a)
        \/ /\ \E status \in Pg!OutboxStatuses \ {"absent"}, due \in BOOLEAN :
                UpdateOutboundMessageStatus(m, status, due)
           /\ UNCHANGED inserted
        \/ ClaimOutboundMessageForSending(m) /\ UNCHANGED inserted
  BY DEF OutboxCall
<1> DEFINE old == outbox[m]
<1>3. CASE \E status \in {"pending", "requires_approval"}, a \in Approvals \cup {None} :
             QueueOutboundMessage(m, status, a)
  <2>1. PICK status \in {"pending", "requires_approval"}, a \in Approvals \cup {None} :
          QueueOutboundMessage(m, status, a)
    BY <1>3
  <2>2. CASE outbox[m].status = "absent"
    <3> DEFINE new == [status |-> status, approval |-> a, created |-> inserted,
                       attempts |-> 0, due |-> TRUE, stale |-> FALSE]
    <3>1. outbox' = [outbox EXCEPT ![m] = new] /\ inserted' = inserted + 1
      BY <2>1, <2>2 DEF QueueOutboundMessage
    <3>2. new \in Pg!OutboxRow /\ new.status # "absent"
      BY DEF Pg!OutboxRow, Pg!OutboxStatuses, Pg!DeliverableStatuses
    <3> HIDE DEF new
    <3>3. EffectsOK'
      BY <1>1, <3>1, <3>2
    <3>4. inserted' \in Nat
      BY <3>1
    <3>5. QED
      BY <3>3, <3>4
  <2>3. CASE outbox[m].status # "absent" /\ MayRetry(outbox[m])
    <3> DEFINE new == [old EXCEPT !.status = "pending", !.due = TRUE, !.stale = FALSE]
    <3>1. outbox' = [outbox EXCEPT ![m] = new] /\ inserted' = inserted
      BY <2>1, <2>3 DEF QueueOutboundMessage
    <3>2. new \in Pg!OutboxRow /\ new.status # "absent"
      BY <1>0 DEF Pg!OutboxRow, Pg!OutboxStatuses, Pg!DeliverableStatuses
    <3> HIDE DEF new
    <3>3. QED
      BY <1>1, <3>1, <3>2
  <2>4. CASE outbox[m].status # "absent" /\ ~MayRetry(outbox[m])
    BY <1>0, <2>1, <2>4 DEF QueueOutboundMessage, EffectsOK
  <2>5. QED
    BY <2>2, <2>3, <2>4
<1>4. CASE /\ \E status \in Pg!OutboxStatuses \ {"absent"}, due \in BOOLEAN :
                UpdateOutboundMessageStatus(m, status, due)
           /\ UNCHANGED inserted
  <2>1. PICK status \in Pg!OutboxStatuses \ {"absent"}, due \in BOOLEAN :
          UpdateOutboundMessageStatus(m, status, due)
    BY <1>4
  <2> DEFINE new == [old EXCEPT !.status = status, !.due = due, !.stale = FALSE]
  <2>2. outbox' = [outbox EXCEPT ![m] = new]
    BY <2>1 DEF UpdateOutboundMessageStatus
  <2>3. new \in Pg!OutboxRow /\ new.status # "absent"
    BY <1>0 DEF Pg!OutboxRow
  <2> HIDE DEF new
  <2>4. QED
    BY <1>1, <1>4, <2>2, <2>3
<1>5. CASE ClaimOutboundMessageForSending(m) /\ UNCHANGED inserted
  <2> DEFINE more == old.attempts + 1
             new == [old EXCEPT !.status = "sending", !.due = TRUE, !.stale = FALSE,
                                !.attempts = more]
  <2>1. outbox' = [outbox EXCEPT ![m] = new]
    BY <1>5 DEF ClaimOutboundMessageForSending
  <2>2. more \in Nat /\ "sending" \in Pg!OutboxStatuses
    BY <1>0 DEF Pg!OutboxRow, Pg!OutboxStatuses, Pg!LockedOutboxStatuses
  <2> HIDE DEF more
  <2>3. new \in Pg!OutboxRow /\ new.status # "absent"
    BY <1>0, <2>2 DEF Pg!OutboxRow
  <2> HIDE DEF new
  <2>4. QED
    BY <1>1, <1>5, <2>1, <2>3
<1>6. QED
  BY <1>2, <1>3, <1>4, <1>5

\* So is an approval.
LEMMA ApprovalCallKeeps ==
  ASSUME EffectsOK, ApprovalCall
  PROVE  EffectsOK'
<1>0. /\ approvals \in [Approvals -> Pg!ApprovalRow]
      /\ \A a \in Approvals : approvals[a] \in Pg!ApprovalRow
      /\ outbox' = outbox
  BY DEF EffectsOK, ApprovalCall
<1>1. ASSUME NEW a \in Approvals, NEW new \in Pg!ApprovalRow, new.status # "absent",
             approvals' = [approvals EXCEPT ![a] = new]
      PROVE  EffectsOK'
  BY <1>0, <1>1 DEF EffectsOK
<1>2. PICK a \in Approvals :
        \/ CreateApproval(a)
        \/ \E status \in Pg!DecisionStatuses : UpdateApprovalStatus(a, status)
        \/ \E m \in Messages : UpdateApprovalPayload(a, m)
        \/ ClaimApprovalExecution(a)
        \/ CompleteApprovalExecution(a)
        \/ FailApprovalExecution(a)
  BY DEF ApprovalCall
<1> DEFINE old == approvals[a]
<1>3. CASE CreateApproval(a)
  <2> DEFINE new == [status |-> "pending", execution |-> "not_applicable", link |-> None,
                     lapsed |-> FALSE, stale |-> FALSE]
  <2>1. approvals' = [approvals EXCEPT ![a] = new]
    BY <1>3 DEF CreateApproval
  <2>2. new \in Pg!ApprovalRow /\ new.status # "absent"
    BY DEF Pg!ApprovalRow, Pg!ApprovalStatuses, Pg!ExecutionStatuses
  <2> HIDE DEF new
  <2>3. QED
    BY <1>1, <2>1, <2>2
<1>4. ASSUME NEW status \in Pg!DecisionStatuses, UpdateApprovalStatus(a, status)
      PROVE  EffectsOK'
  <2> DEFINE arms == /\ status = "approved" /\ a \in CrossAppApprovals
                     /\ approvals[a].execution = "not_applicable"
             execution == IF arms THEN "pending" ELSE approvals[a].execution
             new == [old EXCEPT !.status = status, !.stale = FALSE, !.execution = execution]
  <2>1. approvals' = [approvals EXCEPT ![a] = new]
    BY <1>4 DEF UpdateApprovalStatus
  <2>2. execution \in Pg!ExecutionStatuses
    BY <1>0 DEF Pg!ApprovalRow, Pg!ExecutionStatuses
  <2> HIDE DEF execution
  <2>3. new \in Pg!ApprovalRow /\ new.status # "absent"
    BY <1>0, <2>2 DEF Pg!ApprovalRow, Pg!ApprovalStatuses, Pg!DecisionStatuses
  <2> HIDE DEF new
  <2>4. QED
    BY <1>1, <2>1, <2>3
<1>5. ASSUME NEW m \in Messages, UpdateApprovalPayload(a, m)
      PROVE  EffectsOK'
  <2> DEFINE new == [old EXCEPT !.link = m, !.stale = FALSE]
  <2>1. approvals' = [approvals EXCEPT ![a] = new]
    BY <1>5 DEF UpdateApprovalPayload
  <2>2. new \in Pg!ApprovalRow /\ new.status # "absent"
    BY <1>0, <1>5 DEF Pg!ApprovalRow, UpdateApprovalPayload
  <2> HIDE DEF new
  <2>3. QED
    BY <1>1, <2>1, <2>2
<1>6. ASSUME NEW execution \in Pg!ExecutionStatuses, approvals[a].status = "approved",
             SetExecution(a, execution)
      PROVE  EffectsOK'
  <2> DEFINE new == [old EXCEPT !.execution = execution, !.stale = FALSE]
  <2>1. approvals' = [approvals EXCEPT ![a] = new]
    BY <1>6 DEF SetExecution
  <2>2. new \in Pg!ApprovalRow /\ new.status # "absent"
    BY <1>0, <1>6 DEF Pg!ApprovalRow
  <2> HIDE DEF new
  <2>3. QED
    BY <1>1, <2>1, <2>2
<1>7. CASE ClaimApprovalExecution(a) \/ CompleteApprovalExecution(a) \/ FailApprovalExecution(a)
  BY <1>6, <1>7 DEF ClaimApprovalExecution, CompleteApprovalExecution, FailApprovalExecution,
    CanExecute, Pg!ExecutionStatuses
<1>8. QED
  BY <1>2, <1>3, <1>4, <1>5, <1>7

\* A request asks for the version of its document, and versions only grow.
LEMMA JobCallKeeps ==
  ASSUME JobsOK, JobCall
  PROVE  JobsOK'
<1> USE MemoryStoreAssumption
<1> DEFINE RowOK(r, docs) == r.status # "absent" =>
             r.document \in Documents /\ r.version <= docs[r.document].version
<1>0. /\ document \in [Documents -> Index!DocumentRow]
      /\ \A d \in Documents : document[d] \in Index!DocumentRow
      /\ chunkRows \in [Documents -> Index!Versions]
      /\ job \in [Index!JobIds -> Index!JobRow] /\ starts \in [Index!JobIds -> Nat]
      /\ \A j \in Index!JobIds : job[j] \in Index!JobRow /\ RowOK(job[j], document)
      /\ \A d \in Documents : document[d].version \in Nat
  BY DEF JobsOK, Index!StoreTypeOK, Index!DocumentRow, Index!Versions
<1>1. ASSUME NEW d \in Documents, NEW new \in Index!DocumentRow,
             document' = [document EXCEPT ![d] = new], document[d].version <= new.version
      PROVE  /\ document' \in [Documents -> Index!DocumentRow]
             /\ \A j \in Index!JobIds : RowOK(job[j], document')
  <2>1. \A e \in Documents :
          document[e].version <= document'[e].version /\ document'[e].version \in Nat
    BY <1>0, <1>1 DEF Index!DocumentRow, Index!Versions
  <2>2. ASSUME NEW j \in Index!JobIds, job[j].status # "absent"
        PROVE  job[j].version <= document'[job[j].document].version
    <3>1. job[j].version \in Nat
      BY <1>0 DEF Index!JobRow, Index!Versions
    <3>2. QED
      BY <1>0, <2>1, <2>2, <3>1
  <2>3. QED
    BY <1>0, <1>1, <2>2
<1>2. ASSUME NEW d \in Documents, NEW kind \in {"index", "delete"}, NEW v \in Index!Versions,
             PushRagJob(d, v, kind), document' \in [Documents -> Index!DocumentRow],
             \A j \in Index!JobIds : RowOK(job[j], document'), v <= document'[d].version,
             UNCHANGED <<chunkRows, starts>>
      PROVE  JobsOK'
  <2> DEFINE new == [document |-> d, version |-> v, kind |-> kind, status |-> "pending",
                     attempts |-> 0, due |-> TRUE, stale |-> FALSE]
  <2>1. PICK j \in Index!JobIds : job' = [job EXCEPT ![j] = new]
    BY <1>2 DEF PushRagJob
  <2>2. new \in Index!JobRow /\ RowOK(new, document')
    BY <1>2 DEF Index!JobRow, Index!ActiveStatuses
  <2> HIDE DEF new
  <2>3. job' \in [Index!JobIds -> Index!JobRow]
    BY <1>0, <2>1, <2>2
  <2>4. \A i \in Index!JobIds : RowOK(job'[i], document')
    BY <1>0, <1>2, <2>1, <2>2
  <2>5. QED
    BY <1>0, <1>2, <2>3, <2>4 DEF JobsOK, Index!StoreTypeOK
<1>3. ASSUME NEW j \in Index!JobIds, NEW new \in Index!JobRow, job[j].status # "absent",
             new.document = job[j].document, new.version = job[j].version,
             job' = [job EXCEPT ![j] = new], starts' \in [Index!JobIds -> Nat],
             UNCHANGED <<document, chunkRows>>
      PROVE  JobsOK'
  <2>1. job' \in [Index!JobIds -> Index!JobRow]
    BY <1>0, <1>3
  <2>2. \A i \in Index!JobIds : RowOK(job'[i], document)
    BY <1>0, <1>3
  <2>3. QED
    BY <1>0, <1>3, <2>1, <2>2 DEF JobsOK, Index!StoreTypeOK
<1>4. ASSUME NEW d \in Documents, WriteIndexed(d)
      PROVE  JobsOK'
  <2> DEFINE old == document[d]
             more == old.version + 1
             new == [old EXCEPT !.version = more, !.indexed = FALSE]
  <2>1. /\ document' = [document EXCEPT ![d] = new] /\ old.version < MaxVersion
        /\ PushRagJob(d, more, "index") /\ UNCHANGED <<chunkRows, starts>>
    BY <1>4 DEF WriteIndexed
  <2>2. old.version \in Nat /\ more \in Index!Versions /\ old.version <= more /\ more <= more
    BY <1>0, <2>1 DEF Index!Versions
  <2> HIDE DEF more
  <2>3. new \in Index!DocumentRow /\ new.version = more
    BY <1>0, <2>2 DEF Index!DocumentRow
  <2> HIDE DEF new
  <2>4. /\ document' \in [Documents -> Index!DocumentRow]
        /\ \A j \in Index!JobIds : RowOK(job[j], document')
    BY <1>1, <2>1, <2>2, <2>3
  <2>5. document'[d] = new /\ more <= document'[d].version
    BY <1>0, <2>1, <2>2, <2>3
  <2> HIDE DEF old
  <2>6. QED
    BY <1>2, <2>1, <2>2, <2>4, <2>5
<1>5. ASSUME NEW d \in Documents, DeleteIndexed(d)
      PROVE  JobsOK'
  <2> DEFINE old == document[d]
             new == [old EXCEPT !.deleted = TRUE, !.indexed = FALSE]
  <2>1. /\ document' = [document EXCEPT ![d] = new]
        /\ PushRagJob(d, old.version, "delete") /\ UNCHANGED <<chunkRows, starts>>
    BY <1>5 DEF DeleteIndexed
  <2>2. /\ new \in Index!DocumentRow /\ new.version = old.version
        /\ old.version \in Nat /\ old.version \in Index!Versions
    BY <1>0 DEF Index!DocumentRow
  <2> HIDE DEF new
  <2>3. document[d].version <= new.version
    BY <2>2
  <2>4. /\ document' \in [Documents -> Index!DocumentRow]
        /\ \A j \in Index!JobIds : RowOK(job[j], document')
    BY <1>1, <2>1, <2>2, <2>3
  <2>5. document'[d] = new /\ old.version <= document'[d].version
    BY <1>0, <2>1, <2>2
  <2> HIDE DEF old
  <2>6. QED
    BY <1>2, <2>1, <2>2, <2>4, <2>5
<1>6. ASSUME NEW d \in Documents, ReindexMarkdownPath(d)
      PROVE  JobsOK'
  <2>1. document[d].version \in Index!Versions /\ document[d].version <= document[d].version
    BY <1>0 DEF Index!DocumentRow
  <2>2. /\ PushRagJob(d, document[d].version, "index") /\ document' = document
        /\ UNCHANGED <<chunkRows, starts>>
    BY <1>6 DEF ReindexMarkdownPath
  <2>3. QED
    BY <1>0, <1>2, <2>1, <2>2
<1>7. ASSUME NEW d \in Documents, NEW v \in Index!Versions, ReplaceDocumentChunks(d, v)
      PROVE  JobsOK'
  <2> DEFINE old == document[d]
             indexed == IF v = 0 THEN old.indexedVersion ELSE v
             new == [old EXCEPT !.indexed = TRUE, !.indexedVersion = indexed]
  <2>1. /\ document' = [document EXCEPT ![d] = new] /\ UNCHANGED <<job, starts>>
        /\ chunkRows' = [chunkRows EXCEPT ![d] = v]
    BY <1>7 DEF ReplaceDocumentChunks
  <2>2. indexed \in Index!Versions
    BY <1>0 DEF Index!DocumentRow
  <2> HIDE DEF indexed
  <2>3. new \in Index!DocumentRow /\ new.version = old.version /\ old.version \in Nat
    BY <1>0, <2>2 DEF Index!DocumentRow
  <2> HIDE DEF new
  <2>4. document[d].version <= new.version
    BY <2>3
  <2>5. /\ document' \in [Documents -> Index!DocumentRow]
        /\ \A j \in Index!JobIds : RowOK(job[j], document')
    BY <1>1, <2>1, <2>3, <2>4
  <2>6. chunkRows' \in [Documents -> Index!Versions]
    BY <1>0, <2>1
  <2>7. QED
    BY <1>0, <2>1, <2>5, <2>6 DEF JobsOK, Index!StoreTypeOK
<1>8. ASSUME NEW limit, ClaimRagIndexJobs(limit)
      PROVE  JobsOK'
  <2> DEFINE more(j) == job[j].attempts + 1
             claimed(j) == [job[j] EXCEPT !.status = "claimed", !.attempts = more(j),
                                          !.stale = FALSE]
  <2>1. PICK ids \in SUBSET Index!JobIds :
          /\ \A j \in ids : Ready(j)
          /\ job' = [j \in Index!JobIds |-> IF j \in ids THEN claimed(j) ELSE job[j]]
    BY <1>8 DEF ClaimRagIndexJobs
  <2>2. ASSUME NEW j \in Index!JobIds
        PROVE  /\ claimed(j) \in Index!JobRow /\ claimed(j).document = job[j].document
               /\ claimed(j).version = job[j].version
    <3>1. more(j) \in Nat
      BY <1>0 DEF Index!JobRow
    <3> HIDE DEF more
    <3>2. QED
      BY <1>0, <3>1 DEF Index!JobRow, Index!ActiveStatuses
  <2> HIDE DEF claimed
  <2>3. job' \in [Index!JobIds -> Index!JobRow]
    BY <1>0, <2>1, <2>2
  <2>4. ASSUME NEW j \in Index!JobIds
        PROVE  RowOK(job'[j], document)
    <3>1. CASE j \in ids
      <4>1. job[j].status # "absent"
        BY <2>1, <3>1 DEF Ready, Claimed
      <4>2. QED
        BY <1>0, <2>1, <2>2, <3>1, <4>1
    <3>2. CASE j \notin ids
      BY <1>0, <2>1, <3>2
    <3>3. QED
      BY <3>1, <3>2
  <2>5. UNCHANGED <<document, chunkRows, starts>>
    BY <1>8 DEF ClaimRagIndexJobs
  <2>6. QED
    BY <1>0, <2>3, <2>4, <2>5 DEF JobsOK, Index!StoreTypeOK
<1>9. ASSUME NEW j \in Index!JobIds, RetryRagIndexJob(j)
      PROVE  JobsOK'
  <2> DEFINE old == job[j]
             new == [old EXCEPT !.status = "pending", !.attempts = 0, !.due = TRUE,
                                !.stale = FALSE]
  <2>1. /\ job' = [job EXCEPT ![j] = new] /\ job[j].status # "absent"
        /\ UNCHANGED <<document, chunkRows>>
    BY <1>9 DEF RetryRagIndexJob
  <2>2. starts' \in [Index!JobIds -> Nat]
    BY <1>0, <1>9 DEF RetryRagIndexJob
  <2>3. new \in Index!JobRow /\ new.document = job[j].document /\ new.version = job[j].version
    BY <1>0 DEF Index!JobRow, Index!ActiveStatuses
  <2> HIDE DEF new
  <2>4. QED
    BY <1>3, <2>1, <2>2, <2>3
<1>10. ASSUME NEW j \in Index!JobIds, NEW status \in {"completed", "pending", "dead"},
              EndRagIndexJob(j, status)
       PROVE  JobsOK'
  <2> DEFINE old == job[j]
             new == [old EXCEPT !.status = status, !.due = (status # "pending")]
  <2>1. /\ job' = [job EXCEPT ![j] = new] /\ job[j].status # "absent"
        /\ UNCHANGED <<document, chunkRows, starts>>
    BY <1>10 DEF EndRagIndexJob, Claimed
  <2>2. new \in Index!JobRow /\ new.document = job[j].document /\ new.version = job[j].version
    BY <1>0 DEF Index!JobRow, Index!ActiveStatuses
  <2> HIDE DEF new
  <2>3. QED
    BY <1>0, <1>3, <2>1, <2>2
<1>11. ASSUME NEW j \in Index!JobIds, AgeJob(j)
       PROVE  JobsOK'
  <2>1. UNCHANGED <<document, chunkRows, starts>>
    BY <1>11 DEF AgeJob
  <2>2. PICK new \in {[job[j] EXCEPT !.stale = TRUE], [job[j] EXCEPT !.due = TRUE]} :
          job' = [job EXCEPT ![j] = new]
    BY <1>11 DEF AgeJob
  <2>3. /\ new \in Index!JobRow /\ new.status = job[j].status
        /\ new.document = job[j].document /\ new.version = job[j].version
    BY <1>0, <2>2 DEF Index!JobRow
  <2>4. job' \in [Index!JobIds -> Index!JobRow]
    BY <1>0, <2>2, <2>3
  <2>5. \A i \in Index!JobIds : RowOK(job'[i], document)
    BY <1>0, <2>2, <2>3
  <2>6. QED
    BY <1>0, <2>1, <2>4, <2>5 DEF JobsOK, Index!StoreTypeOK
<1>12. \A j \in Index!JobIds : job[j].version \in Index!Versions /\ 0 \in Index!Versions
  BY <1>0 DEF Index!JobRow, Index!Versions
<1>13. QED
  BY <1>4, <1>5, <1>6, <1>7, <1>8, <1>9, <1>10, <1>11, <1>12
    DEF JobCall, CompleteRagIndexJob, FailRagIndexJob, MarkRagIndexJobDead

\* A message is recorded once, and its handling has the fields it had.
LEMMA MailCallKeeps ==
  ASSUME MailOK, MailCall
  PROVE  MailOK'
<1>1. PICK id \in ProviderIds :
        \/ \E classification \in {"owner", "untrusted"} : RecordInboundMessage(id, classification)
        \/ \E action \in {"handled", "ignored"}, named \in BOOLEAN, link \in Links :
             UpdateInboundMessageHandling(id, action, named, link)
  BY DEF MailCall
<1>2. ASSUME NEW classification \in {"owner", "untrusted"}, RecordInboundMessage(id, classification)
      PROVE  MailOK'
  <2> DEFINE new == [Unhandled EXCEPT !.classification = classification]
  <2>1. Unhandled \in Handling
    BY DEF Unhandled, Handling, Links
  <2>2. new \in Handling
    BY <2>1 DEF Handling
  <2>3. inbox' = [k \in DOMAIN inbox \cup {id} |-> IF k = id THEN new ELSE inbox[k]]
    BY <1>2 DEF RecordInboundMessage
  <2> HIDE DEF new
  <2>4. inbox' \in [DOMAIN inbox \cup {id} -> Handling]
    BY <2>2, <2>3, InboxHolds
  <2>5. DOMAIN inbox \cup {id} \in SUBSET ProviderIds
    BY InboxHolds
  <2>6. QED
    BY <2>4, <2>5 DEF MailOK
<1>3. ASSUME NEW action \in {"handled", "ignored"}, NEW named \in BOOLEAN, NEW link \in Links,
             UpdateInboundMessageHandling(id, action, named, link)
      PROVE  MailOK'
  <2> DEFINE old == inbox[id]
             kept == IF named THEN link ELSE old.link
             new == [old EXCEPT !.action = action, !.link = kept]
  <2>1. id \in DOMAIN inbox /\ inbox' = [inbox EXCEPT ![id] = new] /\ old \in Handling
    BY <1>3, InboxHolds DEF UpdateInboundMessageHandling
  <2>2. kept \in Links
    BY <2>1 DEF Handling
  <2> HIDE DEF kept
  <2>3. new \in Handling
    BY <2>1, <2>2 DEF Handling
  <2> HIDE DEF new
  <2>4. inbox' \in [DOMAIN inbox -> Handling]
    BY <2>1, <2>3, InboxHolds
  <2>5. QED
    BY <2>4, InboxHolds DEF MailOK
<1>4. QED
  BY <1>1, <1>2, <1>3

\* A behaviour is about one part of the store and leaves the others as they are.
LEMMA StoreInvHolds == Spec => [](StoreInv /\ inserted \in Nat)
<1>1. Init => StoreInv /\ inserted \in Nat
  <2> SUFFICES ASSUME Init PROVE StoreInv /\ inserted \in Nat
    OBVIOUS
  <2> USE MemoryStoreAssumption
  <2>1. EffectsOK
    BY DEF Init, Pg!StoreInit, EffectsOK, Pg!OutboxRow, Pg!NoOutboxRow, Pg!OutboxStatuses,
      Pg!ApprovalRow, Pg!NoApprovalRow, Pg!ApprovalStatuses, Pg!ExecutionStatuses
  <2>2. JobsOK
    BY DEF Init, Index!StoreInit, JobsOK, Index!StoreTypeOK, Index!DocumentRow, Index!Versions,
      Index!JobRow, Index!NoJobRow
  <2>3. MailOK
    <3>1. inbox \in [{} -> Handling] /\ {} \in SUBSET ProviderIds
      BY DEF Init
    <3>2. QED
      BY <3>1 DEF MailOK
  <2>4. QED
    BY <2>1, <2>2, <2>3 DEF Init, Pg!StoreInit, StoreInv
<1>2. StoreInv /\ inserted \in Nat /\ [Next]_vars => (StoreInv /\ inserted \in Nat)'
  <2> SUFFICES ASSUME StoreInv, inserted \in Nat, [Next]_vars
               PROVE  StoreInv' /\ inserted' \in Nat
    OBVIOUS
  <2>1. UNCHANGED <<outbox, approvals>> => EffectsOK'
    BY DEF StoreInv, EffectsOK
  <2>2. UNCHANGED index => JobsOK'
    BY DEF StoreInv, JobsOK, index, Index!StoreTypeOK
  <2>3. UNCHANGED inbox => MailOK'
    BY DEF StoreInv, MailOK
  <2>4. CASE OutboxCall
    BY <2>2, <2>3, <2>4, OutboxCallKeeps DEF StoreInv, OutboxCall
  <2>5. CASE ApprovalCall
    BY <2>2, <2>3, <2>5, ApprovalCallKeeps DEF StoreInv, ApprovalCall
  <2>6. CASE JobCall
    BY <2>1, <2>3, <2>6, JobCallKeeps DEF StoreInv, JobCall, effects
  <2>7. CASE MailCall
    BY <2>1, <2>2, <2>7, MailCallKeeps DEF StoreInv, MailCall, effects
  <2>8. CASE DocumentCall
    BY <2>1, <2>2, <2>3, <2>8 DEF StoreInv, DocumentCall, effects
  <2>9. CASE UNCHANGED vars
    BY <2>1, <2>2, <2>3, <2>9 DEF StoreInv, vars, index
  <2>10. QED
    BY <2>4, <2>5, <2>6, <2>7, <2>8, <2>9 DEF Next
<1>3. QED
  BY <1>1, <1>2, PTL DEF Spec

\* Whatever the store in memory does to its maps PostgreSQL does to the rows, after
\* any calls and for any rows, jobs and messages, but for an index job that is asked
\* for twice: what the tests establish of an operation holds of the one in
\* production.
THEOREM CallsAreThoseOfPostgres == Spec => CallsAgree
<1>1. StoreInv => OutboxAgrees /\ ApprovalsAgree /\ JobsAgree /\ MailAgrees
  BY OutboxCallsAgree, ApprovalCallsAgree, JobCallsAgree, MailCallsAgree DEF StoreInv
<1>2. QED
  BY <1>1, StoreInvHolds, PTL DEF CallsAgree

\* After the same calls both stores hold the same documents, versions and ids, for any
\* paths and texts, until PostgreSQL refuses a path whose row is still there.
THEOREM StoresHoldTheSame == Spec => []DocumentsAgree
<1>1. Init => LibraryInv
  <2> SUFFICES ASSUME Init PROVE LibraryInv
    OBVIOUS
  <2>1. pgDocs = NoDocuments /\ memDocs = NoDocuments
    BY DEF Init
  <2>2. NoDocuments \in Library /\ \A p \in Paths : NoDocuments[p].state = "absent"
    BY DEF NoDocuments, NoDocument, Library, Row
  <2>3. Present(pgDocs) = {}
    BY <2>1, <2>2 DEF Present
  <2>4. QED
    BY <2>1, <2>2, <2>3, FS_EmptySet DEF LibraryInv, Agrees
<1>2. LibraryInv /\ [Next]_vars => LibraryInv'
  <2>1. UNCHANGED library /\ LibraryInv => LibraryInv'
    BY DEF library, LibraryInv, Present
  <2>2. [Next]_vars => DocumentCall \/ UNCHANGED library
    BY DEF Next, OutboxCall, ApprovalCall, JobCall, MailCall, vars, library
  <2>3. QED
    BY <2>1, <2>2, DocumentCallKeeps
<1>3. LibraryInv => DocumentsAgree
  BY DEF LibraryInv, DocumentsAgree, Agrees
<1>4. QED
  BY <1>1, <1>2, <1>3, PTL DEF Spec
=============================================================================
