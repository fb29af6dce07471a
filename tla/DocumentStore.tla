--------------------------- MODULE DocumentStore ---------------------------
(***************************************************************************)
(* The markdown documents of one user, the chunk rows derived from them    *)
(* and the queue of index jobs (api/src/domain/store.ts,                   *)
(* createPostgresStore).  A document and the job its write enqueues are    *)
(* written in one transaction, hence in one step.                          *)
(*                                                                         *)
(* Text and content hash of a document are abstracted to its version,      *)
(* which every write and every move increments.  The row of a deleted      *)
(* document keeps its path under UNIQUE (user_id, path), so an insert for  *)
(* that path fails: a deleted document stays deleted.                      *)
(* available_at and started_at are kept as `due` and `stale`: the job may  *)
(* be claimed, the claim is older than five minutes.                       *)
(***************************************************************************)
EXTENDS Naturals, FiniteSets

CONSTANTS
  Documents,    \* ids of documents
  NoDocument,   \* the document of a job not inserted yet
  MaxVersion,   \* bound: versions of a document
  MaxJobs       \* bound: jobs ever inserted

ASSUME DocumentAssumption ==
  /\ MaxVersion \in Nat
  /\ MaxJobs \in Nat
  /\ NoDocument \notin Documents

VARIABLES
  document,    \* markdown_documents; version 0 is a row not inserted yet
  chunkRows,   \* markdown_document_chunks: the version they were cut from, or 0
  job,         \* rag_index_jobs, numbered in the order of created_at
  starts       \* history: how often a job was worked on since it was last queued

storeVars == <<document, chunkRows, job, starts>>

Versions == 0..MaxVersion
JobIds == 1..MaxJobs

DocumentRow ==
  [version : Versions, deleted : BOOLEAN, indexed : BOOLEAN, indexedVersion : Versions]

ActiveStatuses == {"pending", "claimed"}
JobRow ==
  [document : Documents \cup {NoDocument}, version : Versions, kind : {"index", "delete"},
   status : {"absent", "completed", "dead"} \cup ActiveStatuses,
   attempts : Nat, due : BOOLEAN, stale : BOOLEAN]

NoJobRow ==
  [document |-> NoDocument, version |-> 0, kind |-> "index", status |-> "absent",
   attempts |-> 0, due |-> TRUE, stale |-> FALSE]

StoreTypeOK ==
  /\ document \in [Documents -> DocumentRow]
  /\ chunkRows \in [Documents -> Versions]
  /\ job \in [JobIds -> JobRow]
  /\ starts \in [JobIds -> Nat]

StoreInit ==
  /\ document = [d \in Documents |->
       [version |-> 0, deleted |-> FALSE, indexed |-> FALSE, indexedVersion |-> 0]]
  /\ chunkRows = [d \in Documents |-> 0]
  /\ job = [j \in JobIds |-> NoJobRow]
  /\ starts = [j \in JobIds |-> 0]

-----------------------------------------------------------------------------
Live(d) == document[d].version > 0 /\ ~document[d].deleted
ActiveJob(j) == job[j].status \in ActiveStatuses
Asks(j, d, v, kind) == job[j].document = d /\ job[j].version = v /\ job[j].kind = kind

NewJob(d, v, kind) ==
  [NoJobRow EXCEPT !.document = d, !.version = v, !.kind = kind, !.status = "pending"]

\* INSERT ... ON CONFLICT DO NOTHING against the unique index of active requests.
Enqueue(d, v, kind) ==
  IF \E j \in JobIds : ActiveJob(j) /\ Asks(j, d, v, kind)
  THEN UNCHANGED job
  ELSE \E j \in JobIds :
         /\ job[j].status = "absent"
         /\ \A i \in 1..(j - 1) : job[i].status # "absent"
         /\ job' = [job EXCEPT ![j] = NewJob(d, v, kind)]

\* writeMarkdownDocument, and each row of moveMarkdownPath.
WriteDocument(d) ==
  /\ ~document[d].deleted
  /\ document[d].version < MaxVersion
  /\ document' = [document EXCEPT ![d].version = @ + 1, ![d].indexed = FALSE]
  /\ Enqueue(d, document[d].version + 1, "index")
  /\ UNCHANGED <<chunkRows, starts>>

DeleteDocument(d) ==
  /\ Live(d)
  /\ document' = [document EXCEPT ![d].deleted = TRUE, ![d].indexed = FALSE]
  /\ Enqueue(d, document[d].version, "delete")
  /\ UNCHANGED <<chunkRows, starts>>

\* reindexMarkdownPath leaves the row as it is.
ReindexDocument(d) ==
  /\ Live(d)
  /\ Enqueue(d, document[d].version, "index")
  /\ UNCHANGED <<document, chunkRows, starts>>

\* The administrator gives a dead job a fresh budget, unless the same request is
\* active already.
RetryJob(j) ==
  /\ job[j].status = "dead"
  /\ ~\E i \in JobIds \ {j} :
        ActiveJob(i) /\ Asks(i, job[j].document, job[j].version, job[j].kind)
  /\ job' = [job EXCEPT ![j].status = "pending", ![j].attempts = 0,
                        ![j].due = TRUE, ![j].stale = FALSE]
  /\ starts' = [starts EXCEPT ![j] = 0]
  /\ UNCHANGED <<document, chunkRows>>

-----------------------------------------------------------------------------
\* Mutant of Claimable: the claim of a process that died is never taken over.
Claimable_PendingOnly(j) == job[j].status = "pending" /\ job[j].due

Claimable(j) ==
  \/ job[j].status = "pending" /\ job[j].due
  \/ job[j].status = "claimed" /\ job[j].stale

\* Up to limit of the claimable jobs, the oldest first.
ClaimBatch(limit) ==
  {j \in JobIds : Claimable(j) /\ Cardinality({i \in 1..j : Claimable(i)}) <= limit}

ClaimJobs(ids) ==
  job' = [j \in JobIds |->
            IF j \in ids
            THEN [job[j] EXCEPT !.status = "claimed", !.attempts = @ + 1, !.stale = FALSE]
            ELSE job[j]]

\* completeRagIndexJob, markRagIndexJobDead, failRagIndexJob with a retry time.
SetJob(j, status) ==
  job' = [job EXCEPT ![j].status = status, ![j].due = (status # "pending")]

\* Mutant of IsCurrent: a late result of an older version is taken.
IsCurrent_Unchecked(d, v) == Live(d)

IsCurrent(d, v) == Live(d) /\ document[d].version = v

\* replaceDocumentChunks for an indexed version, and without one for a deletion.
ReplaceChunks(d, v) ==
  IF IsCurrent(d, v)
  THEN /\ chunkRows' = [chunkRows EXCEPT ![d] = v]
       /\ document' = [document EXCEPT ![d].indexed = TRUE, ![d].indexedVersion = v]
  ELSE UNCHANGED <<chunkRows, document>>

RemoveChunks(d) ==
  /\ chunkRows' = [chunkRows EXCEPT ![d] = 0]
  /\ document' = [document EXCEPT ![d].indexed = TRUE]
=============================================================================
