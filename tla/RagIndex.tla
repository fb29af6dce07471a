----------------------------- MODULE RagIndex -----------------------------
(***************************************************************************)
(* The RAG worker (api/src/ragWorker.ts, api/src/rag/indexer.ts) between   *)
(* the document store and the Qdrant collection of a user: it claims index *)
(* jobs, replaces the vectors of a document batch by batch, then its chunk *)
(* rows, and records what came of the job.  Writers, the administrator and *)
(* the end of the process may come in at every await.                      *)
(*                                                                         *)
(* Qdrant is a set of points: each stands for one upsert batch of chunks   *)
(* of a version, since a point id is made of document, version and chunk.  *)
(* A request that was performed but not acknowledged is a step followed by *)
(* JobFails or Crash.                                                      *)
(***************************************************************************)
EXTENDS DocumentStore

CONSTANTS
  Indexers,      \* RAG worker processes
  Batches,       \* upsert batches a document needs
  BatchSize,     \* RAG_INDEX_BATCH_SIZE: jobs claimed by a tick
  MaxAttempts,   \* MAX_RAG_JOB_ATTEMPTS
  MaxFailures    \* bound: failed jobs and crashes

ASSUME RagAssumption ==
  /\ Batches \in Nat
  /\ BatchSize \in Nat
  /\ MaxAttempts \in Nat \ {0}
  /\ MaxFailures \in Nat

VARIABLES
  points,     \* the points Qdrant holds for each document
  indexer,    \* what each process keeps in memory
  failures

vars == <<storeVars, points, indexer, failures>>

Point == Versions \X (1..Batches)
PointsOf(v) == {v} \X (1..Batches)

IndexerPoints ==
  {"idle", "loading", "clearing", "upserting", "persisting",
   "erasing", "forgetting", "completing"}

\* todo: claimed jobs not begun; current: the job at hand, 0 for none; version:
\* of the source it has loaded; batch: the next one to upsert.
Memory ==
  [at : IndexerPoints, todo : SUBSET JobIds, current : JobIds \cup {0},
   version : Versions, batch : 1..(Batches + 1)]

AtRest == [at |-> "idle", todo |-> {}, current |-> 0, version |-> 0, batch |-> 1]

TypeOK ==
  /\ StoreTypeOK
  /\ points \in [Documents -> SUBSET Point]
  /\ indexer \in [Indexers -> Memory]
  /\ failures \in 0..MaxFailures

Init ==
  /\ StoreInit
  /\ points = [d \in Documents |-> {}]
  /\ indexer = [x \in Indexers |-> AtRest]
  /\ failures = 0

-----------------------------------------------------------------------------
At(x, point) == indexer[x].at = point
Current(x) == indexer[x].current
CurrentJob(x) == job[Current(x)]
CurrentDocument(x) == CurrentJob(x).document
Goto(x, point) == indexer' = [indexer EXCEPT ![x].at = point]
Holds(x, j) == j = Current(x) \/ j \in indexer[x].todo

\* Done with the job at hand: on to the next one claimed.
DropJob(x) == indexer' = [indexer EXCEPT ![x] = [AtRest EXCEPT !.todo = indexer[x].todo]]

\* A tick, if Qdrant reports healthy.
Claim(x) ==
  /\ At(x, "idle") /\ indexer[x].todo = {}
  /\ ClaimBatch(BatchSize) # {}
  /\ ClaimJobs(ClaimBatch(BatchSize))
  /\ indexer' = [indexer EXCEPT ![x].todo = ClaimBatch(BatchSize)]
  /\ UNCHANGED <<document, chunkRows, starts, points>>

\* Mutant of MayStart: a job that killed its worker is begun forever.
MayStart_Always(j) == TRUE

MayStart(j) == job[j].attempts <= MaxAttempts

\* UPDATE ... RETURNING gives the claimed jobs in any order.
BeginJob(x, j) ==
  /\ At(x, "idle") /\ j \in indexer[x].todo
  /\ MayStart(j)
  /\ starts' = [starts EXCEPT ![j] = @ + 1]
  /\ indexer' = [indexer EXCEPT ![x].todo = @ \ {j}, ![x].current = j,
                   ![x].at = IF job[j].kind = "delete" THEN "erasing" ELSE "loading"]
  /\ UNCHANGED <<document, chunkRows, job, points>>

ExceedAttempts(x, j) ==
  /\ At(x, "idle") /\ j \in indexer[x].todo
  /\ ~MayStart(j)
  /\ SetJob(j, "dead")
  /\ indexer' = [indexer EXCEPT ![x].todo = @ \ {j}]
  /\ UNCHANGED <<document, chunkRows, starts, points>>

\* getMarkdownDocumentById finds the requested version or nothing.
LoadSource(x) ==
  /\ At(x, "loading")
  /\ IF IsCurrent(CurrentDocument(x), CurrentJob(x).version)
     THEN indexer' = [indexer EXCEPT ![x].at = "clearing", ![x].version = CurrentJob(x).version]
     ELSE Goto(x, "completing")
  /\ UNCHANGED <<storeVars, points>>

\* Mutant of OldPoints: only the points about to be written are deleted.
OldPoints_SameVersion(x) == points[CurrentDocument(x)] \cap PointsOf(indexer[x].version)

OldPoints(x) == points[CurrentDocument(x)]

ClearPoints(x) ==
  /\ At(x, "clearing")
  /\ points' = [points EXCEPT ![CurrentDocument(x)] = @ \ OldPoints(x)]
  /\ Goto(x, IF Batches = 0 THEN "persisting" ELSE "upserting")
  /\ UNCHANGED storeVars

LastBatch(x) == indexer[x].batch = Batches

UpsertBatch(x) ==
  /\ At(x, "upserting")
  /\ points' = [points EXCEPT
                  ![CurrentDocument(x)] = @ \cup {<<indexer[x].version, indexer[x].batch>>}]
  /\ indexer' = [indexer EXCEPT ![x].batch = @ + 1,
                   ![x].at = IF LastBatch(x) THEN "persisting" ELSE "upserting"]
  /\ UNCHANGED storeVars

PersistChunks(x) ==
  /\ At(x, "persisting")
  /\ ReplaceChunks(CurrentDocument(x), indexer[x].version)
  /\ Goto(x, "completing")
  /\ UNCHANGED <<job, starts, points>>

ErasePoints(x) ==
  /\ At(x, "erasing")
  /\ points' = [points EXCEPT ![CurrentDocument(x)] = {}]
  /\ Goto(x, "forgetting")
  /\ UNCHANGED storeVars

ForgetChunks(x) ==
  /\ At(x, "forgetting")
  /\ RemoveChunks(CurrentDocument(x))
  /\ Goto(x, "completing")
  /\ UNCHANGED <<job, starts, points>>

CompleteJob(x) ==
  /\ At(x, "completing")
  /\ SetJob(Current(x), "completed")
  /\ DropJob(x)
  /\ UNCHANGED <<document, chunkRows, starts, points>>

IndexerStep(x) ==
  /\ \/ Claim(x)
     \/ \E j \in JobIds : BeginJob(x, j) \/ ExceedAttempts(x, j)
     \/ LoadSource(x)
     \/ ClearPoints(x)
     \/ UpsertBatch(x)
     \/ PersistChunks(x)
     \/ ErasePoints(x)
     \/ ForgetChunks(x)
     \/ CompleteJob(x)
  /\ UNCHANGED failures

-----------------------------------------------------------------------------
\* The catch of processRagIndexJobs.  Source limits and rejected input are not
\* retried, everything else is until the budget is spent.
JobFails(x, retryable) ==
  /\ Current(x) # 0
  /\ SetJob(Current(x),
            IF ~retryable \/ CurrentJob(x).attempts >= MaxAttempts THEN "dead" ELSE "pending")
  /\ DropJob(x)
  /\ UNCHANGED <<document, chunkRows, starts, points>>

\* The watchdog, the kernel, or an error the catch itself meets: claims are left.
Crash(x) ==
  /\ indexer[x] # AtRest
  /\ indexer' = [indexer EXCEPT ![x] = AtRest]
  /\ UNCHANGED <<storeVars, points>>

Fail ==
  /\ failures < MaxFailures
  /\ failures' = failures + 1
  /\ \E x \in Indexers : Crash(x) \/ \E retryable \in BOOLEAN : JobFails(x, retryable)

\* The watchdog ends a tick after 150 seconds, so a claim is five minutes old
\* only when nobody works on it any more.
ClaimExpires(j) ==
  /\ job[j].status = "claimed" /\ ~job[j].stale
  /\ \A x \in Indexers : ~Holds(x, j)
  /\ job' = [job EXCEPT ![j].stale = TRUE]

RetryComesDue(j) ==
  /\ job[j].status = "pending" /\ ~job[j].due
  /\ job' = [job EXCEPT ![j].due = TRUE]

TimePasses(j) ==
  /\ ClaimExpires(j) \/ RetryComesDue(j)
  /\ UNCHANGED <<document, chunkRows, starts, points, indexer, failures>>

Edit ==
  /\ \/ \E d \in Documents : WriteDocument(d) \/ DeleteDocument(d) \/ ReindexDocument(d)
     \/ \E j \in JobIds : RetryJob(j)
  /\ UNCHANGED <<points, indexer, failures>>

Next ==
  \/ Edit
  \/ \E x \in Indexers : IndexerStep(x)
  \/ Fail
  \/ \E j \in JobIds : TimePasses(j)

Spec == Init /\ [][Next]_vars

\* setInterval ticks for as long as the process lives, its container restarts it,
\* Qdrant becomes healthy again and the clock runs.
Fairness ==
  /\ \A x \in Indexers : WF_vars(IndexerStep(x))
  /\ \A j \in JobIds : WF_vars(TimePasses(j))

FairSpec == Spec /\ Fairness

-----------------------------------------------------------------------------
GivenUp(d, kind) ==
  \E j \in JobIds : job[j].status = "dead" /\ Asks(j, d, document[d].version, kind)

(***************************************************************************)
(* A document is never marked indexed for another version than it has, and *)
(* its chunk rows are those of that version: whatever attempt finishes     *)
(* after a newer write is dropped by replaceDocumentChunks.                *)
(***************************************************************************)
IndexedIsCurrent ==
  \A d \in Documents :
    Live(d) /\ document[d].indexed =>
      /\ document[d].indexedVersion = document[d].version
      /\ chunkRows[d] = document[d].version

(***************************************************************************)
(* Once a document is marked indexed and no job for its version is queued, *)
(* running or given up, Qdrant holds exactly the points of that version:   *)
(* none is missing and none is left of an older version, whatever attempts *)
(* were interrupted between the deletion and the last upsert.              *)
(***************************************************************************)
Settled(d) ==
  /\ Live(d) /\ document[d].indexed
  /\ ~\E j \in JobIds : ActiveJob(j) /\ Asks(j, d, document[d].version, "index")
  /\ ~GivenUp(d, "index")

IndexedIsSearchable ==
  \A d \in Documents : Settled(d) => points[d] = PointsOf(document[d].version)

(***************************************************************************)
(* A job is begun at most MAX_RAG_JOB_ATTEMPTS times after it was queued,  *)
(* even if it kills the worker each time before its catch can count.       *)
(***************************************************************************)
StartsBounded == \A j \in JobIds : starts[j] <= MaxAttempts

(***************************************************************************)
(* When the writes have stopped, the index of every document comes to rest *)
(* in agreement with it: a live document has exactly its points and is     *)
(* marked, a deleted one has none, unless the job was dead-lettered.       *)
(***************************************************************************)
Agrees(d) ==
  \/ document[d].version = 0
  \/ Live(d) /\ document[d].indexed /\ points[d] = PointsOf(document[d].version)
  \/ Live(d) /\ GivenUp(d, "index")
  \/ document[d].deleted /\ points[d] = {} /\ chunkRows[d] = 0
  \/ document[d].deleted /\ GivenUp(d, "delete")

IndexConverges == \A d \in Documents : <>[]Agrees(d)
=============================================================================
