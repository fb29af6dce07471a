----------------------------- MODULE RagProofs -----------------------------
(***************************************************************************)
(* Theorems about the index of documents: type correctness, no attempt     *)
(* beyond the budget and no late result taken, for any number of           *)
(* documents, jobs and RAG workers; that an indexed document is searchable *)
(* is proved for the one RAG worker that is deployed.                      *)
(***************************************************************************)
EXTENDS RagIndex, TLAPS

USE DocumentAssumption, RagAssumption

\* Where an index job has loaded its source, and where a deletion works.
Writing == {"clearing", "upserting", "persisting"}
Deleting == {"erasing", "forgetting"}

\* A document that has a deletion requested is deleted for good; nothing is
\* requested beyond the version a document has.
JobOK(j) ==
  IF job[j].status = "absent"
  THEN starts[j] = 0
  ELSE /\ job[j].document \in Documents
       /\ job[j].version <= document[job[j].document].version
       /\ job[j].kind = "delete" => document[job[j].document].deleted
       /\ starts[j] <= job[j].attempts
       /\ starts[j] <= MaxAttempts

JobInv == \A j \in JobIds : JobOK(j)

\* A job that is held is claimed, and nobody else holds it; it was claimed once
\* more than it was begun.
HoldInv ==
  /\ \A x \in Indexers, j \in JobIds :
       Holds(x, j) => job[j].status = "claimed" /\ ~job[j].stale
  /\ \A x \in Indexers, y \in Indexers, j \in JobIds : Holds(x, j) /\ Holds(y, j) => x = y
  /\ \A x \in Indexers : Current(x) \notin indexer[x].todo
  /\ \A x \in Indexers : \A j \in indexer[x].todo : starts[j] < job[j].attempts

\* What an indexer has at hand at each point.
PointOK(x) ==
  /\ At(x, "idle") <=> Current(x) = 0
  /\ At(x, "upserting") => indexer[x].batch <= Batches
  /\ indexer[x].at \in Deleting => CurrentJob(x).kind = "delete"
  /\ indexer[x].at \in Writing \cup {"loading"} => CurrentJob(x).kind = "index"
  /\ indexer[x].at \in Writing => indexer[x].version = CurrentJob(x).version
  /\ indexer[x].at \in {"idle", "loading", "clearing"} => indexer[x].batch = 1

PointInv == \A x \in Indexers : PointOK(x)

RagInv == TypeOK /\ JobInv /\ HoldInv /\ PointInv

\* The points of a document while an indexer works on it, if there is one indexer.
WorkOK(x) ==
  /\ At(x, "upserting") =>
       points[CurrentDocument(x)] = {indexer[x].version} \X (1..(indexer[x].batch - 1))
  /\ At(x, "persisting") => points[CurrentDocument(x)] = PointsOf(indexer[x].version)
  /\ /\ At(x, "completing") /\ CurrentJob(x).kind = "index" /\ Live(CurrentDocument(x))
     /\ CurrentJob(x).version = document[CurrentDocument(x)].version
     => points[CurrentDocument(x)] = PointsOf(CurrentJob(x).version)
  /\ /\ indexer[x].at \in Writing /\ Live(CurrentDocument(x))
     /\ indexer[x].version # document[CurrentDocument(x)].version
     => ~document[CurrentDocument(x)].indexed

SearchInv == IndexedIsSearchable /\ \A x \in Indexers : WorkOK(x)

\* The deployment has one RAG worker (docker-compose.yml).
OneIndexer == \A x, y \in Indexers : x = y

LEMMA InitRagInv == Init => RagInv
<1> SUFFICES ASSUME Init PROVE RagInv
  OBVIOUS
<1> USE DEF Init, StoreInit
<1>1. TypeOK
  BY DEF TypeOK, StoreTypeOK, DocumentRow, JobRow, NoJobRow, Versions, ActiveStatuses,
         Memory, AtRest, IndexerPoints, JobIds
<1>2. JobInv
  BY DEF JobInv, JobOK, NoJobRow
<1>3. HoldInv
  BY DEF HoldInv, Holds, Current, AtRest, JobIds
<1>4. PointInv
  BY DEF PointInv, PointOK, At, Current, AtRest, Deleting, Writing
<1> QED BY <1>1, <1>2, <1>3, <1>4 DEF RagInv

\* The types of the parts, as the cases below use them.
LEMMA Types ==
  ASSUME TypeOK
  PROVE  /\ document \in [Documents -> DocumentRow] /\ job \in [JobIds -> JobRow]
         /\ chunkRows \in [Documents -> Versions] /\ starts \in [JobIds -> Nat]
         /\ points \in [Documents -> SUBSET Point] /\ indexer \in [Indexers -> Memory]
         /\ \A j \in JobIds : job[j] \in JobRow
         /\ \A d \in Documents : document[d] \in DocumentRow
         /\ \A x \in Indexers : indexer[x] \in Memory
         /\ JobIds \subseteq Nat \ {0}
BY DEF TypeOK, StoreTypeOK, JobIds

\* A request adds at most one row, where there was none.
LEMMA EnqueueRows ==
  ASSUME TypeOK, NEW d \in Documents, NEW v \in Versions, NEW kind \in {"index", "delete"},
         Enqueue(d, v, kind)
  PROVE  /\ job' \in [JobIds -> JobRow]
         /\ \A j \in JobIds :
              \/ job'[j] = job[j]
              \/ job[j].status = "absent" /\ job'[j] = NewJob(d, v, kind)
<1> DEFINE row == NewJob(d, v, kind)
<1>1. row \in JobRow
  BY DEF NewJob, NoJobRow, JobRow, ActiveStatuses
<1>2. CASE UNCHANGED job
  BY <1>2, Types
<1>3. ASSUME NEW j \in JobIds, job[j].status = "absent", job' = [job EXCEPT ![j] = row]
      PROVE  /\ job' \in [JobIds -> JobRow]
             /\ \A i \in JobIds : \/ job'[i] = job[i]
                                  \/ job[i].status = "absent" /\ job'[i] = row
  <2> HIDE DEF row
  <2> QED BY <1>1, <1>3, Types
<1> QED BY <1>2, <1>3 DEF Enqueue

\* Writers change a document only forwards and leave the jobs that exist alone.
LEMMA EditRagInv ==
  ASSUME RagInv, Edit
  PROVE  RagInv'
<1>t. TypeOK /\ JobInv /\ HoldInv /\ PointInv /\ UNCHANGED <<points, indexer, failures>>
  BY DEF RagInv, Edit
<1>1. ASSUME NEW d \in Documents, NEW v \in Versions, NEW kind \in {"index", "delete"},
             Enqueue(d, v, kind), document' \in [Documents -> DocumentRow],
             \A e \in Documents : /\ document'[e].version >= document[e].version
                                  /\ document[e].deleted => document'[e].deleted,
             v <= document'[d].version, kind = "delete" => document'[d].deleted,
             UNCHANGED <<chunkRows, starts>>
      PROVE  RagInv'
  <2>e. /\ job' \in [JobIds -> JobRow]
        /\ \A j \in JobIds :
             \/ job'[j] = job[j]
             \/ job[j].status = "absent" /\ job'[j] = NewJob(d, v, kind)
    BY <1>1, <1>t, EnqueueRows
  <2>1. TypeOK'
    BY <1>1, <1>t, <2>e DEF TypeOK, StoreTypeOK
  <2>2. JobInv'
    <3> SUFFICES ASSUME NEW j \in JobIds PROVE JobOK(j)'
      BY DEF JobInv
    <3>1. CASE job'[j] = job[j]
      <4>1. job[j] \in JobRow /\ starts'[j] = starts[j]
        BY <1>1, <1>t, Types
      <4>2. job[j].document \in Documents =>
              /\ document[job[j].document].version \in Nat
              /\ document'[job[j].document].version \in Nat
        BY <1>1, <1>t, Types DEF DocumentRow, Versions
      <4> QED BY <3>1, <4>1, <4>2, <1>1, <1>t DEF JobInv, JobOK, JobRow, Versions
    <3>2. CASE job[j].status = "absent" /\ job'[j] = NewJob(d, v, kind)
      <4>1. /\ job'[j].status = "pending" /\ job'[j].document = d /\ job'[j].version = v
            /\ job'[j].kind = kind /\ job'[j].attempts = 0 /\ starts'[j] = 0
        BY <3>2, <1>1, <1>t DEF NewJob, NoJobRow, JobInv, JobOK
      <4> QED BY <4>1, <1>1 DEF JobOK
    <3> QED BY <3>1, <3>2, <2>e
  <2>3. \A x \in Indexers, j \in JobIds : Holds(x, j) => job'[j] = job[j]
    BY <2>e, <1>1, <1>t DEF HoldInv
  <2>4. \A x \in Indexers : Current(x) \in JobIds \cup {0} /\ indexer[x].todo \subseteq JobIds
    BY <1>t, Types DEF Memory, Current
  <2>5. HoldInv'
    BY <2>3, <2>4, <1>1, <1>t DEF HoldInv, Holds, Current
  <2>6. PointInv'
    <3>1. \A x \in Indexers : ~At(x, "idle") => CurrentJob(x)' = CurrentJob(x)
      BY <2>3, <2>4, <1>t DEF PointInv, PointOK, Holds, Current, CurrentJob
    <3> QED BY <3>1, <1>t DEF PointInv, PointOK, Current, At, Writing, Deleting
  <2> QED BY <2>1, <2>2, <2>5, <2>6 DEF RagInv
<1>v. ASSUME NEW d \in Documents
      PROVE  /\ document[d].version \in Versions /\ document[d].version \in Nat
             /\ \A e \in Documents : document[e].version >= document[e].version
  BY <1>t, Types DEF DocumentRow, Versions
<1>2. ASSUME NEW d \in Documents, WriteDocument(d) PROVE RagInv'
  <2> DEFINE v == document[d].version + 1
  <2>1. v \in Versions /\ document' = [document EXCEPT ![d].version = v, ![d].indexed = FALSE]
    BY <1>2, <1>v DEF WriteDocument, Versions
  <2>2. document' \in [Documents -> DocumentRow]
    BY <2>1, <1>t, Types DEF DocumentRow
  <2>3. /\ \A e \in Documents : /\ document'[e].version >= document[e].version
                                /\ document[e].deleted => document'[e].deleted
        /\ v <= document'[d].version
    BY <2>1, <1>v, <1>t, Types DEF DocumentRow, Versions
  <2>4. Enqueue(d, v, "index") /\ UNCHANGED <<chunkRows, starts>>
    BY <1>2 DEF WriteDocument
  <2> HIDE DEF v
  <2> QED BY <2>1, <2>2, <2>3, <2>4, <1>1
<1>3. ASSUME NEW d \in Documents, DeleteDocument(d) PROVE RagInv'
  <2> DEFINE v == document[d].version
  <2>1. document' = [document EXCEPT ![d].deleted = TRUE, ![d].indexed = FALSE]
    BY <1>3 DEF DeleteDocument
  <2>2. document' \in [Documents -> DocumentRow]
    BY <2>1, <1>t, Types DEF DocumentRow
  <2>3. /\ \A e \in Documents : /\ document'[e].version >= document[e].version
                                /\ document[e].deleted => document'[e].deleted
        /\ v <= document'[d].version /\ document'[d].deleted
    BY <2>1, <1>v, <1>t, Types DEF DocumentRow, Versions
  <2>4. Enqueue(d, v, "delete") /\ UNCHANGED <<chunkRows, starts>> /\ v \in Versions
    BY <1>3, <1>v DEF DeleteDocument
  <2> HIDE DEF v
  <2> QED BY <2>2, <2>3, <2>4, <1>1
<1>4. ASSUME NEW d \in Documents, ReindexDocument(d) PROVE RagInv'
  <2> DEFINE v == document[d].version
  <2>1. Enqueue(d, v, "index") /\ UNCHANGED <<document, chunkRows, starts>> /\ v \in Versions
    BY <1>4, <1>v DEF ReindexDocument
  <2>2. document' \in [Documents -> DocumentRow] /\ v <= document'[d].version
    BY <2>1, <1>v, <1>t, Types DEF Versions
  <2>3. \A e \in Documents : /\ document'[e].version >= document[e].version
                             /\ document[e].deleted => document'[e].deleted
    BY <2>1, <1>v
  <2> HIDE DEF v
  <2> QED BY <2>1, <2>2, <2>3, <1>1
<1>5. ASSUME NEW j \in JobIds, RetryJob(j) PROVE RagInv'
  <2> DEFINE row == [job[j] EXCEPT !.status = "pending", !.attempts = 0, !.due = TRUE,
                                   !.stale = FALSE]
  <2>1. row \in JobRow /\ job[j] \in JobRow
    BY <1>t, Types DEF JobRow, ActiveStatuses
  <2>2. job' = [job EXCEPT ![j] = row] /\ starts' = [starts EXCEPT ![j] = 0]
    BY <1>5, <1>t, Types DEF RetryJob, JobRow
  <2>3. UNCHANGED <<document, chunkRows>> /\ job[j].status = "dead"
    BY <1>5 DEF RetryJob
  <2>4. TypeOK'
    <3> HIDE DEF row
    <3> QED BY <2>1, <2>2, <2>3, <1>t, Types DEF TypeOK, StoreTypeOK
  <2>5. JobInv'
    BY <2>1, <2>2, <2>3, <1>t, Types DEF JobInv, JobOK, JobRow
  <2>6. \A x \in Indexers : ~Holds(x, j)
    BY <2>3, <1>t DEF HoldInv
  <2>7. \A x \in Indexers, i \in JobIds : Holds(x, i) => job'[i] = job[i] /\ starts'[i] = starts[i]
    BY <2>2, <2>6, <1>t, Types
  <2>8. \A x \in Indexers : Current(x) \in JobIds \cup {0} /\ indexer[x].todo \subseteq JobIds
    BY <1>t, Types DEF Memory, Current
  <2>9. HoldInv'
    BY <2>7, <2>8, <1>t DEF HoldInv, Holds, Current
  <2>10. PointInv'
    <3>1. \A x \in Indexers : ~At(x, "idle") => CurrentJob(x)' = CurrentJob(x)
      BY <2>7, <2>8, <1>t DEF PointInv, PointOK, Holds, Current, CurrentJob
    <3> QED BY <3>1, <1>t DEF PointInv, PointOK, Current, At, Writing, Deleting
  <2> QED BY <2>4, <2>5, <2>9, <2>10 DEF RagInv
<1> QED BY <1>2, <1>3, <1>4, <1>5 DEF Edit

-----------------------------------------------------------------------------
\* What an indexer holds.
LEMMA Holding ==
  ASSUME RagInv, NEW x \in Indexers
  PROVE  /\ indexer[x] \in Memory /\ indexer[x].todo \subseteq JobIds
         /\ ~At(x, "idle") => /\ Current(x) \in JobIds /\ CurrentJob(x) \in JobRow
                              /\ CurrentJob(x).status = "claimed"
                              /\ CurrentDocument(x) \in Documents
                              /\ document[CurrentDocument(x)] \in DocumentRow
                              /\ CurrentJob(x).kind = "delete" =>
                                   document[CurrentDocument(x)].deleted
<1>1. indexer[x] \in Memory /\ indexer[x].todo \subseteq JobIds
  BY Types DEF RagInv, Memory
<1>2. ASSUME ~At(x, "idle") PROVE Current(x) \in JobIds
  BY <1>1, <1>2 DEF RagInv, PointInv, PointOK, Memory, Current
<1>3. ASSUME ~At(x, "idle")
      PROVE  CurrentJob(x) \in JobRow /\ CurrentJob(x).status = "claimed" /\ JobOK(Current(x))
  BY <1>2, <1>3, Types DEF RagInv, HoldInv, JobInv, Holds, CurrentJob, Current
<1> QED BY <1>1, <1>2, <1>3, Types DEF RagInv, JobOK, CurrentJob, CurrentDocument

\* A step of the job at hand that leaves jobs alone.
LEMMA MoveRagInv ==
  ASSUME RagInv, NEW x \in Indexers, NEW mem \in Memory,
         indexer' = [indexer EXCEPT ![x] = mem],
         mem.todo = indexer[x].todo, mem.current = indexer[x].current,
         ~At(x, "idle"), mem.at # "idle",
         mem.at = "upserting" => mem.batch <= Batches,
         mem.at \in Deleting => CurrentJob(x).kind = "delete",
         mem.at \in Writing \cup {"loading"} => CurrentJob(x).kind = "index",
         mem.at \in Writing => mem.version = CurrentJob(x).version,
         mem.at \in {"loading", "clearing"} => mem.batch = 1,
         document' \in [Documents -> DocumentRow],
         \A d \in Documents : /\ document'[d].version = document[d].version
                              /\ document'[d].deleted = document[d].deleted,
         chunkRows' \in [Documents -> Versions], points' \in [Documents -> SUBSET Point],
         UNCHANGED <<job, starts, failures>>
  PROVE  RagInv'
<1>1. TypeOK'
  BY Types DEF RagInv, TypeOK, StoreTypeOK
<1>2. JobInv'
  BY DEF RagInv, JobInv, JobOK
<1>3. /\ indexer'[x] = mem
      /\ \A y \in Indexers : /\ y # x => indexer'[y] = indexer[y]
                             /\ indexer'[y].todo = indexer[y].todo
                             /\ indexer'[y].current = indexer[y].current
  BY Types DEF RagInv
<1>4. HoldInv'
  BY <1>3 DEF RagInv, HoldInv, Holds, Current
<1>5. PointInv'
  BY <1>3 DEF RagInv, PointInv, PointOK, At, Current, CurrentJob, Writing, Deleting
<1> QED BY <1>1, <1>2, <1>4, <1>5 DEF RagInv

LEMMA GotoRagInv ==
  ASSUME RagInv, NEW x \in Indexers, NEW point \in IndexerPoints \ {"idle"}, Goto(x, point),
         ~At(x, "idle"),
         point = "upserting" => indexer[x].batch <= Batches,
         point \in Deleting => CurrentJob(x).kind = "delete",
         point \in Writing \cup {"loading"} => CurrentJob(x).kind = "index",
         point \in Writing => indexer[x].version = CurrentJob(x).version,
         point \in {"loading", "clearing"} => indexer[x].batch = 1,
         document' \in [Documents -> DocumentRow],
         \A d \in Documents : /\ document'[d].version = document[d].version
                              /\ document'[d].deleted = document[d].deleted,
         chunkRows' \in [Documents -> Versions], points' \in [Documents -> SUBSET Point],
         UNCHANGED <<job, starts, failures>>
  PROVE  RagInv'
<1> DEFINE mem == [indexer[x] EXCEPT !.at = point]
<1>1. /\ mem \in Memory /\ mem.at = point /\ mem.todo = indexer[x].todo
      /\ mem.current = indexer[x].current /\ mem.batch = indexer[x].batch
      /\ mem.version = indexer[x].version
  BY Holding DEF Memory
<1>2. indexer' = [indexer EXCEPT ![x] = mem]
  BY Types DEF RagInv, Goto, Memory
<1> HIDE DEF mem
<1> QED BY <1>1, <1>2, MoveRagInv

\* Recording what came of a job changes its row only.
LEMMA SetJobRow ==
  ASSUME TypeOK, NEW j \in JobIds, NEW status \in {"pending", "completed", "dead"},
         SetJob(j, status)
  PROVE  /\ job' \in [JobIds -> JobRow]
         /\ \A i \in JobIds : i # j => job'[i] = job[i]
         /\ job'[j].document = job[j].document /\ job'[j].version = job[j].version
         /\ job'[j].kind = job[j].kind /\ job'[j].attempts = job[j].attempts
         /\ job'[j].status = status
<1> DEFINE row == [job[j] EXCEPT !.status = status, !.due = (status # "pending")]
<1>1. row \in JobRow /\ job[j] \in JobRow
  BY Types DEF JobRow, ActiveStatuses
<1>2. job' = [job EXCEPT ![j] = row]
  BY Types DEF SetJob
<1> QED BY <1>1, <1>2, Types DEF JobRow

\* A held job is recorded and let go.
LEMMA SettleRagInv ==
  ASSUME RagInv, NEW x \in Indexers, NEW j \in JobIds, Holds(x, j),
         NEW status \in {"pending", "completed", "dead"}, SetJob(j, status),
         NEW mem \in Memory, indexer' = [indexer EXCEPT ![x] = mem],
         mem.todo = indexer[x].todo \ {j}, mem.current = 0, mem.at = "idle", mem.batch = 1,
         UNCHANGED <<document, chunkRows, starts, points>>, failures' \in 0..MaxFailures
  PROVE  RagInv'
<1>1. /\ job' \in [JobIds -> JobRow]
      /\ \A i \in JobIds : i # j => job'[i] = job[i]
      /\ job'[j].document = job[j].document /\ job'[j].version = job[j].version
      /\ job'[j].kind = job[j].kind /\ job'[j].attempts = job[j].attempts
      /\ job'[j].status = status
  BY SetJobRow DEF RagInv
<1>2. /\ mem.todo = indexer[x].todo \ {j} /\ mem.current = 0
      /\ mem.at = "idle" /\ mem.batch = 1
  OBVIOUS
<1>3. TypeOK'
  BY <1>1, <1>2, Types DEF RagInv, TypeOK, StoreTypeOK
<1>4. job[j].status # "absent"
  BY DEF RagInv, HoldInv
<1>5. JobInv'
  BY <1>1, <1>4 DEF RagInv, JobInv, JobOK
<1>6. indexer'[x] = mem /\ \A y \in Indexers : y # x => indexer'[y] = indexer[y]
  BY Types DEF RagInv
<1>7. \A y \in Indexers, i \in JobIds : Holds(y, i)' => Holds(y, i) /\ i # j
  <2>1. 0 \notin JobIds
    BY DEF JobIds
  <2>2. \A i \in JobIds : Holds(x, i)' => Holds(x, i) /\ i # j
    BY <2>1, <1>2, <1>6 DEF Holds, Current
  <2>3. \A y \in Indexers, i \in JobIds : y # x /\ Holds(y, i)' => Holds(y, i) /\ i # j
    BY <1>6 DEF RagInv, HoldInv, Holds, Current
  <2> QED BY <2>2, <2>3
<1>8. HoldInv'
  <2>1. \A y \in Indexers : Current(y)' \notin indexer'[y].todo
    BY <1>2, <1>6, Holding DEF RagInv, HoldInv, Current, JobIds
  <2>2. \A y \in Indexers : \A i \in indexer'[y].todo : i \in indexer[y].todo /\ i \in JobIds
    BY <1>2, <1>6, Holding
  <2>3. \A y \in Indexers, i \in JobIds :
          Holds(y, i)' => job'[i].status = "claimed" /\ ~job'[i].stale
    BY <1>1, <1>7 DEF RagInv, HoldInv
  <2>4. \A y \in Indexers, z \in Indexers, i \in JobIds : Holds(y, i)' /\ Holds(z, i)' => y = z
    BY <1>7 DEF RagInv, HoldInv
  <2>5. \A y \in Indexers : \A i \in indexer'[y].todo : starts'[i] < job'[i].attempts
    <3> SUFFICES ASSUME NEW y \in Indexers, NEW i \in indexer'[y].todo
                 PROVE  starts'[i] < job'[i].attempts
      OBVIOUS
    <3>1. i \in indexer[y].todo /\ i \in JobIds /\ (i # j => job'[i] = job[i])
      BY <2>2, <1>1
    <3>2. job'[i].attempts = job[i].attempts
      BY <3>1, <1>1
    <3> QED BY <3>1, <3>2 DEF RagInv, HoldInv
  <2> QED BY <2>1, <2>3, <2>4, <2>5 DEF HoldInv
<1>9. PointInv'
  <2>1. \A y \in Indexers : y # x /\ ~At(y, "idle") => Current(y) \in JobIds /\ Current(y) # j
    BY Holding DEF RagInv, HoldInv, Holds
  <2>2. PointOK(x)'
    BY <1>2, <1>6 DEF PointOK, At, Current, Writing, Deleting
  <2>3. ASSUME NEW y \in Indexers, y # x PROVE PointOK(y)'
    <3>1. PointOK(y) /\ indexer'[y] = indexer[y]
      BY <2>3, <1>6 DEF RagInv, PointInv
    <3>2. ~At(y, "idle") => CurrentJob(y)' = CurrentJob(y)
      BY <2>1, <2>3, <3>1, <1>1 DEF CurrentJob, Current
    <3> QED BY <3>1, <3>2 DEF PointOK, At, Current, Writing, Deleting
  <2> QED BY <2>2, <2>3 DEF PointInv
<1> QED BY <1>3, <1>5, <1>8, <1>9 DEF RagInv

LEMMA DropRagInv ==
  ASSUME RagInv, NEW x \in Indexers, ~At(x, "idle"),
         NEW status \in {"pending", "completed", "dead"}, SetJob(Current(x), status),
         DropJob(x), UNCHANGED <<document, chunkRows, starts, points>>,
         failures' \in 0..MaxFailures
  PROVE  RagInv'
<1> DEFINE mem == [AtRest EXCEPT !.todo = indexer[x].todo]
<1>1. Current(x) \in JobIds /\ Holds(x, Current(x))
  BY Holding DEF Holds
<1>2. indexer[x].todo \ {Current(x)} = indexer[x].todo
  BY DEF RagInv, HoldInv
<1>3. /\ mem \in Memory /\ mem.todo = indexer[x].todo \ {Current(x)} /\ mem.current = 0
      /\ mem.at = "idle" /\ mem.batch = 1
  BY <1>2, Holding DEF AtRest, Memory, IndexerPoints, Versions
<1>4. indexer' = [indexer EXCEPT ![x] = mem]
  BY DEF DropJob
<1> HIDE DEF mem
<1> QED BY <1>1, <1>3, <1>4, SettleRagInv

\* A claim takes only jobs that nobody holds.
LEMMA ClaimRagInv ==
  ASSUME RagInv, NEW x \in Indexers, Claim(x), UNCHANGED failures
  PROVE  RagInv'
<1> DEFINE ids == ClaimBatch(BatchSize)
           mem == [indexer[x] EXCEPT !.todo = ids]
           row(j) == [job[j] EXCEPT !.status = "claimed", !.attempts = @ + 1, !.stale = FALSE]
<1>1. /\ ids \subseteq JobIds
      /\ \A j \in ids : Claimable(j) /\ job[j].status \in {"pending", "claimed"}
      /\ \A y \in Indexers, j \in ids : ~Holds(y, j)
  BY DEF ClaimBatch, Claimable, RagInv, HoldInv
<1>2. ASSUME NEW j \in JobIds
      PROVE  /\ job[j] \in JobRow
             /\ row(j) \in JobRow
             /\ row(j).status = "claimed" /\ ~row(j).stale
             /\ row(j).attempts = job[j].attempts + 1
             /\ row(j).document = job[j].document /\ row(j).version = job[j].version
             /\ row(j).kind = job[j].kind
  <2>1. job[j] \in JobRow
    BY Types DEF RagInv
  <2>2. job[j].attempts + 1 \in Nat
    BY <2>1 DEF JobRow
  <2> QED BY <2>1, <2>2 DEF JobRow, ActiveStatuses
<1>3. /\ job' \in [JobIds -> JobRow]
      /\ \A j \in JobIds \ ids : job'[j] = job[j]
      /\ \A j \in ids : job'[j] = row(j)
  BY <1>1, <1>2 DEF Claim, ClaimJobs
<1>4. /\ mem \in Memory /\ indexer' = [indexer EXCEPT ![x] = mem]
      /\ UNCHANGED <<document, chunkRows, starts, points>>
      /\ At(x, "idle") /\ indexer[x].todo = {}
  BY <1>1, Types DEF Claim, RagInv, Memory
<1>5. \A j \in ids : /\ job'[j].status = "claimed" /\ ~job'[j].stale
                     /\ job'[j].attempts = job[j].attempts + 1
                     /\ job'[j].document = job[j].document /\ job'[j].version = job[j].version
                     /\ job'[j].kind = job[j].kind
  <2> HIDE DEF row, ids
  <2> QED BY <1>1, <1>2, <1>3
<1>6. /\ indexer'[x] = mem /\ mem.todo = ids /\ mem.current = Current(x) /\ mem.at = "idle"
      /\ mem.batch = indexer[x].batch
      /\ \A y \in Indexers : y # x => indexer'[y] = indexer[y]
  BY <1>4, Types DEF RagInv, Memory, Current, At
<1> HIDE DEF ids, mem, row
<1>7. TypeOK'
  BY <1>3, <1>4, Types DEF RagInv, TypeOK, StoreTypeOK
<1>8. JobInv'
  <2> SUFFICES ASSUME NEW j \in JobIds PROVE JobOK(j)'
    BY DEF JobInv
  <2>1. JobOK(j) /\ job[j].attempts \in Nat /\ starts[j] \in Nat
    BY Types DEF RagInv, JobInv, JobRow
  <2>2. CASE j \in ids
    BY <2>1, <2>2, <1>1, <1>4, <1>5 DEF JobOK
  <2>3. CASE j \notin ids
    BY <2>1, <2>3, <1>3, <1>4 DEF JobOK
  <2> QED BY <2>2, <2>3
<1>9. HoldInv'
  <2>1. \A j \in JobIds : Holds(x, j)' <=> j \in ids
    <3>1. Current(x) = 0 /\ 0 \notin JobIds
      BY <1>4 DEF RagInv, PointInv, PointOK, JobIds
    <3> QED BY <3>1, <1>6 DEF Holds, Current
  <2>2. \A y \in Indexers, j \in JobIds : y # x => (Holds(y, j)' <=> Holds(y, j))
    BY <1>6 DEF Holds, Current
  <2>3. \A y \in Indexers, j \in JobIds :
          Holds(y, j)' => job'[j].status = "claimed" /\ ~job'[j].stale
    BY <2>1, <2>2, <1>1, <1>3, <1>5 DEF RagInv, HoldInv
  <2>4. \A y \in Indexers, z \in Indexers, j \in JobIds : Holds(y, j)' /\ Holds(z, j)' => y = z
    BY <2>1, <2>2, <1>1 DEF RagInv, HoldInv
  <2>5. \A y \in Indexers : Current(y)' \notin indexer'[y].todo
    <3>1. Current(x) = 0 /\ 0 \notin ids
      BY <1>1, <1>4 DEF RagInv, PointInv, PointOK, JobIds
    <3> QED BY <3>1, <1>6 DEF RagInv, HoldInv, Current
  <2>6. \A y \in Indexers : \A j \in indexer'[y].todo : starts'[j] < job'[j].attempts
    <3> SUFFICES ASSUME NEW y \in Indexers, NEW j \in indexer'[y].todo
                 PROVE  starts'[j] < job'[j].attempts
      OBVIOUS
    <3>1. CASE y = x
      <4>1. j \in ids /\ j \in JobIds
        BY <3>1, <1>1, <1>6
      <4>2. starts[j] <= job[j].attempts /\ starts[j] \in Nat /\ job[j].attempts \in Nat
        BY <4>1, <1>1, Types DEF RagInv, JobInv, JobOK, JobRow
      <4> QED BY <4>1, <4>2, <1>4, <1>5
    <3>2. CASE y # x
      <4>1. j \in indexer[y].todo /\ j \in JobIds /\ j \notin ids
        BY <3>2, <1>1, <1>6, Holding DEF Holds
      <4> QED BY <4>1, <1>3, <1>4 DEF RagInv, HoldInv
    <3> QED BY <3>1, <3>2
  <2> QED BY <2>3, <2>4, <2>5, <2>6 DEF HoldInv
<1>10. PointInv'
  <2> SUFFICES ASSUME NEW y \in Indexers PROVE PointOK(y)'
    BY DEF PointInv
  <2>1. PointOK(y)
    BY DEF RagInv, PointInv
  <2>2. CASE y = x
    BY <2>1, <2>2, <1>4, <1>6 DEF PointOK, At, Current, Writing, Deleting
  <2>3. CASE y # x
    <3>1. ~At(y, "idle") => CurrentJob(y)' = CurrentJob(y)
      BY <2>3, <1>1, <1>3, <1>6, Holding DEF CurrentJob, Current, Holds
    <3> QED BY <2>1, <2>3, <3>1, <1>6 DEF PointOK, At, Current, Writing, Deleting
  <2> QED BY <2>2, <2>3
<1> QED BY <1>7, <1>8, <1>9, <1>10 DEF RagInv

\* A job is begun within its budget: it was begun less often than claimed.
LEMMA BeginRagInv ==
  ASSUME RagInv, NEW x \in Indexers, NEW j \in JobIds, BeginJob(x, j), UNCHANGED failures
  PROVE  RagInv'
<1> DEFINE mem == [indexer[x] EXCEPT !.todo = @ \ {j}, !.current = j,
                     !.at = IF job[j].kind = "delete" THEN "erasing" ELSE "loading"]
<1>1. /\ At(x, "idle") /\ j \in indexer[x].todo /\ job[j].attempts <= MaxAttempts
      /\ starts' = [starts EXCEPT ![j] = @ + 1]
      /\ UNCHANGED <<document, chunkRows, job, points>>
  BY DEF BeginJob, MayStart
<1>2. /\ mem \in Memory /\ mem.todo = indexer[x].todo \ {j} /\ mem.current = j
      /\ mem.at = IF job[j].kind = "delete" THEN "erasing" ELSE "loading"
      /\ mem.batch = indexer[x].batch
  BY Holding DEF Memory, IndexerPoints
<1>3. indexer' = [indexer EXCEPT ![x] = mem]
  BY Types DEF BeginJob, RagInv, Memory
<1> HIDE DEF mem
<1>4. indexer'[x] = mem /\ \A y \in Indexers : y # x => indexer'[y] = indexer[y]
  BY <1>3, Types DEF RagInv
<1>5. TypeOK'
  BY <1>1, <1>2, <1>3, Types DEF RagInv, TypeOK, StoreTypeOK
<1>6. Holds(x, j) /\ job[j].status = "claimed" /\ starts[j] < job[j].attempts
  BY <1>1 DEF RagInv, HoldInv, Holds
<1>7. JobInv'
  <2> SUFFICES ASSUME NEW i \in JobIds PROVE JobOK(i)'
    BY DEF JobInv
  <2>1. JobOK(i) /\ job[i].attempts \in Nat /\ starts[i] \in Nat
    BY Types DEF RagInv, JobInv, JobRow
  <2>2. starts'[i] = IF i = j THEN starts[i] + 1 ELSE starts[i]
    BY <1>1, Types DEF RagInv
  <2> QED BY <2>1, <2>2, <1>1, <1>6 DEF JobOK
<1>8. \A y \in Indexers, i \in JobIds : Holds(y, i)' => Holds(y, i)
  BY <1>2, <1>4, <1>6 DEF Holds, Current
<1>9. HoldInv'
  <2>1. \A y \in Indexers : Current(y)' \notin indexer'[y].todo
    BY <1>2, <1>4 DEF RagInv, HoldInv, Current
  <2>2. \A y \in Indexers : \A i \in indexer'[y].todo : starts'[i] < job'[i].attempts
    <3> SUFFICES ASSUME NEW y \in Indexers, NEW i \in indexer'[y].todo
                 PROVE  starts'[i] < job'[i].attempts
      OBVIOUS
    <3>1. i \in indexer[y].todo /\ i \in JobIds /\ i # j
      BY <1>2, <1>4, <1>6, Holding DEF RagInv, HoldInv, Holds
    <3> QED BY <3>1, <1>1, Types DEF RagInv, HoldInv
  <2> QED BY <2>1, <2>2, <1>1, <1>8 DEF RagInv, HoldInv
<1>10. PointInv'
  <2> SUFFICES ASSUME NEW y \in Indexers PROVE PointOK(y)'
    BY DEF PointInv
  <2>1. PointOK(y)
    BY DEF RagInv, PointInv
  <2>2. CASE y = x
    <3>1. job[j].kind \in {"index", "delete"} /\ j # 0
      BY Types DEF RagInv, JobRow
    <3> QED BY <2>1, <2>2, <3>1, <1>1, <1>2, <1>4 DEF PointOK, At, Current, CurrentJob, Writing, Deleting
  <2>3. CASE y # x
    BY <2>1, <2>3, <1>1, <1>4 DEF PointOK, At, Current, CurrentJob, Writing, Deleting
  <2> QED BY <2>2, <2>3
<1> QED BY <1>5, <1>7, <1>9, <1>10 DEF RagInv

LEMMA IndexerRagInv ==
  ASSUME RagInv, NEW x \in Indexers, IndexerStep(x)
  PROVE  RagInv'
<1>t. /\ TypeOK /\ UNCHANGED failures /\ indexer \in [Indexers -> Memory]
      /\ indexer[x] \in Memory /\ PointOK(x)
  BY Types DEF RagInv, PointInv, IndexerStep
<1>d. /\ document \in [Documents -> DocumentRow] /\ chunkRows \in [Documents -> Versions]
      /\ points \in [Documents -> SUBSET Point]
      /\ \A d \in Documents : document[d] \in DocumentRow
  BY <1>t, Types
<1>1. CASE Claim(x)
  BY <1>1, <1>t, ClaimRagInv
<1>2. ASSUME NEW j \in JobIds, BeginJob(x, j) PROVE RagInv'
  BY <1>2, <1>t, BeginRagInv
<1>3. ASSUME NEW j \in JobIds, ExceedAttempts(x, j) PROVE RagInv'
  <2>1. Holds(x, j) /\ SetJob(j, "dead") /\ UNCHANGED <<document, chunkRows, starts, points>>
    BY <1>3 DEF ExceedAttempts, Holds
  <2> DEFINE mem == [indexer[x] EXCEPT !.todo = indexer[x].todo \ {j}]
  <2>2. indexer' = [indexer EXCEPT ![x] = mem]
    BY <1>3, <1>t DEF ExceedAttempts
  <2>3. /\ mem \in Memory /\ mem.todo = indexer[x].todo \ {j} /\ mem.current = 0
        /\ mem.at = "idle" /\ mem.batch = 1
    BY <1>3, <1>t DEF ExceedAttempts, PointOK, At, Current, Memory
  <2> HIDE DEF mem
  <2> QED BY <2>1, <2>2, <2>3, <1>t, SettleRagInv DEF TypeOK
<1>4. CASE LoadSource(x)
  <2>1. /\ ~At(x, "idle") /\ CurrentJob(x).kind = "index" /\ indexer[x].batch = 1
        /\ UNCHANGED <<document, chunkRows, points, job, starts, failures>>
    BY <1>4, <1>t DEF LoadSource, PointOK, At, storeVars
  <2>2. CASE IsCurrent(CurrentDocument(x), CurrentJob(x).version)
    <3> DEFINE mem == [indexer[x] EXCEPT !.at = "clearing", !.version = CurrentJob(x).version]
    <3>1. CurrentJob(x).version \in Versions
      BY <2>1, Holding DEF JobRow
    <3>2. /\ mem \in Memory /\ indexer' = [indexer EXCEPT ![x] = mem]
          /\ mem.at = "clearing" /\ mem.todo = indexer[x].todo
          /\ mem.current = indexer[x].current /\ mem.batch = 1
          /\ mem.version = CurrentJob(x).version
      BY <1>4, <1>t, <2>1, <2>2, <3>1 DEF LoadSource, Memory, IndexerPoints
    <3> HIDE DEF mem
    <3> QED BY <1>d, <2>1, <3>2, MoveRagInv DEF Writing, Deleting
  <2>3. CASE ~IsCurrent(CurrentDocument(x), CurrentJob(x).version)
    <3>1. Goto(x, "completing")
      BY <1>4, <2>3 DEF LoadSource
    <3> QED BY <1>d, <2>1, <3>1, GotoRagInv DEF Writing, Deleting, IndexerPoints
  <2> QED BY <2>2, <2>3
<1>5. CASE ClearPoints(x)
  <2> DEFINE next == IF Batches = 0 THEN "persisting" ELSE "upserting"
  <2>1. /\ ~At(x, "idle") /\ CurrentJob(x).kind = "index" /\ indexer[x].batch = 1
        /\ indexer[x].version = CurrentJob(x).version
        /\ UNCHANGED <<document, chunkRows, job, starts, failures>> /\ Goto(x, next)
    BY <1>5, <1>t DEF ClearPoints, PointOK, At, storeVars, Writing
  <2>2. points' \in [Documents -> SUBSET Point]
    BY <1>5, <1>d, <2>1, Holding DEF ClearPoints
  <2>3. next \in {"persisting", "upserting"} /\ (next = "upserting" => 1 <= Batches)
    OBVIOUS
  <2> HIDE DEF next
  <2> QED BY <1>d, <2>1, <2>2, <2>3, GotoRagInv DEF Writing, Deleting, IndexerPoints
<1>6. CASE UpsertBatch(x)
  <2> DEFINE next == IF LastBatch(x) THEN "persisting" ELSE "upserting"
             mem == [indexer[x] EXCEPT !.batch = @ + 1, !.at = next]
  <2>1. /\ ~At(x, "idle") /\ CurrentJob(x).kind = "index"
        /\ indexer[x].version = CurrentJob(x).version
        /\ indexer[x].batch \in 1..Batches
        /\ UNCHANGED <<document, chunkRows, job, starts, failures>>
    BY <1>6, <1>t DEF UpsertBatch, PointOK, At, storeVars, Writing, Memory
  <2>2. points' \in [Documents -> SUBSET Point]
    BY <1>6, <1>d, <1>t, <2>1, Holding DEF UpsertBatch, Point, Memory
  <2>3. /\ next \in {"persisting", "upserting"}
        /\ next = "upserting" => indexer[x].batch + 1 <= Batches
    BY <2>1 DEF LastBatch
  <2>4. /\ mem \in Memory /\ mem.at = next /\ mem.todo = indexer[x].todo
        /\ mem.current = indexer[x].current /\ mem.batch = indexer[x].batch + 1
        /\ mem.version = indexer[x].version
    <3> HIDE DEF next
    <3>1. indexer[x].batch + 1 \in 1..(Batches + 1)
      BY <2>1
    <3> QED BY <1>t, <2>3, <3>1 DEF Memory, IndexerPoints
  <2>5. indexer' = [indexer EXCEPT ![x] = mem]
    BY <1>6, <1>t DEF UpsertBatch, Memory
  <2> HIDE DEF next, mem
  <2> QED BY <1>d, <2>1, <2>2, <2>3, <2>4, <2>5, MoveRagInv DEF Writing, Deleting
<1>7. CASE PersistChunks(x)
  <2>1. ~At(x, "idle") /\ Goto(x, "completing") /\ UNCHANGED <<job, starts, points, failures>>
    BY <1>7, <1>t DEF PersistChunks, At
  <2>2. /\ document' \in [Documents -> DocumentRow] /\ chunkRows' \in [Documents -> Versions]
        /\ \A d \in Documents : /\ document'[d].version = document[d].version
                                /\ document'[d].deleted = document[d].deleted
    <3> DEFINE d == CurrentDocument(x)
               v == indexer[x].version
    <3>1. d \in Documents /\ v \in Versions /\ ReplaceChunks(d, v)
      BY <1>7, <1>t, <2>1, Holding DEF PersistChunks, Memory
    <3> HIDE DEF d, v
    <3>2. CASE IsCurrent(d, v)
      <4> DEFINE row == [document[d] EXCEPT !.indexed = TRUE, !.indexedVersion = v]
      <4>1. row \in DocumentRow /\ row.version = document[d].version
            /\ row.deleted = document[d].deleted
        BY <1>d, <3>1 DEF DocumentRow
      <4>2. /\ document' = [document EXCEPT ![d] = row]
            /\ chunkRows' = [chunkRows EXCEPT ![d] = v]
        BY <1>d, <3>1, <3>2 DEF ReplaceChunks, DocumentRow
      <4> HIDE DEF row
      <4> QED BY <1>d, <3>1, <4>1, <4>2
    <3>3. CASE ~IsCurrent(d, v)
      BY <1>d, <3>1, <3>3 DEF ReplaceChunks
    <3> QED BY <3>2, <3>3
  <2> QED BY <1>d, <2>1, <2>2, GotoRagInv DEF Writing, Deleting, IndexerPoints
<1>8. CASE ErasePoints(x)
  <2>1. /\ ~At(x, "idle") /\ CurrentJob(x).kind = "delete" /\ Goto(x, "forgetting")
        /\ UNCHANGED <<document, chunkRows, job, starts, failures>>
    BY <1>8, <1>t DEF ErasePoints, PointOK, At, storeVars, Deleting
  <2>2. points' \in [Documents -> SUBSET Point]
    BY <1>8, <1>d, <2>1, Holding DEF ErasePoints
  <2> QED BY <1>d, <2>1, <2>2, GotoRagInv DEF Writing, Deleting, IndexerPoints
<1>9. CASE ForgetChunks(x)
  <2>1. ~At(x, "idle") /\ Goto(x, "completing") /\ UNCHANGED <<job, starts, points, failures>>
    BY <1>9, <1>t DEF ForgetChunks, At
  <2>2. /\ document' \in [Documents -> DocumentRow] /\ chunkRows' \in [Documents -> Versions]
        /\ \A d \in Documents : /\ document'[d].version = document[d].version
                                /\ document'[d].deleted = document[d].deleted
    <3> DEFINE d == CurrentDocument(x)
    <3>1. d \in Documents /\ RemoveChunks(d) /\ 0 \in Versions
      BY <1>9, <2>1, Holding DEF ForgetChunks, Versions
    <3> HIDE DEF d
    <3> QED BY <1>d, <3>1 DEF RemoveChunks, DocumentRow
  <2> QED BY <1>d, <2>1, <2>2, GotoRagInv DEF Writing, Deleting, IndexerPoints
<1>10. CASE CompleteJob(x)
  BY <1>10, <1>t, DropRagInv DEF CompleteJob, At, TypeOK
<1> QED BY <1>1, <1>2, <1>3, <1>4, <1>5, <1>6, <1>7, <1>8, <1>9, <1>10 DEF IndexerStep

LEMMA FailRagInv ==
  ASSUME RagInv, Fail
  PROVE  RagInv'
<1>1. failures' \in 0..MaxFailures
  BY DEF Fail, RagInv, TypeOK
<1>2. ASSUME NEW x \in Indexers, NEW retryable \in BOOLEAN, JobFails(x, retryable) PROVE RagInv'
  <2> DEFINE status == IF ~retryable \/ CurrentJob(x).attempts >= MaxAttempts
                       THEN "dead" ELSE "pending"
  <2>1. SetJob(Current(x), status) /\ DropJob(x) /\ UNCHANGED <<document, chunkRows, starts, points>>
    BY <1>2 DEF JobFails
  <2>2. ~At(x, "idle")
    BY <1>2 DEF JobFails, RagInv, PointInv, PointOK
  <2>3. status \in {"pending", "completed", "dead"}
    OBVIOUS
  <2> HIDE DEF status
  <2> QED BY <2>1, <2>2, <2>3, <1>1, DropRagInv
<1>3. ASSUME NEW x \in Indexers, Crash(x) PROVE RagInv'
  <2>1. /\ indexer' = [indexer EXCEPT ![x] = AtRest]
        /\ UNCHANGED <<document, chunkRows, job, starts, points>>
    BY <1>3 DEF Crash, storeVars
  <2>2. /\ AtRest \in Memory /\ AtRest.todo = {} /\ AtRest.current = 0 /\ AtRest.at = "idle"
        /\ AtRest.batch = 1
    BY DEF AtRest, Memory, IndexerPoints, Versions
  <2>3. indexer'[x] = AtRest /\ \A y \in Indexers : y # x => indexer'[y] = indexer[y]
    BY <2>1, Types DEF RagInv
  <2>4. TypeOK'
    BY <1>1, <2>1, <2>2, Types DEF RagInv, TypeOK, StoreTypeOK
  <2>5. JobInv'
    BY <2>1 DEF RagInv, JobInv, JobOK
  <2>6. \A y \in Indexers, j \in JobIds : Holds(y, j)' => Holds(y, j)
    BY <2>2, <2>3 DEF Holds, Current, JobIds
  <2>7. HoldInv'
    BY <2>1, <2>2, <2>3, <2>6 DEF RagInv, HoldInv, Current
  <2>8. PointInv'
    BY <2>1, <2>2, <2>3 DEF RagInv, PointInv, PointOK, At, Current, CurrentJob, Writing, Deleting
  <2> QED BY <2>4, <2>5, <2>7, <2>8 DEF RagInv
<1> QED BY <1>2, <1>3 DEF Fail

LEMMA TimeRagInv ==
  ASSUME RagInv, NEW j \in JobIds, TimePasses(j)
  PROVE  RagInv'
<1>1. UNCHANGED <<document, chunkRows, starts, points, indexer, failures>>
  BY DEF TimePasses
<1>2. /\ job' \in [JobIds -> JobRow]
      /\ \A i \in JobIds : i # j => job'[i] = job[i]
      /\ job'[j].document = job[j].document /\ job'[j].version = job[j].version
      /\ job'[j].kind = job[j].kind /\ job'[j].attempts = job[j].attempts
      /\ job'[j].status = job[j].status
      /\ \A x \in Indexers : ~Holds(x, j)
  <2>1. job[j] \in JobRow /\ job \in [JobIds -> JobRow]
    BY Types DEF RagInv
  <2>2. \A x \in Indexers : ~Holds(x, j)
    BY DEF TimePasses, ClaimExpires, RetryComesDue, RagInv, HoldInv
  <2>3. CASE ClaimExpires(j)
    BY <2>1, <2>2, <2>3 DEF ClaimExpires, JobRow
  <2>4. CASE RetryComesDue(j)
    BY <2>1, <2>2, <2>4 DEF RetryComesDue, JobRow
  <2> QED BY <2>3, <2>4 DEF TimePasses
<1>3. TypeOK'
  BY <1>1, <1>2 DEF RagInv, TypeOK, StoreTypeOK
<1>4. JobInv'
  BY <1>1, <1>2 DEF RagInv, JobInv, JobOK
<1>5. HoldInv'
  <2>1. \A y \in Indexers : \A i \in indexer[y].todo : i \in JobIds /\ i # j
    BY <1>2, Holding DEF Holds
  <2> QED BY <1>1, <1>2, <2>1 DEF RagInv, HoldInv, Holds, Current
<1>6. PointInv'
  <2>1. \A y \in Indexers : ~At(y, "idle") => CurrentJob(y)' = CurrentJob(y)
    BY <1>1, <1>2, Holding DEF Holds, CurrentJob, Current
  <2> QED BY <1>1, <2>1 DEF RagInv, PointInv, PointOK, At, Current, Writing, Deleting
<1> QED BY <1>3, <1>4, <1>5, <1>6 DEF RagInv

LEMMA StepRagInv == RagInv /\ [Next]_vars => RagInv'
<1> SUFFICES ASSUME RagInv, [Next]_vars PROVE RagInv'
  OBVIOUS
<1>1. CASE UNCHANGED vars
  BY <1>1 DEF vars, storeVars, RagInv, TypeOK, StoreTypeOK, JobInv, JobOK, HoldInv, Holds, Current,
     PointInv, PointOK, At, CurrentJob
<1> QED BY <1>1, EditRagInv, IndexerRagInv, FailRagInv, TimeRagInv DEF Next

LEMMA RagInvariant == Spec => []RagInv
BY InitRagInv, StepRagInv, PTL DEF Spec

(***************************************************************************)
(* Every reachable state is well-typed: an indexer works on a job that     *)
(* exists, and on a batch that exists (processRagIndexJobs).               *)
(***************************************************************************)
THEOREM RagTypeOK == Spec => []TypeOK
<1>1. RagInv => TypeOK
  BY DEF RagInv
<1> QED BY <1>1, RagInvariant, PTL

(***************************************************************************)
(* No job is begun more often than its budget, whatever the indexers do    *)
(* and wherever they are killed: the claim has counted the attempt before. *)
(***************************************************************************)
THEOREM StartsAreBounded == Spec => []StartsBounded
<1>1. RagInv => StartsBounded
  BY DEF RagInv, JobInv, JobOK, StartsBounded
<1> QED BY <1>1, RagInvariant, PTL

-----------------------------------------------------------------------------
\* Only four steps change a document or its chunk rows.
LEMMA DocumentSteps ==
  ASSUME [Next]_vars
  PROVE  \/ UNCHANGED <<document, chunkRows>>
         \/ \E d \in Documents : WriteDocument(d) \/ DeleteDocument(d)
         \/ \E x \in Indexers : PersistChunks(x) \/ ForgetChunks(x)
BY DEF Next, vars, storeVars, Edit, ReindexDocument, RetryJob, IndexerStep, Claim, BeginJob,
  ExceedAttempts, LoadSource, ClearPoints, UpsertBatch, ErasePoints, CompleteJob, Fail, Crash,
  JobFails, TimePasses

(***************************************************************************)
(* Whatever attempts finish late, a document is never marked indexed for   *)
(* another version than it has (replaceDocumentChunks).                    *)
(***************************************************************************)
THEOREM IndexStaysCurrent == Spec => []IndexedIsCurrent
<1>1. Init => IndexedIsCurrent
  BY DEF Init, StoreInit, IndexedIsCurrent, Live
<1>2. RagInv /\ IndexedIsCurrent /\ [Next]_vars => IndexedIsCurrent'
  <2> SUFFICES ASSUME RagInv, IndexedIsCurrent, [Next]_vars PROVE IndexedIsCurrent'
    OBVIOUS
  <2>t. /\ document \in [Documents -> DocumentRow] /\ chunkRows \in [Documents -> Versions]
        /\ \A d \in Documents : document[d] \in DocumentRow
    BY Types DEF RagInv
  <2>1. CASE UNCHANGED <<document, chunkRows>>
    BY <2>1 DEF IndexedIsCurrent, Live
  <2>2. ASSUME NEW d \in Documents, WriteDocument(d) \/ DeleteDocument(d)
        PROVE  IndexedIsCurrent'
    <3>1. /\ ~document'[d].indexed /\ UNCHANGED chunkRows
          /\ \A e \in Documents : e # d => document'[e] = document[e]
      BY <2>2, <2>t DEF WriteDocument, DeleteDocument, DocumentRow
    <3> QED BY <3>1 DEF IndexedIsCurrent, Live
  <2>3. ASSUME NEW x \in Indexers, PersistChunks(x) PROVE IndexedIsCurrent'
    <3> DEFINE d == CurrentDocument(x)
               v == indexer[x].version
    <3>1. d \in Documents /\ v \in Versions /\ ReplaceChunks(d, v)
      BY <2>3, Holding DEF PersistChunks, At, Memory
    <3> HIDE DEF d, v
    <3>2. CASE IsCurrent(d, v)
      <4>1. /\ document'[d].version = v /\ document'[d].indexedVersion = v /\ chunkRows'[d] = v
            /\ \A e \in Documents : e # d => document'[e] = document[e] /\ chunkRows'[e] = chunkRows[e]
        BY <2>t, <3>1, <3>2 DEF ReplaceChunks, IsCurrent, DocumentRow
      <4> QED BY <4>1 DEF IndexedIsCurrent, Live
    <3>3. CASE ~IsCurrent(d, v)
      BY <2>1, <3>1, <3>3 DEF ReplaceChunks
    <3> QED BY <3>2, <3>3
  <2>4. ASSUME NEW x \in Indexers, ForgetChunks(x) PROVE IndexedIsCurrent'
    <3> DEFINE d == CurrentDocument(x)
    <3>1. d \in Documents /\ document[d].deleted /\ RemoveChunks(d)
      BY <2>4, Holding DEF ForgetChunks, At, RagInv, PointInv, PointOK, Deleting
    <3> HIDE DEF d
    <3>2. /\ document'[d].deleted
          /\ \A e \in Documents : e # d => document'[e] = document[e] /\ chunkRows'[e] = chunkRows[e]
      BY <2>t, <3>1 DEF RemoveChunks, DocumentRow
    <3> QED BY <3>2 DEF IndexedIsCurrent, Live
  <2> QED BY <2>1, <2>2, <2>3, <2>4, DocumentSteps
<1> QED BY <1>1, <1>2, RagInvariant, PTL DEF Spec

-----------------------------------------------------------------------------
\* A job that keeps its document from being settled.
Pressing(j) == job[j].status \in {"pending", "claimed", "dead"}

SameRequest(j) ==
  /\ job'[j].document = job[j].document /\ job'[j].version = job[j].version
  /\ job'[j].kind = job[j].kind

\* No request is dropped that keeps d from being settled.
Presses(d) ==
  \A j \in JobIds :
    Pressing(j) /\ Asks(j, d, document[d].version, "index") => Pressing(j)' /\ SameRequest(j)

LEMMA SettledBefore ==
  ASSUME NEW d \in Documents, document'[d] = document[d], Presses(d), Settled(d)'
  PROVE  Settled(d)
BY DEF Settled, Presses, Pressing, SameRequest, Live, ActiveJob, ActiveStatuses, Asks, GivenUp

LEMMA KeepsSearchable ==
  ASSUME IndexedIsSearchable, UNCHANGED <<document, points>>, \A d \in Documents : Presses(d)
  PROVE  IndexedIsSearchable'
<1> SUFFICES ASSUME NEW d \in Documents, Settled(d)'
             PROVE  points'[d] = PointsOf(document'[d].version)
  BY DEF IndexedIsSearchable, PointsOf
<1> QED BY SettledBefore DEF IndexedIsSearchable

\* The document an indexer writes points of is not settled.
LEMMA WorkUnsettled ==
  ASSUME RagInv, SearchInv, NEW x \in Indexers, indexer[x].at \in Writing
  PROVE  ~Settled(CurrentDocument(x))
<1> DEFINE d == CurrentDocument(x)
<1>1. /\ Current(x) \in JobIds /\ CurrentJob(x).status = "claimed" /\ d \in Documents
      /\ CurrentJob(x).kind = "index" /\ indexer[x].version = CurrentJob(x).version
  BY Holding DEF At, Writing, RagInv, PointInv, PointOK
<1>2. CASE indexer[x].version = document[d].version
  <2>1. ActiveJob(Current(x)) /\ Asks(Current(x), d, document[d].version, "index")
    BY <1>1, <1>2 DEF ActiveJob, ActiveStatuses, Asks, CurrentJob, CurrentDocument
  <2> QED BY <1>1, <2>1 DEF Settled
<1>3. CASE indexer[x].version # document[d].version
  BY <1>3 DEF SearchInv, WorkOK, Settled
<1> QED BY <1>2, <1>3

LEMMA InitSearchInv == Init => SearchInv
BY DEF Init, StoreInit, SearchInv, IndexedIsSearchable, Settled, Live, WorkOK, At, AtRest, Writing

\* A write makes the document pending again; a deletion makes it dead.
LEMMA EditSearchInv ==
  ASSUME RagInv, RagInv', SearchInv, Edit
  PROVE  SearchInv'
<1>t. /\ TypeOK /\ UNCHANGED <<points, indexer>> /\ document \in [Documents -> DocumentRow]
      /\ IndexedIsSearchable
      /\ \A d \in Documents : document[d] \in DocumentRow
      /\ \A j \in JobIds : job[j] \in JobRow /\ JobOK(j)
  BY Types DEF RagInv, Edit, SearchInv, JobInv
<1>w. ASSUME NEW x \in Indexers, ~At(x, "idle"), SameRequest(Current(x))
      PROVE  /\ CurrentDocument(x)' = CurrentDocument(x)
             /\ CurrentJob(x).version' = CurrentJob(x).version
             /\ CurrentJob(x).kind' = CurrentJob(x).kind
  BY <1>t, <1>w DEF SameRequest, CurrentJob, CurrentDocument, Current
<1>1. ASSUME NEW d \in Documents, NEW v \in Versions, NEW kind \in {"index", "delete"},
             Enqueue(d, v, kind)
      PROVE  \A j \in JobIds : job[j].status # "absent" => job'[j] = job[j]
  BY <1>1, <1>t, EnqueueRows
<1>2. ASSUME NEW d \in Documents, \/ ~document'[d].indexed /\ document'[d].version = document[d].version + 1
                                  \/ document'[d].deleted,
             \A e \in Documents : e # d => document'[e] = document[e],
             \A j \in JobIds : job[j].status # "absent" => job'[j] = job[j]
      PROVE  SearchInv'
  <2>1. IndexedIsSearchable'
    <3> SUFFICES ASSUME NEW e \in Documents, Settled(e)'
                 PROVE  points'[e] = PointsOf(document'[e].version)
      BY DEF IndexedIsSearchable, PointsOf
    <3>1. e # d
      BY <1>2 DEF Settled, Live
    <3>2. Presses(e)
      BY <1>2 DEF Presses, Pressing, SameRequest
    <3> QED BY <1>2, <1>t, <3>1, <3>2, SettledBefore DEF IndexedIsSearchable
  <2>2. ASSUME NEW x \in Indexers PROVE WorkOK(x)'
    <3>1. CASE At(x, "idle")
      BY <3>1, <1>t DEF WorkOK, At, Writing
    <3>2. CASE ~At(x, "idle")
      <4>1. /\ Current(x) \in JobIds /\ CurrentDocument(x) \in Documents
            /\ CurrentJob(x)' = CurrentJob(x) /\ CurrentDocument(x)' = CurrentDocument(x)
            /\ CurrentJob(x).version <= document[CurrentDocument(x)].version
            /\ CurrentJob(x).version \in Nat
            /\ document[CurrentDocument(x)].version \in Nat
        BY <1>2, <1>t, <3>2, Holding
           DEF CurrentJob, CurrentDocument, Current, JobOK, JobRow, DocumentRow, Versions
      <4>2. WorkOK(x)
        BY DEF SearchInv
      <4>3. CASE CurrentDocument(x) = d
        BY <1>2, <1>t, <4>1, <4>2, <4>3 DEF WorkOK, At, Live, PointsOf, Writing
      <4>4. CASE CurrentDocument(x) # d
        BY <1>2, <1>t, <4>1, <4>2, <4>4 DEF WorkOK, At, Live, PointsOf, Writing
      <4> QED BY <4>3, <4>4
    <3> QED BY <3>1, <3>2
  <2> QED BY <2>1, <2>2 DEF SearchInv
<1>v. \A d \in Documents : document[d].version \in Versions
  BY <1>t DEF DocumentRow
<1>3. ASSUME NEW d \in Documents, WriteDocument(d) PROVE SearchInv'
  <2>1. /\ ~document'[d].indexed /\ document'[d].version = document[d].version + 1
        /\ \A e \in Documents : e # d => document'[e] = document[e]
        /\ Enqueue(d, document[d].version + 1, "index")
        /\ document[d].version + 1 \in Versions
    BY <1>3, <1>t, <1>v DEF WriteDocument, DocumentRow, Versions
  <2> QED BY <2>1, <1>1, <1>2
<1>4. ASSUME NEW d \in Documents, DeleteDocument(d) PROVE SearchInv'
  <2>1. /\ document'[d].deleted
        /\ \A e \in Documents : e # d => document'[e] = document[e]
        /\ Enqueue(d, document[d].version, "delete")
    BY <1>4, <1>t DEF DeleteDocument, DocumentRow
  <2> QED BY <2>1, <1>1, <1>2, <1>v
<1>5. ASSUME UNCHANGED document,
             \A j \in JobIds : /\ Pressing(j) => Pressing(j)'
                               /\ job[j].status # "absent" => SameRequest(j)
      PROVE  SearchInv'
  <2>1. IndexedIsSearchable'
    BY <1>5, <1>t, KeepsSearchable DEF Presses, Pressing
  <2>2. ASSUME NEW x \in Indexers PROVE WorkOK(x)'
    <3>1. CASE At(x, "idle")
      BY <3>1, <1>t DEF WorkOK, At, Writing
    <3>2. CASE ~At(x, "idle")
      BY <1>5, <1>t, <1>w, <3>2, Holding DEF SearchInv, WorkOK, At, Live, PointsOf, Writing, CurrentJob
    <3> QED BY <3>1, <3>2
  <2> QED BY <2>1, <2>2 DEF SearchInv
<1>6. ASSUME NEW d \in Documents, ReindexDocument(d) PROVE SearchInv'
  <2>1. UNCHANGED document /\ Enqueue(d, document[d].version, "index")
    BY <1>6 DEF ReindexDocument
  <2> QED BY <2>1, <1>1, <1>5, <1>v DEF Pressing, SameRequest
<1>7. ASSUME NEW j \in JobIds, RetryJob(j) PROVE SearchInv'
  <2>1. /\ \A i \in JobIds : i # j => job'[i] = job[i]
        /\ SameRequest(j) /\ job'[j].status = "pending" /\ UNCHANGED document
    BY <1>7, <1>t, Types DEF RetryJob, SameRequest, JobRow
  <2> QED BY <2>1, <1>5 DEF Pressing, SameRequest
<1> QED BY <1>3, <1>4, <1>6, <1>7 DEF Edit

\* An idle indexer leaves the index to its jobs.
LEMMA IdleSearchInv ==
  ASSUME OneIndexer, SearchInv, NEW x \in Indexers,
         indexer'[x].at \in {"idle", "loading", "erasing", "forgetting"},
         UNCHANGED <<document, points>>, \A d \in Documents : Presses(d)
  PROVE  SearchInv'
<1>1. IndexedIsSearchable'
  BY KeepsSearchable DEF SearchInv
<1>2. \A y \in Indexers : WorkOK(y)'
  BY DEF OneIndexer, WorkOK, At, Writing
<1> QED BY <1>1, <1>2 DEF SearchInv

\* Giving a job up, or queueing it again, settles nothing.
LEMMA UnfinishedPresses ==
  ASSUME TypeOK, NEW j \in JobIds, NEW status \in {"pending", "dead"}, SetJob(j, status)
  PROVE  \A d \in Documents : Presses(d)
BY SetJobRow DEF Presses, Pressing, SameRequest

\* A step that leaves the jobs alone and touches one document only, which is not
\* settled by it.
LEMMA WorkSearchInv ==
  ASSUME OneIndexer, SearchInv, NEW x \in Indexers, UNCHANGED job,
         NEW e \in Documents, ~Settled(e)',
         \A d \in Documents : d # e => document'[d] = document[d] /\ points'[d] = points[d],
         WorkOK(x)'
  PROVE  SearchInv'
<1>1. ASSUME NEW d \in Documents, d # e, Settled(d)' PROVE points'[d] = PointsOf(document'[d].version)
  <2>1. Presses(d)
    BY DEF Presses, Pressing, SameRequest
  <2> QED BY <1>1, <2>1, SettledBefore DEF SearchInv, IndexedIsSearchable
<1>2. IndexedIsSearchable'
  BY <1>1 DEF IndexedIsSearchable, PointsOf
<1>3. \A y \in Indexers : WorkOK(y)'
  BY DEF OneIndexer
<1> QED BY <1>2, <1>3 DEF SearchInv

LEMMA IndexerSearchInv ==
  ASSUME OneIndexer, RagInv, RagInv', SearchInv, NEW x \in Indexers, IndexerStep(x)
  PROVE  SearchInv'
<1> DEFINE v == indexer[x].version
<1>t. /\ TypeOK /\ TypeOK' /\ indexer[x] \in Memory /\ indexer \in [Indexers -> Memory]
      /\ PointOK(x) /\ WorkOK(x) /\ IndexedIsSearchable
      /\ document \in [Documents -> DocumentRow] /\ points \in [Documents -> SUBSET Point]
      /\ \A d \in Documents : document[d] \in DocumentRow
  BY Types DEF RagInv, PointInv, SearchInv
<1>h. ~At(x, "idle") => /\ Current(x) \in JobIds /\ CurrentDocument(x) \in Documents
                        /\ CurrentJob(x).status = "claimed"
  BY Holding
<1>p. ASSUME UNCHANGED job PROVE \A d \in Documents : Presses(d)
  BY <1>p DEF Presses, Pressing, SameRequest
<1>s. ASSUME UNCHANGED <<document, job>>, NEW d \in Documents, ~Settled(d) PROVE ~Settled(d)'
  BY <1>p, <1>s, SettledBefore
<1>1. CASE Claim(x)
  <2>1. \A d \in Documents : Presses(d)
    <3>1. \A j \in JobIds : Pressing(j) => Pressing(j)' /\ SameRequest(j)
      BY <1>1, <1>t, Types DEF Claim, ClaimJobs, Pressing, SameRequest, JobRow
    <3> QED BY <3>1 DEF Presses
  <2>2. indexer'[x].at = "idle" /\ UNCHANGED <<document, points>>
    BY <1>1, <1>t DEF Claim, At, Memory
  <2> QED BY <2>1, <2>2, IdleSearchInv
<1>2. ASSUME NEW j \in JobIds, BeginJob(x, j) PROVE SearchInv'
  <2>1. indexer'[x].at \in {"erasing", "loading"} /\ UNCHANGED <<document, points, job>>
    BY <1>2, <1>t DEF BeginJob, Memory
  <2> QED BY <2>1, <1>p, IdleSearchInv
<1>3. ASSUME NEW j \in JobIds, ExceedAttempts(x, j) PROVE SearchInv'
  <2>1. indexer'[x].at = "idle" /\ UNCHANGED <<document, points>> /\ SetJob(j, "dead")
    BY <1>3, <1>t DEF ExceedAttempts, At, Memory
  <2> QED BY <2>1, <1>t, UnfinishedPresses, IdleSearchInv
<1>4. CASE LoadSource(x)
  <2>1. UNCHANGED <<document, points, job>> /\ ~At(x, "idle")
    BY <1>4 DEF LoadSource, At, storeVars
  <2>2. /\ indexer'[x].current = indexer[x].current
        /\ \/ /\ IsCurrent(CurrentDocument(x), CurrentJob(x).version)
              /\ indexer'[x].at = "clearing" /\ indexer'[x].version = CurrentJob(x).version
           \/ ~IsCurrent(CurrentDocument(x), CurrentJob(x).version) /\ indexer'[x].at = "completing"
    BY <1>4, <1>t DEF LoadSource, Goto, Memory
  <2>3. WorkOK(x)'
    BY <2>1, <2>2 DEF WorkOK, At, Writing, IsCurrent, Live, CurrentJob, CurrentDocument, Current
  <2>4. IndexedIsSearchable'
    BY <2>1, <1>p, <1>t, KeepsSearchable
  <2> QED BY <2>3, <2>4 DEF OneIndexer, SearchInv
<1>5. CASE ClearPoints(x)
  <2>0. ~At(x, "idle") /\ indexer[x].at \in Writing
    BY <1>5 DEF ClearPoints, At, Writing
  <2> PICK e \in Documents : e = CurrentDocument(x)
    BY <2>0, <1>h
  <2>1. UNCHANGED <<document, job>> /\ points' = [points EXCEPT ![e] = @ \ OldPoints(x)]
    BY <1>5 DEF ClearPoints, storeVars
  <2>2. /\ indexer'[x].current = indexer[x].current /\ indexer'[x].version = v
        /\ indexer'[x].batch = 1
        /\ indexer'[x].at = IF Batches = 0 THEN "persisting" ELSE "upserting"
    BY <1>5, <1>t DEF ClearPoints, Goto, Memory, PointOK, At
  <2>3. points'[e] = {} /\ \A d \in Documents : d # e => points'[d] = points[d]
    BY <2>1, <1>t DEF OldPoints
  <2>4. {v} \X (1..0) = {} /\ (Batches = 0 => PointsOf(v) = {})
    BY DEF PointsOf
  <2>5. CurrentDocument(x)' = e
    BY <2>1, <2>2 DEF CurrentDocument, CurrentJob, Current
  <2>6. WorkOK(x)'
    BY <2>0, <2>1, <2>2, <2>3, <2>4, <2>5, <1>t DEF WorkOK, At, Writing, Live, PointsOf
  <2>7. ~Settled(e)'
    BY <2>0, <2>1, <1>s, WorkUnsettled
  <2> QED BY <2>1, <2>3, <2>6, <2>7, WorkSearchInv
<1>6. CASE UpsertBatch(x)
  <2>0. ~At(x, "idle") /\ indexer[x].at \in Writing
    BY <1>6 DEF UpsertBatch, At, Writing
  <2> PICK e \in Documents : e = CurrentDocument(x)
    BY <2>0, <1>h
  <2> DEFINE b == indexer[x].batch
  <2>1. /\ UNCHANGED <<document, job>> /\ points' = [points EXCEPT ![e] = @ \cup {<<v, b>>}]
        /\ b \in 1..Batches /\ points[e] = {v} \X (1..(b - 1))
    BY <1>6, <1>t DEF UpsertBatch, storeVars, At, PointOK, Memory, WorkOK
  <2>2. /\ indexer'[x].current = indexer[x].current /\ indexer'[x].version = v
        /\ indexer'[x].batch = b + 1
        /\ indexer'[x].at = IF b = Batches THEN "persisting" ELSE "upserting"
    BY <1>6, <1>t DEF UpsertBatch, LastBatch, Memory
  <2>3. points'[e] = {v} \X (1..b) /\ \A d \in Documents : d # e => points'[d] = points[d]
    <3>1. (1..(b - 1)) \cup {b} = 1..b
      BY <2>1
    <3>2. ({v} \X (1..(b - 1))) \cup {<<v, b>>} = {v} \X (1..b)
      BY <3>1
    <3> QED BY <2>1, <3>2, <1>t
  <2>4. (b + 1) - 1 = b
    BY <2>1
  <2>5. CurrentDocument(x)' = e
    BY <2>1, <2>2 DEF CurrentDocument, CurrentJob, Current
  <2>6. WorkOK(x)'
    <3> HIDE DEF b
    <3> QED BY <2>0, <2>1, <2>2, <2>3, <2>4, <2>5, <1>t DEF WorkOK, At, Writing, Live, PointsOf
  <2>7. ~Settled(e)'
    BY <2>0, <2>1, <1>s, WorkUnsettled
  <2> QED BY <2>1, <2>3, <2>6, <2>7, WorkSearchInv
<1>7. CASE PersistChunks(x)
  <2>0. ~At(x, "idle") /\ indexer[x].at \in Writing
    BY <1>7 DEF PersistChunks, At, Writing
  <2> PICK e \in Documents : e = CurrentDocument(x)
    BY <2>0, <1>h
  <2>1. /\ UNCHANGED <<job, points>> /\ ReplaceChunks(e, v) /\ points[e] = PointsOf(v)
        /\ v = CurrentJob(x).version /\ v \in Versions
    BY <1>7, <1>t DEF PersistChunks, At, WorkOK, PointOK, Writing, Memory
  <2>2. indexer'[x].current = indexer[x].current /\ indexer'[x].at = "completing"
    BY <1>7, <1>t DEF PersistChunks, Goto, Memory
  <2>5. CurrentDocument(x)' = e /\ CurrentJob(x)' = CurrentJob(x)
    BY <2>1, <2>2 DEF CurrentDocument, CurrentJob, Current
  <2>6. WorkOK(x)'
    BY <2>1, <2>2, <2>5 DEF WorkOK, At, Writing, PointsOf
  <2>3. CASE IsCurrent(e, v)
    <3>1. /\ document'[e].version = v
          /\ \A d \in Documents : d # e => document'[d] = document[d]
      <4>1. document[e].version = v
        BY <2>3 DEF IsCurrent
      <4> QED BY <2>1, <2>3, <4>1, <1>t DEF ReplaceChunks, DocumentRow
    <3> PICK j \in JobIds : j = Current(x)
      BY <2>0, <1>h
    <3>2. /\ job'[j].status = "claimed" /\ job'[j].document = e /\ job'[j].version = v
          /\ job'[j].kind = "index"
      BY <2>0, <2>1, <1>h, <1>t DEF CurrentJob, CurrentDocument, Current, PointOK
    <3>3. ActiveJob(j)' /\ Asks(j, e, document[e].version, "index")'
      BY <3>1, <3>2 DEF ActiveJob, ActiveStatuses, Asks
    <3>4. ~Settled(e)'
      BY <3>3 DEF Settled
    <3> QED BY <2>1, <2>6, <3>1, <3>4, WorkSearchInv
  <2>4. CASE ~IsCurrent(e, v)
    <3>1. UNCHANGED document
      BY <2>1, <2>4 DEF ReplaceChunks
    <3>2. ~Settled(e)'
      BY <2>0, <2>1, <3>1, <1>s, WorkUnsettled
    <3> QED BY <2>1, <2>6, <3>1, <3>2, WorkSearchInv
  <2> QED BY <2>3, <2>4
<1>8. CASE ErasePoints(x)
  <2>0. ~At(x, "idle") /\ CurrentJob(x).kind = "delete"
    BY <1>8, <1>t DEF ErasePoints, At, PointOK, Deleting
  <2> PICK e \in Documents : e = CurrentDocument(x)
    BY <2>0, <1>h
  <2>1. UNCHANGED <<document, job>> /\ points' = [points EXCEPT ![e] = {}]
    BY <1>8 DEF ErasePoints, storeVars
  <2>2. indexer'[x].at = "forgetting"
    BY <1>8, <1>t DEF ErasePoints, Goto, Memory
  <2>3. ~Settled(e)'
    BY <2>0, <2>1, Holding DEF Settled, Live
  <2>4. WorkOK(x)'
    BY <2>2 DEF WorkOK, At, Writing
  <2> QED BY <2>1, <2>3, <2>4, <1>t, WorkSearchInv
<1>9. CASE ForgetChunks(x)
  <2>0. ~At(x, "idle") /\ CurrentJob(x).kind = "delete"
    BY <1>9, <1>t DEF ForgetChunks, At, PointOK, Deleting
  <2> PICK e \in Documents : e = CurrentDocument(x)
    BY <2>0, <1>h
  <2>1. /\ UNCHANGED <<points, job>>
        /\ document'[e].deleted /\ \A d \in Documents : d # e => document'[d] = document[d]
    BY <1>9, <2>0, <1>t, Holding DEF ForgetChunks, RemoveChunks, DocumentRow
  <2>2. indexer'[x].at = "completing" /\ indexer'[x].current = indexer[x].current
    BY <1>9, <1>t DEF ForgetChunks, Goto, Memory
  <2>3. ~Settled(e)'
    BY <2>1 DEF Settled, Live
  <2>4. WorkOK(x)'
    <3>1. CurrentJob(x).kind' = "delete"
      BY <2>0, <2>1, <2>2 DEF CurrentJob, Current
    <3> QED BY <2>2, <3>1 DEF WorkOK, At, Writing
  <2> QED BY <2>1, <2>3, <2>4, WorkSearchInv
<1>10. CASE CompleteJob(x)
  <2>0. ~At(x, "idle") /\ At(x, "completing")
    BY <1>10 DEF CompleteJob, At
  <2>1. /\ UNCHANGED <<document, points>> /\ SetJob(Current(x), "completed")
        /\ indexer'[x].at = "idle"
    BY <1>10, <1>t DEF CompleteJob, DropJob, AtRest
  <2>2. \A y \in Indexers : WorkOK(y)'
    BY <2>1 DEF OneIndexer, WorkOK, At, Writing
  <2>3. ASSUME NEW d \in Documents, Settled(d)'
        PROVE  points[d] = PointsOf(document[d].version)
    <3>1. CASE Asks(Current(x), d, document[d].version, "index")
      <4>1. Live(d)
        BY <2>1, <2>3 DEF Settled, Live
      <4> QED BY <2>0, <3>1, <4>1, <1>t DEF WorkOK, Asks, CurrentJob, CurrentDocument
    <3>2. CASE ~Asks(Current(x), d, document[d].version, "index")
      <4>1. Presses(d)
        BY <2>0, <2>1, <3>2, <1>h, <1>t, SetJobRow DEF Presses, Pressing, SameRequest
      <4> QED BY <2>1, <2>3, <4>1, <1>t, SettledBefore DEF IndexedIsSearchable
    <3> QED BY <3>1, <3>2
  <2> QED BY <2>1, <2>2, <2>3 DEF SearchInv, IndexedIsSearchable, PointsOf
<1> QED BY <1>1, <1>2, <1>3, <1>4, <1>5, <1>6, <1>7, <1>8, <1>9, <1>10 DEF IndexerStep

LEMMA FailSearchInv ==
  ASSUME OneIndexer, RagInv, SearchInv, Fail
  PROVE  SearchInv'
<1>t. TypeOK /\ indexer \in [Indexers -> Memory]
  BY Types DEF RagInv
<1>1. ASSUME NEW x \in Indexers, NEW retryable \in BOOLEAN, JobFails(x, retryable)
      PROVE  SearchInv'
  <2> DEFINE status == IF ~retryable \/ CurrentJob(x).attempts >= MaxAttempts
                       THEN "dead" ELSE "pending"
  <2>1. /\ SetJob(Current(x), status) /\ UNCHANGED <<document, points>>
        /\ indexer'[x].at = "idle"
    BY <1>1, <1>t DEF JobFails, DropJob, AtRest
  <2>2. Current(x) \in JobIds
    BY <1>1, Holding DEF JobFails, RagInv, PointInv, PointOK
  <2>3. status \in {"pending", "dead"}
    OBVIOUS
  <2> HIDE DEF status
  <2>4. \A d \in Documents : Presses(d)
    BY <2>1, <2>2, <2>3, <1>t, SetJobRow DEF Presses, Pressing, SameRequest
  <2> QED BY <2>1, <2>4, IdleSearchInv
<1>2. ASSUME NEW x \in Indexers, Crash(x) PROVE SearchInv'
  <2>1. UNCHANGED <<document, points, job>> /\ indexer'[x].at = "idle"
    BY <1>2, <1>t DEF Crash, AtRest, storeVars
  <2>2. \A d \in Documents : Presses(d)
    BY <2>1 DEF Presses, Pressing, SameRequest
  <2> QED BY <2>1, <2>2, IdleSearchInv
<1> QED BY <1>1, <1>2 DEF Fail

LEMMA TimeSearchInv ==
  ASSUME OneIndexer, RagInv, SearchInv, NEW j \in JobIds, TimePasses(j)
  PROVE  SearchInv'
<1>1. UNCHANGED <<document, points, indexer>>
  BY DEF TimePasses
<1>2. \A i \in JobIds : /\ SameRequest(i) /\ Pressing(i)' = Pressing(i)
  BY Types DEF RagInv, TimePasses, ClaimExpires, RetryComesDue, SameRequest, Pressing, JobRow
<1>3. IndexedIsSearchable'
  BY <1>1, <1>2, KeepsSearchable DEF SearchInv, Presses
<1>4. ASSUME NEW x \in Indexers PROVE WorkOK(x)'
  <2>1. WorkOK(x)
    BY DEF SearchInv
  <2>2. CASE At(x, "idle")
    BY <2>2, <1>1 DEF WorkOK, At, Writing
  <2>3. CASE ~At(x, "idle")
    <3>1. /\ CurrentDocument(x)' = CurrentDocument(x)
          /\ CurrentJob(x)'.version = CurrentJob(x).version
          /\ CurrentJob(x)'.kind = CurrentJob(x).kind
      BY <2>3, <1>1, <1>2, Holding DEF SameRequest, CurrentJob, CurrentDocument, Current
    <3> QED BY <2>1, <3>1, <1>1 DEF WorkOK, At, Live, PointsOf, Writing
  <2> QED BY <2>2, <2>3
<1> QED BY <1>3, <1>4 DEF SearchInv

(***************************************************************************)
(* With one RAG worker, an indexed document with nothing queued, running   *)
(* or given up for its version has exactly its points in Qdrant, whatever  *)
(* was interrupted, repeated or overtaken before (indexMarkdownDocument).  *)
(***************************************************************************)
THEOREM IndexIsSearchable ==
  ASSUME OneIndexer
  PROVE  Spec => []IndexedIsSearchable
<1>1. RagInv /\ RagInv' /\ SearchInv /\ [Next]_vars => SearchInv'
  <2> SUFFICES ASSUME RagInv, RagInv', SearchInv, [Next]_vars PROVE SearchInv'
    OBVIOUS
  <2>1. CASE UNCHANGED vars
    BY <2>1 DEF vars, storeVars, SearchInv, IndexedIsSearchable, Settled, Live, ActiveJob, Asks,
       GivenUp, WorkOK, At, CurrentDocument, CurrentJob, Current, PointsOf
  <2> QED BY <2>1, EditSearchInv, IndexerSearchInv, FailSearchInv, TimeSearchInv DEF Next
<1>2. SearchInv => IndexedIsSearchable
  BY DEF SearchInv
<1> QED BY <1>1, <1>2, InitSearchInv, RagInvariant, PTL DEF Spec

=============================================================================
