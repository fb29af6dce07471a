--------------------------- MODULE MarkdownMemory ---------------------------
(***************************************************************************)
(* Everything that writes the assistant's long-term memory: the tools of   *)
(* the agent and of MCP sessions, the host's ledgers (owner feedback, task *)
(* outcomes, decisions), memory lists, newsletter preferences, the         *)
(* bootstrap of the scheduler, and the legacy memory records with their    *)
(* copy in markdown (api/src/memory, security/newsletterPolicy.ts,         *)
(* scheduler/autonomousTasks.ts, agent/inboundMessageAgent.ts,             *)
(* tools/toolExecutor.ts, mcp/server.ts, http/app.ts).                     *)
(*                                                                         *)
(* Each of them reads a document, builds the whole new text from it and    *)
(* writes that back: two calls of the store, between which others write.   *)
(* A write whose SELECT ... FOR UPDATE found the row is one step; where    *)
(* there was no row to lock, the INSERT is another.                        *)
(*                                                                         *)
(* The wording of entries, front matter, provenance and audit rows is left *)
(* out: an entry is a name, and what the code recognises it by (a marker,  *)
(* an item id, its text) is the entry itself.                              *)
(***************************************************************************)
EXTENDS MarkdownStore

CONSTANTS
  Writers,      \* calls, each of which makes one change
  Entries,      \* what they add
  Items,        \* of them, items of memory lists
  Marked,       \* of them, those the code recognises by a marker or by their text
  ToolCalls,    \* recorded tool calls the decision ledger may speak of
  Seed,         \* the text of a default document
  LegacyPath,   \* the markdown path of the one legacy record
  ListPath,     \* the memory list
  NoId,         \* an id a tool call does not have
  Kinds,        \* what a writer may do, of WriterKinds
  MaxVersion    \* bound: versions of a document

\* "feedback": an append without a marker; "once": with one; "insist": that is
\* tried twice.
WriterKinds ==
  {"feedback", "once", "insist", "seed", "amend", "section", "put", "remember"}

TaskCreators == {"create_task", "create_followup_task"}

\* "app": a tool of another application; "other": any tool with a case of its own.
Tools == {"write_file", "record_observation", "app", "other"} \cup TaskCreators

ASSUME MemoryAssumption ==
  /\ \A call \in ToolCalls : call.tool \in Tools
  /\ Seed \notin Entries
  /\ Items \cup Marked \subseteq Entries /\ Items \cap Marked = {}
  /\ {LegacyPath, ListPath} \subseteq Paths
  /\ Kinds \subseteq WriterKinds
  /\ MaxVersion \in Nat

VARIABLES
  docs,          \* markdown_documents
  legacy,        \* the body of the row of memory_documents; empty: no row
  writer,        \* where each writer is, and what it has read
  acknowledged,  \* history: entries somebody was told are recorded
  removed,       \* history: entries a call took away that meant to
  exposed        \* history: entries in a text that was replaced unconditionally,
                 \* or by a writer that had read another document at its path

vars == <<docs, legacy, writer, acknowledged, removed, exposed>>

NoWriter(at) ==
  [at |-> at, kind |-> "none", entry |-> Seed, path |-> LegacyPath, base |-> NoDocument,
   text |-> <<>>, expected |-> NoVersion, left |-> 0]

Init ==
  /\ docs = NoDocuments
  /\ legacy = <<>>
  /\ writer = [w \in Writers |-> NoWriter("idle")]
  /\ acknowledged = {}
  /\ removed = {}
  /\ exposed = {}

-----------------------------------------------------------------------------
Holds(text, e) == e \in EntriesOf(text)
OrSeed(text) == IF text = <<>> THEN <<Seed>> ELSE text
Tries(kind) == IF kind = "insist" THEN 2 ELSE 1

\* A feedback entry has an id of its own, the line of write_memory its own time:
\* it is nowhere yet, not even in a text that is still to be written.
Fresh(e) ==
  /\ e \notin Marked \cup Items
  /\ ~\E w \in Writers :
        writer[w].at # "idle" /\ (writer[w].entry = e \/ Holds(writer[w].text, e))
  /\ ~\E p \in Paths : Holds(docs[p].text, e)
  /\ ~Holds(legacy, e)
  /\ e \notin acknowledged \cup removed \cup exposed

Start(w, kind, p, e) ==
  /\ writer[w].at = "idle" /\ kind \in Kinds
  /\ writer' = [writer EXCEPT ![w] =
       [NoWriter("reading") EXCEPT !.kind = kind, !.path = p, !.entry = e,
                                   !.left = Tries(kind)]]
  /\ UNCHANGED <<docs, legacy, acknowledged, removed, exposed>>

RecordOwnerFeedback(w) ==
  \E p \in Paths, e \in Entries : Fresh(e) /\ Start(w, "feedback", p, e)

\* Its marker is the task with the terminal status it has reached.
RecordTaskOutcomeMemory(w) == \E p \in Paths, e \in Marked : Start(w, "once", p, e)

\* recordScheduledTaskDecision: its marker is the task, the run and the outcome.
RecordScheduledTaskDecision(w) == \E p \in Paths, e \in Marked : Start(w, "once", p, e)

AddMemoryListItem(w) == \E e \in Items : Start(w, "once", ListPath, e)
AmendMemoryListItem(w) == \E e \in Items : Start(w, "amend", ListPath, e)

\* Its marker is the owner's message.
AppendNewsletterPreference(w) == \E p \in Paths, e \in Marked : Start(w, "insist", p, e)
PersistNewsletterInterestReaction(w) ==
  \E p \in Paths, e \in Marked : Start(w, "insist", p, e)

UpsertSchedulerMemory(w) == \E p \in Paths : Start(w, "seed", p, Seed)

ReplaceOrAppendSection(w) ==
  \E p \in Paths, e \in Entries : Fresh(e) /\ Start(w, "section", p, e)

\* The tool write_file of the agent and of MCP sessions, PUT /knowledge/files.
WriteFile(w) == \E p \in Paths, e \in Entries : Fresh(e) /\ Start(w, "put", p, e)

WriteMemory(w) == \E e \in Entries : Fresh(e) /\ Start(w, "remember", LegacyPath, e)

\* A fact is known by its text.
AppendPersonalMemory(w) == \E e \in Marked : Start(w, "remember", LegacyPath, e)
IntegrateTrustedMessage(w) == \E e \in Marked : Start(w, "remember", LegacyPath, e)

-----------------------------------------------------------------------------
(* The decision ledger: recordDecisionLedgerForToolCall. *)

\* An accepted call that took effect, or an observation; a call of another
\* application only when it asked for an approval.
Meaningful(call) ==
  /\ call.accepted
  /\ call.executed \/ call.tool = "record_observation"
  /\ call.tool = "write_file" => call.reviewNote
  /\ call.tool = "app" => call.approval # NoId

\* Mutant of DecisionMarker: every call has an entry of its own.
DecisionMarker_PerCall(call) == <<"tool-call", call.id>>

\* The entry is named for the side effect rather than for the call, so that
\* several calls that lead to the same one are recorded together.
DecisionMarker(call) ==
  LET ids == <<call.approval, call.outbound, call.event>>
      names == <<"approval", "outbound", "task-event">>
      known == {i \in DOMAIN ids : ids[i] # NoId}
      first == CHOOSE i \in known : \A k \in known : i <= k
  IN  IF known # {} THEN <<names[first], ids[first]>>
      ELSE IF call.task # NoId /\ call.tool \in TaskCreators
      THEN <<"task", call.task, call.tool>>
      ELSE IF call.tool = "write_file" THEN <<"write-file", call.run>>
      ELSE <<"tool-call", call.id>>

\* The id of a call or of a side effect is no item, and its entry is recognised.
ASSUME MarkerAssumption ==
  \A call \in ToolCalls :
    /\ DecisionMarker(call) \notin Items \cup {Seed}
    /\ Meaningful(call) => DecisionMarker(call) \in Marked

AppendDecisionEntry(w) ==
  \E call \in ToolCalls, p \in Paths :
    Meaningful(call) /\ Start(w, "once", p, DecisionMarker(call))

StartWriter(w) ==
  \/ RecordOwnerFeedback(w) \/ RecordTaskOutcomeMemory(w) \/ RecordScheduledTaskDecision(w)
  \/ AppendDecisionEntry(w) \/ AddMemoryListItem(w) \/ AmendMemoryListItem(w)
  \/ AppendNewsletterPreference(w) \/ PersistNewsletterInterestReaction(w)
  \/ UpsertSchedulerMemory(w) \/ ReplaceOrAppendSection(w) \/ WriteFile(w)
  \/ WriteMemory(w) \/ AppendPersonalMemory(w) \/ IntegrateTrustedMessage(w)

-----------------------------------------------------------------------------
Finish(w) == writer' = [writer EXCEPT ![w] = NoWriter("done")]

\* The read returned row; text and expected are what the writer will send.
Prepare(w, row, text, expected) ==
  writer' = [writer EXCEPT ![w] =
    [@ EXCEPT !.at = "writing", !.base = row, !.text = text, !.expected = expected]]

\* expectedVersion: existing?.version, which is undefined for a missing document.
VersionRead(row) == IF row.state = "live" THEN row.version ELSE NoVersion
TextRead(row) == IF row.state = "live" THEN row.text ELSE <<>>

\* An append: recordOwnerFeedback, appendDecisionEntry, recordTaskOutcomeMemory,
\* addMemoryListItem, appendNewsletterPreference and the interest signal.  All
\* but the first answer that the entry is there if they find its marker.
AppendRead(w, row) ==
  LET e == writer[w].entry
  IN  IF writer[w].kind \in {"once", "insist"} /\ Holds(TextRead(row), e)
      THEN Finish(w) /\ acknowledged' = acknowledged \cup {e}
      ELSE /\ Prepare(w, row, Append(OrSeed(TextRead(row)), e), VersionRead(row))
           /\ UNCHANGED acknowledged

\* upsertSchedulerMemory and appendNewsletterKnowledge: a text of the host's
\* own, written without a version if the document is missing.
SeedRead(w, row) ==
  IF row.state = "live" THEN Finish(w) ELSE Prepare(w, row, <<Seed>>, NoVersion)

\* updateMemoryListItem and removeMemoryListItem, which archives: the first item
\* that matches is rewritten in place, under a new text perhaps.
AmendRead(w, row) ==
  LET found == {i \in DOMAIN TextRead(row) : row.text[i] = writer[w].entry}
      first == CHOOSE i \in found : \A k \in found : i <= k
  IN  IF found = {} THEN Finish(w)
      ELSE \E item \in Items : Prepare(w, row, [row.text EXCEPT ![first] = item], row.version)

\* replaceMarkdownSection and appendMarkdownSection with the version the caller
\* has read; a section that is replaced loses its entry.
SectionRead(w, row) ==
  IF TextRead(row) = <<>> THEN Finish(w)
  ELSE \E text \in {Append(row.text, writer[w].entry),
                    [row.text EXCEPT ![Len(row.text)] = writer[w].entry]} :
         Prepare(w, row, text, row.version)

\* write_file and PUT /knowledge/files: all of the text, the caller's own, with
\* the version it has read, or with none.
PutRead(w, row) ==
  \E text \in {<<writer[w].entry>>, Append(TextRead(row), writer[w].entry)},
     expected \in {NoVersion, IF row.state = "live" THEN row.version ELSE 0} :
    Prepare(w, row, text, expected)

ReadDocument(w) ==
  LET row == docs[writer[w].path]
      kind == writer[w].kind
  IN  /\ writer[w].at = "reading" /\ kind # "remember"
      /\ \/ kind \in {"feedback", "once", "insist"} /\ AppendRead(w, row)
         \/ kind = "seed" /\ SeedRead(w, row) /\ UNCHANGED acknowledged
         \/ kind = "amend" /\ AmendRead(w, row) /\ UNCHANGED acknowledged
         \/ kind = "section" /\ SectionRead(w, row) /\ UNCHANGED acknowledged
         \/ kind = "put" /\ PutRead(w, row) /\ UNCHANGED acknowledged
      /\ UNCHANGED <<docs, legacy, removed, exposed>>

-----------------------------------------------------------------------------
NewId == 1 + Cardinality({p \in Paths : docs[p].state # "absent"})

\* What the writer meant to take away of the text it had read.
Dropped(w) == EntriesOf(TextRead(writer[w].base)) \ EntriesOf(writer[w].text)

\* What else the write takes away.
Overwritten(w, row) ==
  (EntriesOf(TextRead(row)) \ EntriesOf(writer[w].text)) \ Dropped(w)

\* The write is checked against the very document the writer has read.
Checked(w, row) == writer[w].expected # NoVersion /\ row.id = writer[w].base.id

Committed(w, docsAfter) ==
  LET row == docs[writer[w].path]
      e == writer[w].entry
  IN  /\ docs' = docsAfter
      /\ acknowledged' = IF e \in EntriesOf(writer[w].text) \ {Seed}
                         THEN acknowledged \cup {e} ELSE acknowledged
      /\ removed' = removed \cup ((Dropped(w) \cap EntriesOf(row.text)) \ {Seed})
      /\ exposed' = IF Checked(w, row) THEN exposed
                    ELSE exposed \cup (Overwritten(w, row) \ {Seed})
      /\ Finish(w)
      /\ UNCHANGED legacy

\* A conflict is retried where the code has a second attempt.
Refused(w) ==
  /\ writer' = [writer EXCEPT ![w] =
       IF writer[w].left > 1
       THEN [writer[w] EXCEPT !.at = "reading", !.left = @ - 1] ELSE NoWriter("done")]
  /\ UNCHANGED <<docs, legacy, acknowledged, removed, exposed>>

\* The transaction up to the UPDATE, or up to a SELECT that found no row.
WriteDocument(w) ==
  LET p == writer[w].path
      result == PgWrite(docs, p, writer[w].text, writer[w].expected, NewId)
  IN  /\ writer[w].at = "writing"
      /\ result.docs[p].version <= MaxVersion
      /\ IF result.outcome = "conflict" THEN Refused(w)
         ELSE IF docs[p].state = "live" THEN Committed(w, result.docs)
         ELSE /\ writer' = [writer EXCEPT ![w].at = "inserting"]
              /\ UNCHANGED <<docs, legacy, acknowledged, removed, exposed>>

\* A unique violation is thrown to the caller, who records nothing.
InsertDocument(w) ==
  LET result == PgInsert(docs, writer[w].path, writer[w].text, NewId)
  IN  /\ writer[w].at = "inserting"
      /\ IF result.outcome = "written" THEN Committed(w, result.docs)
         ELSE Finish(w) /\ UNCHANGED <<docs, legacy, acknowledged, removed, exposed>>

\* A query fails, or the process ends, before the transaction commits.
DropWriter(w) ==
  /\ writer[w].at \in {"reading", "writing", "inserting", "saving"}
  /\ Finish(w)
  /\ UNCHANGED <<docs, legacy, acknowledged, removed, exposed>>

-----------------------------------------------------------------------------
(* Legacy records: write_memory, appendPersonalMemoryFromOwnerMessage and     *)
(* integrateTrustedMessageIntoMemory read the body, write it whole, and then  *)
(* write it as a markdown document; there is no version.                      *)

\* A fact that is in the body already is not written again.
ReadLegacy(w) ==
  /\ writer[w].at = "reading" /\ writer[w].kind = "remember"
  /\ IF Holds(legacy, writer[w].entry) THEN Finish(w)
     ELSE writer' = [writer EXCEPT ![w] =
            [@ EXCEPT !.at = "saving", !.text = Append(OrSeed(legacy), writer[w].entry)]]
  /\ UNCHANGED <<docs, legacy, acknowledged, removed, exposed>>

SaveLegacy(w) ==
  /\ writer[w].at = "saving"
  /\ legacy' = writer[w].text
  /\ writer' = [writer EXCEPT ![w].at = "writing"]
  /\ UNCHANGED <<docs, acknowledged, removed, exposed>>

-----------------------------------------------------------------------------
(* delete_path and move_path of an MCP session. *)

Delete(p) ==
  /\ \E expected \in {NoVersion, docs[p].version} :
       PgDelete(docs, p, expected).outcome = "written"
       /\ docs' = PgDelete(docs, p, expected).docs
  /\ removed' = removed \cup (EntriesOf(docs[p].text) \ {Seed})
  /\ UNCHANGED <<legacy, writer, acknowledged, exposed>>

\* As far as Paths and MaxVersion reach.
Move(from, to) ==
  LET result == PgMove(docs, from, to, NoVersion)
  IN  /\ from # to /\ from \in LivePaths(docs) /\ docs[from].version < MaxVersion
      /\ \A p \in MovedRows(docs, from) : Renamed(from, to, p) \in Paths
      /\ result.outcome = "written"
      /\ docs' = result.docs
      /\ UNCHANGED <<legacy, writer, acknowledged, removed, exposed>>

-----------------------------------------------------------------------------
WriterStep(w) ==
  \/ StartWriter(w) \/ ReadDocument(w) \/ WriteDocument(w) \/ InsertDocument(w)
  \/ ReadLegacy(w) \/ SaveLegacy(w) \/ DropWriter(w)

Next ==
  \/ \E w \in Writers : WriterStep(w)
  \/ \E p \in Paths : Delete(p)
  \/ \E from, to \in Paths : Move(from, to)

Spec == Init /\ [][Next]_vars

-----------------------------------------------------------------------------
Recorded == UNION {EntriesOf(docs[p].text) : p \in LivePaths(docs)}

\* An entry whose writer was told that it is recorded is in memory from then on,
\* whatever other writers, retries and moves do meanwhile, until a call takes it
\* away that means to.  The exceptions are named: a text that was replaced
\* without a version, or under the version of another document.
AcknowledgedIsKept == acknowledged \ (removed \cup exposed) \subseteq Recorded

SameApproval ==
  {<<DecisionMarker(calls[1]), DecisionMarker(calls[2])>> : calls \in
     {cd \in ToolCalls \X ToolCalls : cd[1].approval # NoId /\ cd[1].approval = cd[2].approval}}

\* However often an outcome, an owner message or a side effect is recorded, by
\* several tool calls and by several processes at a time, a document has one
\* entry for it.  Items are excepted: one may be renamed to another's text.
EntriesAreSingle ==
  \A p \in LivePaths(docs) : \A i, k \in DOMAIN docs[p].text :
    LET e == docs[p].text[i]
        f == docs[p].text[k]
    IN  (e = f /\ e \notin Items) \/ <<e, f>> \in SameApproval => i = k
=============================================================================
