# A TLA+ model of the assistant's host

The assistant (an API process, a worker process and a RAG worker process over
one PostgreSQL database) lets a language model propose things and lets ordinary
code decide what happens. This directory models the deciding code: the handlers
and worker phases through which every side effect has to pass. Around them it models
what the deciding code rests on: the queues, the documents, the runs of the
agent, the start of the services. TLC checks the model on small instances and
TLAPS proves the most important part of it for any number of rows, requests,
workers and failures.

Paths below are relative to the repository root.

## Inventory

| Component | State it keeps | Operations | Hard behaviour | What makes it correct |
|---|---|---|---|---|
| Side-effect store (`api/src/domain/store.ts`: outbox, approvals) | `outbound_messages`, `approvals` rows | queue, claim, update status; create, decide, edit payload, claim / complete / fail execution | some writes are conditional (claims, completion), some unconditional (status updates) | a claim has one winner; unconditional writes never undo something that matters |
| Approval policy (`security/approvalPolicy.ts`, routes in `http/app.ts`) | nothing but local variables across awaits | propose, decide, expire, edit, PATCH outbox | each handler is several awaits with no transaction; browser, SMS replies and worker race | nothing gated is released without an approval |
| Cross-app executor (`scheduler/approvalExecutor.ts`) | the claimed row, in memory | list, claim, validate, call, record | crash between call and record; late answers; two workers | the target is called at most once, only if approved; outcome recorded once |
| SMTP sender (`connectors/smtpSender.ts`) | the listed and the claimed row, in memory | list due rows, fail early, claim, send, record, retry a daily check-in | crash after the provider accepted; two workers; limit per tick | no message is sent twice unless re-armed; daily attempts are bounded; no starvation |
| Stuck-state recovery (`scheduler/taskQueue.ts`) | stale listings, in memory | expire approvals, settle sends, fail executions, fail task claims | writes rows listed earlier while others change them | everything interrupted is eventually settled, nothing is repeated |
| Task scheduler, autonomous tasks (`scheduler/`) | `tasks`, `task_events` | claim due tasks, run, complete, fail, schedule next | crash while claimed; recurrence duplicated or lost; read-modify-write of a task | a recurring task always has exactly one next occurrence |
| Worker processes (`worker.ts`, `ragWorker.ts`) | running flag, health file | tick, skip, record health | overlapping timers; an error of one user ends the round | ticks never overlap; the worker recovers after an error |
| IMAP poller (`connectors/imapPoller.ts`) | cursor, UIDVALIDITY, failures, backoff in the connector's config | poll, fetch, handle, commit cursor, quarantine | crash between handling and commit; mailbox reset; poison messages; owner edits the config meanwhile | every message is handled; none blocks the rest; none is handled twice |
| Inbound handling (`connectors/inboundProcessor.ts`, `agent/inboundMessageAgent.ts`) | inbound rows, conversations | dedupe, classify the sender, route to owner / trusted / newsletter / review paths | duplicates; a YES that refers to something else | untrusted text never reaches an owner-only path |
| Agent runtime (`agent/runAgentTask.ts`, `agent/runtimeDeadline.ts`) | run record, tool calls | model call, tool calls, deadlines, final answer | timeouts racing answers; tool failures | the loop is bounded and every run ends in a recorded state |
| Tools and integrations (`tools/`, `integrations/`) | none | validate, dispatch, propose | write actions must not run directly | a write action always becomes an approval unless the owner commanded it |
| Owner messaging, sender policy (`tools/ownerMessaging.ts`, `security/senderPolicy.ts`) | counts of today's messages, sliding window | queue within budget, classify, limit | count then insert; window boundary | budgets and limits hold |
| RAG index jobs (`rag/indexer.ts`, `ragWorker.ts`, store) | `rag_index_jobs`, chunks, Qdrant vectors | enqueue, claim, index, delete, complete, fail, retry | stale claims; old job after newer version; dead letters | vectors converge to the current document version |
| Markdown memory (`memory/markdownFilesystem.ts`, store) | documents, versions, changes | write, move, delete with expected version | concurrent writers | no lost update; the change log matches |
| Memory records (`memory/*.ts`) | sections of markdown documents | read-modify-write helpers | conflicts and retries | entries are not lost |
| Migrations (`db/migrate.ts`) | `schema_migrations` | check, apply, record | several processes start together | each migration once, in order |
| Web research, newsletter policy (`research/`, `security/newsletterPolicy.ts`) | research bundles | sanitise, verify, store | text classification | only reviewed content is used |
| Sessions, MCP (`auth/session.ts`, `mcp/server.ts`) | session rows | create, authenticate, expire | expiry at a boundary | no tool without a session |
| In-memory store of the tests (`domain/store.ts`, `createMemoryStore`) | the same tables as maps in the process | the same functions | every test runs on it, production does not | it does what PostgreSQL does |
| Configuration, seeding, web UI | - | - | - | not modelled, see below |

The components interact through the database only. The API process runs
handlers for the owner's browser; the worker process runs one tick at a time
(recovery, tasks with agent runs, executor, delivery, inbox) and the agent's
tools call the same handlers; nothing holds a lock or a transaction across two
store calls. A third process, the RAG worker, follows the queue of index jobs
into Qdrant. All three migrate the database before they serve.

## Modules

| Module | Models |
|---|---|
| `AgentStore` | the two tables and the store functions that write them; the clock as three facts per row |
| `ApprovalPolicy` | the handlers that propose, decide, edit, PATCH and queue; extends `AgentStore` |
| `WorkerTick` | the memory of a worker during a tick, shared by the three phases below; extends `AgentStore` |
| `StuckRecovery` | `recoverStuckWorkerState` for approvals, sends, executions |
| `ApprovalExecutor` | `executeApprovedCrossAppApprovals`; `calls` counts what the target performed |
| `SmtpSender` | `processOutboundQueue`, `sendOutboundMessage`; `accepted` counts what the provider took |
| `AgentHost` | all of these composed, failures, fairness, and the properties |
| `CrossAppWrite` | the abstract promise of a cross-application write |
| `InboundHandling` | the inbound rows, `handleInboundMessage` and the handlers it calls, await by await |
| `ImapPoller` | `processImapInbox` around it: the connector's configuration, the mailbox, the settings page |
| `MCImapPoller` | instance for TLC: what each named message is |
| `MailProofs` | type correctness of the poller; the owner's agent runs once, the owner is asked once, no message is given up too early, none is skipped |
| `DocumentStore` | documents, their chunk rows and the queue of index jobs: the writes, the claim, the outcomes, the administrator's retry |
| `RagIndex` | `processRagIndexJobs` and `indexMarkdownDocument` between that store and Qdrant, await by await |
| `RagProofs` | type correctness, the bound on attempts, no late result taken, and that what is indexed is searchable |
| `TaskStore` | the tasks table, `updateTask` as a read and a write, the task routes and the agent's task tools |
| `TaskScheduler` | the tasks of a worker tick over that store: stale claims, reconciliation of recurring tasks, the claim of a batch, each run with its catch and finally |
| `TaskProofs` | type correctness of the scheduler, check-ins tried, messages queued, and that runs are asked for |
| `MarkdownStore` | the store's functions on markdown documents, from documents to documents and an outcome: create, write with an expected version, delete, move |
| `MarkdownMemory` | everything that writes long-term memory over that store: the tools, the ledgers, memory lists, newsletter preferences, the bootstrap, the legacy records |
| `MCMarkdownMemory` | instance for TLC: two files, the tool calls a decision may be about |
| `MemoryProofs` | what was acknowledged stays in memory, and is there once |
| `MemoryStore` | `createMemoryStore`, part by part, beside `AgentStore`, `DocumentStore` (both by INSTANCE) and `MarkdownStore` |
| `MCMemoryStore` | instance for TLC: two files, each with one below it |
| `StoreProofs` | the store in memory makes the steps of PostgreSQL and holds the same documents |
| `ToolRegistry` | the agent's tools as three files of the code describe them: declared access, the integration action called, what that action does |
| `AgentTools` | `executeToolCall` and what it calls, await by await: budgets, approvals, the calls of other applications, research sessions |
| `AgentRun` | `runAgentTask` and the handoff around it: a turn, its runs, the loop under its deadline; extends `AgentTools` |
| `MCAgentRun` | instance for TLC: which tools each turn proposes |
| `AgentProofs` | evidence gives no authority; a request is handed to a fresh run only before anything was called; what the budgets allow |
| `Migrations` | the migration runners of all containers over one database |
| `WorkerService` | the processes of both workers: timers, the round over the users, the watchdog, the health files; extends `Migrations` |
| `MCWorkerService` | instance for TLC: the services and which start together |
| `ServiceProofs` | migrations take effect once and in order; the health files never flatter |
| `MCAgentHost` | instance for TLC: the symmetry of the sets |
| `AgentHostProofs` | type correctness and what calls and ticks hold between awaits; cross-application writes and the refinement of `CrossAppWrite`; the approval gate, deliveries and their attempts |

### How state corresponds to code

- `outbox[m]` and `approvals[a]` are rows; `"absent"` is a row not inserted yet.
  Text, addresses and payloads are abstracted to the row's identity; of the
  payload the link `outbound_message_id` is kept, because handlers follow it.
- Timestamps are kept as what the code asks of them: `due`
  (`next_delivery_attempt_at` has passed), `stale` (`updated_at` older than the
  grace period), `lapsed` (`expires_at` has passed). The clock sets them;
  a write that sets `updated_at` clears `stale`. `created` orders rows as
  `created_at` does.
- `request[r]` is one call of a handler: the await it has reached and what it
  has read. Every await is a step, and between two steps anything may happen. A
  call can be abandoned at any await (an exception, the end of the process).
- `worker[w]` is one tick: the phase, the rows listed for it and not handled
  yet, the row at hand. A crash, or an error that escapes `daemonOnce`, resets it.
- `decisions`, `armings` are histories, used by properties only: the decisions
  written on an approval, and how often a request made a message deliverable.
  `calls`, `accepted` belong to the outside world and are never read by the code
  modelled here.

Of the mail path:

- `mailbox` is the provider's mailbox in UID order, `uidValidity` its
  generation. `connector` is the connector row with the keys of its `config` the
  poller uses; 0 stands for null. Every function that updates it reads the whole
  row, changes it in memory and writes it back: two steps, `ReadConnector` and
  the write, for the poller as for the settings page (`OpenSettings`,
  `SaveSettings`).
- `poll` is one call of `processImapInbox`: the await it has reached (`point`),
  the configuration it started from and keeps in memory, the row the update in
  progress has read, the UIDs of the batch still to be handled.
- `inbound[m]` is the row of message `m`: whether it exists, the date received,
  whether a conversation thread links it, the handling action. A message that
  is delivered twice has one row, since its provider id is looked up first.
- `handling` is one call of `handleInboundMessage`. An await that throws, or the
  end of the process, abandons it and leaves its rows; the poller then meets the
  message again as a duplicate, and `Resumable` decides.
- `agentRuns`, `notices`, `remembered` count what a message has caused; `parses` counts its parse failures as far as the threshold.

Of the document index:

- `document[d]` is the row of a document: its version (which stands for text and
  hash, both of which every write replaces), whether it is deleted, whether it is
  marked indexed and for which version. `chunkRows[d]` is the version its chunk
  rows were cut from. `job[j]` is the `j`-th job ever inserted, so the order of
  `created_at` is the order of the numbers.
- `due` and `stale` stand for `available_at` and `started_at`, as for the
  outbox: the retry may be claimed, the claim is older than five minutes.
- `points[d]` is what the Qdrant collection holds of a document. A point id is
  made of document, version and chunk, so a point is a pair of a version and the
  number of its upsert batch; a repeated upsert adds nothing.
- `indexer[x]` is the memory of a RAG worker: the await it has reached, the jobs
  claimed and not begun, the job at hand, the version it loaded and the next
  batch. `starts` is a history: how often a job was begun since it was queued.
- `JobFails` is the catch around one job, `Crash` the watchdog, the kernel, or an
  error in the catch itself. A request Qdrant performed without acknowledging is
  the step followed by one of the two.

Of the tasks:

- `task[t]` is a row. Its title is a `kind` (one of the recurring tasks, a
  scheduled owner message, or other work), its prompt the set `asked` of the
  follow-ups appended to it. `due` is NULL, past or future; `stale` says that a
  claim is older than the grace period. The statuses `running`, `waiting` and
  `blocked` are one, `parked`: no worker claims or recovers such a row, and
  `isActiveTask` counts it.
- `updateTask` reads a row and writes every column of it, so every caller takes
  two steps (`ReadTask`, `WriteTask` of a request; `ReadRow`, `WriteRow` of a
  worker) and writes back the columns it read. The route that appends a prompt
  has read the old prompt even earlier.
- `request[r]` is one call of a task route or of a task tool. The tools an agent
  run calls are such requests too: they take the same steps on the same rows.
- `worker[w]` is a tick: its `phase` (the recovery of stale claims, the upkeep of
  the recurring tasks, the runs), the rows of the phase not begun, the row at
  hand with the prompt it had when it was claimed, what the last listing called
  duplicate or missing, and whether the error at hand came from the try block or
  from its catch.
- `owed[t]` (follow-ups accepted, in no run yet) and `credit[t]` (runs asked for
  and not begun) are histories.
- `Forget` lets the row of an ended task stand for another one, so that three
  rows make an unbounded run; nothing that still refers to a row allows it.

Of the documents and what writes them:

- `docs[p]` is the row of a path: absent, live or deleted, its id, its version,
  its text. A text is the sequence of its entries, what writers add one call at a
  time; a path is a tuple of names, so that the order of paths is that of tuples.
- `writer[w]` is one call of a function that changes a document: it reads the
  document (`reading`), builds the whole new text, and writes it back
  (`writing`). A write that finds no row to lock inserts in a step of its own
  (`inserting`), where it can lose to another. A `kind` says how the code writes:
  with the version it read or without, once or with a second attempt, testing for
  a marker or not. Legacy records have a body of their own (`legacy`), written
  before the copy in markdown (`saving`).
- `acknowledged` are the entries whose writer was told that they are recorded,
  `removed` those a call meant to take away, `exposed` those in a text that was
  replaced without a version, or under the version of another document at the
  path: histories.
- `MemoryStore` runs one part of the store per behaviour (`part`), since no
  function of it touches two. Where two stores share their variables, every call
  of the one is compared with the action of the other (`CallsAgree`); documents
  are kept twice (`pgDocs`, `memDocs`) and given the same calls
  (`DocumentsAgree`).

Of the agent:

- `turn[t]` is a request and where the host's code stands with it: counting the
  runs of the burst window, creating the run, waiting for the model (`model`) or
  for a tool (`tool`), the run's result (`answered`). `run` names which of at most
  three runs it is in: the first, one resumed from the owner's words alone, one
  forced to delegate.
- `run[t][r]` is the row of a run with the statuses of its recorded calls.
- `tool[t]` is the execution of a tool in the process, from `called` through the
  awaits others may come between to `done` or `failed`. The run's deadline stops
  the waiting, not the tool.
- The model is any sequence of proposals out of `Reach`; what the owner's words
  amount to is a `command`; evidence is whether a prompt holds web research or
  newsletters. `effects` is a history of what calls have written, here or in
  another application, under which run and as which call of it.

Of the services:

- `service[s]` is a container: down, in its migration runner (`schema`, `check`,
  `transaction`, with the next migration) or up. `applied` is
  `schema_migrations`, `ran` a history of committed transactions.
- `running[w]` is the flag of `createNonOverlappingRunner` or its counterpart,
  `work` the user and the stage of the main worker's round, `elapsed` the age of
  the RAG worker's tick.
- `health[w]` is the health file with its age; `memory` what the main worker
  remembers of its latest tick, which the file repeats. `quiet`, `lastEnd`,
  `unwritten` are histories the file is judged by.

A store function is one SQL statement and one atomic action. The audit record
each of them also inserts is a statement of its own that nothing reads back; it
is left out.

### Abstracted

The recipient and transport settings of a delivery are one nondeterministic
failure before the claim. A call of a target has three outcomes: performed and
acknowledged, performed and not acknowledged, not performed. The batch limit of
five executions per tick is larger than any instance. In `AgentHost` the scheduled
tasks and agent runs of a tick appear as the requests they make and as
`QueueDailyCheckIn`; `TaskScheduler` has them in detail. One user is modelled: no statement reads another user's rows.

In the mail path, a sender writes one message (so what a sender is and what its
message is are one constant, `Kind`). The length of the backoff is left out: a
poll that has reported is not due until `PollComesDue`. The writes that accept a
reviewed message are idempotent and one step. The connector test of the settings
page and the audit records are left out. One poller is modelled: one worker is
deployed per database, and `createNonOverlappingRunner` keeps its ticks apart.

In the scheduler, an agent run is one step that completes or fails, or an await
that throws. A date set in the past is one that comes due at once. The age of a
claim is followed only when no worker holds it: the one worker that is deployed
looks for old claims at the start of a tick, when it holds none. (Two workers,
with which a long batch would be taken for lost, are outside the model.) Cancelling a duplicate is
one step: its read and write bracket nothing that survives, the row ends either
way. The prompts of scheduled runs, the schedule memory, the outcome memory, the
Omni Dev tasks and changes of a title are left out, and the model client is
configured. The days between two occurrences are one: the next is `later`.

In the index, embeddings, chunk texts and the creation of the collection are left
out. A claim expires only when nobody works on it, because the watchdog ends a
tick after 150 seconds and a claim is stale after five minutes. One RAG worker is
deployed; the modules allow several, and what depends on the one is said so
(`IndexIsSearchable` assumes it; with two, an old version may be written over a
new one between the deletion and the upsert of the other). A request that Qdrant
performs after the client has given up on it, and a deletion it performs in part,
are not modelled. A deleted document stays deleted: its row keeps the path under
`UNIQUE (user_id, path)`, so nothing can be inserted there.

In memory, the wording of entries, front matter, provenance, diffs and change
records are left out; an entry is what the code recognises it by. Names hold no
wildcards of LIKE. In the comparison of the two stores, functions of tables this
project does not model are left out, and so are listings.

In the agent, prompts, model tiers, repairs of arguments and the parsing of an
output are choices of the model. A run of the burst window is never older than
the window (`earlier` stands for those already in it). An error inside a tool may
come at any of its awaits. The process does not end in the middle of a turn.
The parameters of a capability, tokens and transport are one choice: the
application was reached or it was not, and the answer says either.

In the services, a migration is its number and one transaction; the delivery
limit that a round hands from user to user, logs and resource snapshots are left
out. Time passes in steps that age the files and the RAG worker's tick together.

## Runs

| Run | Question | Instance |
|---|---|---|
| `Execution` | is a cross-app write performed at most once, only if approved, with a final outcome; is `CrossAppWrite` implemented; is a message delivered once per arming when ticks overlap | 1 write, 1 message, 2 workers, 4 racing requests, 1 failure |
| `Delivery` | is a gated message held until an approval is written; are the attempts of a daily check-in bounded | 2 messages, 1 daily check-in, 1 approval, 3 racing requests, 1 failure |
| `Recovery` | is whatever a tick left behind settled, and does the queue drain | 2 messages, both kinds of approval, 2 requests, 2 failures, delivery limit 1 |
| `Mail` | is mail never skipped and never acted upon twice; is only a message that itself failed often enough given up | a command, a stranger's message and a malformed one in 3 deliveries, 1 recreated mailbox, 1 failure |
| `Settings` | does the cursor pass nothing while the owner saves the settings; is every message settled | 5 kinds of message in 2 deliveries, 1 pending approval, 2 saves, 1 failure |
| `RagIndex` | does the index say only what it holds, does no job exceed its budget, does the index converge | 1 document, 3 versions, 4 jobs, 2 batches per document, budget of 2, 2 failures |
| `Tasks` | is a task run only when asked for; is a check-in of today handed over before the next is scheduled, whatever fails; does every recurring task go on, with no claim or duplicate left | 3 rows of which 1 is not the host's, 1 recurring task, 1 request, 1 failure |
| `Memory` | does what was acknowledged stay in memory, and is it there once, whoever writes, retries or moves meanwhile | 3 writers of all kinds, 2 files of which 1 is a memory list, 4 recordable tool calls, 3 versions |
| `Agreement` | does the store the tests run on do what PostgreSQL does | per part: 2 messages, 2 approvals, 1 indexed document with 3 jobs, 4 paths, 2 provider ids |
| `Agent` | does evidence from outside authorise nothing, do the budgets hold, is a request repeated only when nothing was called, does every turn end | an owner's turn with up to 3 runs and 3 rows, or 2 scheduled tasks side by side; 2 calls per run, 1 proactive message, a window of 3 runs |
| `Service` | do migrations take effect once and in order, is a healthy report earned, do rounds keep reaching every user | the API and one of the workers, 2 migrations, 2 users, 2 exits |
| `LostFollowUp` | a statement of the documents that a race breaks (see below) | the smallest that shows it |

Bounds: the sets of rows, of requests and of workers, `MaxFailures` (crashes and
failed awaits), `MaxDeliveryAttempts` (5 in the code, 2 here: what matters is that
the limit is reached and passed) and `DeliveryLimit` (1: the smallest, and the one
most likely to starve). A race needs two actors and what they race for; each run
has at least two requests or two workers besides the worker whose recovery they
race with, and at least one crash where a crash matters. Requests and rows of one
kind are interchangeable, so the safety runs use symmetry; the liveness runs do
not. A PATCH in `Delivery` sets the statuses the user interface offers.
`CHECK_DEADLOCK` is left on where a worker can always tick. `Settings` turns it
off, because the owner may leave the connector disabled, `RagIndex` and `Memory`,
because the writes are bounded and an index that has caught up, or a full
document, has nothing left to do, and `Agent`, because its turns end.

For mail: `QuarantineAttempts` is 2 (3 in the code), so that a count is started,
interrupted and reached; `BatchLimit` is 2 (25 in the code), below the size of
the mailbox in `Mail`, so that a batch ends early; three deliveries allow a
duplicate among others; one recreation makes every stored UID stale; `MaxSkew`,
the days by which a Date header may be ahead, is 0.

For the index: three versions let an old attempt be overtaken twice; four jobs
are one for each version and one for a deletion or a reindexing; two batches let
an upsert be interrupted in the middle; `MaxAttempts` is 2 (3 in the code) and
`BatchSize` 2 (`RAG_INDEX_BATCH_SIZE`), so that a budget is used up and a job
waits behind another.

For tasks: `MaxTasks` is 3, so that a recurring task has an active occurrence, one
that ended and may be brought back, and a task of the owner beside it; one
request, which appends a prompt, sets a status or a date, or creates a task, may
meet every await of a tick. With two requests the three rows can all be the
owner's parked ones and the reconciliation has none left, which the database
does not know, so a second request is of no use to the liveness properties.
`ClaimLimit` is 2 (10 in the code), below the number of rows; a request sets the
status `parked` only, since the other effects of a status are those of an append
(`pending`) or of the end of a run.

For memory: two writers race, and the third is what a retry loses to the second
time; `MaxVersion` 3 is a document that was created, changed under a reader, and
changed again. The first path is the one file of the legacy record, the second
the list. The tool calls are two that share an approval and two that the ledger
leaves out or keeps for their execution alone.

For the comparison of the stores the instance is one row more than a function
looks at; the four paths are two documents and one below each, so that a move
takes a subtree along and meets a taken path.

For the agent: `Mixes` lets the owner's turn come alone and the two scheduled
tasks together, since turns share nothing but the counters and the research of
threads, and the counters are what two tasks race for. `MaxRows` bounds the calls
a run records: three for the owner's run, one more than `MaxToolCalls`, so that
the budget is met; one for a task. `MaxRuns` 3 is met because `earlier` ranges
over all fillings of the window.

For the services: `Migrations` 2 lets a runner fall behind another; `MaxExits` 2
is an exit of a container and one of the container it then races with;
`StaleAfter` 2 and `Watchdog` 3 keep the order of the code (the watchdog fires
after the record is stale); `Started` puts the API beside one worker at a time,
because the two workers share the database's migrations and nothing else.

Fairness: `WF_vars(WorkerStep(w))`, since `startWorker` calls `tick` from
`setInterval` for as long as the process lives and a supervisor restarts it; and
weak fairness of the clock, for each row. For mail, `WF_vars(PollStep)` for the
same reason and `WF_vars(PollComesDue)`, since a backoff ends. For the index,
`WF_vars(IndexerStep(x))`, which also says that Qdrant reports healthy again, and
of the clock for each job. For tasks, the same of the worker and of the clock, of
`FinishRequest` (a call that has begun ends, if only by being dropped) and of
`Forget` (the table never fills). For the agent, weak fairness of the host's own
steps (`HostSteps`: counting, creating, taking a result, the deadline, the
handoff), none of the model and none of the tools, which may be silent for ever.
For the services: containers are restarted and timers fire (weak fairness of
`Migrate`, `StartProgram`, `Timer`), the watchdog's timer fires and time passes;
strong fairness of `RunScheduler` and `PollMail` for each user, which says that a
scheduler and the audit of a failed poll do not throw every time. The poll itself
may fail always, a tick of the RAG worker may fail or hang always.
Otherwise no fairness of requests: nobody has to decide, and a
handler may be abandoned. `MaxFailures` bounds the crashes, without which a worker
might never finish a tick. In `Recovery` there are no daily check-ins: a check-in
that fails before its claim costs no attempt and is re-queued by its task, which
in the model could happen in every tick.

## What the code does differently from what is said of it

- `LostFollowUp`: a prompt appended while its task runs is stored and returns the
  task to `pending`; the worker's `updateTask` at the end of the run then sets it
  `completed`, and no run has seen the prompt.

The others show when an instance is widened or a property added, and no run of
their own is kept. Of the outbox and the mail:

- A decision has no condition on the status it replaces. A rejection written over
  an approval whose execution has been claimed leaves the execution `running`:
  completion, failure and recovery all require `approved`
  (`scheduler/taskQueue.ts:256`).
- Saving the IMAP settings keeps `last_uid` and drops `uid_validity`
  (`sanitizeConnectorConfig`, `http/app.ts:245`). If the mailbox was recreated, the
  next poll has nothing to compare and reads on from the stale cursor.
- A YES interrupted after its decision has no thread link, so it is resumed and
  decides whatever is pending next (`security/approvalPolicy.ts:274`).
- Two decisions that overlap can leave an approval rejected and its message
  approved and delivered ("rejecting or expiring it cancels the outbox record").
- A poll's updates write back the status they read, so a poll in progress can
  enable a connector the owner just disabled.

- With `"pending"` among `PatchStatuses` of `Delivery`, `ApprovalGate` fails: such
  a PATCH is not treated as a decision and releases a message that still requires
  approval. The user interface does not send it.
- The locked statuses of `PATCH /api/v1/outbox/:id` are tested on a row read
  before and the write has no condition, so a manual approval that overlaps with
  a delivery makes the message deliverable again. `DeliveredOncePerArming` counts
  it as an arming.
- With `MaxSkew = 1`, `NoMailSkipped` fails in `Mail`: a message recorded but not
  handled to the end seeds `last_received_at` with its own Date header; a header
  ahead of the mailbox's day hides it from the search, and the cursor passes it.

Of the index and of memory:

- A claim counts an attempt for every job of its batch. A job that kills the
  worker each time uses up the attempts of those claimed with it, and they are
  dead-lettered as having exceeded their processing attempts
  (`domain/store.ts:2255`).
- The ledgers create a document they have not found without an expected version,
  so a document created in between is replaced (`memory/decisionLedger.ts:149`;
  `docs/architecture/30-domain-model.md:310` asks for the version). The exception
  `exposed` of `AcknowledgedIsKept` is about such writes and about the legacy
  records, which have no version at all.
- PostgreSQL refuses the path of a deleted document for ever, the store of the
  tests gives it away again; and the tests' store pushes an index job that is
  asked for twice, where PostgreSQL merges it with the unfinished one. Both are
  named exceptions of `Agreement`.

Of the agent:

- The budgets are counted before the write, so two tools at a time may exceed
  them by one (`BudgetsHold` says by how much). Where the documents say that a
  guardrail fails closed before the side effect is created
  (`docs/architecture/50-agent-runtime.md:471`), an approval and the message it
  holds exist already when the notice of it is over budget
  (`tools/toolExecutor.ts:273`, `:1425`).
- Calls with invalid arguments are recorded and counted but end no run, so a run
  of nothing else goes on until its deadline.
- A tool still running at the deadline goes on and may write after the run is
  `failed`; the session it was given is not bound to the run's status.
- A call of another application that answers with an error is an executed tool
  with an error in it: the run counts it as accepted.

Of the services:

- "A repeatedly failing worker remains unhealthy"
  (`docs/architecture/80-observability-and-safety.md:195`) holds of a process: a restart of the main worker forgets the
  failure, and an exit by the watchdog never records one. `HealthIsEarned` speaks
  of ticks that ended.
- An error in one user's scheduler ends the round, so users after it get no tick
  while it lasts; an error of a mailbox does not. `RoundsRecur` needs the strong
  fairness above for that reason.

Of the scheduler, four behaviours that no document contradicts but a reader
should know:

- A change of a date, or a rationale, that overlaps with a run writes back the
  status it read: a task that has completed is pending or claimed again.
  `RunsAreAsked` counts the former as asked for.
- An occurrence of a recurring task that a request has parked counts as active,
  so no other is created, and nothing wakes it (`RecurrencesRun` excepts it).
- A follow-up appended to a scheduled owner message leaves its prompt without the
  JSON form; the message fails instead of being sent (`RefuseOwnerMessage`).
- A crash after a stale check-in claim is failed and before its fallback is
  queued leaves that day without a check-in: the row is no longer claimed.
  `CheckInIsTried` speaks of the way on, not of that crash.

## Proofs

`AgentHostProofs` proves `Spec => []TypeOK`. TypeOK is not inductive: a handler
that writes a decision must hold an approval and a verdict at that point, and a
tick that settles a send must hold a message. `TypeInv` says what is held at each
point (`RequestHolds`, `WorkerHolds`); it is inductive and implies TypeOK. The
proof has one lemma per store function and one case per action.

The second part proves, for any sets of approvals, requests and workers and
any number of failures, `AtMostOneCall`, `CallsAreApproved`,
`ExecutionMovesForward`, and `Spec => KeepsPromise`, the refinement of
`CrossAppWrite`. That the call count is at most one is not inductive by itself:
one has to know that a worker about to call is the only one (`CallersInv`), which
holds because it claimed an execution that was still `pending`, and that an
execution once claimed is never pending again (`CallsInv`). Steps are classified
first (`StepKinds`): they leave executions and callers alone, write a decision,
give an execution up, or belong to the executor; the invariant, the action
property and the refinement are then three short case analyses.

The third part proves `ApprovalGate` and `DeliveredOncePerArming`, for any rows,
requests, workers and failures. What every step does to a row is proved once
(`RowSteps`): the approval of a row is fixed when it is inserted, and a row becomes
deliverable only by a request that counts it or as a daily check-in. The gate
needs more than the property says (`GateInv`): every link from an approval, every
link a call has read and every message a call or a tick holds leads to a row under
that same approval, and a call about to write `approved` follows a decision on
record; an unconditional write from a stale snapshot is harmless for that reason.
The theorem assumes that no client PATCHes a row to `pending`
(`"pending" \notin PatchStatuses`), as the run does: the route would allow it, the
user interface never asks for it. Deliveries are counted as rights (`TokenInv`):
what was delivered, what ticks are about to hand over and whether the row is
claimable are together no more than the times a request armed it; the conditional
claim turns one kind of right into another, and a crash only loses some. That
recovery and refusals put back to pending nothing but daily check-ins (`RetryInv`)
closes both.

The last part proves `DailyAttemptsBounded` under `SingleWorker`. An attempt is
counted by the claim and pays for one delivery, so what was delivered and what is
about to be are no more than the attempts; and attempts, with one more where the
row can be claimed, stay within the limit and the armings (`AttemptsInv`). What a
tick will put back to pending must still have an attempt left when it writes, long
after it looked (`AttemptsKeptInv`): that is where one worker is needed, and with
two TLC finds the row claimed in between. Deployment runs one.

`MailProofs` proves `Spec => []TypeOK` of the poller, for any messages, mailbox
and bounds: the invariant adds what a poll holds at each point (`HeldUids`: the
UIDs of a batch are of the mailbox, which a session keeps; a handling exists only
while the poller handles). `AgentRunsOnce` follows from `RunInv`: a run implies
the thread link, the handling reaches the link only with an unlinked row and the
run only with a row linked by it, and no linked row is resumed. `NoticedOnce`
follows from `NoticeInv`: a notice implies the row, and only a message without a
row reaches the notice. No step outside the handling touches either
(`OutsideHandling`). `QuarantineIsEarned` follows from `CountInv`: a failure on
record, in the row or as an operation read it, is of a past generation or counts
no more than the parses of the very message its UID stands for; between a failed
parse and its count the row is one behind. A recreated mailbox outdates every
record, and a save of the settings only loses one.

`NoneSkipped` proves `NoMailSkipped`. The cursors live in one row that every
operation of a poll, and the settings page, read first and write whole later, so
`CursorInv` speaks of all the copies: in the row, in what each operation has read,
in what the poll holds. An UID on record passes only settled messages if it is of
the present generation, and a date only days whose mail is settled. `OrderInv`
says of a batch what comes before the message at hand, `DatesInv` that nothing is
seen, or dated on record, before its mail is settled, and `HandledInv` that a
handling ends with its message settled. It assumes `SteadyMail`, and TLC shows that
both halves are needed, since the code does skip without them: a header dated ahead
of the mailbox's day hides its message (`MaxSkew`), and a page saved over the
generation of a mailbox recreated since leaves a cursor nothing can outdate
(`MaxEdits` together with `MaxRecreations`). Either alone is covered, and `Mail`
and `Settings` are instances of the two cases.

`RagProofs` starts from an invariant (`RagInv`) on three levels: of a job
(`JobOK`: nothing is requested beyond the version a document has, and a deletion
is requested only of a document deleted for good), of what is held (`HoldInv`: a
held job is claimed, by one indexer only, and was claimed once more than it was
begun) and of each point of an indexer (`PointOK`). `TypeOK` and `StartsBounded`
follow from it for any number of indexers; `IndexedIsCurrent` is inductive
relative to it, because only four steps touch a document (`DocumentSteps`).
`IndexedIsSearchable` needs the points of a document while it is worked on
(`WorkOK`): the batches written so far, and that the document is not marked
indexed if the version at hand is no longer its version. It also needs
`OneIndexer`; the exclusion is by deployment, not by the code. Steps are compared
through `Presses`: no step but the completion of a job removes a reason for which
a document counts as unsettled.

`TaskProofs` proves `TypeOK`, `CheckInIsTried`, `CompletedIsQueued` and
`RunsAreAsked` of the scheduler, for any number of tasks, requests, workers and
failures. `TaskInv` says what a request and a worker hold at each await
(`RequestOK`, and `PhaseOK`, `RowsOK`, `KindOK` of a memory): a row read and not
yet written back is of the same task still, because no step but `Forget` takes a
row away or changes its title (`RowsStay`). The two properties of check-ins and
messages are conjuncts of it, one implication for all the ways through the
`try`, its catch and the recovery. `RunsAreAsked` needs a count: `CreditInv` says
that the credit of a task covers the workers that have claimed it and not begun,
and one more if its row is pending. Only two steps touch that account, the claim
and the beginning of a run; every other one is `Quiet`, whatever it does to rows.

`ServiceProofs` proves `MigratedOnce` and `HealthIsEarned` for any services,
migrations, users and periods. The first needs what a runner knows from the order
in which it tests (`RunnerOK`: what precedes its next migration is applied, inside
a transaction too) and that what is applied is the beginning of the list: a commit
that adds a migration finds everything before it applied, and one that adds
nothing is a rollback. The second needs that no record is younger than the last
movement (`RecordOK`: `quiet` is at most the age) and that a written failure stays
in the file, through the main worker's memory or through the file itself, until a
tick ends well. A write keeps that (`WriteKeeps`), the end of a tick renews it
(`EndKeeps`), and the passing of time is monotone in both ages (`PassKeeps`).

`AgentProofs` proves `EvidenceGivesNoAuthority` and `HandoffIsClean` for any turns,
threads and tools, from no assumption about the constants. What is inductive is
about calls and not about effects: a call is `Sound` for a row if that row, when
it keeps to reading, reads, and holds no accepted research before the call. Rows
are created once (`FreshInv`) and then only extended (`RunsGrow`), so a call stays
sound while its tool outlives the run that gave up waiting (`SoundKept`); the
effects inherit it from the tool. `CleanInv` adds that nothing was called as long
as the result of a turn says no tool and no failure. Every step of a turn has one
of nine shapes (`TurnShapes`), every step of a tool one (`ToolShapes`).

`WithinBudgets` proves `BudgetsHold`, for a finite set of turns. A run that was let
in and has no row yet, or a message that was counted and is not written yet, is a
promise. `BudgetInv` counts the promises with what is there: together they exceed
the limit by less than the number of turns that have begun. A check that lets one
in saw what is there below the limit, and the other promises are of other turns,
one each; what is promised takes its place at once. In a turn one tool at a time
is between its check and its record, so the calls of a run need no such allowance.

`MemoryProofs` proves `AcknowledgedIsKept` and `EntriesAreSingle`, for any writers,
files, calls and versions. What makes a write under an expected version safe is
that the id and the version of a row identify its text for ever (`ReadOK`): every
call of the store replaces rows by later versions of themselves or inserts under a
new id (`Grows`), through moves and deletions too, so the row a writer has read is
there as it was or has a later version, and the text it replaces is the one it
extended. Whatever is replaced otherwise is `exposed`. That an entry is there once
needs, of writers that look for a marker, that the text they extend has none, and
of those that do not look, that nobody else knows their entry (`Authored`): it is
in no document, no other text to be written, no other call. `MemoryInv` says so
of the documents and of every text still to be written (`Single`).

`StoreProofs` proves `CallsAgree` and `DocumentsAgree`. Each call of the store in
memory has a lemma that it is the action of the other; `StoreInv` supplies that a
row which is not there has its default values, and that no job asks for a version
its document does not have, for which PostgreSQL would merge a request with an
unfinished one. The claim is a loop that stops at the limit in one store and the
oldest few of a query in the other: `ClaimedIsTheBatch` counts that these are the
same set. Of documents `LibraryInv` says that both stores hold the same rows. The
move is where they differ: PostgreSQL refuses a target that has a row, the store in
memory overwrites paths one by one in their order. If none is refused, the new
names are different (`RenamedApart`) and nothing that is moved later takes a path
away from what was moved there (`BeforeIsStrict`), so the order does not matter.

The type correctness of `RagIndex` and `TaskScheduler` is proved and no run
repeats it.

Assumptions used: `StoreAssumption`, `PolicyAssumption`, `InboundAssumption`,
`PollerAssumption`, `DocumentAssumption`, `RagAssumption`, `TaskAssumption`,
`SchedulerAssumption`, `MigrationAssumption`, `ServiceAssumption`,
`PathAssumption`, `MemoryAssumption`, `MarkerAssumption`, `MemoryStoreAssumption`,
`ToolsAssumption` and `RunAssumption` (the last two for the budgets only), and the
ranges of `CallOutcomes`, `DeliveryLimit`, `MaxFailures`; TLC evaluates all of
them. Four theorems have a hypothesis besides, each one the code or its deployment
answers for: no PATCH to `pending` (`GatedUntilApproved`), `SingleWorker`
(`AttemptsBounded`), `OneIndexer` (`IndexIsSearchable`), `SteadyMail`
(`NoneSkipped`). `RegistriesAgree` is an assumption in form and a check in
substance: TLC evaluates that the registry declares a tool a write exactly if the
action the executor calls for it writes.

Every invariant and action property that a run checks is proved. What is under
fairness is model-checked only (liveness, and the ENABLED of fairness, are outside
what the prover handles), and so is the statement of `LostFollowUp`, which is
false.

## Not modelled, and the plan

What is left, in the order of its use:

1. Two workers over one queue of tasks: recovery would settle rows from a listing
   the other has since changed (`scheduler/taskQueue.ts:236`). One worker is
   deployed, and the modules say where they rest on it.
2. The sliding window of the review notices, quiet hours and the choice of a
   channel; the length of a backoff.
3. Sessions and MCP: lookup, expiry, which tools a session exposes. `AgentTools`
   has the one session a run opens.
4. The pure algorithms (diff, chunking, recurrence dates, sanitising a page)
   against reference definitions.
5. The parameters of each integration capability and the signature of tokens.

A question is added to an existing run where the instance already contains the
case, so that the whole set of runs stays small enough to be repeated with every
change.

Configuration parsing, seeding, wording, the prompts and the web UI's rendering
are not modelled: they keep no state whose order of change matters.
