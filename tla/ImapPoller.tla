---------------------------- MODULE ImapPoller ----------------------------
(***************************************************************************)
(* processImapInbox against a mailbox that receives mail, is recreated and *)
(* renumbered, and loses connections.  The poller's progress lives in the  *)
(* connector's configuration, which every operation reads, changes in      *)
(* memory and writes back, as the owner's settings page does.              *)
(***************************************************************************)
EXTENDS InboundHandling, Sequences

CONSTANTS
  QuarantineAttempts,  \* parse failures before a message is given up
  BatchLimit,          \* messages per poll
  MaxMail,             \* bound: messages in the mailbox
  MaxRecreations,      \* bound: times the mailbox is recreated
  MaxDay,              \* bound: days
  MaxSkew,             \* bound: days by which a Date header is ahead of the mailbox
  MaxFailures,         \* bound: crashes, failed awaits and lost connections
  MaxEdits             \* bound: times the owner saves the settings

ASSUME PollerAssumption ==
  /\ {QuarantineAttempts, BatchLimit} \subseteq Nat \ {0}
  /\ {MaxMail, MaxRecreations, MaxDay, MaxSkew, MaxFailures, MaxEdits} \subseteq Nat

VARIABLES
  mailbox,     \* messages in UID order: the UID of mailbox[i] is i
  uidValidity, \* the generation of those UIDs
  seen,        \* the UIDs with the Seen flag
  today,       \* the clock, in days
  connector,   \* the row of the connector
  poll,        \* local variables of the poll in progress
  edit,        \* local variables of the settings request in progress
  parses,      \* per message: times it was found malformed, to QuarantineAttempts
  quarantined, \* messages given up
  budget       \* bounds: failures, edits so far

mailVars == <<mailbox, uidValidity, seen, today>>
pollerVars == <<connector, poll, edit, parses, quarantined, budget>>
vars == <<inboundVars, mailVars, pollerVars>>

\* 0 stands for null: no cursor, no date, no validity.
Connector ==
  [enabled : BOOLEAN, lastUid : Nat, lastReceived : Nat, validity : Nat, due : BOOLEAN,
   failedUid : Nat, failedAttempts : Nat, failedValidity : Nat]
NewConnector ==
  [enabled |-> TRUE, lastUid |-> 0, lastReceived |-> 0, validity |-> 0, due |-> TRUE,
   failedUid |-> 0, failedAttempts |-> 0, failedValidity |-> 0]

\* What an operation does next, once it has read the connector.
WriteAfter ==
  [seed |-> "seed_write", sync |-> "sync_write", commit |-> "commit_write",
   count |-> "count_write", quarantine |-> "quarantine_write", clear |-> "clear_write",
   report |-> "report_write"]

PollPoints ==
  {"rest", "connect", "search", "fetch", "handle", "transient"}
    \cup DOMAIN WriteAfter \cup {WriteAfter[p] : p \in DOMAIN WriteAfter}

\* What the poll keeps in memory of the configuration it started from.
Config == [lastUid : Nat, lastReceived : Nat, validity : Nat]
ConfigOf(c) == [lastUid |-> c.lastUid, lastReceived |-> c.lastReceived, validity |-> c.validity]

\* config: the configuration the poll started from; read: the connector as the
\* operation in progress read it; todo: UIDs not handled yet; uid: the one at
\* hand; caught: whether the poll is in its catch clause.
NoPoll == [point |-> "rest", config |-> ConfigOf(NewConnector), read |-> NewConnector,
           todo |-> {}, uid |-> 0, caught |-> FALSE]
NoEdit == [point |-> "rest", read |-> NewConnector]

PollerTypeOK ==
  /\ mailbox \in Seq([message : Messages, arrived : Nat, dated : Nat])
  /\ uidValidity \in Nat \ {0}
  /\ seen \subseteq Nat
  /\ today \in Nat
  /\ connector \in Connector
  /\ poll \in [point : PollPoints, config : Config, read : Connector,
               todo : SUBSET Nat, uid : Nat, caught : BOOLEAN]
  /\ edit \in [point : {"rest", "save"}, read : Connector]
  /\ parses \in [Messages -> Nat]
  /\ quarantined \subseteq Messages
  /\ budget \in [failures : Nat, edits : Nat]

Init ==
  /\ InboundInit
  /\ mailbox = <<>> /\ uidValidity = 1 /\ seen = {} /\ today = 1
  /\ connector = NewConnector
  /\ poll = NoPoll
  /\ edit = NoEdit
  /\ parses = [m \in Messages |-> 0]
  /\ quarantined = {}
  /\ budget = [failures |-> 0, edits |-> 0]

Larger(i, j) == IF i > j THEN i ELSE j
PollAt(point) == poll.point = point
Fetched == mailbox[poll.uid]
After(point) == [poll EXCEPT !.point = point, !.read = NewConnector]
NextMessage == [After("fetch") EXCEPT !.uid = 0]

(***************************************************************************)
(* The configuration each operation writes, from the one it read           *)
(***************************************************************************)
ForgetFailure(c) == [c EXCEPT !.failedUid = 0, !.failedAttempts = 0, !.failedValidity = 0]

\* updateImapProgress: neither cursor goes backwards.
Progressed(c, uid, received) ==
  LET moved == [c EXCEPT !.lastUid = Larger(@, uid), !.lastReceived = Larger(@, received)]
  IN IF uid # 0 /\ c.failedUid = uid THEN ForgetFailure(moved) ELSE moved

ResetNeeded(stored) == stored # 0 /\ stored # uidValidity

\* synchronizeImapUidValidity, decided by the configuration the poll started from.
Synchronized(c, started) ==
  IF ResetNeeded(started.validity)
  THEN ForgetFailure([c EXCEPT !.validity = uidValidity, !.lastUid = 0, !.lastReceived = 0])
  ELSE [c EXCEPT !.validity = uidValidity]

\* resolveImapUidFailure: failures of one UID in one generation are counted.
SameFailure(c) ==
  /\ c.failedUid = poll.uid
  /\ poll.config.validity = 0 \/ c.failedValidity = 0 \/ c.failedValidity = poll.config.validity
Counted_OneAhead(c) ==   \* Mutant of Counted: a first failure counts for two
  LET prior == IF SameFailure(c) THEN c.failedAttempts ELSE 1
      attempts == IF prior >= QuarantineAttempts THEN QuarantineAttempts ELSE prior + 1
  IN [c EXCEPT !.failedUid = poll.uid, !.failedValidity = poll.config.validity,
               !.failedAttempts = attempts]
Counted_FromOne(c) ==    \* Mutant of Counted: every failure is the first
  [c EXCEPT !.failedUid = poll.uid, !.failedValidity = poll.config.validity, !.failedAttempts = 1]
Counted(c) ==
  LET prior == IF SameFailure(c) THEN c.failedAttempts ELSE 0
      attempts == IF prior >= QuarantineAttempts THEN QuarantineAttempts ELSE prior + 1
  IN [c EXCEPT !.failedUid = poll.uid, !.failedValidity = poll.config.validity,
               !.failedAttempts = attempts]

\* What the settings page keeps of the configuration it read.
Saved(c, enabled) ==
  [NewConnector EXCEPT !.enabled = enabled, !.lastUid = c.lastUid, !.lastReceived = c.lastReceived]

(***************************************************************************)
(* One poll                                                                *)
(***************************************************************************)
Stay == UNCHANGED <<inboundVars, mailVars, edit, parses, quarantined, budget>>

\* resolveImapConfig; then a poller without a cursor takes the newest recorded
\* message's date as one.
StartPoll ==
  /\ PollAt("rest") /\ connector.enabled /\ connector.due
  /\ poll' = [NoPoll EXCEPT !.point = IF connector.lastUid = 0 /\ connector.lastReceived = 0
                                        /\ \E m \in Messages : inbound[m].recorded
                                      THEN "seed" ELSE "connect",
                            !.config = ConfigOf(connector)]
  /\ UNCHANGED connector /\ Stay

ReadConnector ==
  /\ poll.point \in DOMAIN WriteAfter
  /\ poll' = [poll EXCEPT !.point = WriteAfter[@], !.read = connector]
  /\ UNCHANGED connector /\ Stay

SeedProgress ==
  /\ PollAt("seed_write")
  /\ \E newest \in {inbound[m].received : m \in Messages} :
       /\ \A m \in Messages : inbound[m].received <= newest
       /\ connector' = Progressed(poll.read, 0, newest)
       /\ poll' = [After("connect") EXCEPT !.config.lastReceived = newest]
  /\ Stay

Connect ==
  /\ PollAt("connect")
  /\ poll' = [poll EXCEPT !.point = IF poll.config.validity = uidValidity THEN "search" ELSE "sync"]
  /\ UNCHANGED connector /\ Stay

SynchronizedConfig ==
  IF ResetNeeded(poll.config.validity)
  THEN [lastUid |-> 0, lastReceived |-> 0, validity |-> uidValidity]
  ELSE [poll.config EXCEPT !.validity = uidValidity]

SynchronizeUidValidity ==
  /\ PollAt("sync_write")
  /\ connector' = Synchronized(poll.read, poll.config)
  /\ poll' = [After("search") EXCEPT !.config = SynchronizedConfig]
  /\ Stay

\* buildImapSearchCriteria and what the mailbox answers.
Matching ==
  {u \in DOMAIN mailbox :
     IF poll.config.lastUid > 0 THEN u > poll.config.lastUid
     ELSE IF poll.config.lastReceived > 0 THEN mailbox[u].arrived >= poll.config.lastReceived
     ELSE u \notin seen}

\* eligibleImapUids: the first ones above the cursor.
EligibleUids(found) ==
  LET above == {u \in found : u > poll.config.lastUid}
  IN {u \in above : Cardinality({v \in above : v < u}) < BatchLimit}

Search ==
  /\ PollAt("search")
  /\ poll' = [After("fetch") EXCEPT !.todo = EligibleUids(Matching)]
  /\ UNCHANGED connector /\ Stay

\* In UID order.  The source parses, and its handling begins; or it never does.
Fetch ==
  /\ PollAt("fetch")
  /\ \E u \in poll.todo :
       /\ \A v \in poll.todo : u <= v
       /\ LET message == mailbox[u].message
              at(point) == [poll EXCEPT !.point = point, !.uid = u, !.todo = @ \ {u}]
          IN IF Kind[message] = "malformed"
             THEN /\ parses' = [parses EXCEPT ![message] =
                                   IF @ < QuarantineAttempts THEN @ + 1 ELSE @]
                  /\ poll' = at("count")
                  /\ UNCHANGED handling
             ELSE /\ BeginHandling(message, mailbox[u].dated)
                  /\ poll' = at("handle")
                  /\ UNCHANGED parses
  /\ UNCHANGED <<inbound, approvable, remembered, agentRuns, notices>>
  /\ UNCHANGED <<mailVars, connector, edit, quarantined, budget>>

Handle ==
  /\ PollAt("handle")
  /\ HandlingStep
  /\ UNCHANGED <<mailVars, pollerVars>>

Handled ==
  /\ PollAt("handle") /\ Now("handled")
  /\ handling' = NotHandling
  /\ poll' = After("commit")
  /\ UNCHANGED <<inbound, approvable, remembered, agentRuns, notices>>
  /\ UNCHANGED <<mailVars, connector, edit, parses, quarantined, budget>>

\* The cursor moves first; the provider may refuse the Seen flag.
Advance(dated) ==
  /\ connector' = Progressed(poll.read, poll.uid, dated)
  /\ seen' \in {seen, seen \cup {poll.uid}}
  /\ UNCHANGED <<inboundVars, mailbox, uidValidity, today, edit, parses, budget>>

CommitMessage ==
  /\ PollAt("commit_write")
  /\ Advance(Fetched.dated)
  /\ poll' = NextMessage
  /\ UNCHANGED quarantined

\* A malformed message ends the poll until it has failed often enough.
CountFailure ==
  /\ PollAt("count_write")
  /\ connector' = Counted(poll.read)
  /\ poll' = After(IF Counted(poll.read).failedAttempts < QuarantineAttempts
                   THEN "report" ELSE "quarantine")
  /\ Stay

Quarantine ==
  /\ PollAt("quarantine_write")
  /\ Advance(0)
  /\ quarantined' = quarantined \cup {Fetched.message}
  /\ poll' = After("clear")

ClearFailure ==
  /\ PollAt("clear_write")
  /\ connector' = IF SameFailure(poll.read) THEN ForgetFailure(poll.read) ELSE connector
  /\ poll' = NextMessage
  /\ Stay

\* Any other failure of a message ends the poll and counts nothing.
StopAtTransient_GoOn ==   \* Mutant of StopAtTransient: the next message is tried
  /\ PollAt("transient") /\ poll' = NextMessage
  /\ UNCHANGED connector /\ Stay
StopAtTransient ==
  /\ PollAt("transient")
  /\ poll' = After("report")
  /\ UNCHANGED connector /\ Stay

EndBatch ==
  /\ PollAt("fetch") /\ poll.todo = {}
  /\ poll' = After("report")
  /\ UNCHANGED connector /\ Stay

\* updateImapPollState: the next poll is due later, after a failure much later.
ReportPoll ==
  /\ PollAt("report_write")
  /\ connector' = [poll.read EXCEPT !.due = FALSE]
  /\ poll' = NoPoll
  /\ Stay

PollStep ==
  \/ StartPoll \/ ReadConnector \/ SeedProgress \/ Connect \/ SynchronizeUidValidity
  \/ Search \/ Fetch \/ Handle \/ Handled \/ CommitMessage \/ CountFailure
  \/ Quarantine \/ ClearFailure \/ StopAtTransient \/ EndBatch \/ ReportPoll

(***************************************************************************)
(* Failures, the owner, the provider, the clock                            *)
(***************************************************************************)
\* Where an await that throws takes the poll: out of processImapInbox while no
\* connection is open, to the handler of the message's failures while a message
\* is handled, else to the report of a failed poll, the last thing tried.
AfterError(point) ==
  CASE point \in {"seed", "seed_write"} -> "rest"
    [] point \in {"fetch", "handle", "commit", "commit_write"} -> "transient"
    [] point \in {"report", "report_write"} /\ poll.caught -> "rest"
    [] OTHER -> "report"

AwaitThrows ==
  /\ ~PollAt("rest")
  /\ poll' = LET next == AfterError(poll.point)
             IN IF next = "rest" THEN NoPoll
                ELSE [After(next) EXCEPT !.caught = next = "report"]

Fail ==
  /\ budget.failures < MaxFailures
  /\ budget' = [budget EXCEPT !.failures = @ + 1]
  /\ AwaitThrows \/ (~PollAt("rest") /\ poll' = NoPoll)
  /\ AbandonHandling
  /\ UNCHANGED <<mailVars, connector, edit, parses, quarantined>>

\* PUT /api/v1/connectors/imap reads the row, and saves what it keeps of it.
OpenSettings ==
  /\ edit.point = "rest" /\ budget.edits < MaxEdits
  /\ edit' = [point |-> "save", read |-> connector]
  /\ budget' = [budget EXCEPT !.edits = @ + 1]
  /\ UNCHANGED <<inboundVars, mailVars, connector, poll, parses, quarantined>>

SaveSettings ==
  /\ edit.point = "save"
  /\ \E enabled \in BOOLEAN : connector' = Saved(edit.read, enabled)
  /\ edit' = NoEdit
  /\ UNCHANGED <<inboundVars, mailVars, poll, parses, quarantined, budget>>

\* New mail; a provider may deliver a message twice.
Deliver ==
  /\ Len(mailbox) < MaxMail
  /\ \E m \in Messages, dated \in today .. today + MaxSkew :
       mailbox' = Append(mailbox, [message |-> m, arrived |-> today, dated |-> dated])
  /\ UNCHANGED <<inboundVars, uidValidity, seen, today, pollerVars>>

\* The mailbox is recreated: older mail may be gone, the rest has new UIDs and
\* lost its flags.  A session never sees it happen.
Recreate ==
  /\ uidValidity <= MaxRecreations
  /\ poll.point \in {"rest", "seed", "seed_write", "connect"}
  /\ \E first \in 1 .. Len(mailbox) + 1 : mailbox' = SubSeq(mailbox, first, Len(mailbox))
  /\ uidValidity' = uidValidity + 1
  /\ seen' = {}
  /\ UNCHANGED <<inboundVars, today, pollerVars>>

PollComesDue ==
  /\ ~connector.due
  /\ connector' = [connector EXCEPT !.due = TRUE]
  /\ UNCHANGED <<inboundVars, mailVars, poll, edit, parses, quarantined, budget>>

NextDay ==
  /\ today < MaxDay
  /\ today' = today + 1
  /\ UNCHANGED <<inboundVars, mailbox, uidValidity, seen, pollerVars>>

Next ==
  \/ PollStep \/ Fail \/ OpenSettings \/ SaveSettings
  \/ Deliver \/ Recreate \/ PollComesDue \/ NextDay

Spec == Init /\ [][Next]_vars

\* The worker polls on every tick, and time passes.
FairSpec == Spec /\ WF_vars(PollStep) /\ WF_vars(PollComesDue)

-----------------------------------------------------------------------------
TypeOK == InboundTypeOK /\ PollerTypeOK

\* A message is settled when its handling is recorded and its content is where
\* the action says, when it was given up, or when its row is one that nothing
\* resumes: an owner's whose run may have started, an unknown sender's.
Settled(m) ==
  \/ inbound[m].action # "none" /\ (Kind[m] \in {"trusted", "newsletter"} => m \in remembered)
  \/ m \in quarantined
  \/ inbound[m].linked
  \/ inbound[m].recorded /\ Kind[m] \in {"untrusted", "blocked"}

\* The cursor never passes a message that is not settled: no failure, lost
\* connection or recreated mailbox makes mail unreachable.
NoMailSkipped ==
  connector.validity = uidValidity
    => \A u \in DOMAIN mailbox : u <= connector.lastUid => Settled(mailbox[u].message)

\* The owner's agent runs at most once for a message, however often the message
\* is delivered, fetched and resumed: a run can have acted for the owner.
AgentRunsOnce == \A m \in Messages : agentRuns[m] <= 1

\* The owner is asked about a message at most once.
NoticedOnce == \A m \in Messages : notices[m] <= 1

\* A message is given up only after its own source failed to parse that often.
QuarantineIsEarned == \A m \in quarantined : parses[m] >= QuarantineAttempts

\* Mail that stays in the mailbox is settled in the end, unless the owner turns
\* the connector off: no message blocks those behind it for ever, no failure is
\* final, and a save of the settings loses none.
InMailbox(m) == \E u \in DOMAIN mailbox : mailbox[u].message = m
MailIsSettled ==
  \A m \in Messages :
    InMailbox(m) ~> (Settled(m) \/ ~InMailbox(m) \/ ~connector.enabled)
=============================================================================
