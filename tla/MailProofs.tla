---------------------------- MODULE MailProofs ----------------------------
(***************************************************************************)
(* Type correctness of the poller, and the theorems that matter most to    *)
(* the owner: the agent runs at most once for a message, the owner is      *)
(* asked about it at most once, no message is given up too early, and      *)
(* none is skipped while the clocks agree and either the settings page or  *)
(* the generation of the mailbox is left alone.                            *)
(***************************************************************************)
EXTENDS ImapPoller, SequenceTheorems, FiniteSetTheorems, TLAPS

USE InboundAssumption, PollerAssumption

\* A poll holds UIDs of the mailbox, and only while a session is open, during
\* which the mailbox keeps them.
Closed == {"rest", "seed", "seed_write", "connect"}
HeldUids ==
  /\ poll.todo \subseteq DOMAIN mailbox
  /\ poll.point \in Closed => poll.todo = {}
  /\ poll.point = "handle" => handling.message \in Messages
  /\ handling.point # "idle" => poll.point = "handle"
  /\ poll.point \in {"handle", "commit", "commit_write", "count", "count_write", "quarantine",
                     "quarantine_write", "clear", "clear_write"} => poll.uid \in DOMAIN mailbox

MailInv == TypeOK /\ HeldUids

LEMMA ConnectorTypes ==
  ASSUME NEW c \in Connector, NEW uid \in Nat, NEW received \in Nat, NEW s \in Config,
         NEW enabled \in BOOLEAN, MailInv
  PROVE  /\ ForgetFailure(c) \in Connector
         /\ Progressed(c, uid, received) \in Connector
         /\ Synchronized(c, s) \in Connector
         /\ Counted(c) \in Connector
         /\ Saved(c, enabled) \in Connector
         /\ NewConnector \in Connector
         /\ ConfigOf(c) \in Config
<1>t. /\ uidValidity \in Nat /\ poll.uid \in Nat /\ poll.config \in Config
      /\ QuarantineAttempts \in Nat
  BY DEF MailInv, TypeOK, PollerTypeOK
<1>1. ForgetFailure(c) \in Connector
  BY DEF Connector, ForgetFailure
<1>2. Progressed(c, uid, received) \in Connector
  <2>1. Larger(c.lastUid, uid) \in Nat /\ Larger(c.lastReceived, received) \in Nat
    BY DEF Connector, Larger
  <2>2. [c EXCEPT !.lastUid = Larger(@, uid), !.lastReceived = Larger(@, received)] \in Connector
    BY <2>1 DEF Connector
  <2> QED BY <2>2 DEF Progressed, ForgetFailure, Connector
<1>3. Synchronized(c, s) \in Connector
  BY <1>t DEF Synchronized, ResetNeeded, ForgetFailure, Connector, Config
<1>4. Counted(c) \in Connector
  <2>1. c.failedAttempts \in Nat /\ poll.config.validity \in Nat
    BY <1>t DEF Connector, Config
  <2> DEFINE prior == IF SameFailure(c) THEN c.failedAttempts ELSE 0
             attempts == IF prior >= QuarantineAttempts THEN QuarantineAttempts ELSE prior + 1
  <2>2. prior \in Nat
    BY <2>1
  <2>3. attempts \in Nat
    <3> HIDE DEF prior
    <3> QED BY <2>2, <1>t
  <2>4. Counted(c) = [c EXCEPT !.failedUid = poll.uid, !.failedValidity = poll.config.validity,
                               !.failedAttempts = attempts]
    BY DEF Counted
  <2> HIDE DEF attempts
  <2> QED BY <1>t, <2>1, <2>3, <2>4 DEF Connector
<1>5. NewConnector \in Connector
  BY DEF NewConnector, Connector
<1>6. Saved(c, enabled) \in Connector
  BY DEF Saved, NewConnector, Connector
<1>7. ConfigOf(c) \in Config
  BY DEF ConfigOf, Config, Connector
<1> QED BY <1>1, <1>2, <1>3, <1>4, <1>5, <1>6, <1>7

LEMMA InitMailInv == Init => MailInv
<1> SUFFICES ASSUME Init PROVE MailInv
  OBVIOUS
<1> USE DEF Init
<1>1. InboundTypeOK
  BY DEF InboundInit, InboundTypeOK, NoInboundRow, InboundRow, Actions, HandlingPoints, NotHandling
<1>2. NewConnector \in Connector /\ ConfigOf(NewConnector) \in Config
  BY DEF NewConnector, Connector, ConfigOf, Config
<1>3. poll \in [point : PollPoints, config : Config, read : Connector,
                todo : SUBSET Nat, uid : Nat, caught : BOOLEAN]
  BY <1>2 DEF NoPoll, PollPoints
<1>4. edit \in [point : {"rest", "save"}, read : Connector]
  BY <1>2 DEF NoEdit
<1>5. PollerTypeOK
  BY <1>2, <1>3, <1>4 DEF PollerTypeOK
<1>6. HeldUids
  BY DEF HeldUids, NoPoll, InboundInit, NotHandling
<1> QED BY <1>1, <1>5, <1>6 DEF MailInv, TypeOK

\* The steps of one handling keep the types.
LEMMA HandlingTypes ==
  ASSUME MailInv, HandlingStep, PollAt("handle"), UNCHANGED <<mailVars, pollerVars>>
  PROVE  MailInv'
<1>0. /\ InboundTypeOK /\ PollerTypeOK /\ HeldUids
      /\ handling.point # "idle" => handling.message \in Messages
      /\ handling.point \in HandlingPoints
  BY DEF MailInv, TypeOK, HeldUids, PollAt, InboundTypeOK
<1>p. UNCHANGED <<mailbox, poll>> /\ PollerTypeOK'
  BY <1>0 DEF PollerTypeOK, mailVars, pollerVars
<1>h. ASSUME NEW point \in HandlingPoints, NEW action \in Actions,
             handling' = [handling EXCEPT !.point = point, !.action = action]
      PROVE  /\ handling' \in [point : HandlingPoints, message : Messages \cup {Nobody},
                               received : Nat, action : Actions]
             /\ HeldUids'
  BY <1>0, <1>p, <1>h DEF InboundTypeOK, HeldUids, PollAt
<1>g. ASSUME NEW point \in HandlingPoints, handling' = [handling EXCEPT !.point = point]
      PROVE  /\ handling' \in [point : HandlingPoints, message : Messages \cup {Nobody},
                               received : Nat, action : Actions]
             /\ HeldUids'
  BY <1>0, <1>p, <1>g DEF InboundTypeOK, HeldUids, PollAt
<1>r. \A m \in Messages : inbound[m] \in InboundRow
  BY <1>0 DEF InboundTypeOK
<1>c. ASSUME NEW f \in [Messages -> Nat], NEW m \in Messages
      PROVE  [f EXCEPT ![m] = @ + 1] \in [Messages -> Nat]
  OBVIOUS
<1>s. SUFFICES InboundTypeOK' /\ HeldUids'
  BY <1>p DEF MailInv, TypeOK
<1>1. CASE RecordInbound
  <2> DEFINE m == handling.message
             next == IF ~inbound[m].recorded \/ Resumable(m) THEN FirstPoint(m) ELSE "handled"
  <2>1. next \in HandlingPoints /\ m \in Messages
    BY <1>1, <1>0 DEF RecordInbound, FirstPoint, HandlingPoints, Now
  <2>2. handling' = [handling EXCEPT !.point = next,
                                     !.action = IF next = "mark" THEN "blocked" ELSE "none"]
    BY <1>1 DEF RecordInbound
  <2>3. /\ handling' \in [point : HandlingPoints, message : Messages \cup {Nobody},
                          received : Nat, action : Actions]
        /\ HeldUids'
    <3>1. (IF next = "mark" THEN "blocked" ELSE "none") \in Actions
      BY DEF Actions
    <3> HIDE DEF next
    <3> QED BY <2>1, <2>2, <1>h, <3>1
  <2>4. inbound' \in [Messages -> InboundRow]
    <3> DEFINE row == [inbound[m] EXCEPT !.recorded = TRUE, !.received = handling.received]
    <3>1. row \in InboundRow
      BY <1>0, <1>r, <2>1 DEF InboundTypeOK, InboundRow
    <3>2. inbound' = inbound \/ inbound' = [inbound EXCEPT ![m] = row]
      BY <1>1, <1>0, <1>r, <2>1 DEF RecordInbound, InboundTypeOK, InboundRow
    <3> HIDE DEF row, next
    <3> QED BY <3>1, <3>2, <2>1, <1>0 DEF InboundTypeOK
  <2> QED BY <1>1, <1>0, <2>3, <2>4 DEF RecordInbound, InboundTypeOK
<1>2. CASE Remember
  <2>1. PICK action \in Actions : Mark(action)
    BY <1>2 DEF Remember, Actions
  <2>2. "mark" \in HandlingPoints
    BY DEF HandlingPoints
  <2> QED BY <1>2, <1>0, <1>h, <2>1, <2>2 DEF Remember, Mark, InboundTypeOK, Now
<1>3. CASE NotifyOwner
  <2>1. PICK action \in Actions : Mark(action)
    BY <1>3 DEF NotifyOwner, Actions
  <2>2. "mark" \in HandlingPoints
    BY DEF HandlingPoints
  <2>3. notices' \in [Messages -> Nat]
    BY <1>3, <1>0, <1>c DEF NotifyOwner, InboundTypeOK, Now
  <2> QED BY <1>3, <1>0, <1>h, <2>1, <2>2, <2>3 DEF NotifyOwner, Mark, InboundTypeOK
<1>4. CASE AnswerReview
  <2>1. "mark" \in HandlingPoints /\ {"sender_reviewed", "accepted_newsletter"} \subseteq Actions
    BY DEF HandlingPoints, Actions
  <2>3. inbound' \in [Messages -> InboundRow] /\ remembered' \subseteq Messages
    BY <1>4, <1>0, <1>r, <2>1 DEF AnswerReview, LatestReview, InboundTypeOK, InboundRow
  <2> QED BY <1>4, <1>0, <1>h, <2>1, <2>3 DEF AnswerReview, Mark, InboundTypeOK
<1>5. CASE AnswerApproval
  <2>1. "mark" \in HandlingPoints /\ "approval_decided" \in Actions
    BY DEF HandlingPoints, Actions
  <2>3. approvable' \in Nat
    BY <1>5, <1>0 DEF AnswerApproval, InboundTypeOK
  <2> QED BY <1>5, <1>0, <1>h, <2>1, <2>3 DEF AnswerApproval, Mark, InboundTypeOK
<1>6. CASE NothingToAnswer
  <2>1. "link" \in HandlingPoints
    BY DEF HandlingPoints
  <2> QED BY <1>6, <1>0, <1>g, <2>1 DEF NothingToAnswer, GoTo, InboundTypeOK
<1>7. CASE LinkThread
  <2>1. "agent" \in HandlingPoints
    BY DEF HandlingPoints
  <2>2. inbound' \in [Messages -> InboundRow]
    BY <1>7, <1>0, <1>r DEF LinkThread, InboundTypeOK, InboundRow
  <2> QED BY <1>7, <1>0, <1>g, <2>1, <2>2 DEF LinkThread, GoTo, InboundTypeOK
<1>8. CASE RunOwnerAgent
  <2>1. "mark" \in HandlingPoints /\ "routed_to_agent" \in Actions
    BY DEF HandlingPoints, Actions
  <2>2. agentRuns' \in [Messages -> Nat]
    BY <1>8, <1>0, <1>c DEF RunOwnerAgent, InboundTypeOK, Now
  <2> QED BY <1>8, <1>0, <1>h, <2>1, <2>2 DEF RunOwnerAgent, Mark, InboundTypeOK
<1>9. CASE RecordHandling
  <2>1. "handled" \in HandlingPoints
    BY DEF HandlingPoints
  <2>2. inbound' \in [Messages -> InboundRow]
    BY <1>9, <1>0, <1>r DEF RecordHandling, InboundTypeOK, InboundRow
  <2> QED BY <1>9, <1>0, <1>g, <2>1, <2>2 DEF RecordHandling, GoTo, InboundTypeOK
<1> QED BY <1>1, <1>2, <1>3, <1>4, <1>5, <1>6, <1>7, <1>8, <1>9 DEF HandlingStep

Mail == [message : Messages, arrived : Nat, dated : Nat]

\* The messages of the mailbox, by UID.
LEMMA MailboxTypes ==
  ASSUME MailInv
  PROVE  /\ DOMAIN mailbox \subseteq Nat
         /\ \A u \in DOMAIN mailbox : mailbox[u] \in Mail
<1>1. mailbox \in Seq(Mail)
  BY DEF MailInv, TypeOK, PollerTypeOK, Mail
<1>2. DOMAIN mailbox = 1 .. Len(mailbox) /\ Len(mailbox) \in Nat
  BY <1>1, LenProperties
<1>3. \A u \in 1 .. Len(mailbox) : mailbox[u] \in Mail
  BY <1>1, ElementOfSeq
<1> QED BY <1>2, <1>3

PollType ==
  [point : PollPoints, config : Config, read : Connector,
   todo : SUBSET Nat, uid : Nat, caught : BOOLEAN]

\* What a step sets of the poll.
LEMMA PollTypes ==
  ASSUME MailInv, NEW point \in PollPoints
  PROVE  /\ After(point) \in PollType
         /\ After(point).point = point /\ After(point).todo = poll.todo
         /\ After(point).uid = poll.uid
         /\ NextMessage \in PollType
         /\ NextMessage.point = "fetch" /\ NextMessage.todo = poll.todo
         /\ NoPoll \in PollType
         /\ NoPoll.point = "rest" /\ NoPoll.todo = {}
<1>1. poll \in PollType /\ "fetch" \in PollPoints /\ "rest" \in PollPoints
  BY DEF MailInv, TypeOK, PollerTypeOK, PollType, PollPoints
<1>2. NewConnector \in Connector /\ ConfigOf(NewConnector) \in Config
  BY DEF NewConnector, Connector, ConfigOf, Config
<1>3. After(point) \in PollType /\ After(point).point = point
      /\ After(point).todo = poll.todo /\ After(point).uid = poll.uid
  BY <1>1, <1>2 DEF After, PollType
<1>4. After("fetch") \in PollType /\ After("fetch").todo = poll.todo
      /\ After("fetch").point = "fetch"
  BY <1>1, <1>2 DEF After, PollType
<1>5. NextMessage \in PollType /\ NextMessage.point = "fetch" /\ NextMessage.todo = poll.todo
  BY <1>4 DEF NextMessage, PollType
<1>6. NoPoll \in PollType /\ NoPoll.point = "rest" /\ NoPoll.todo = {}
  BY <1>1, <1>2 DEF NoPoll, PollType
<1> QED BY <1>3, <1>5, <1>6

\* The steps of a poll outside a handling keep the types.
LEMMA PollStepTypes ==
  ASSUME MailInv, PollStep, ~Handle
  PROVE  MailInv'
<1>0. /\ InboundTypeOK /\ PollerTypeOK /\ HeldUids
      /\ poll \in PollType /\ poll.point \in PollPoints /\ poll.uid \in Nat
      /\ poll.config \in Config /\ poll.read \in Connector /\ poll.todo \subseteq Nat
      /\ connector \in Connector /\ edit \in [point : {"rest", "save"}, read : Connector]
      /\ ConfigOf(connector) \in Config
  BY ConnectorTypes DEF MailInv, TypeOK, PollerTypeOK, PollType
<1>m. \A u \in DOMAIN mailbox : /\ mailbox[u].message \in Messages
                               /\ mailbox[u].arrived \in Nat
                               /\ mailbox[u].dated \in Nat
  BY MailboxTypes DEF Mail
<1>v. uidValidity \in Nat /\ DOMAIN mailbox \subseteq Nat
  BY <1>0, MailboxTypes DEF PollerTypeOK
<1>h. handling.point # "idle" => PollAt("handle")
  BY <1>0 DEF HeldUids, PollAt
\* A step that leaves the tables and the mailbox alone.
<1>s. ASSUME Stay, poll' \in PollType, connector' \in Connector, HeldUids' PROVE MailInv'
  BY <1>0, <1>s DEF Stay, inboundVars, mailVars, MailInv, TypeOK, InboundTypeOK, PollerTypeOK,
                    PollType
<1>w. \A p \in DOMAIN WriteAfter : WriteAfter[p] \in PollPoints
  BY DEF WriteAfter, PollPoints
<1>1. CASE StartPoll
  <2>1. poll' \in PollType /\ poll'.todo = {} /\ poll'.point \in Closed
    BY <1>1, <1>0, PollTypes DEF StartPoll, PollType, PollPoints, WriteAfter, Closed
  <2>2. HeldUids'
    BY <2>1, <1>1, <1>h DEF StartPoll, Stay, inboundVars, mailVars, HeldUids, Closed, PollAt
  <2> QED BY <2>1, <2>2, <1>s, <1>1, <1>0 DEF StartPoll
<1>2. CASE ReadConnector
  <2>1. poll' \in PollType /\ poll'.todo = poll.todo /\ poll'.uid = poll.uid
        /\ poll'.point = WriteAfter[poll.point]
    BY <1>2, <1>0, <1>w DEF ReadConnector, PollType
  <2>2. HeldUids'
    BY <2>1, <1>2, <1>0, <1>h DEF ReadConnector, WriteAfter, Stay, inboundVars, mailVars,
                                  HeldUids, Closed, PollAt
  <2> QED BY <2>1, <2>2, <1>s, <1>2, <1>0 DEF ReadConnector
<1>3. CASE SeedProgress
  <2>1. PICK newest \in {inbound[m].received : m \in Messages} :
          /\ connector' = Progressed(poll.read, 0, newest)
          /\ poll' = [After("connect") EXCEPT !.config.lastReceived = newest]
    BY <1>3 DEF SeedProgress
  <2>2. newest \in Nat
    BY <1>0 DEF InboundTypeOK, InboundRow
  <2>3. "connect" \in PollPoints
    BY DEF PollPoints
  <2>4. poll' \in PollType /\ poll'.todo = poll.todo /\ poll'.point = "connect"
    BY <2>1, <2>2, <2>3, PollTypes DEF PollType, Config
  <2>5. connector' \in Connector
    BY <2>1, <2>2, <1>0, ConnectorTypes
  <2>6. HeldUids'
    BY <2>4, <1>3, <1>0, <1>h DEF SeedProgress, Stay, inboundVars, mailVars, HeldUids, Closed,
                                  PollAt
  <2> QED BY <2>4, <2>5, <2>6, <1>s, <1>3 DEF SeedProgress
<1>4. CASE Connect
  <2>1. poll' \in PollType /\ poll'.todo = poll.todo /\ poll'.point \in {"search", "sync"}
    BY <1>4, <1>0 DEF Connect, PollType, PollPoints, WriteAfter
  <2>2. HeldUids'
    BY <2>1, <1>4, <1>0, <1>h DEF Connect, Stay, inboundVars, mailVars, HeldUids, Closed, PollAt
  <2> QED BY <2>1, <2>2, <1>s, <1>4, <1>0 DEF Connect
<1>5. CASE SynchronizeUidValidity
  <2>1. "search" \in PollPoints /\ SynchronizedConfig \in Config
    BY <1>0, <1>v DEF PollPoints, SynchronizedConfig, Config
  <2>2. poll' \in PollType /\ poll'.todo = poll.todo /\ poll'.point = "search"
    BY <2>1, <1>5, PollTypes DEF SynchronizeUidValidity, PollType
  <2>3. connector' \in Connector
    BY <1>5, <1>0, ConnectorTypes DEF SynchronizeUidValidity
  <2>4. HeldUids'
    BY <2>2, <1>5, <1>0, <1>h DEF SynchronizeUidValidity, Stay, inboundVars, mailVars, HeldUids,
                                  Closed, PollAt
  <2> QED BY <2>2, <2>3, <2>4, <1>s, <1>5 DEF SynchronizeUidValidity
<1>6. CASE Search
  <2>1. EligibleUids(Matching) \subseteq DOMAIN mailbox
    BY DEF EligibleUids, Matching
  <2>2. "fetch" \in PollPoints
    BY DEF PollPoints
  <2>3. poll' \in PollType /\ poll'.todo = EligibleUids(Matching) /\ poll'.point = "fetch"
    BY <2>1, <2>2, <1>v, <1>6, PollTypes DEF Search, PollType
  <2>4. HeldUids'
    BY <2>1, <2>3, <1>6, <1>0, <1>h DEF Search, Stay, inboundVars, mailVars, HeldUids, Closed,
                                        PollAt
  <2> QED BY <2>3, <2>4, <1>s, <1>6, <1>0 DEF Search
<1>7. CASE Fetch
  <2> DEFINE at(point, u) == [poll EXCEPT !.point = point, !.uid = u, !.todo = @ \ {u}]
  <2>1. PICK u \in poll.todo :
          IF Kind[mailbox[u].message] = "malformed"
          THEN /\ parses' = [parses EXCEPT ![mailbox[u].message] =
                                IF @ < QuarantineAttempts THEN @ + 1 ELSE @]
               /\ poll' = at("count", u)
               /\ UNCHANGED handling
          ELSE /\ BeginHandling(mailbox[u].message, mailbox[u].dated)
               /\ poll' = at("handle", u)
               /\ UNCHANGED parses
    BY <1>7 DEF Fetch
  <2>2. u \in DOMAIN mailbox /\ mailbox[u].message \in Messages /\ mailbox[u].dated \in Nat
    BY <1>0, <1>m DEF HeldUids
  <2>3. "count" \in PollPoints /\ "handle" \in PollPoints
    BY DEF PollPoints, WriteAfter
  <2>4. \A p \in PollPoints : /\ at(p, u) \in PollType /\ at(p, u).point = p
                              /\ at(p, u).uid = u /\ at(p, u).todo = poll.todo \ {u}
    BY <2>2, <1>0, <1>v DEF PollType
  <2> HIDE DEF at
  <2>5. parses' \in [Messages -> Nat] /\ poll' \in PollType
    <3>1. parses \in [Messages -> Nat]
      BY <1>0 DEF PollerTypeOK
    <3>2. [parses EXCEPT ![mailbox[u].message] = IF @ < QuarantineAttempts THEN @ + 1 ELSE @]
            \in [Messages -> Nat]
      BY <3>1, <2>2
    <3> QED BY <2>1, <2>3, <2>4, <3>1, <3>2
  <2>6. UNCHANGED <<mailVars, connector, edit, quarantined, budget,
                    inbound, approvable, remembered, agentRuns, notices>>
    BY <1>7 DEF Fetch
  <2>7. handling' \in [point : HandlingPoints, message : Messages \cup {Nobody},
                       received : Nat, action : Actions]
    BY <2>1, <2>2, <1>0 DEF BeginHandling, HandlingPoints, Actions, InboundTypeOK
  <2>8. poll'.todo \subseteq DOMAIN mailbox /\ poll'.uid = u
        /\ poll'.point \in {"count", "handle"}
    BY <2>1, <2>3, <2>4, <1>0 DEF HeldUids
  <2>9. HeldUids'
    <3>1. mailbox' = mailbox
      BY <2>6 DEF mailVars
    <3>2. poll'.point = "handle" => handling'.message \in Messages
      BY <2>1, <2>2, <2>3, <2>4 DEF BeginHandling
    <3>3. handling'.point # "idle" => poll'.point = "handle"
      BY <2>1, <2>3, <2>4, <1>7, <1>h DEF Fetch, PollAt
    <3> QED BY <2>2, <2>8, <3>1, <3>2, <3>3 DEF HeldUids, Closed
  <2> QED BY <2>5, <2>6, <2>7, <2>9, <1>0 DEF mailVars, MailInv, TypeOK, InboundTypeOK,
                                              PollerTypeOK, PollType
<1>8. CASE Handled
  <2>1. "commit" \in PollPoints
    BY DEF PollPoints, WriteAfter
  <2>2. poll' \in PollType /\ poll'.todo = poll.todo /\ poll'.uid = poll.uid
        /\ poll'.point = "commit"
    BY <2>1, <1>8, PollTypes DEF Handled
  <2>3. handling' \in [point : HandlingPoints, message : Messages \cup {Nobody},
                       received : Nat, action : Actions] /\ handling'.point = "idle"
    BY <1>8 DEF Handled, NotHandling, HandlingPoints, Actions
  <2>4. poll.uid \in DOMAIN mailbox
    BY <1>8, <1>0 DEF Handled, PollAt, HeldUids
  <2>5. HeldUids'
    BY <2>2, <2>3, <2>4, <1>8, <1>0 DEF Handled, mailVars, HeldUids, Closed
  <2> QED BY <2>2, <2>3, <2>5, <1>8, <1>0 DEF Handled, mailVars, MailInv, TypeOK, InboundTypeOK,
                                              PollerTypeOK, PollType
<1>a. ASSUME NEW dated \in Nat, Advance(dated), quarantined' \subseteq Messages,
             poll' \in PollType, HeldUids'
      PROVE  MailInv'
  <2>1. connector' \in Connector
    BY <1>a, <1>0, ConnectorTypes DEF Advance
  <2>2. seen' \subseteq Nat
    BY <1>a, <1>0 DEF Advance, PollerTypeOK
  <2> QED BY <1>a, <2>1, <2>2, <1>0 DEF Advance, inboundVars, MailInv, TypeOK, InboundTypeOK,
                                        PollerTypeOK, PollType
<1>9. CASE CommitMessage
  <2>1. poll.uid \in DOMAIN mailbox /\ Fetched.dated \in Nat
    BY <1>9, <1>0, <1>m DEF CommitMessage, PollAt, HeldUids, Fetched
  <2>2. "fetch" \in PollPoints
    BY DEF PollPoints
  <2>3. poll' \in PollType /\ poll'.todo = poll.todo /\ poll'.point = "fetch"
    BY <2>2, <1>9, PollTypes DEF CommitMessage
  <2>4. HeldUids'
    BY <2>3, <1>9, <1>0, <1>h DEF CommitMessage, Advance, inboundVars, HeldUids, Closed, PollAt
  <2>5. quarantined' \subseteq Messages
    BY <1>9, <1>0 DEF CommitMessage, PollerTypeOK
  <2> QED BY <2>1, <2>3, <2>4, <2>5, <1>a, <1>9 DEF CommitMessage
<1>10. CASE CountFailure
  <2>1. "report" \in PollPoints /\ "quarantine" \in PollPoints
    BY DEF PollPoints, WriteAfter
  <2>2. PICK p \in {"report", "quarantine"} : poll' = After(p)
    BY <1>10 DEF CountFailure
  <2>3. poll' \in PollType /\ poll'.todo = poll.todo /\ poll'.uid = poll.uid /\ poll'.point = p
    BY <2>1, <2>2, PollTypes
  <2>4. connector' \in Connector
    BY <1>10, <1>0, ConnectorTypes DEF CountFailure
  <2>5. HeldUids'
    BY <2>3, <1>10, <1>0, <1>h DEF CountFailure, Stay, inboundVars, mailVars, HeldUids, Closed,
                                   PollAt
  <2> QED BY <2>3, <2>4, <2>5, <1>s, <1>10 DEF CountFailure
<1>11. CASE Quarantine
  <2>1. poll.uid \in DOMAIN mailbox /\ Fetched.message \in Messages
    BY <1>11, <1>0, <1>m DEF Quarantine, PollAt, HeldUids, Fetched
  <2>2. "clear" \in PollPoints
    BY DEF PollPoints, WriteAfter
  <2>3. poll' \in PollType /\ poll'.todo = poll.todo /\ poll'.uid = poll.uid
        /\ poll'.point = "clear"
    BY <2>2, <1>11, PollTypes DEF Quarantine
  <2>4. HeldUids'
    BY <2>1, <2>3, <1>11, <1>0, <1>h DEF Quarantine, Advance, inboundVars, HeldUids, Closed, PollAt
  <2>5. quarantined' \subseteq Messages
    BY <2>1, <1>11, <1>0 DEF Quarantine, PollerTypeOK
  <2> QED BY <2>3, <2>4, <2>5, <1>a, <1>11 DEF Quarantine
<1>12. CASE ClearFailure
  <2>1. "fetch" \in PollPoints
    BY DEF PollPoints
  <2>2. poll' \in PollType /\ poll'.todo = poll.todo /\ poll'.point = "fetch"
    BY <2>1, <1>12, PollTypes DEF ClearFailure
  <2>3. connector' \in Connector
    BY <1>12, <1>0, ConnectorTypes DEF ClearFailure
  <2>4. HeldUids'
    BY <2>2, <1>12, <1>0, <1>h DEF ClearFailure, Stay, inboundVars, mailVars, HeldUids, Closed,
                                   PollAt
  <2> QED BY <2>2, <2>3, <2>4, <1>s, <1>12 DEF ClearFailure
<1>13. CASE StopAtTransient \/ EndBatch
  <2>1. "report" \in PollPoints
    BY DEF PollPoints, WriteAfter
  <2>2. poll' \in PollType /\ poll'.todo = poll.todo /\ poll'.point = "report"
        /\ connector' = connector /\ Stay /\ ~PollAt("handle")
    BY <2>1, <1>13, PollTypes DEF StopAtTransient, EndBatch, PollAt
  <2>3. HeldUids'
    BY <2>2, <1>0, <1>h DEF Stay, inboundVars, mailVars, HeldUids, Closed
  <2> QED BY <2>2, <2>3, <1>s, <1>0
<1>14. CASE ReportPoll
  <2>1. poll' \in PollType /\ poll'.todo = {} /\ poll'.point = "rest"
    BY <1>14, <1>0, PollTypes DEF ReportPoll
  <2>2. connector' \in Connector
    BY <1>14, <1>0 DEF ReportPoll, Connector
  <2>3. HeldUids'
    BY <2>1, <1>14, <1>h DEF ReportPoll, Stay, inboundVars, mailVars, HeldUids, Closed, PollAt
  <2> QED BY <2>1, <2>2, <2>3, <1>s, <1>14 DEF ReportPoll
<1> QED BY <1>1, <1>2, <1>3, <1>4, <1>5, <1>6, <1>7, <1>8, <1>9, <1>10, <1>11, <1>12, <1>13,
           <1>14 DEF PollStep

\* So do failures, the owner, the provider and the clock.
LEMMA EnvironmentTypes ==
  ASSUME MailInv,
         \/ Fail \/ OpenSettings \/ SaveSettings
         \/ Deliver \/ Recreate \/ PollComesDue \/ NextDay
  PROVE  MailInv'
<1>0. /\ InboundTypeOK /\ PollerTypeOK /\ HeldUids
      /\ poll \in PollType /\ poll.point \in PollPoints
      /\ connector \in Connector /\ edit \in [point : {"rest", "save"}, read : Connector]
      /\ budget \in [failures : Nat, edits : Nat]
  BY DEF MailInv, TypeOK, PollerTypeOK, PollType
<1>q. mailbox \in Seq(Mail) /\ Len(mailbox) \in Nat /\ DOMAIN mailbox = 1 .. Len(mailbox)
  <2>1. mailbox \in Seq(Mail)
    BY <1>0 DEF PollerTypeOK, Mail
  <2> QED BY <2>1, LenProperties
<1>c. ASSUME NEW c \in Connector, NEW enabled \in BOOLEAN PROVE Saved(c, enabled) \in Connector
  BY DEF Saved, NewConnector, Connector
<1>1. CASE Fail
  <2>1. "report" \in PollPoints /\ "transient" \in PollPoints
    BY DEF PollPoints, WriteAfter
  <2>2. /\ poll' \in PollType
        /\ \/ poll' = NoPoll
           \/ poll'.todo = poll.todo /\ poll'.point = "report"
           \/ poll'.todo = poll.todo /\ poll'.point = "transient"
    <3>1. CASE poll' = NoPoll
      BY <3>1, <2>1, PollTypes
    <3>2. CASE \E p \in {"report", "transient"} :
                 poll' = [After(p) EXCEPT !.caught = p = "report"]
      BY <3>2, <2>1, PollTypes DEF PollType
    <3>3. AwaitThrows \/ poll' = NoPoll
      BY <1>1 DEF Fail
    <3>4. AfterError(poll.point) \in {"rest", "report", "transient"}
      BY DEF AfterError
    <3> QED BY <3>1, <3>2, <3>3, <3>4 DEF AwaitThrows
  <2>3. NoPoll.point = "rest" /\ NoPoll.todo = {}
    BY DEF NoPoll
  <2>4. handling' \in [point : HandlingPoints, message : Messages \cup {Nobody},
                       received : Nat, action : Actions] /\ handling'.point = "idle"
    BY <1>1 DEF Fail, AbandonHandling, NotHandling, HandlingPoints, Actions
  <2>5. budget' \in [failures : Nat, edits : Nat]
    BY <1>1, <1>0 DEF Fail
  <2>6. HeldUids'
    BY <2>2, <2>3, <2>4, <1>1, <1>0 DEF Fail, mailVars, HeldUids, Closed
  <2> QED BY <2>2, <2>4, <2>5, <2>6, <1>1, <1>0
          DEF Fail, AbandonHandling, mailVars, MailInv, TypeOK, InboundTypeOK, PollerTypeOK,
              PollType
<1>2. CASE OpenSettings
  <2>1. edit' \in [point : {"rest", "save"}, read : Connector]
        /\ budget' \in [failures : Nat, edits : Nat]
    BY <1>2, <1>0 DEF OpenSettings
  <2> QED BY <2>1, <1>2, <1>0 DEF OpenSettings, inboundVars, mailVars, MailInv, TypeOK,
                                  InboundTypeOK, PollerTypeOK, HeldUids
<1>3. CASE SaveSettings
  <2>1. connector' \in Connector
    BY <1>3, <1>0, <1>c DEF SaveSettings
  <2>2. edit' \in [point : {"rest", "save"}, read : Connector]
    BY <1>3 DEF SaveSettings, NoEdit, NewConnector, Connector
  <2> QED BY <2>1, <2>2, <1>3, <1>0 DEF SaveSettings, inboundVars, mailVars, MailInv, TypeOK,
                                        InboundTypeOK, PollerTypeOK, HeldUids
<1>4. CASE Deliver
  <2>1. PICK m \in Messages, dated \in today .. today + MaxSkew :
          mailbox' = Append(mailbox, [message |-> m, arrived |-> today, dated |-> dated])
    BY <1>4 DEF Deliver
  <2>2. [message |-> m, arrived |-> today, dated |-> dated] \in Mail
    BY <1>0 DEF PollerTypeOK, Mail
  <2>3. mailbox' \in Seq(Mail) /\ Len(mailbox') = Len(mailbox) + 1
    BY <2>1, <2>2, <1>q, AppendProperties
  <2>4. DOMAIN mailbox' = 1 .. Len(mailbox')
    BY <2>3, LenProperties
  <2>5. DOMAIN mailbox \subseteq DOMAIN mailbox'
    BY <2>3, <2>4, <1>q
  <2>6. HeldUids'
    BY <2>5, <1>4, <1>0 DEF Deliver, inboundVars, pollerVars, HeldUids
  <2>7. mailbox' \in Seq([message : Messages, arrived : Nat, dated : Nat])
    BY <2>3 DEF Mail
  <2> QED BY <2>6, <2>7, <1>4, <1>0 DEF Deliver, inboundVars, pollerVars, MailInv, TypeOK,
                                        InboundTypeOK, PollerTypeOK
<1>5. CASE Recreate
  <2>1. PICK first \in 1 .. Len(mailbox) + 1 : mailbox' = SubSeq(mailbox, first, Len(mailbox))
    BY <1>5 DEF Recreate
  <2>2. \A i \in first .. Len(mailbox) : mailbox[i] \in Mail
    BY <1>q, ElementOfSeq
  <2>3. mailbox' \in Seq(Mail)
    BY <2>1, <2>2, <1>q, SubSeqProperties
  <2>4. HeldUids'
    BY <1>5, <1>0 DEF Recreate, inboundVars, pollerVars, HeldUids, Closed
  <2>5. mailbox' \in Seq([message : Messages, arrived : Nat, dated : Nat])
    BY <2>3 DEF Mail
  <2>6. InboundTypeOK'
    BY <1>5, <1>0 DEF Recreate, inboundVars, InboundTypeOK
  <2>7. uidValidity' \in Nat \ {0} /\ seen' \subseteq Nat
    <3>1. uidValidity \in Nat /\ uidValidity' = uidValidity + 1 /\ seen' = {}
      BY <1>5, <1>0 DEF Recreate, PollerTypeOK
    <3> QED BY <3>1
  <2>8. UNCHANGED <<today, pollerVars>>
    BY <1>5 DEF Recreate
  <2>9. PollerTypeOK'
    BY <2>5, <2>7, <2>8, <1>0 DEF pollerVars, PollerTypeOK
  <2> QED BY <2>4, <2>6, <2>9 DEF MailInv, TypeOK
<1>6. CASE PollComesDue
  <2>1. connector' \in Connector
    BY <1>6, <1>0 DEF PollComesDue, Connector
  <2>2. UNCHANGED <<inboundVars, mailVars, poll, edit, parses, quarantined, budget>>
    BY <1>6 DEF PollComesDue
  <2>3. InboundTypeOK' /\ HeldUids'
    BY <2>2, <1>0 DEF inboundVars, mailVars, InboundTypeOK, HeldUids
  <2>4. PollerTypeOK'
    BY <2>1, <2>2, <1>0 DEF mailVars, PollerTypeOK
  <2> QED BY <2>3, <2>4 DEF MailInv, TypeOK
<1>7. CASE NextDay
  <2>1. UNCHANGED <<inboundVars, mailbox, uidValidity, seen, pollerVars>>
    BY <1>7 DEF NextDay
  <2>2. InboundTypeOK' /\ HeldUids'
    BY <2>1, <1>0 DEF inboundVars, pollerVars, InboundTypeOK, HeldUids
  <2>3. today' \in Nat
    BY <1>7, <1>0 DEF NextDay, PollerTypeOK
  <2>4. PollerTypeOK'
    BY <2>1, <2>3, <1>0 DEF pollerVars, PollerTypeOK
  <2> QED BY <2>2, <2>4 DEF MailInv, TypeOK
<1> QED BY <1>1, <1>2, <1>3, <1>4, <1>5, <1>6, <1>7

LEMMA StepTypes == ASSUME MailInv, [Next]_vars PROVE MailInv'
<1>1. CASE Handle
  BY <1>1, HandlingTypes DEF Handle
<1>2. CASE UNCHANGED vars
  <2>1. InboundTypeOK' /\ HeldUids'
    BY <1>2 DEF vars, inboundVars, mailVars, pollerVars, MailInv, TypeOK, InboundTypeOK, HeldUids
  <2>2. PollerTypeOK'
    BY <1>2 DEF vars, mailVars, pollerVars, MailInv, TypeOK, PollerTypeOK
  <2> QED BY <2>1, <2>2 DEF MailInv, TypeOK
<1> QED BY <1>1, <1>2, PollStepTypes, EnvironmentTypes DEF Next

\* TypeOK holds for every mailbox, every set of messages and every bound.
THEOREM MailTypeCorrect == Spec => []TypeOK
<1>1. Init => MailInv
  BY InitMailInv
<1>2. MailInv /\ [Next]_vars => MailInv'
  BY StepTypes
<1>3. MailInv => TypeOK
  BY DEF MailInv
<1> QED BY <1>1, <1>2, <1>3, PTL DEF Spec

(***************************************************************************)
(* The owner's agent runs at most once for a message: the thread is linked *)
(* before the run, no linked row is ever resumed, and the link stays.      *)
(***************************************************************************)
RunInv ==
  /\ \A m \in Messages :
       /\ agentRuns[m] <= 1
       /\ agentRuns[m] = 1 => inbound[m].linked
       /\ inbound[m].linked => inbound[m].recorded
  /\ handling.point \in {"link", "reply"} =>
       inbound[handling.message].recorded /\ ~inbound[handling.message].linked
  /\ handling.point = "agent" => agentRuns[handling.message] = 0 /\ inbound[handling.message].linked

\* The owner is asked about a message only while its row is new.
NoticeInv ==
  /\ \A m \in Messages : notices[m] <= 1 /\ (notices[m] = 1 => inbound[m].recorded)
  /\ handling.point = "notify" =>
       notices[handling.message] = 0 /\ inbound[handling.message].recorded

\* Only a step of the handling changes what these say; any other step begins a
\* handling or ends one.
LEMMA OutsideHandling ==
  ASSUME MailInv, [Next]_vars, ~Handle
  PROVE  /\ UNCHANGED <<inbound, agentRuns, notices>>
         /\ handling' = handling \/ handling'.point \in {"record", "idle"}
<1>1. CASE UNCHANGED inboundVars
  BY <1>1 DEF inboundVars
<1>2. CASE Fetch
  BY <1>2 DEF Fetch, BeginHandling
<1>3. CASE Handled
  BY <1>3 DEF Handled, NotHandling
<1>4. CASE Fail
  BY <1>4 DEF Fail, AbandonHandling, NotHandling
<1>5. CASE PollStep /\ ~Fetch /\ ~Handled
  <2>1. Stay => UNCHANGED inboundVars
    BY DEF Stay
  <2>2. ASSUME NEW dated, Advance(dated) PROVE UNCHANGED inboundVars
    BY <2>2 DEF Advance
  <2> QED BY <1>1, <1>5, <2>1, <2>2
        DEF PollStep, StartPoll, ReadConnector, SeedProgress, Connect, SynchronizeUidValidity,
            Search, CommitMessage, CountFailure, Quarantine, ClearFailure, StopAtTransient,
            EndBatch, ReportPoll
<1>6. CASE OpenSettings \/ SaveSettings \/ Deliver \/ Recreate \/ PollComesDue \/ NextDay
  BY <1>1, <1>6 DEF OpenSettings, SaveSettings, Deliver, Recreate, PollComesDue, NextDay
<1>7. CASE UNCHANGED vars
  BY <1>1, <1>7 DEF vars
<1> QED BY <1>2, <1>3, <1>4, <1>5, <1>6, <1>7 DEF Next

\* One step of the handling at a time, RunInv and then NoticeInv.
LEMMA RunStep ==
  ASSUME MailInv, RunInv, [Next]_vars
  PROVE  RunInv'
<1>0. /\ inbound \in [Messages -> InboundRow] /\ agentRuns \in [Messages -> Nat]
      /\ PollAt("handle") => handling.message \in Messages
  BY DEF MailInv, TypeOK, InboundTypeOK, HeldUids, PollAt
<1>h. handling \in [point : HandlingPoints, message : Messages \cup {Nobody},
                    received : Nat, action : Actions]
  BY DEF MailInv, TypeOK, InboundTypeOK
<1>1. CASE ~Handle
  BY <1>1, OutsideHandling DEF RunInv
<1>2. CASE Handle
  <2> DEFINE m == handling.message
  <2>0. m \in Messages
    BY <1>2, <1>0 DEF Handle
  <2>1. CASE RecordInbound
    <3>1. /\ handling'.message = m
          /\ handling'.point \in {"link", "reply"} => ~inbound[m].recorded \/ Resumable(m)
          /\ handling'.point # "agent"
      BY <2>1, <1>h DEF RecordInbound, FirstPoint
    <3>2. /\ agentRuns' = agentRuns
          /\ \A n \in Messages : /\ inbound'[n].linked = inbound[n].linked
                                 /\ inbound[n].recorded => inbound'[n].recorded
          /\ inbound'[m].recorded
      BY <2>1, <2>0, <1>0 DEF RecordInbound, InboundRow
    <3> QED BY <3>1, <3>2, <2>0 DEF RunInv, Resumable
  <2>2. CASE Remember \/ NotifyOwner \/ RecordHandling \/ AnswerReview \/ AnswerApproval
    <3>1. handling'.point \in {"mark", "handled"}
      BY <2>2, <1>h DEF Remember, NotifyOwner, RecordHandling, AnswerReview, AnswerApproval, Mark,
                        GoTo
    <3>2. /\ agentRuns' = agentRuns
          /\ \A n \in Messages : /\ inbound'[n].linked = inbound[n].linked
                                 /\ inbound'[n].recorded = inbound[n].recorded
      BY <2>2, <1>0 DEF Remember, NotifyOwner, RecordHandling, AnswerReview, AnswerApproval,
                        LatestReview, InboundRow
    <3> QED BY <3>1, <3>2 DEF RunInv
  <2>3. CASE NothingToAnswer
    BY <2>3, <1>h DEF NothingToAnswer, Now, GoTo, RunInv
  <2>4. CASE LinkThread
    <3>1. handling'.point = "agent" /\ handling'.message = m /\ Now("link")
      BY <2>4, <1>h DEF LinkThread, GoTo
    <3>2. /\ agentRuns' = agentRuns
          /\ inbound'[m].linked
          /\ \A n \in Messages : /\ inbound[n].linked => inbound'[n].linked
                                 /\ n # m => inbound'[n].linked = inbound[n].linked
                                 /\ inbound'[n].recorded = inbound[n].recorded
      BY <2>4, <2>0, <1>0 DEF LinkThread, InboundRow
    <3>3. inbound[m].recorded /\ ~inbound[m].linked /\ agentRuns[m] \in Nat
      BY <3>1, <2>0, <1>0 DEF Now, RunInv
    <3>4. agentRuns[m] = 0
      BY <3>3, <2>0 DEF RunInv
    <3> QED BY <3>1, <3>2, <3>3, <3>4, <2>0 DEF RunInv
  <2>5. CASE RunOwnerAgent
    <3>1. handling'.point = "mark" /\ Now("agent") /\ inbound' = inbound
      BY <2>5, <1>h DEF RunOwnerAgent, Mark
    <3>2. /\ agentRuns'[m] = agentRuns[m] + 1
          /\ \A n \in Messages : n # m => agentRuns'[n] = agentRuns[n]
      BY <2>5, <2>0, <1>0 DEF RunOwnerAgent
    <3>3. agentRuns[m] = 0 /\ inbound[m].linked
      BY <3>1 DEF Now, RunInv
    <3> QED BY <3>1, <3>2, <3>3 DEF RunInv
  <2> QED BY <1>2, <2>1, <2>2, <2>3, <2>4, <2>5 DEF Handle, HandlingStep
<1> QED BY <1>1, <1>2

LEMMA NoticeStep ==
  ASSUME MailInv, NoticeInv, [Next]_vars
  PROVE  NoticeInv'
<1>0. /\ inbound \in [Messages -> InboundRow] /\ notices \in [Messages -> Nat]
      /\ PollAt("handle") => handling.message \in Messages
  BY DEF MailInv, TypeOK, InboundTypeOK, HeldUids, PollAt
<1>h. handling \in [point : HandlingPoints, message : Messages \cup {Nobody},
                    received : Nat, action : Actions]
  BY DEF MailInv, TypeOK, InboundTypeOK
<1>1. CASE ~Handle
  BY <1>1, OutsideHandling DEF NoticeInv
<1>2. CASE Handle
  <2> DEFINE m == handling.message
  <2>0. m \in Messages
    BY <1>2, <1>0 DEF Handle
  <2>1. CASE RecordInbound
    <3>1. /\ handling'.message = m
          /\ handling'.point = "notify" =>
               Kind[m] = "untrusted" /\ (~inbound[m].recorded \/ Resumable(m))
      BY <2>1, <1>h DEF RecordInbound, FirstPoint
    <3>2. handling'.point = "notify" => ~inbound[m].recorded
      BY <3>1 DEF Resumable, Classification
    <3>3. /\ notices' = notices
          /\ \A n \in Messages : inbound[n].recorded => inbound'[n].recorded
          /\ inbound'[m].recorded
      BY <2>1, <2>0, <1>0 DEF RecordInbound, InboundRow
    <3>4. ~inbound[m].recorded => notices[m] = 0
      BY <2>0, <1>0 DEF NoticeInv
    <3> QED BY <3>1, <3>2, <3>3, <3>4 DEF NoticeInv
  <2>2. CASE NotifyOwner
    <3>1. handling'.point = "mark" /\ Now("notify") /\ inbound' = inbound
      BY <2>2, <1>h DEF NotifyOwner, Mark
    <3>2. notices[m] = 0 /\ inbound[m].recorded
      BY <3>1 DEF Now, NoticeInv
    <3>3. /\ notices'[m] \in {notices[m], notices[m] + 1}
          /\ \A n \in Messages : n # m => notices'[n] = notices[n]
      BY <2>2, <2>0, <1>0 DEF NotifyOwner
    <3> QED BY <3>1, <3>2, <3>3 DEF NoticeInv
  <2>3. CASE Remember \/ RecordHandling \/ AnswerReview \/ AnswerApproval
             \/ NothingToAnswer \/ LinkThread \/ RunOwnerAgent
    <3>1. handling'.point # "notify"
      BY <2>3, <1>h DEF Remember, RecordHandling, AnswerReview, AnswerApproval, NothingToAnswer,
                        LinkThread, RunOwnerAgent, Mark, GoTo
    <3>2. /\ notices' = notices
          /\ \A n \in Messages : inbound'[n].recorded = inbound[n].recorded
      BY <2>3, <1>0 DEF Remember, RecordHandling, AnswerReview, AnswerApproval, NothingToAnswer,
                        LinkThread, RunOwnerAgent, LatestReview, InboundRow
    <3> QED BY <3>1, <3>2 DEF NoticeInv
  <2> QED BY <1>2, <2>1, <2>2, <2>3 DEF Handle, HandlingStep
<1> QED BY <1>1, <1>2

LEMMA InitOnce == Init => RunInv /\ NoticeInv
BY DEF Init, InboundInit, NoInboundRow, NotHandling, RunInv, NoticeInv

\* AgentRunsOnce: runOwnerInboundAgent is entered at most once for a message,
\* whatever is delivered twice, interrupted, resumed or renumbered.
THEOREM OwnerAgentRunsOnce == Spec => []AgentRunsOnce
<1>1. Init => MailInv /\ RunInv
  BY InitMailInv, InitOnce
<1>2. MailInv /\ RunInv /\ [Next]_vars => MailInv' /\ RunInv'
  BY StepTypes, RunStep
<1>3. RunInv => AgentRunsOnce
  BY DEF RunInv, AgentRunsOnce
<1> QED BY <1>1, <1>2, <1>3, PTL DEF Spec

\* NoticedOnce: queueOwnerReviewNotification queues at most one notice for a
\* message.
THEOREM OwnerNoticedOnce == Spec => []NoticedOnce
<1>1. Init => MailInv /\ NoticeInv
  BY InitMailInv, InitOnce
<1>2. MailInv /\ NoticeInv /\ [Next]_vars => MailInv' /\ NoticeInv'
  BY StepTypes, NoticeStep
<1>3. NoticeInv => NoticedOnce
  BY DEF NoticeInv, NoticedOnce
<1> QED BY <1>1, <1>2, <1>3, PTL DEF Spec
(***************************************************************************)
(* A message is given up only after its own source failed to parse that    *)
(* often: the count in the configuration is of one UID and one generation. *)
(***************************************************************************)
\* A failure on record in the configuration c, if it is of the generation v, is
\* of a message of the mailbox that was parsed so often.
FailureCounted(c, v, mail, times) ==
  /\ c.failedValidity <= v
  /\ c.failedUid # 0 => c.failedValidity # 0
  /\ c.failedUid # 0 /\ c.failedValidity = v =>
       c.failedUid \in DOMAIN mail /\ c.failedAttempts <= times[mail[c.failedUid].message]

\* The failure at hand is not counted in the configuration c yet.
OneMore(c) ==
  /\ parses[Fetched.message] >= 1
  /\ SameFailure(c) =>
       c.failedAttempts < parses[Fetched.message] \/ parses[Fetched.message] >= QuarantineAttempts

Uncounted == {"count", "count_write"}
Condemned == {"quarantine", "quarantine_write"}
Session == {"search", "fetch", "handle", "commit", "commit_write", "clear", "clear_write"}
             \cup Uncounted \cup Condemned
CountInv ==
  /\ FailureCounted(connector, uidValidity, mailbox, parses)
  /\ FailureCounted(poll.read, uidValidity, mailbox, parses)
  /\ poll.point \in Session => poll.config.validity = uidValidity
  /\ poll.point = "count" => OneMore(connector)
  /\ poll.point = "count_write" => OneMore(poll.read)
  /\ poll.point \in Condemned => parses[Fetched.message] >= QuarantineAttempts
  /\ QuarantineIsEarned

\* What the operations make of a configuration keeps its failure or forgets it.
Keeps(c, d) ==
  /\ d \in Connector
  /\ \/ <<d.failedUid, d.failedAttempts, d.failedValidity>> =
          <<c.failedUid, c.failedAttempts, c.failedValidity>>
     \/ <<d.failedUid, d.failedAttempts, d.failedValidity>> = <<0, 0, 0>>

LEMMA OperationsKeep ==
  ASSUME NEW c \in Connector, NEW uid \in Nat, NEW received \in Nat, NEW s \in Config,
         NEW enabled \in BOOLEAN, NEW due \in BOOLEAN, MailInv
  PROVE  /\ Keeps(c, ForgetFailure(c))
         /\ Keeps(c, Progressed(c, uid, received))
         /\ Keeps(c, Synchronized(c, s))
         /\ Keeps(c, Saved(c, enabled))
         /\ Keeps(c, [c EXCEPT !.due = due])
         /\ Keeps(c, NewConnector)
<1>t. /\ ForgetFailure(c) \in Connector
      /\ Progressed(c, uid, received) \in Connector
      /\ Synchronized(c, s) \in Connector
      /\ Saved(c, enabled) \in Connector
      /\ NewConnector \in Connector
      /\ [c EXCEPT !.due = due] \in Connector
  <2>1. [c EXCEPT !.due = due] \in Connector
    BY DEF Connector
  <2> QED BY <2>1, ConnectorTypes
<1>1. Keeps(c, ForgetFailure(c))
  BY <1>t DEF Keeps, ForgetFailure, Connector
<1>2. Keeps(c, Progressed(c, uid, received))
  BY <1>t DEF Keeps, Progressed, ForgetFailure, Connector
<1>3. Keeps(c, Synchronized(c, s))
  BY <1>t DEF Keeps, Synchronized, ForgetFailure, Connector
<1>4. Keeps(c, Saved(c, enabled)) /\ Keeps(c, NewConnector)
  BY <1>t DEF Keeps, Saved, NewConnector, Connector
<1>5. Keeps(c, [c EXCEPT !.due = due])
  BY <1>t DEF Keeps, Connector
<1> QED BY <1>1, <1>2, <1>3, <1>4, <1>5

LEMMA KeptIsCounted ==
  ASSUME NEW c \in Connector, NEW d, Keeps(c, d), NEW v \in Nat, NEW mail, NEW times,
         FailureCounted(c, v, mail, times)
  PROVE  FailureCounted(d, v, mail, times)
BY DEF Keeps, FailureCounted, Connector

\* More mail and more parses leave the failures counted.
LEMMA GrownIsCounted ==
  ASSUME NEW c \in Connector, NEW v \in Nat, NEW mail \in Seq(Mail), NEW more \in Seq(Mail),
         NEW times \in [Messages -> Nat], NEW later \in [Messages -> Nat],
         DOMAIN mail \subseteq DOMAIN more, \A u \in DOMAIN mail : more[u] = mail[u],
         \A m \in Messages : times[m] <= later[m],
         FailureCounted(c, v, mail, times)
  PROVE  FailureCounted(c, v, more, later)
<1>1. ASSUME c.failedUid # 0, c.failedValidity = v
      PROVE  c.failedUid \in DOMAIN more /\ c.failedAttempts <= later[more[c.failedUid].message]
  <2>1. c.failedUid \in DOMAIN mail /\ c.failedAttempts <= times[mail[c.failedUid].message]
    BY <1>1 DEF FailureCounted
  <2>2. mail[c.failedUid].message \in Messages
    <3>1. mail[c.failedUid] \in Mail
      BY <2>1
    <3> QED BY <3>1 DEF Mail
  <2>3. times[mail[c.failedUid].message] <= later[mail[c.failedUid].message]
    BY <2>2
  <2>4. c.failedUid \in DOMAIN more /\ more[c.failedUid] = mail[c.failedUid]
    BY <2>1
  <2> DEFINE before == times[mail[c.failedUid].message]
             after == later[mail[c.failedUid].message]
  <2>5. c.failedAttempts \in Nat /\ before \in Nat /\ after \in Nat
    BY <2>2 DEF Connector
  <2>6. c.failedAttempts <= before /\ before <= after
    BY <2>1, <2>3
  <2>7. c.failedAttempts <= after
    <3> HIDE DEF before, after
    <3> QED BY <2>5, <2>6
  <2> QED BY <2>4, <2>7, Zenon
<1> QED BY <1>1 DEF FailureCounted

\* A step that leaves mail and parses alone and begins no count.
LEMMA QuietStep ==
  ASSUME CountInv, UNCHANGED <<mailbox, uidValidity, parses, quarantined>>,
         FailureCounted(connector', uidValidity, mailbox, parses),
         FailureCounted(poll'.read, uidValidity, mailbox, parses),
         poll'.point \notin Uncounted \cup Condemned,
         poll'.point \in Session => poll'.config.validity = uidValidity
  PROVE  CountInv'
BY DEF CountInv, QuarantineIsEarned, FailureCounted, Uncounted, Condemned

\* What an operation that is over leaves of the poll.
LEMMA AfterKeeps ==
  ASSUME MailInv, NEW point
  PROVE  /\ After(point).uid = poll.uid /\ After(point).config = poll.config
         /\ After(point).read = NewConnector /\ After(point).point = point
         /\ NextMessage.config = poll.config /\ NextMessage.read = NewConnector
         /\ NoPoll.read = NewConnector
<1>1. poll \in PollType
  BY DEF MailInv, TypeOK, PollerTypeOK, PollType
<1>2. /\ After(point).uid = poll.uid /\ After(point).config = poll.config
      /\ After(point).read = NewConnector /\ After(point).point = point
  BY <1>1 DEF After, PollType
<1>3. NextMessage.config = poll.config /\ NextMessage.read = NewConnector
  BY <1>1 DEF NextMessage, After, PollType
<1> QED BY <1>2, <1>3 DEF NoPoll

\* A parse that failed is one more than the configuration counts.
LEMMA FetchCounts ==
  ASSUME MailInv, CountInv, MailInv', Fetch
  PROVE  CountInv'
<1>t. /\ connector \in Connector /\ poll.read \in Connector /\ uidValidity \in Nat
      /\ parses \in [Messages -> Nat] /\ mailbox \in Seq(Mail) /\ parses' \in [Messages -> Nat]
      /\ QuarantineAttempts \in Nat /\ poll.config \in Config
      /\ quarantined \subseteq Messages
  BY DEF MailInv, TypeOK, PollerTypeOK, Mail
<1>u. PICK u \in poll.todo :
        \/ /\ poll' = [poll EXCEPT !.point = "handle", !.uid = u, !.todo = @ \ {u}]
           /\ UNCHANGED parses
        \/ /\ poll' = [poll EXCEPT !.point = "count", !.uid = u, !.todo = @ \ {u}]
           /\ parses' = [parses EXCEPT ![mailbox[u].message] =
                            IF @ < QuarantineAttempts THEN @ + 1 ELSE @]
  BY Zenon DEF Fetch
<1>f. UNCHANGED <<mailbox, uidValidity, connector, quarantined>> /\ poll.point = "fetch"
  BY DEF Fetch, mailVars, PollAt
<1>p. /\ UNCHANGED <<mailbox, uidValidity, connector, quarantined>> /\ poll.point = "fetch"
      /\ poll'.config = poll.config /\ poll'.read = poll.read /\ poll'.uid = u
      /\ \/ poll'.point = "handle" /\ UNCHANGED parses
         \/ /\ poll'.point = "count"
            /\ parses' = [parses EXCEPT ![mailbox[u].message] =
                             IF @ < QuarantineAttempts THEN @ + 1 ELSE @]
  <2>1. poll \in PollType
    BY DEF MailInv, TypeOK, PollerTypeOK, PollType
  <2> QED BY <1>u, <1>f, <2>1 DEF PollType
<1>v. poll'.config.validity = uidValidity
  BY <1>p DEF CountInv, Session
<1>1. CASE poll'.point = "handle"
  <2>1. parses' = parses
    BY <1>1, <1>p
  <2> QED BY <2>1, <1>1, <1>p, <1>v, QuietStep DEF CountInv, Uncounted, Condemned
<1>2. CASE poll'.point = "count"
  <2>1. /\ poll'.uid = u
        /\ parses' = [parses EXCEPT ![mailbox[u].message] =
                        IF @ < QuarantineAttempts THEN @ + 1 ELSE @]
    BY <1>2, <1>p
  <2> DEFINE m == mailbox[u].message
  <2>2. u \in DOMAIN mailbox /\ u \in Nat /\ u # 0
    BY <1>t DEF MailInv, HeldUids
  <2>3. m \in Messages
    <3>1. mailbox[u] \in Mail
      BY <2>2, <1>t
    <3> QED BY <3>1 DEF Mail
  <2>4. /\ \A n \in Messages : parses[n] <= parses'[n]
        /\ parses'[m] >= 1
        /\ parses[m] < parses'[m] \/ parses'[m] >= QuarantineAttempts
    <3>1. parses'[m] = IF parses[m] < QuarantineAttempts THEN parses[m] + 1 ELSE parses[m]
      BY <2>1, <2>3, <1>t
    <3>2. \A n \in Messages : n # m => parses'[n] = parses[n]
      BY <2>1, <1>t
    <3>3. parses[m] \in Nat /\ \A n \in Messages : parses[n] \in Nat
      BY <2>3, <1>t
    <3> HIDE DEF m
    <3> QED BY <3>1, <3>2, <3>3, <2>3
  <2>5. /\ FailureCounted(connector, uidValidity, mailbox, parses)
        /\ FailureCounted(poll.read, uidValidity, mailbox, parses)
    BY DEF CountInv
  <2>6. /\ FailureCounted(connector, uidValidity, mailbox, parses')
        /\ FailureCounted(poll.read, uidValidity, mailbox, parses')
    BY <2>4, <2>5, <1>t, GrownIsCounted
  <2>7. OneMore(connector)'
    <3>0. SUFFICES ASSUME SameFailure(connector)'
                   PROVE  connector.failedAttempts < parses'[m] \/ parses'[m] >= QuarantineAttempts
      BY <2>1, <2>4, <1>p DEF OneMore, Fetched
    <3>1. connector.failedUid = u
      BY <3>0, <2>1, <1>p DEF SameFailure
    <3>2. connector.failedValidity # 0
      BY <3>1, <2>2, <2>5 DEF FailureCounted
    <3>3. uidValidity # 0
      BY DEF MailInv, TypeOK, PollerTypeOK
    <3>4. connector.failedValidity = uidValidity
      BY <3>0, <3>2, <3>3, <1>v, <1>p DEF SameFailure
    <3>5. connector.failedAttempts <= parses[m]
      BY <3>1, <3>4, <2>2, <2>5 DEF FailureCounted
    <3>6. connector.failedAttempts \in Nat /\ parses[m] \in Nat /\ parses'[m] \in Nat
      BY <2>3, <1>t DEF Connector
    <3> HIDE DEF m
    <3> QED BY <2>4, <3>5, <3>6, <1>t
  <2>8. QuarantineIsEarned'
    <3> SUFFICES ASSUME NEW n \in quarantined PROVE parses'[n] >= QuarantineAttempts
      BY <1>p DEF QuarantineIsEarned
    <3>1. parses[n] >= QuarantineAttempts
      BY DEF CountInv, QuarantineIsEarned
    <3>2. n \in Messages /\ parses[n] \in Nat /\ parses'[n] \in Nat
      BY <1>t
    <3> QED BY <3>1, <3>2, <2>4, <1>t
  <2> QED BY <1>2, <1>p, <1>v, <2>6, <2>7, <2>8 DEF CountInv, Condemned
<1> QED BY <1>p, <1>1, <1>2

\* CountFailure writes no more failures than there were parses.
LEMMA CountFailureCounts ==
  ASSUME MailInv, CountInv, MailInv', CountFailure
  PROVE  CountInv'
<1>t. /\ poll.read \in Connector /\ uidValidity \in Nat \ {0}
      /\ parses \in [Messages -> Nat] /\ mailbox \in Seq(Mail)
      /\ QuarantineAttempts \in Nat \ {0}
  BY DEF MailInv, TypeOK, PollerTypeOK, Mail
<1>p. /\ UNCHANGED <<mailbox, uidValidity, parses, quarantined>>
      /\ poll.point = "count_write" /\ poll'.point \in {"report", "quarantine"}
      /\ connector' = Counted(poll.read)
      /\ poll'.uid = poll.uid /\ poll'.config = poll.config /\ poll'.read = NewConnector
      /\ poll'.point = "quarantine" <=> ~(Counted(poll.read).failedAttempts < QuarantineAttempts)
  <2>1. UNCHANGED <<mailbox, uidValidity, parses, quarantined>> /\ poll.point = "count_write"
    BY DEF CountFailure, Stay, mailVars, PollAt
  <2>2. connector' = Counted(poll.read) /\ "report" \in PollPoints /\ "quarantine" \in PollPoints
    BY DEF CountFailure, PollPoints, WriteAfter
  <2> DEFINE below == Counted(poll.read).failedAttempts < QuarantineAttempts
  <2>3. poll' = After(IF below THEN "report" ELSE "quarantine")
    BY DEF CountFailure
  <2> HIDE DEF below
  <2>4. poll'.point = IF below THEN "report" ELSE "quarantine"
    BY <2>2, <2>3, PollTypes
  <2>5. poll'.uid = poll.uid /\ poll'.config = poll.config /\ poll'.read = NewConnector
    BY <2>2, <2>3, AfterKeeps
  <2>6. poll'.point \in {"report", "quarantine"} /\ (poll'.point = "quarantine" <=> ~below)
    BY <2>4
  <2> QED BY <2>1, <2>2, <2>5, <2>6 DEF below
<1>v. poll.config.validity = uidValidity
  BY <1>p DEF CountInv, Session, Uncounted
<1>m. Fetched.message \in Messages /\ poll.uid \in DOMAIN mailbox
  <2>1. poll.uid \in DOMAIN mailbox
    BY <1>p DEF MailInv, HeldUids
  <2>2. Fetched \in Mail
    BY <2>1, <1>t DEF Fetched
  <2> QED BY <2>1, <2>2 DEF Mail
<1> DEFINE times == parses[Fetched.message]
           prior == IF SameFailure(poll.read) THEN poll.read.failedAttempts ELSE 0
           attempts == IF prior >= QuarantineAttempts THEN QuarantineAttempts ELSE prior + 1
<1>n. times \in Nat /\ prior \in Nat
  BY <1>m, <1>t DEF Connector
<1>1. attempts <= times
  <2>1. times >= 1 /\ (SameFailure(poll.read) =>
                         poll.read.failedAttempts < times \/ times >= QuarantineAttempts)
    BY <1>p DEF CountInv, OneMore
  <2>2. times >= 1 /\ (prior = 0 \/ prior < times \/ times >= QuarantineAttempts)
    BY <2>1
  <2> HIDE DEF times, prior
  <2> QED BY <2>2, <1>n, <1>t
<1>2. /\ connector'.failedUid = poll.uid
      /\ connector'.failedValidity = uidValidity
      /\ connector'.failedAttempts = attempts
  BY <1>p, <1>v, <1>t DEF Counted, Connector
<1>3. FailureCounted(connector', uidValidity, mailbox, parses)
  <2>1. connector'.failedAttempts <= parses[mailbox[connector'.failedUid].message]
    BY <1>1, <1>2 DEF Fetched
  <2> HIDE DEF attempts
  <2> QED BY <2>1, <1>2, <1>m, <1>t DEF FailureCounted
<1>4. FailureCounted(poll'.read, uidValidity, mailbox, parses)
  BY <1>p, <1>t DEF FailureCounted, NewConnector
<1>5. CASE poll'.point = "report"
  BY <1>5, <1>p, <1>3, <1>4, QuietStep DEF Uncounted, Condemned, Session
<1>6. CASE poll'.point = "quarantine"
  <2>1. ~(attempts < QuarantineAttempts)
    BY <1>6, <1>p, <1>2
  <2>2. attempts \in Nat
    <3> HIDE DEF prior
    <3> QED BY <1>n, <1>t
  <2>3. times >= QuarantineAttempts
    <3> HIDE DEF attempts, times
    <3> QED BY <2>1, <2>2, <1>1, <1>n, <1>t
  <2>4. (parses[Fetched.message] >= QuarantineAttempts)'
    BY <2>3, <1>p DEF Fetched
  <2>5. QuarantineIsEarned'
    BY <1>p DEF CountInv, QuarantineIsEarned
  <2> QED BY <1>6, <1>p, <1>v, <1>3, <1>4, <2>4, <2>5 DEF CountInv
<1> QED BY <1>p, <1>5, <1>6

\* The steps of a poll that count no failure and give nothing up.
LEMMA OtherPollSteps ==
  ASSUME MailInv, CountInv, MailInv', PollStep, ~Handle,
         ~Fetch, ~CountFailure, ~Quarantine, ~ReadConnector
  PROVE  CountInv'
<1>t. /\ connector \in Connector /\ poll.read \in Connector /\ poll.config \in Config
      /\ uidValidity \in Nat /\ poll.uid \in Nat /\ mailbox \in Seq(Mail)
      /\ poll \in PollType
  BY DEF MailInv, TypeOK, PollerTypeOK, Mail, PollType
<1>c. /\ FailureCounted(connector, uidValidity, mailbox, parses)
      /\ FailureCounted(poll.read, uidValidity, mailbox, parses)
      /\ poll.point \in Session => poll.config.validity = uidValidity
  BY DEF CountInv
<1>n. NewConnector \in Connector /\ FailureCounted(NewConnector, uidValidity, mailbox, parses)
  <2>1. NewConnector \in Connector
    BY DEF NewConnector, Connector
  <2> QED BY <2>1, <1>t DEF NewConnector, FailureCounted
\* Such a step keeps the failures, and goes on in its session or leaves it.
<1>q. ASSUME UNCHANGED <<mailbox, uidValidity, parses, quarantined>>,
             NEW c \in {connector, poll.read}, Keeps(c, connector'),
             poll'.read \in {poll.read, NewConnector},
             poll'.point \notin Uncounted \cup Condemned,
             poll'.point \in Session => poll'.config.validity = uidValidity
      PROVE  CountInv'
  <2>1. FailureCounted(c, uidValidity, mailbox, parses) /\ c \in Connector
    BY <1>c, <1>t
  <2>2. connector' \in Connector
    BY <1>q DEF Keeps
  <2>3. FailureCounted(connector', uidValidity, mailbox, parses)
    BY <2>1, <2>2, <1>q, <1>t, KeptIsCounted
  <2>4. FailureCounted(poll'.read, uidValidity, mailbox, parses)
    BY <1>q, <1>c, <1>n
  <2> QED BY <1>q, <2>3, <2>4, QuietStep
<1>k. Keeps(connector, connector)
  BY <1>t DEF Keeps
<1>s. ASSUME Stay PROVE UNCHANGED <<mailbox, uidValidity, parses, quarantined>>
  BY <1>s DEF Stay, mailVars
<1>1. CASE StartPoll
  <2>1. /\ connector' = connector /\ poll'.read = NewConnector
        /\ poll'.point \in {"seed", "connect"}
    BY <1>1 DEF StartPoll, NoPoll
  <2> QED BY <2>1, <1>1, <1>k, <1>q, <1>s DEF StartPoll, Uncounted, Condemned, Session
<1>2. CASE SeedProgress
  <2>1. PICK newest \in {inbound[m].received : m \in Messages} :
           /\ connector' = Progressed(poll.read, 0, newest)
           /\ poll' = [After("connect") EXCEPT !.config.lastReceived = newest]
    BY <1>2, Zenon DEF SeedProgress
  <2>2. newest \in Nat
    <3>1. \A m \in Messages : inbound[m] \in InboundRow
      BY DEF MailInv, TypeOK, InboundTypeOK
    <3> QED BY <3>1 DEF InboundRow
  <2>3. Keeps(poll.read, connector')
    BY <2>1, <2>2, <1>t, OperationsKeep
  <2>4. poll'.read = NewConnector /\ poll'.point = "connect"
    <3>1. "connect" \in PollPoints
      BY DEF PollPoints
    <3>2. After("connect") \in PollType /\ After("connect").point = "connect"
          /\ After("connect").read = NewConnector
      BY <3>1, PollTypes, AfterKeeps
    <3> QED BY <2>1, <3>2 DEF PollType
  <2> QED BY <2>3, <2>4, <1>2, <1>q, <1>s DEF SeedProgress, Uncounted, Condemned, Session
<1>3. CASE Connect
  <2>1. /\ connector' = connector /\ poll'.read = poll.read /\ poll'.config = poll.config
        /\ poll'.point = IF poll.config.validity = uidValidity THEN "search" ELSE "sync"
    BY <1>3, <1>t DEF Connect, PollType
  <2> QED BY <2>1, <1>3, <1>k, <1>q, <1>s DEF Connect, Uncounted, Condemned, Session
<1>4. CASE SynchronizeUidValidity
  <2>1. Keeps(poll.read, connector')
    BY <1>4, <1>t, OperationsKeep DEF SynchronizeUidValidity
  <2>2. poll'.read = NewConnector /\ poll'.point = "search"
        /\ poll'.config = SynchronizedConfig
    <3>1. "search" \in PollPoints
      BY DEF PollPoints
    <3>2. After("search") \in PollType /\ After("search").point = "search"
          /\ After("search").read = NewConnector
      BY <3>1, PollTypes, AfterKeeps
    <3> QED BY <1>4, <3>2 DEF SynchronizeUidValidity, PollType
  <2>3. SynchronizedConfig.validity = uidValidity
    BY <1>t DEF SynchronizedConfig, Config
  <2> QED BY <2>1, <2>2, <2>3, <1>4, <1>q, <1>s
          DEF SynchronizeUidValidity, Uncounted, Condemned, Session
<1>5. CASE Search
  <2>1. connector' = connector /\ poll.point = "search"
        /\ poll' = [After("fetch") EXCEPT !.todo = EligibleUids(Matching)]
    BY <1>5 DEF Search, PollAt
  <2>2. poll'.read = NewConnector /\ poll'.point = "fetch" /\ poll'.config = poll.config
    <3>1. "fetch" \in PollPoints
      BY DEF PollPoints
    <3>2. After("fetch") \in PollType /\ After("fetch").point = "fetch"
          /\ After("fetch").read = NewConnector /\ After("fetch").config = poll.config
      BY <3>1, PollTypes, AfterKeeps
    <3> HIDE DEF Mail
    <3> QED BY <2>1, <3>2 DEF PollType
  <2> QED BY <2>1, <2>2, <1>c, <1>5, <1>k, <1>q, <1>s DEF Search, Uncounted, Condemned, Session
<1>6. CASE Handled
  <2>1. /\ connector' = connector /\ poll.point = "handle" /\ poll' = After("commit")
        /\ UNCHANGED <<mailbox, uidValidity, parses, quarantined>>
    BY <1>6 DEF Handled, PollAt, mailVars
  <2>2. poll'.read = NewConnector /\ poll'.point = "commit" /\ poll'.config = poll.config
    BY <2>1, AfterKeeps
  <2> QED BY <2>1, <2>2, <1>c, <1>k, <1>q DEF Uncounted, Condemned, Session
<1>7. CASE CommitMessage
  <2>1. /\ connector' = Progressed(poll.read, poll.uid, Fetched.dated)
        /\ poll.point = "commit_write" /\ poll' = NextMessage
        /\ UNCHANGED <<mailbox, uidValidity, parses, quarantined>>
    BY <1>7 DEF CommitMessage, Advance, PollAt
  <2>2. Fetched.dated \in Nat
    <3>1. poll.uid \in DOMAIN mailbox
      BY <2>1 DEF MailInv, HeldUids
    <3>2. Fetched \in Mail
      BY <3>1, <1>t DEF Fetched
    <3> QED BY <3>2 DEF Mail
  <2>3. Keeps(poll.read, connector')
    BY <2>1, <2>2, <1>t, OperationsKeep
  <2>4. poll'.read = NewConnector /\ poll'.point = "fetch" /\ poll'.config = poll.config
    <3>1. "fetch" \in PollPoints
      BY DEF PollPoints
    <3> QED BY <2>1, <3>1, AfterKeeps, PollTypes
  <2> QED BY <2>1, <2>3, <2>4, <1>c, <1>q DEF Uncounted, Condemned, Session
<1>8. CASE ClearFailure
  <2>1. /\ connector' = IF SameFailure(poll.read) THEN ForgetFailure(poll.read) ELSE connector
        /\ poll.point = "clear_write" /\ poll' = NextMessage
        /\ UNCHANGED <<mailbox, uidValidity, parses, quarantined>>
    BY <1>8, <1>s DEF ClearFailure, PollAt
  <2>2. Keeps(poll.read, connector') \/ Keeps(connector, connector')
    BY <2>1, <1>t, <1>k, OperationsKeep
  <2>3. poll'.read = NewConnector /\ poll'.point = "fetch" /\ poll'.config = poll.config
    <3>1. "fetch" \in PollPoints
      BY DEF PollPoints
    <3> QED BY <2>1, <3>1, AfterKeeps, PollTypes
  <2> QED BY <2>1, <2>2, <2>3, <1>c, <1>q DEF Uncounted, Condemned, Session
<1>9. CASE StopAtTransient \/ EndBatch
  <2>1. connector' = connector /\ poll' = After("report") /\ Stay
    BY <1>9 DEF StopAtTransient, EndBatch
  <2>2. poll'.read = NewConnector /\ poll'.point = "report"
    BY <2>1, AfterKeeps
  <2> QED BY <2>1, <2>2, <1>k, <1>q, <1>s DEF Uncounted, Condemned, Session
<1>10. CASE ReportPoll
  <2>1. connector' = [poll.read EXCEPT !.due = FALSE] /\ poll' = NoPoll /\ Stay
    BY <1>10 DEF ReportPoll
  <2>2. Keeps(poll.read, connector')
    BY <2>1, <1>t, OperationsKeep
  <2>3. poll'.read = NewConnector /\ poll'.point = "rest"
    BY <2>1 DEF NoPoll
  <2> QED BY <2>1, <2>2, <2>3, <1>q, <1>s DEF Uncounted, Condemned, Session
<1> QED BY <1>1, <1>2, <1>3, <1>4, <1>5, <1>6, <1>7, <1>8, <1>9, <1>10 DEF PollStep

\* An operation reads what the connector holds, the count with it.
LEMMA ReadCounts ==
  ASSUME MailInv, CountInv, MailInv', ReadConnector
  PROVE  CountInv'
<1>t. poll \in PollType
  BY DEF MailInv, TypeOK, PollerTypeOK, PollType
<1>1. /\ UNCHANGED <<mailbox, uidValidity, parses, quarantined, connector>>
      /\ poll.point \in DOMAIN WriteAfter
      /\ poll' = [poll EXCEPT !.point = WriteAfter[@], !.read = connector]
  BY DEF ReadConnector, Stay, mailVars
<1>2. /\ poll'.point = WriteAfter[poll.point] /\ poll'.read = connector
      /\ poll'.uid = poll.uid /\ poll'.config = poll.config
  BY <1>1, <1>t DEF PollType
<1>3. /\ poll'.point = "count_write" => poll.point = "count"
      /\ poll'.point \in Condemned => poll.point = "quarantine"
      /\ poll'.point # "count"
      /\ poll'.point \in Session => poll.point \in Session
  BY <1>1, <1>2 DEF WriteAfter, Session, Uncounted, Condemned
<1>4. OneMore(connector) <=> OneMore(poll.read)'
  BY <1>1, <1>2 DEF OneMore, SameFailure, Fetched
<1>5. UNCHANGED parses[Fetched.message]
  BY <1>1, <1>2 DEF Fetched
<1>6. QuarantineIsEarned'
  BY <1>1 DEF CountInv, QuarantineIsEarned
<1> QED BY <1>1, <1>2, <1>3, <1>4, <1>5, <1>6 DEF CountInv, Condemned, FailureCounted

\* What is given up was parsed often enough.
LEMMA QuarantineCounts ==
  ASSUME MailInv, CountInv, MailInv', Quarantine
  PROVE  CountInv'
<1>t. /\ poll.read \in Connector /\ poll.config \in Config
      /\ uidValidity \in Nat /\ poll.uid \in Nat /\ mailbox \in Seq(Mail)
  BY DEF MailInv, TypeOK, PollerTypeOK, Mail
<1>1. /\ connector' = Progressed(poll.read, poll.uid, 0) /\ poll' = After("clear")
      /\ UNCHANGED <<mailbox, uidValidity, parses>> /\ poll.point = "quarantine_write"
      /\ quarantined' = quarantined \cup {Fetched.message}
  BY DEF Quarantine, Advance, PollAt
<1>2. poll'.read = NewConnector /\ poll'.point = "clear" /\ poll'.config = poll.config
  BY <1>1, AfterKeeps
<1>3. Keeps(poll.read, connector') /\ Keeps(poll.read, poll'.read)
  BY <1>1, <1>2, <1>t, OperationsKeep
<1>4. /\ FailureCounted(connector', uidValidity, mailbox, parses)
      /\ FailureCounted(poll'.read, uidValidity, mailbox, parses)
  BY <1>3, <1>t, KeptIsCounted DEF CountInv
<1>5. parses[Fetched.message] >= QuarantineAttempts /\ poll.config.validity = uidValidity
  BY <1>1 DEF CountInv, Condemned, Session
<1>6. QuarantineIsEarned'
  BY <1>1, <1>5 DEF CountInv, QuarantineIsEarned
<1> QED BY <1>1, <1>2, <1>4, <1>5, <1>6 DEF CountInv, Uncounted, Condemned, FailureCounted

\* The owner, the provider, the clock and a failure leave every failure counted.
LEMMA EnvironmentCounts ==
  ASSUME MailInv, CountInv, MailInv',
         \/ Fail \/ OpenSettings \/ SaveSettings
         \/ Deliver \/ Recreate \/ PollComesDue \/ NextDay
  PROVE  CountInv'
<1>t. /\ connector \in Connector /\ poll.read \in Connector /\ edit.read \in Connector
      /\ poll.config \in Config /\ uidValidity \in Nat \ {0} /\ mailbox \in Seq(Mail)
      /\ parses \in [Messages -> Nat]
  BY DEF MailInv, TypeOK, PollerTypeOK, Mail
<1>c. /\ FailureCounted(connector, uidValidity, mailbox, parses)
      /\ FailureCounted(poll.read, uidValidity, mailbox, parses)
  BY DEF CountInv
<1>n. NewConnector \in Connector /\ FailureCounted(NewConnector, uidValidity, mailbox, parses)
  BY <1>t DEF NewConnector, Connector, FailureCounted
<1>u. poll.point \in Uncounted \cup Condemned => poll.uid \in DOMAIN mailbox
  BY DEF MailInv, HeldUids, Uncounted, Condemned
\* The poll goes on as it was, on a mailbox that still holds its message.
<1>k. ASSUME UNCHANGED <<uidValidity, parses, quarantined, poll>>,
             FailureCounted(connector', uidValidity, mailbox', parses),
             FailureCounted(poll.read, uidValidity, mailbox', parses),
             \A u \in DOMAIN mailbox : mailbox'[u] = mailbox[u],
             SameFailure(connector') =>
                SameFailure(connector) /\ connector'.failedAttempts = connector.failedAttempts
      PROVE  CountInv'
  <2>1. poll.point \in Uncounted \cup Condemned => Fetched' = Fetched
    BY <1>k, <1>u DEF Fetched
  <2>2. poll.point = "count" => OneMore(connector)'
    BY <1>k, <2>1 DEF CountInv, OneMore, SameFailure, Uncounted
  <2>3. poll.point = "count_write" => OneMore(poll.read)'
    BY <1>k, <2>1 DEF CountInv, OneMore, SameFailure, Uncounted
  <2>4. poll.point \in Condemned => (parses[Fetched.message] >= QuarantineAttempts)'
    BY <1>k, <2>1 DEF CountInv
  <2>5. QuarantineIsEarned'
    BY <1>k DEF CountInv, QuarantineIsEarned
  <2> QED BY <1>k, <2>2, <2>3, <2>4, <2>5 DEF CountInv
<1>1. CASE Fail
  <2>1. UNCHANGED <<mailbox, uidValidity, parses, quarantined, connector>>
    BY <1>1 DEF Fail, mailVars
  <2>2. poll'.read = NewConnector /\ poll'.point \in {"rest", "report", "transient"}
    <3>1. poll' = NoPoll \/ poll' = [After(AfterError(poll.point)) EXCEPT
                                       !.caught = AfterError(poll.point) = "report"]
      BY <1>1 DEF Fail, AwaitThrows
    <3>2. AfterError(poll.point) = "rest" => poll' = NoPoll
      BY <1>1 DEF Fail, AwaitThrows
    <3>3. AfterError(poll.point) \in {"rest", "report", "transient"}
      BY DEF AfterError
    <3>4. CASE poll' = NoPoll
      BY <3>4 DEF NoPoll
    <3>5. ASSUME NEW p \in {"report", "transient"},
                 poll' = [After(p) EXCEPT !.caught = p = "report"]
          PROVE  poll'.read = NewConnector /\ poll'.point = p
      <4>1. p \in PollPoints
        BY <3>5 DEF PollPoints, WriteAfter
      <4>2. After(p) \in PollType /\ After(p).point = p /\ After(p).read = NewConnector
        BY <4>1, PollTypes, AfterKeeps
      <4> QED BY <3>5, <4>2 DEF PollType
    <3> QED BY <3>1, <3>2, <3>3, <3>4, <3>5
  <2> QED BY <2>1, <2>2, <1>c, <1>n, QuietStep DEF Uncounted, Condemned, Session
<1>2. CASE OpenSettings \/ NextDay
  <2>1. UNCHANGED <<mailbox, uidValidity, parses, quarantined, connector, poll>>
    BY <1>2 DEF OpenSettings, NextDay, mailVars, pollerVars
  <2> QED BY <2>1, <1>k, <1>c
<1>3. CASE SaveSettings
  <2>1. PICK enabled \in BOOLEAN : connector' = Saved(edit.read, enabled)
    BY <1>3, Zenon DEF SaveSettings
  <2>2. UNCHANGED <<mailbox, uidValidity, parses, quarantined, poll>>
    BY <1>3 DEF SaveSettings, mailVars
  <2>3. connector'.failedUid = 0 /\ connector'.failedValidity = 0
    BY <2>1, <1>n DEF Saved, NewConnector, Connector
  <2>4. FailureCounted(connector', uidValidity, mailbox, parses)
    BY <2>3, <1>t DEF FailureCounted
  <2>5. poll.point = "count" => ~SameFailure(connector')
    <3>1. poll.uid \in DOMAIN mailbox => poll.uid # 0
      BY <1>t
    <3> QED BY <3>1, <2>3, <1>u DEF SameFailure, Uncounted
  <2>6. poll.point = "count" => OneMore(connector)'
    BY <2>2, <2>5 DEF CountInv, OneMore, SameFailure, Fetched
  <2>7. poll.point = "count_write" => OneMore(poll.read)'
    BY <2>2 DEF CountInv, OneMore, SameFailure, Fetched
  <2>8. poll.point \in Condemned => (parses[Fetched.message] >= QuarantineAttempts)'
    BY <2>2 DEF CountInv, Fetched
  <2>9. QuarantineIsEarned'
    BY <2>2 DEF CountInv, QuarantineIsEarned
  <2> QED BY <2>2, <2>4, <2>6, <2>7, <2>8, <2>9, <1>c DEF CountInv
<1>4. CASE Deliver
  <2>1. PICK m \in Messages, dated \in today .. today + MaxSkew :
          mailbox' = Append(mailbox, [message |-> m, arrived |-> today, dated |-> dated])
    BY <1>4 DEF Deliver
  <2>2. UNCHANGED <<uidValidity, parses, quarantined, connector, poll>>
    BY <1>4 DEF Deliver, pollerVars
  <2>3. [message |-> m, arrived |-> today, dated |-> dated] \in Mail
    <3>1. today \in Nat /\ MaxSkew \in Nat
      BY DEF MailInv, TypeOK, PollerTypeOK
    <3>2. dated \in Nat
      BY <3>1
    <3> QED BY <3>1, <3>2 DEF Mail
  <2>4. /\ mailbox' \in Seq(Mail) /\ DOMAIN mailbox \subseteq DOMAIN mailbox'
        /\ \A u \in DOMAIN mailbox : mailbox'[u] = mailbox[u]
    <3>1. /\ Len(mailbox) \in Nat /\ DOMAIN mailbox = 1 .. Len(mailbox)
          /\ mailbox' \in Seq(Mail) /\ Len(mailbox') = Len(mailbox) + 1
          /\ \A u \in 1 .. Len(mailbox) : mailbox'[u] = mailbox[u]
      BY <2>1, <2>3, <1>t, AppendProperties, LenProperties
    <3>2. DOMAIN mailbox' = 1 .. Len(mailbox')
      BY <3>1, LenProperties
    <3> QED BY <3>1, <3>2
  <2>5. \A n \in Messages : parses[n] <= parses[n]
    BY <1>t
  <2>6. /\ FailureCounted(connector, uidValidity, mailbox', parses)
        /\ FailureCounted(poll.read, uidValidity, mailbox', parses)
    BY <2>4, <2>5, <1>c, <1>t, GrownIsCounted
  <2> QED BY <2>2, <2>4, <2>6, <1>k
<1>5. CASE Recreate
  <2>1. /\ UNCHANGED <<parses, quarantined, connector, poll>> /\ uidValidity' = uidValidity + 1
        /\ poll.point \in Closed
    BY <1>5 DEF Recreate, pollerVars, Closed
  <2>2. ASSUME NEW c \in {connector, poll.read}
        PROVE  FailureCounted(c, uidValidity', mailbox', parses)
    <3>1. c \in Connector /\ FailureCounted(c, uidValidity, mailbox, parses)
      BY <1>t, <1>c
    <3>2. c.failedValidity \in Nat /\ c.failedValidity <= uidValidity
          /\ (c.failedUid # 0 => c.failedValidity # 0)
      BY <3>1 DEF Connector, FailureCounted
    <3>3. c.failedValidity <= uidValidity' /\ c.failedValidity # uidValidity'
      BY <3>2, <2>1, <1>t
    <3> QED BY <3>2, <3>3 DEF FailureCounted
  <2>3. poll.point \notin Session /\ poll.point \notin Uncounted \cup Condemned
    BY <2>1 DEF Closed, Session, Uncounted, Condemned
  <2>4. QuarantineIsEarned'
    BY <2>1 DEF CountInv, QuarantineIsEarned
  <2> QED BY <2>1, <2>2, <2>3, <2>4 DEF CountInv, Uncounted
<1>6. CASE PollComesDue
  <2>1. /\ connector' = [connector EXCEPT !.due = TRUE]
        /\ UNCHANGED <<mailbox, uidValidity, parses, quarantined, poll>>
    BY <1>6 DEF PollComesDue, mailVars
  <2>2. /\ connector'.failedUid = connector.failedUid
        /\ connector'.failedValidity = connector.failedValidity
        /\ connector'.failedAttempts = connector.failedAttempts
    BY <2>1, <1>t DEF Connector
  <2>3. FailureCounted(connector', uidValidity, mailbox, parses)
    BY <2>2, <1>c DEF FailureCounted
  <2>4. SameFailure(connector') => SameFailure(connector)
    BY <2>2 DEF SameFailure
  <2> QED BY <2>1, <2>2, <2>3, <2>4, <1>c, <1>k
<1> QED BY <1>1, <1>2, <1>3, <1>4, <1>5, <1>6

LEMMA CountStep ==
  ASSUME MailInv, CountInv, MailInv', [Next]_vars
  PROVE  CountInv'
<1>1. CASE Handle \/ UNCHANGED vars
  <2>1. UNCHANGED <<mailbox, uidValidity, parses, quarantined, connector, poll>>
    BY <1>1 DEF Handle, vars, mailVars, pollerVars
  <2> QED BY <2>1 DEF CountInv, QuarantineIsEarned, FailureCounted, OneMore, SameFailure, Fetched
<1>2. CASE PollStep /\ ~Handle
  BY <1>2, FetchCounts, CountFailureCounts, QuarantineCounts, ReadCounts, OtherPollSteps
<1>3. CASE Fail \/ OpenSettings \/ SaveSettings \/ Deliver \/ Recreate \/ PollComesDue \/ NextDay
  BY <1>3, EnvironmentCounts
<1> QED BY <1>1, <1>2, <1>3 DEF Next

LEMMA InitCount == Init => CountInv
<1> SUFFICES ASSUME Init PROVE CountInv
  OBVIOUS
<1>1. poll.point = "rest" /\ poll.read = NewConnector /\ connector = NewConnector
  BY DEF Init, NoPoll
<1>2. FailureCounted(NewConnector, uidValidity, mailbox, parses)
  BY DEF Init, FailureCounted, NewConnector
<1>3. QuarantineIsEarned
  BY DEF Init, QuarantineIsEarned
<1> QED BY <1>1, <1>2, <1>3 DEF CountInv, Session, Uncounted, Condemned

\* QuarantineIsEarned: resolveImapUidFailure's count, which lives in a row that
\* the settings page rewrites and that outlives a recreated mailbox, never
\* gives up a message that failed to parse less often than the limit.
THEOREM QuarantineEarned == Spec => []QuarantineIsEarned
<1>1. Init => MailInv /\ CountInv
  BY InitMailInv, InitCount
<1>2. MailInv /\ CountInv /\ [Next]_vars => MailInv' /\ CountInv'
  BY StepTypes, CountStep
<1>3. CountInv => QuarantineIsEarned
  BY DEF CountInv
<1> QED BY <1>1, <1>2, <1>3, PTL DEF Spec

(***************************************************************************)
(* No mail is skipped.  A cursor, an UID or a date, passes only what is     *)
(* settled: the configuration holds such cursors in the row, in what each  *)
(* operation read of it, and in what the poll and the settings page keep.  *)
(***************************************************************************)
\* Where the clocks of senders agree with the mailbox's, and the mailbox is not
\* recreated under a cursor that the settings page stripped of its generation.
SteadyMail == MaxSkew = 0 /\ (MaxEdits = 0 \/ MaxRecreations = 0)

SettledMail == {m \in Messages : Settled(m)}

\* Mail that arrived before a day, and mail up to an UID, is settled.
DoneBefore(day, mail, done) ==
  \A u \in DOMAIN mail : mail[u].arrived < day => mail[u].message \in done
DoneTo(uid, mail, done) ==
  uid <= Len(mail) /\ \A u \in DOMAIN mail : u <= uid => mail[u].message \in done

\* The cursors of a configuration, of which the UID counts in its generation.
SafeCursors(c, mail, done, now, v) ==
  /\ c.lastReceived <= now /\ DoneBefore(c.lastReceived, mail, done)
  /\ c.validity <= v
  /\ c.validity \in {0, v} => DoneTo(c.lastUid, mail, done)
  /\ MaxRecreations > 0 /\ c.validity = 0 => c.lastUid = 0
Safe(c) == SafeCursors(c, mailbox, SettledMail, today, uidValidity)

\* A handling ends when its message is settled.
Kept == {"trusted", "newsletter"}
HandledInv ==
  /\ \A m \in Messages : inbound[m].action # "none" /\ Kind[m] \in Kept => m \in remembered
  /\ ~Now("idle") => Kind[handling.message] # "malformed"
  /\ handling.point \in {"notify", "reply", "link", "agent"} => Kind[handling.message] \notin Kept
  /\ Now("mark") => /\ handling.action # "none"
                    /\ Kind[handling.message] \in Kept => handling.message \in remembered
  /\ Now("handled") => handling.message \in SettledMail

\* The mailbox is in order of arrival; its flags and the dates on record are of
\* settled mail.
DatesInv ==
  /\ \A u \in DOMAIN mailbox : mailbox[u].dated = mailbox[u].arrived /\ mailbox[u].arrived <= today
  /\ \A u, v \in DOMAIN mailbox : u < v => mailbox[u].arrived <= mailbox[v].arrived
  /\ seen \subseteq DOMAIN mailbox /\ \A u \in seen : mailbox[u].message \in SettledMail
  /\ \A m \in Messages : /\ inbound[m].received <= today
                         /\ DoneBefore(inbound[m].received, mailbox, SettledMail)

\* The message at hand, and those still to come, have only settled ones and each
\* other before them.
AtHand == {"handle", "commit", "commit_write"} \cup Uncounted \cup Condemned
OrderInv ==
  /\ poll.point \in {"fetch", "clear", "clear_write"} \cup AtHand =>
       \A u \in poll.todo : \A v \in DOMAIN mailbox :
         v < u => \/ v \in poll.todo \/ mailbox[v].message \in SettledMail
                  \/ poll.point \in AtHand /\ v = poll.uid
  /\ poll.point \in AtHand =>
       \A v \in DOMAIN mailbox : v < poll.uid => mailbox[v].message \in SettledMail
  /\ poll.point \in {"commit", "commit_write"} => Fetched.message \in SettledMail
  /\ poll.point = "handle" /\ ~Now("idle") =>
       handling.message = Fetched.message /\ handling.received = Fetched.dated

\* Every copy of the cursors is safe, and all are of one generation in a mailbox
\* that may be recreated.
Unreported == PollPoints \ {"rest", "report", "report_write"}
Written == {WriteAfter[p] : p \in DOMAIN WriteAfter} \ {"report_write"}
CursorInv ==
  /\ Safe(connector) /\ Safe(poll.read) /\ Safe(poll.config) /\ Safe(edit.read)
  /\ MaxRecreations = 0 => uidValidity = 1
  /\ MaxEdits = 0 => edit.point = "rest"
  /\ poll.point \in Session => poll.config.validity = uidValidity
  /\ MaxRecreations > 0 /\ poll.point \in Unreported => connector.validity = poll.config.validity
  /\ MaxRecreations > 0 /\ poll.point \in Written => poll.read.validity = poll.config.validity

SkipInv == HandledInv /\ DatesInv /\ OrderInv /\ CursorInv

LEMMA OutsideSettles ==
  ASSUME MailInv, [Next]_vars, ~Handle
  PROVE  /\ UNCHANGED <<inbound, remembered>> /\ quarantined \subseteq quarantined'
         /\ \/ handling' = handling \/ handling'.point = "idle"
            \/ handling'.point = "record" /\ Kind[handling'.message] # "malformed"
<1>1. CASE UNCHANGED inboundVars /\ quarantined \subseteq quarantined'
  BY <1>1 DEF inboundVars
<1>2. CASE Fetch
  <2>1. PICK u \in poll.todo :
          IF Kind[mailbox[u].message] = "malformed"
          THEN UNCHANGED handling
          ELSE BeginHandling(mailbox[u].message, mailbox[u].dated)
    BY <1>2, Zenon DEF Fetch
  <2> QED BY <1>2, <2>1 DEF Fetch, BeginHandling
<1>3. CASE Handled
  BY <1>3 DEF Handled, NotHandling
<1>4. CASE Fail
  BY <1>4 DEF Fail, AbandonHandling, NotHandling
<1>5. CASE PollStep /\ ~Fetch /\ ~Handled
  <2>1. Stay => UNCHANGED inboundVars /\ quarantined' = quarantined
    BY DEF Stay
  <2>2. ASSUME NEW dated, Advance(dated) PROVE UNCHANGED inboundVars
    BY <2>2 DEF Advance
  <2> QED BY <1>1, <1>5, <2>1, <2>2
        DEF PollStep, StartPoll, ReadConnector, SeedProgress, Connect, SynchronizeUidValidity,
            Search, CommitMessage, CountFailure, Quarantine, ClearFailure, StopAtTransient,
            EndBatch, ReportPoll
<1>6. CASE OpenSettings \/ SaveSettings \/ Deliver \/ Recreate \/ PollComesDue \/ NextDay
  BY <1>1, <1>6 DEF OpenSettings, SaveSettings, Deliver, Recreate, PollComesDue, NextDay, pollerVars
<1>7. CASE UNCHANGED vars
  BY <1>1, <1>7 DEF vars, pollerVars
<1> QED BY <1>2, <1>3, <1>4, <1>5, <1>6, <1>7 DEF Next

\* Rows that only gain, and mail given up, keep the settled mail settled.
LEMMA GainsSettle ==
  ASSUME HandledInv', quarantined \subseteq quarantined', remembered \subseteq remembered',
         \A m \in Messages : /\ inbound[m].action # "none" => inbound'[m].action # "none"
                             /\ inbound[m].linked => inbound'[m].linked
                             /\ inbound[m].recorded => inbound'[m].recorded
  PROVE  SettledMail \subseteq SettledMail'
BY DEF HandledInv, SettledMail, Settled, Kept

\* One step of the handling at a time: no row loses what settles its message,
\* and a handling ends with its own message settled.
LEMMA HandledStep ==
  ASSUME MailInv, HandledInv, [Next]_vars
  PROVE  HandledInv' /\ SettledMail \subseteq SettledMail'
<1>0. /\ inbound \in [Messages -> InboundRow] /\ remembered \subseteq Messages
      /\ PollAt("handle") => handling.message \in Messages
  BY DEF MailInv, TypeOK, InboundTypeOK, HeldUids, PollAt
<1>h. handling \in [point : HandlingPoints, message : Messages \cup {Nobody},
                    received : Nat, action : Actions]
  BY DEF MailInv, TypeOK, InboundTypeOK
<1>r. \A m \in Messages : inbound[m] \in InboundRow
  BY <1>0
<1>1. CASE ~Handle
  <2>1. UNCHANGED <<inbound, remembered>> /\ quarantined \subseteq quarantined'
    BY <1>1, OutsideSettles
  <2>2. SettledMail \subseteq SettledMail'
    BY <2>1 DEF SettledMail, Settled
  <2>r. \A m \in Messages : inbound'[m].action # "none" /\ Kind[m] \in Kept => m \in remembered'
    BY <2>1 DEF HandledInv
  <2>3. CASE handling' = handling
    BY <2>1, <2>2, <2>3 DEF HandledInv, Now
  <2>4. CASE handling'.point = "idle"
    BY <2>r, <2>2, <2>4 DEF HandledInv, Now
  <2>5. CASE handling'.point = "record" /\ Kind[handling'.message] # "malformed"
    BY <2>r, <2>2, <2>5 DEF HandledInv, Now
  <2> QED BY <1>1, <2>2, <2>3, <2>4, <2>5, OutsideSettles
<1>2. CASE Handle
  <2> DEFINE m == handling.message
  <2>0. /\ m \in Messages /\ UNCHANGED quarantined /\ inbound[m] \in InboundRow
    BY <1>2, <1>0, <1>r DEF Handle, pollerVars
  <2>1. CASE RecordInbound
    <3> DEFINE next == IF ~inbound[m].recorded \/ Resumable(m) THEN FirstPoint(m) ELSE "handled"
    <3>1. /\ handling'.message = m /\ handling'.point = next /\ remembered' = remembered
          /\ next = "mark" => handling'.action = "blocked"
          /\ Now("record")
      BY <2>1, <1>h DEF RecordInbound
    <3>2. \A n \in Messages : /\ inbound'[n].linked = inbound[n].linked
                              /\ inbound'[n].action = inbound[n].action
                              /\ inbound[n].recorded => inbound'[n].recorded
      BY <2>1, <2>0, <1>0 DEF RecordInbound, InboundRow
    <3>3. inbound'[m].recorded
      BY <2>1, <2>0, <1>0 DEF RecordInbound, InboundRow
    <3>4. Kind[m] \in Kinds /\ Kind[m] # "malformed"
      BY <2>0, <3>1 DEF HandledInv, Now
    <3>5. next \in {"notify", "reply", "link", "agent", "mark"} => Kind[m] \notin Kept
      BY DEF FirstPoint, Kept
    <3>6. \A n \in Messages : inbound'[n].action # "none" /\ Kind[n] \in Kept => n \in remembered'
      BY <3>1, <3>2 DEF HandledInv
    <3>7. next = "handled" => m \in SettledMail'
      <4>1. SUFFICES ASSUME inbound[m].recorded, ~Resumable(m) PROVE m \in SettledMail'
        BY <3>4 DEF FirstPoint, Kinds
      <4>2. CASE inbound[m].action # "none" \/ inbound[m].linked
        BY <4>2, <3>2, <3>6, <2>0 DEF SettledMail, Settled, Kept
      <4>3. CASE inbound[m].action = "none" /\ ~inbound[m].linked
        <5>1. Kind[m] \in {"untrusted", "blocked"}
          BY <4>1, <4>3, <3>4 DEF Resumable, Classification, Kinds
        <5> QED BY <5>1, <3>3, <2>0 DEF SettledMail, Settled
      <4> QED BY <4>2, <4>3
    <3>8. HandledInv'
      <4> HIDE DEF next, m
      <4> QED BY <3>1, <3>4, <3>5, <3>6, <3>7 DEF HandledInv, Now
    <3> QED BY <3>1, <3>2, <3>8, <2>0, GainsSettle
  <2>2. CASE Remember \/ NotifyOwner \/ AnswerReview \/ AnswerApproval \/ RunOwnerAgent
    <3>1. /\ handling'.point = "mark" /\ handling'.message = m
          /\ handling'.action # "none" /\ remembered \subseteq remembered'
          /\ Remember => m \in remembered'
          /\ ~Remember => handling.point \in {"notify", "reply", "agent"}
          /\ ~Now("idle")
      BY <2>2, <1>h DEF Remember, NotifyOwner, AnswerReview, AnswerApproval, RunOwnerAgent, Mark,
                        Now
    <3>2. /\ \A n \in Messages : /\ inbound'[n].linked = inbound[n].linked
                                 /\ inbound'[n].recorded = inbound[n].recorded
                                 /\ inbound[n].action # "none" => inbound'[n].action # "none"
          /\ \A n \in Messages : Kind[n] \in Kept => inbound'[n].action = inbound[n].action
      <4>1. CASE ~AnswerReview
        BY <4>1, <2>2 DEF Remember, NotifyOwner, AnswerApproval, RunOwnerAgent
      <4>2. CASE AnswerReview
        <5>1. PICK k \in LatestReview :
                inbound' = [inbound EXCEPT ![k].action = "accepted_newsletter"]
          BY <4>2, Zenon DEF AnswerReview
        <5>2. k \in Messages /\ Kind[k] \notin Kept
          BY DEF LatestReview, Kept
        <5> QED BY <5>1, <5>2, <1>0, <1>r DEF InboundRow
      <4> QED BY <4>1, <4>2
    <3>3. Kind[m] # "malformed" /\ (Kind[m] \in Kept => m \in remembered')
      BY <3>1 DEF HandledInv, Now
    <3>4. HandledInv'
      BY <3>1, <3>2, <3>3 DEF HandledInv, Now
    <3> QED BY <3>1, <3>2, <3>4, <2>0, GainsSettle
  <2>3. CASE NothingToAnswer \/ LinkThread
    <3>1. /\ handling'.point \in {"link", "agent"} /\ handling'.message = m
          /\ handling.point \in {"reply", "link"} /\ remembered' = remembered
      BY <2>3, <1>h DEF NothingToAnswer, LinkThread, Now, GoTo
    <3>2. \A n \in Messages : /\ inbound'[n].action = inbound[n].action
                              /\ inbound'[n].recorded = inbound[n].recorded
                              /\ inbound[n].linked => inbound'[n].linked
      BY <2>3, <2>0, <1>0 DEF NothingToAnswer, LinkThread, InboundRow
    <3>3. HandledInv'
      BY <3>1, <3>2 DEF HandledInv, Now
    <3> QED BY <3>1, <3>2, <3>3, <2>0, GainsSettle
  <2>4. CASE RecordHandling
    <3>1. /\ handling'.point = "handled" /\ handling'.message = m /\ Now("mark")
          /\ remembered' = remembered
      BY <2>4, <1>h DEF RecordHandling, Now, GoTo
    <3>2. /\ inbound'[m].action = handling.action
          /\ \A n \in Messages : /\ inbound'[n].linked = inbound[n].linked
                                 /\ inbound'[n].recorded = inbound[n].recorded
                                 /\ n # m => inbound'[n].action = inbound[n].action
      BY <2>4, <2>0, <1>0 DEF RecordHandling, InboundRow
    <3>3. handling.action # "none" /\ (Kind[m] \in Kept => m \in remembered)
          /\ Kind[m] # "malformed"
      BY <3>1 DEF HandledInv, Now
    <3>4. m \in SettledMail'
      BY <3>1, <3>2, <3>3, <2>0 DEF SettledMail, Settled, Kept
    <3>5. HandledInv'
      <4>1. \A n \in Messages : inbound'[n].action # "none" /\ Kind[n] \in Kept => n \in remembered'
        BY <3>1, <3>2, <3>3 DEF HandledInv
      <4> QED BY <3>1, <3>3, <3>4, <4>1 DEF HandledInv, Now
    <3> QED BY <3>1, <3>2, <3>3, <3>5, <2>0, GainsSettle
  <2> QED BY <1>2, <2>1, <2>2, <2>3, <2>4 DEF Handle, HandlingStep
<1> QED BY <1>1, <1>2

\* What each operation makes of the cursors of a configuration.
LEMMA ProgressCursors ==
  ASSUME NEW c \in Connector, NEW uid, NEW received
  PROVE  /\ Progressed(c, uid, received).lastUid = Larger(c.lastUid, uid)
         /\ Progressed(c, uid, received).lastReceived = Larger(c.lastReceived, received)
         /\ Progressed(c, uid, received).validity = c.validity
BY DEF Progressed, ForgetFailure, Connector

LEMMA OperationCursors ==
  ASSUME NEW c \in Connector, NEW s \in Config, NEW enabled \in BOOLEAN, NEW due \in BOOLEAN,
         MailInv
  PROVE  /\ ConfigOf(ForgetFailure(c)) = ConfigOf(c)
         /\ ConfigOf(Counted(c)) = ConfigOf(c)
         /\ ConfigOf([c EXCEPT !.due = due]) = ConfigOf(c)
         /\ ConfigOf(Synchronized(c, s)) =
              IF ResetNeeded(s.validity)
              THEN [lastUid |-> 0, lastReceived |-> 0, validity |-> uidValidity]
              ELSE [ConfigOf(c) EXCEPT !.validity = uidValidity]
         /\ ConfigOf(Saved(c, enabled)) = [ConfigOf(c) EXCEPT !.validity = 0]
<1>2. ConfigOf(ForgetFailure(c)) = ConfigOf(c)
  BY DEF ForgetFailure, Connector, ConfigOf
<1>3. ConfigOf(Counted(c)) = ConfigOf(c)
  BY DEF Counted, Connector, ConfigOf
<1>4. ConfigOf([c EXCEPT !.due = due]) = ConfigOf(c)
  BY DEF Connector, ConfigOf
<1>5. ConfigOf(Synchronized(c, s)) =
        IF ResetNeeded(s.validity)
        THEN [lastUid |-> 0, lastReceived |-> 0, validity |-> uidValidity]
        ELSE [ConfigOf(c) EXCEPT !.validity = uidValidity]
  BY DEF Synchronized, ForgetFailure, Connector, ConfigOf
<1>6. ConfigOf(Saved(c, enabled)) = [ConfigOf(c) EXCEPT !.validity = 0]
  BY DEF Saved, NewConnector, Connector, ConfigOf
<1> QED BY <1>2, <1>3, <1>4, <1>5, <1>6

\* Only the cursors of a configuration and their generation count.
LEMMA SafeByCursors ==
  ASSUME NEW c, NEW d, NEW mail, NEW done, NEW now, NEW v, ConfigOf(c) = ConfigOf(d),
         SafeCursors(c, mail, done, now, v)
  PROVE  SafeCursors(d, mail, done, now, v)
<1>1. c.lastUid = d.lastUid /\ c.lastReceived = d.lastReceived /\ c.validity = d.validity
  BY DEF ConfigOf
<1> QED BY <1>1 DEF SafeCursors

\* No cursor at all is safe.
LEMMA NoCursorIsSafe ==
  ASSUME NEW c, c.lastUid = 0, c.lastReceived = 0, NEW mail \in Seq(Mail), NEW done,
         NEW now \in Nat, NEW v \in Nat, c.validity \in {0, v}
  PROVE  SafeCursors(c, mail, done, now, v)
<1>1. \A u \in DOMAIN mail : mail[u].arrived \in Nat /\ u \in Nat /\ u > 0
  <2>1. \A u \in DOMAIN mail : mail[u] \in Mail
    OBVIOUS
  <2>2. \A u \in DOMAIN mail : u \in Nat /\ u > 0
    BY LenProperties
  <2> QED BY <2>1, <2>2 DEF Mail
<1>2. Len(mail) \in Nat
  BY LenProperties
<1> QED BY <1>1, <1>2 DEF SafeCursors, DoneBefore, DoneTo

\* The mailbox gains mail at its end only, of the day or later.
Grown(mail, more, now) ==
  /\ Len(mail) <= Len(more)
  /\ \A u \in DOMAIN mail : more[u] = mail[u]
  /\ \A u \in DOMAIN more : u \notin DOMAIN mail => more[u].arrived >= now

LEMMA DoneBeforeGrows ==
  ASSUME NEW day \in Nat, NEW mail, NEW more \in Seq(Mail), NEW done, NEW later, NEW now \in Nat,
         Grown(mail, more, now), done \subseteq later, day <= now, DoneBefore(day, mail, done)
  PROVE  DoneBefore(day, more, later)
<1>1. SUFFICES ASSUME NEW u \in DOMAIN more, more[u].arrived < day
               PROVE  more[u].message \in later
  BY DEF DoneBefore
<1>2. more[u].arrived \in Nat
  <2>1. more[u] \in Mail
    OBVIOUS
  <2> QED BY <2>1 DEF Mail
<1>3. u \in DOMAIN mail
  <2>1. ~(more[u].arrived >= now)
    BY <1>1, <1>2
  <2> QED BY <2>1 DEF Grown
<1> QED BY <1>1, <1>3 DEF Grown, DoneBefore

LEMMA SafeGrows ==
  ASSUME NEW c, c.lastReceived \in Nat, c.lastUid \in Nat,
         NEW mail \in Seq(Mail), NEW more \in Seq(Mail), NEW done, NEW later,
         NEW now \in Nat, NEW then \in Nat, NEW v,
         Grown(mail, more, now), done \subseteq later, now <= then,
         SafeCursors(c, mail, done, now, v)
  PROVE  SafeCursors(c, more, later, then, v)
<1>1. /\ DOMAIN mail = 1 .. Len(mail) /\ DOMAIN more = 1 .. Len(more)
      /\ Len(mail) \in Nat /\ Len(more) \in Nat
  BY LenProperties
<1>3. DoneBefore(c.lastReceived, more, later)
  BY DoneBeforeGrows DEF SafeCursors
<1>4. ASSUME c.validity \in {0, v}
      PROVE  DoneTo(c.lastUid, more, later)
  <2>1. c.lastUid <= Len(mail) /\ \A u \in DOMAIN mail : u <= c.lastUid => mail[u].message \in done
    BY <1>4 DEF SafeCursors, DoneTo
  <2>2. c.lastUid <= Len(more)
    BY <2>1, <1>1 DEF Grown
  <2>3. ASSUME NEW u \in DOMAIN more, u <= c.lastUid PROVE more[u].message \in later
    <3>1. u \in DOMAIN mail
      BY <2>1, <2>3, <1>1
    <3> QED BY <3>1, <2>1, <2>3 DEF Grown
  <2> QED BY <2>2, <2>3 DEF DoneTo
<1>5. c.lastReceived <= then
  BY DEF SafeCursors
<1> QED BY <1>3, <1>4, <1>5 DEF SafeCursors

\* Progress to what is settled keeps the cursors safe.
LEMMA ProgressIsSafe ==
  ASSUME NEW c \in Connector, NEW uid \in Nat, NEW received \in Nat, MailInv,
         NEW mail \in Seq(Mail), NEW done, NEW now \in Nat, NEW v,
         SafeCursors(c, mail, done, now, v),
         received <= now, DoneBefore(received, mail, done),
         uid # 0 => DoneTo(uid, mail, done) /\ ~(MaxRecreations > 0 /\ c.validity = 0)
  PROVE  SafeCursors(Progressed(c, uid, received), mail, done, now, v)
<1> DEFINE d == Progressed(c, uid, received)
<1>1. /\ d.lastUid = Larger(c.lastUid, uid)
      /\ d.lastReceived = Larger(c.lastReceived, received)
      /\ d.validity = c.validity
  BY ProgressCursors
<1>2. d.lastReceived \in {c.lastReceived, received} /\ d.lastUid \in {c.lastUid, uid}
  BY <1>1 DEF Larger
<1>3. d.lastReceived <= now /\ DoneBefore(d.lastReceived, mail, done)
  BY <1>2 DEF SafeCursors
<1>4. d.lastUid # c.lastUid => uid # 0 /\ d.lastUid = uid
  BY <1>1 DEF Larger, Connector
<1> HIDE DEF d
<1>5. d.validity \in {0, v} => DoneTo(d.lastUid, mail, done)
  BY <1>1, <1>4 DEF SafeCursors
<1>6. MaxRecreations > 0 /\ d.validity = 0 => d.lastUid = 0
  BY <1>1, <1>4 DEF SafeCursors
<1>7. SafeCursors(d, mail, done, now, v)
  BY <1>1, <1>3, <1>5, <1>6 DEF SafeCursors
<1> QED BY <1>7 DEF d

\* Any step but a recreation leaves the mailbox or adds mail of the day to it.
LEMMA MailGrows ==
  ASSUME MailInv, MailInv', [Next]_vars, ~Recreate
  PROVE  /\ Grown(mailbox, mailbox', today) /\ today <= today' /\ uidValidity' = uidValidity
         /\ ~Deliver => mailbox' = mailbox
<1>t. today \in Nat /\ mailbox \in Seq(Mail) /\ mailbox' \in Seq(Mail)
  BY DEF MailInv, TypeOK, PollerTypeOK, Mail
<1>l. Len(mailbox) \in Nat /\ DOMAIN mailbox = 1 .. Len(mailbox)
  BY <1>t, LenProperties
<1>1. CASE UNCHANGED <<mailbox, uidValidity>> /\ today' \in {today, today + 1}
  BY <1>1, <1>t, <1>l DEF Grown
<1>2. CASE Deliver
  <2>1. PICK m \in Messages, dated \in today .. today + MaxSkew :
          mailbox' = Append(mailbox, [message |-> m, arrived |-> today, dated |-> dated])
    BY <1>2 DEF Deliver
  <2> DEFINE new == [message |-> m, arrived |-> today, dated |-> dated]
  <2>2. new \in Mail
    <3>1. dated \in Nat
      BY <1>t
    <3> QED BY <3>1, <1>t DEF Mail
  <2>3. /\ Len(mailbox') = Len(mailbox) + 1 /\ DOMAIN mailbox' = 1 .. Len(mailbox')
        /\ \A u \in 1 .. Len(mailbox) : mailbox'[u] = mailbox[u]
        /\ mailbox'[Len(mailbox) + 1] = new
    <3> HIDE DEF new
    <3>1. mailbox' = Append(mailbox, new)
      BY <2>1 DEF new
    <3> QED BY <3>1, <2>2, <1>t, AppendProperties, LenProperties
  <2>4. \A u \in DOMAIN mailbox' : u \notin DOMAIN mailbox => u = Len(mailbox) + 1
    BY <2>3, <1>l
  <2>5. Grown(mailbox, mailbox', today)
    BY <2>3, <2>4, <1>l, <1>t DEF Grown
  <2> QED BY <2>5, <1>2, <1>t DEF Deliver
<1>3. CASE NextDay
  BY <1>3, <1>1 DEF NextDay
<1>4. CASE UNCHANGED mailVars
  BY <1>4, <1>1 DEF mailVars
<1>5. CASE PollStep
  <2>1. Stay => UNCHANGED mailVars
    BY DEF Stay
  <2>2. ASSUME NEW dated, Advance(dated) PROVE UNCHANGED <<mailbox, uidValidity, today>>
    BY <2>2 DEF Advance
  <2> QED BY <1>1, <1>4, <1>5, <2>1, <2>2
        DEF PollStep, StartPoll, ReadConnector, SeedProgress, Connect, SynchronizeUidValidity,
            Search, Fetch, Handle, Handled, CommitMessage, CountFailure, Quarantine, ClearFailure,
            StopAtTransient, EndBatch, ReportPoll
<1>6. CASE Fail \/ OpenSettings \/ SaveSettings \/ PollComesDue \/ UNCHANGED vars
  BY <1>4, <1>6 DEF Fail, OpenSettings, SaveSettings, PollComesDue, vars
<1> QED BY <1>2, <1>3, <1>5, <1>6 DEF Next

\* A handling is of one message, with the date it was fetched with.
LEMMA HandlingKeeps ==
  ASSUME MailInv, Handle
  PROVE  /\ handling'.message = handling.message /\ handling'.received = handling.received
         /\ ~Now("idle")
         /\ \A m \in Messages :
              \/ inbound'[m].received = inbound[m].received
              \/ m = handling.message /\ inbound'[m].received = handling.received
<1>h. handling \in [point : HandlingPoints, message : Messages \cup {Nobody},
                    received : Nat, action : Actions]
  BY DEF MailInv, TypeOK, InboundTypeOK
<1>i. inbound \in [Messages -> InboundRow]
  BY DEF MailInv, TypeOK, InboundTypeOK
<1>m. handling.message \in Messages
  BY DEF MailInv, HeldUids, Handle, PollAt
<1>1. handling'.message = handling.message /\ handling'.received = handling.received /\ ~Now("idle")
  BY <1>h DEF Handle, HandlingStep, RecordInbound, Remember, NotifyOwner, AnswerReview,
              AnswerApproval, NothingToAnswer, LinkThread, RunOwnerAgent, RecordHandling,
              Mark, GoTo, Now
<1>2. ASSUME NEW m \in Messages
      PROVE  \/ inbound'[m].received = inbound[m].received
             \/ m = handling.message /\ inbound'[m].received = handling.received
  <2>1. CASE RecordInbound
    BY <2>1, <1>i, <1>m DEF RecordInbound, InboundRow
  <2>2. CASE AnswerReview
    <3>1. PICK k \in LatestReview :
            inbound' = [inbound EXCEPT ![k].action = "accepted_newsletter"]
      BY <2>2, Zenon DEF AnswerReview
    <3> QED BY <3>1, <1>i DEF LatestReview, InboundRow
  <2>3. CASE LinkThread \/ RecordHandling
    BY <2>3, <1>i, <1>m DEF LinkThread, RecordHandling, InboundRow
  <2>4. CASE Remember \/ NotifyOwner \/ AnswerApproval \/ NothingToAnswer \/ RunOwnerAgent
    BY <2>4 DEF Remember, NotifyOwner, AnswerApproval, NothingToAnswer, RunOwnerAgent
  <2> QED BY <2>1, <2>2, <2>3, <2>4 DEF Handle, HandlingStep
<1> QED BY <1>1, <1>2

\* The date of a message all before which are settled is a safe cursor.
LEMMA RipeDate ==
  ASSUME MailInv, DatesInv, NEW u \in DOMAIN mailbox,
         \A v \in DOMAIN mailbox : v < u => mailbox[v].message \in SettledMail
  PROVE  mailbox[u].dated <= today /\ DoneBefore(mailbox[u].dated, mailbox, SettledMail)
<1>1. mailbox \in Seq(Mail)
  BY DEF MailInv, TypeOK, PollerTypeOK, Mail
<1>2. \A v \in DOMAIN mailbox : v \in Nat /\ mailbox[v].arrived \in Nat
  <2>1. \A v \in DOMAIN mailbox : v \in Nat /\ mailbox[v] \in Mail
    BY <1>1, LenProperties
  <2> QED BY <2>1 DEF Mail
<1>3. mailbox[u].dated = mailbox[u].arrived /\ mailbox[u].arrived <= today
  BY DEF DatesInv
<1>4. ASSUME NEW v \in DOMAIN mailbox, mailbox[v].arrived < mailbox[u].arrived
      PROVE  mailbox[v].message \in SettledMail
  <2>1. v # u /\ ~(u < v)
    BY <1>4, <1>2 DEF DatesInv
  <2>2. v < u
    BY <2>1, <1>2
  <2> QED BY <2>2
<1> QED BY <1>3, <1>4 DEF DoneBefore

\* A row's date is that of a message fetched in order.
LEMMA DatesStep ==
  ASSUME MailInv, MailInv', SkipInv, SteadyMail, [Next]_vars, ~Recreate,
         SettledMail \subseteq SettledMail'
  PROVE  DatesInv'
<1>t. /\ mailbox \in Seq(Mail) /\ mailbox' \in Seq(Mail) /\ today \in Nat /\ today' \in Nat
      /\ inbound \in [Messages -> InboundRow] /\ seen \subseteq Nat
  BY DEF MailInv, TypeOK, PollerTypeOK, InboundTypeOK, Mail
<1>l. /\ DOMAIN mailbox = 1 .. Len(mailbox) /\ DOMAIN mailbox' = 1 .. Len(mailbox')
      /\ Len(mailbox) \in Nat /\ Len(mailbox') \in Nat
  BY <1>t, LenProperties
<1>g. Grown(mailbox, mailbox', today) /\ today <= today'
  BY MailGrows
<1>a. \A u \in DOMAIN mailbox : mailbox[u].arrived \in Nat
  <2>1. \A u \in DOMAIN mailbox : mailbox[u] \in Mail
    BY <1>t
  <2> QED BY <2>1 DEF Mail
<1>1. \A u \in DOMAIN mailbox' :
        \/ u \in DOMAIN mailbox /\ mailbox'[u] = mailbox[u]
        \/ /\ u = Len(mailbox) + 1 /\ mailbox'[u].arrived = today
           /\ mailbox'[u].dated = today
  <2>1. CASE ~Deliver
    BY <2>1, MailGrows
  <2>2. CASE Deliver
    <3>1. PICK m \in Messages, dated \in today .. today + MaxSkew :
            mailbox' = Append(mailbox, [message |-> m, arrived |-> today, dated |-> dated])
      BY <2>2 DEF Deliver
    <3>2. dated = today
      BY <3>1, <1>t DEF SteadyMail
    <3> DEFINE new == [message |-> m, arrived |-> today, dated |-> today]
    <3>3. new \in Mail
      BY <1>t DEF Mail
    <3>4. /\ Len(mailbox') = Len(mailbox) + 1
          /\ \A u \in 1 .. Len(mailbox) : mailbox'[u] = mailbox[u]
          /\ mailbox'[Len(mailbox) + 1] = new
      <4>1. mailbox' = Append(mailbox, new)
        BY <3>1, <3>2
      <4> HIDE DEF new
      <4> QED BY <4>1, <3>3, <1>t, AppendProperties
    <3> QED BY <3>4, <1>l
  <2> QED BY <2>1, <2>2
<1>2. /\ \A u \in DOMAIN mailbox' : /\ mailbox'[u].dated = mailbox'[u].arrived
                                    /\ mailbox'[u].arrived <= today'
      /\ \A u, v \in DOMAIN mailbox' : u < v => mailbox'[u].arrived <= mailbox'[v].arrived
  <2>1. ASSUME NEW u \in DOMAIN mailbox'
        PROVE  mailbox'[u].dated = mailbox'[u].arrived /\ mailbox'[u].arrived <= today'
    <3>1. CASE u \in DOMAIN mailbox /\ mailbox'[u] = mailbox[u]
      <4>1. mailbox[u].dated = mailbox[u].arrived /\ mailbox[u].arrived <= today
        BY <3>1 DEF SkipInv, DatesInv
      <4> QED BY <4>1, <3>1, <1>a, <1>g, <1>t
    <3>2. CASE mailbox'[u].arrived = today /\ mailbox'[u].dated = today
      BY <3>2, <1>g
    <3> QED BY <3>1, <3>2, <1>1
  <2>2. ASSUME NEW u \in DOMAIN mailbox', NEW v \in DOMAIN mailbox', u < v
        PROVE  mailbox'[u].arrived <= mailbox'[v].arrived
    <3>1. u \in DOMAIN mailbox /\ mailbox'[u] = mailbox[u]
      BY <2>2, <1>1, <1>l
    <3>2. CASE v \in DOMAIN mailbox /\ mailbox'[v] = mailbox[v]
      BY <2>2, <3>1, <3>2 DEF SkipInv, DatesInv
    <3>3. CASE mailbox'[v].arrived = today
      BY <3>1, <3>3 DEF SkipInv, DatesInv
    <3> QED BY <3>2, <3>3, <1>1
  <2> QED BY <2>1, <2>2
<1>3. seen' \subseteq DOMAIN mailbox' /\ \A u \in seen' : mailbox'[u].message \in SettledMail'
  <2>1. \A u \in seen : u \in DOMAIN mailbox' /\ mailbox'[u].message \in SettledMail'
    <3>1. \A u \in DOMAIN mailbox : u \in DOMAIN mailbox' /\ mailbox'[u] = mailbox[u]
      BY <1>g, <1>l DEF Grown
    <3> QED BY <3>1 DEF SkipInv, DatesInv
  <2>2. CASE CommitMessage \/ Quarantine
    <3>1. seen' \in {seen, seen \cup {poll.uid}} /\ mailbox' = mailbox
      BY <2>2 DEF CommitMessage, Quarantine, Advance
    <3>2. poll.uid \in DOMAIN mailbox
      BY <2>2 DEF CommitMessage, Quarantine, PollAt, MailInv, HeldUids
    <3>3. Fetched.message \in SettledMail'
      <4>1. CASE CommitMessage
        BY <4>1 DEF CommitMessage, PollAt, SkipInv, OrderInv
      <4>2. CASE Quarantine
        <5>1. Fetched.message \in Messages
          <6>1. Fetched \in Mail
            BY <3>2, <1>t DEF Fetched
          <6> QED BY <6>1 DEF Mail
        <5> QED BY <5>1, <4>2 DEF Quarantine, SettledMail, Settled
      <4> QED BY <4>1, <4>2, <2>2
    <3> QED BY <2>1, <3>1, <3>2, <3>3 DEF Fetched
  <2>3. CASE ~CommitMessage /\ ~Quarantine
    <3>1. seen' = seen
      <4>1. CASE UNCHANGED mailVars
        BY <4>1 DEF mailVars
      <4>2. Stay => UNCHANGED mailVars
        BY DEF Stay
      <4> QED BY <4>1, <4>2, <2>3 DEF Next, PollStep, StartPoll, ReadConnector, SeedProgress,
            Connect, SynchronizeUidValidity, Search, Fetch, Handle, Handled, CountFailure,
            ClearFailure, StopAtTransient, EndBatch, ReportPoll, Fail, OpenSettings,
            SaveSettings, Deliver,
            PollComesDue, NextDay, vars
    <3> QED BY <3>1, <2>1
  <2> QED BY <2>2, <2>3
<1>4. ASSUME NEW m \in Messages
      PROVE  /\ inbound'[m].received <= today'
             /\ DoneBefore(inbound'[m].received, mailbox', SettledMail')
  <2>1. ASSUME NEW day \in Nat, day <= today, DoneBefore(day, mailbox, SettledMail)
        PROVE  day <= today' /\ DoneBefore(day, mailbox', SettledMail')
    <3>1. day <= today'
      BY <2>1, <1>t, <1>g
    <3>2. DoneBefore(day, mailbox', SettledMail')
      BY <2>1, <1>t, <1>g, DoneBeforeGrows
    <3> QED BY <3>1, <3>2
  <2>2. inbound[m].received \in Nat
    <3>1. inbound[m] \in InboundRow
      BY <1>t
    <3> QED BY <3>1 DEF InboundRow
  <2>3. CASE inbound'[m].received = inbound[m].received
    BY <2>1, <2>2, <2>3 DEF SkipInv, DatesInv
  <2>4. CASE Handle /\ inbound'[m].received = handling.received
    <3>1. poll.uid \in DOMAIN mailbox /\ handling.received = Fetched.dated
      BY <2>4, HandlingKeeps DEF SkipInv, OrderInv, MailInv, HeldUids, Handle, PollAt
    <3>2. Fetched.dated \in Nat
      <4>1. Fetched \in Mail
        BY <3>1, <1>t DEF Fetched
      <4> QED BY <4>1 DEF Mail
    <3>3. Fetched.dated <= today /\ DoneBefore(Fetched.dated, mailbox, SettledMail)
      BY <2>4, <3>1, RipeDate DEF SkipInv, OrderInv, Handle, PollAt, AtHand, Fetched
    <3> QED BY <2>1, <2>4, <3>1, <3>2, <3>3
  <2> QED BY <2>3, <2>4, HandlingKeeps, OutsideHandling
<1> QED BY <1>2, <1>3, <1>4 DEF DatesInv

\* The poll goes on with the messages it held.
Ordered == {"fetch", "clear", "clear_write"} \cup AtHand
LEMMA OrderKept ==
  ASSUME MailInv, MailInv', OrderInv, Grown(mailbox, mailbox', today),
         SettledMail \subseteq SettledMail', poll'.todo = poll.todo, poll'.uid = poll.uid,
         poll'.point \in Ordered =>
           poll.point \in Ordered /\ (poll'.point \in AtHand <=> poll.point \in AtHand),
         poll'.point \in {"commit", "commit_write"} => Fetched.message \in SettledMail',
         poll'.point = "handle" /\ handling'.point # "idle" =>
           /\ poll.point = "handle" /\ ~Now("idle")
           /\ handling'.message = handling.message /\ handling'.received = handling.received
  PROVE  OrderInv'
<1>t. /\ mailbox \in Seq(Mail) /\ mailbox' \in Seq(Mail) /\ poll.todo \subseteq DOMAIN mailbox
      /\ poll.point \in AtHand => poll.uid \in DOMAIN mailbox
  BY DEF MailInv, TypeOK, PollerTypeOK, Mail, HeldUids, AtHand, Uncounted, Condemned
<1>l. /\ DOMAIN mailbox = 1 .. Len(mailbox) /\ DOMAIN mailbox' = 1 .. Len(mailbox')
      /\ Len(mailbox) \in Nat /\ Len(mailbox') \in Nat
  BY <1>t, LenProperties
<1>1. \A u \in DOMAIN mailbox : \A v \in DOMAIN mailbox' :
        v < u => v \in DOMAIN mailbox /\ mailbox'[v] = mailbox[v]
  BY <1>l DEF Grown
<1>2. poll.point \in AtHand => Fetched' = Fetched
  BY <1>t DEF Fetched, Grown
<1>3. poll'.point \in Ordered =>
        \A u \in poll'.todo : \A v \in DOMAIN mailbox' :
          v < u => \/ v \in poll'.todo \/ mailbox'[v].message \in SettledMail'
                   \/ poll'.point \in AtHand /\ v = poll'.uid
  <2> SUFFICES ASSUME poll'.point \in Ordered, NEW u \in poll.todo, NEW v \in DOMAIN mailbox', v < u
               PROVE  \/ v \in poll.todo \/ mailbox'[v].message \in SettledMail'
                      \/ poll'.point \in AtHand /\ v = poll.uid
    OBVIOUS
  <2>1. v \in DOMAIN mailbox /\ mailbox'[v] = mailbox[v]
    BY <1>1, <1>t
  <2>2. \/ v \in poll.todo \/ mailbox[v].message \in SettledMail
        \/ poll.point \in AtHand /\ v = poll.uid
    BY <2>1 DEF OrderInv, Ordered
  <2> QED BY <2>1, <2>2
<1>4. poll'.point \in AtHand =>
        \A v \in DOMAIN mailbox' : v < poll'.uid => mailbox'[v].message \in SettledMail'
  <2> SUFFICES ASSUME poll'.point \in AtHand, NEW v \in DOMAIN mailbox', v < poll.uid
               PROVE  mailbox'[v].message \in SettledMail'
    OBVIOUS
  <2>1. poll.point \in AtHand
    BY DEF Ordered
  <2>2. v \in DOMAIN mailbox /\ mailbox'[v] = mailbox[v]
    BY <2>1, <1>1, <1>t
  <2> QED BY <2>1, <2>2 DEF OrderInv
<1>5. poll'.point \in {"commit", "commit_write"} => Fetched'.message \in SettledMail'
  BY <1>2 DEF Ordered, AtHand
<1>6. poll'.point = "handle" /\ handling'.point # "idle" =>
        handling'.message = Fetched'.message /\ handling'.received = Fetched'.dated
  BY <1>2 DEF OrderInv, AtHand
<1> QED BY <1>3, <1>4, <1>5, <1>6 DEF OrderInv, Ordered, Now

\* A search in a synchronized mailbox passes only settled mail.
LEMMA SearchOrder ==
  ASSUME MailInv, SkipInv, Search, NEW u \in EligibleUids(Matching), NEW v \in DOMAIN mailbox, v < u
  PROVE  v \in EligibleUids(Matching) \/ mailbox[v].message \in SettledMail
<1> DEFINE above == {w \in Matching : w > poll.config.lastUid}
           before(w) == {x \in above : x < w}
<1>t. /\ mailbox \in Seq(Mail) /\ poll.config \in Config
      /\ BatchLimit \in Nat
  BY DEF MailInv, TypeOK, PollerTypeOK, Mail
<1>l. DOMAIN mailbox = 1 .. Len(mailbox) /\ Len(mailbox) \in Nat
  BY <1>t, LenProperties
<1>c. poll.config.lastUid \in Nat /\ poll.config.lastReceived \in Nat
  BY <1>t DEF Config
<1>s. poll.config.validity = uidValidity /\ Safe(poll.config)
  BY DEF Search, PollAt, SkipInv, CursorInv, Session
<1>1. u \in above /\ Cardinality(before(u)) < BatchLimit
  BY DEF EligibleUids
<1>2. CASE v \in above
  <2>1. before(v) \subseteq before(u)
    <3>1. \A x \in above : x \in 1 .. Len(mailbox)
      BY <1>l DEF Matching
    <3> QED BY <3>1, <1>1, <1>l
  <2>2. IsFiniteSet(before(u))
    <3>1. before(u) \subseteq 1 .. Len(mailbox)
      BY <1>l DEF Matching
    <3>2. IsFiniteSet(1 .. Len(mailbox))
      BY <1>l, FS_Interval
    <3> QED BY <3>1, <3>2, FS_Subset
  <2>3. Cardinality(before(v)) <= Cardinality(before(u))
    BY <2>1, <2>2, FS_Subset
  <2>4. Cardinality(before(v)) \in Nat /\ Cardinality(before(u)) \in Nat
    BY <2>1, <2>2, FS_Subset, FS_CardinalityType
  <2>5. Cardinality(before(v)) < BatchLimit
    <3> DEFINE cv == Cardinality(before(v))
               cu == Cardinality(before(u))
    <3>1. cv <= cu /\ cu < BatchLimit /\ cv \in Nat /\ cu \in Nat
      BY <2>3, <2>4, <1>1
    <3> HIDE DEF cv, cu
    <3>2. cv < BatchLimit
      BY <3>1, <1>t
    <3> QED BY <3>2 DEF cv
  <2> QED BY <1>2, <2>5 DEF EligibleUids
<1>3. CASE v \notin above
  <2>1. CASE v <= poll.config.lastUid
    BY <2>1, <1>s DEF Safe, SafeCursors, DoneTo
  <2>2. CASE v \notin Matching /\ v > poll.config.lastUid
    <3>1. ~(poll.config.lastUid > 0)
      BY <2>2 DEF Matching
    <3>2. CASE poll.config.lastReceived > 0
      <4>1. ~(mailbox[v].arrived >= poll.config.lastReceived)
        BY <2>2, <3>1, <3>2 DEF Matching
      <4>2. mailbox[v].arrived \in Nat
        <5>1. mailbox[v] \in Mail
          BY <1>t
        <5> QED BY <5>1 DEF Mail
      <4>3. mailbox[v].arrived < poll.config.lastReceived
        BY <4>1, <4>2, <1>c
      <4> QED BY <4>3, <1>s DEF Safe, SafeCursors, DoneBefore
    <3>3. CASE ~(poll.config.lastReceived > 0)
      <4>1. v \in seen
        BY <2>2, <3>1, <3>3 DEF Matching
      <4> QED BY <4>1 DEF SkipInv, DatesInv
    <3> QED BY <3>2, <3>3
  <2> QED BY <2>1, <2>2, <1>3, <1>c, <1>l
<1> QED BY <1>2, <1>3

\* What a step of a poll leaves of it.
LEMMA PollMoves ==
  ASSUME MailInv
  PROVE  /\ ReadConnector => /\ poll'.point = WriteAfter[poll.point] /\ poll'.read = connector
                             /\ poll'.todo = poll.todo /\ poll'.uid = poll.uid
                             /\ poll'.config = poll.config
         /\ Connect => /\ poll'.point \in {"search", "sync"} /\ poll'.read = poll.read
                       /\ poll'.config = poll.config
                       /\ poll'.point = "search" => poll.config.validity = uidValidity
         /\ Search => /\ poll'.point = "fetch" /\ poll'.todo = EligibleUids(Matching)
                      /\ poll'.config = poll.config /\ poll'.read = NewConnector
         /\ SynchronizeUidValidity => /\ poll'.point = "search" /\ poll'.read = NewConnector
                                      /\ poll'.config = SynchronizedConfig
         /\ \A point \in PollPoints :
              poll' = After(point) =>
                /\ poll'.point = point /\ poll'.todo = poll.todo /\ poll'.uid = poll.uid
                /\ poll'.config = poll.config /\ poll'.read = NewConnector
         /\ poll' = NextMessage =>
              /\ poll'.point = "fetch" /\ poll'.todo = poll.todo /\ poll'.uid = 0
              /\ poll'.config = poll.config /\ poll'.read = NewConnector
         /\ Fail => \/ poll' = NoPoll
                    \/ /\ poll'.point \in {"report", "transient"} /\ poll'.config = poll.config
                       /\ poll'.read = NewConnector
                       /\ poll'.point = "transient" => poll.point \in Session
<1>t. poll \in PollType
  BY DEF MailInv, TypeOK, PollerTypeOK, PollType
<1>1. ASSUME ReadConnector
      PROVE  /\ poll'.point = WriteAfter[poll.point] /\ poll'.read = connector
             /\ poll'.todo = poll.todo /\ poll'.uid = poll.uid
             /\ poll'.config = poll.config
  BY <1>1, <1>t DEF ReadConnector, PollType
<1>2. ASSUME Connect
      PROVE  /\ poll'.point \in {"search", "sync"} /\ poll'.read = poll.read
             /\ poll'.config = poll.config
             /\ poll'.point = "search" => poll.config.validity = uidValidity
  BY <1>2, <1>t DEF Connect, PollType
<1>a. ASSUME NEW point \in PollPoints
      PROVE  /\ After(point) \in PollType /\ After(point).point = point
             /\ After(point).todo = poll.todo /\ After(point).uid = poll.uid
             /\ After(point).config = poll.config /\ After(point).read = NewConnector
  BY PollTypes, AfterKeeps
<1>p. {"fetch", "search", "report", "transient"} \subseteq PollPoints
  BY DEF PollPoints, WriteAfter
<1>3. ASSUME Search
      PROVE  /\ poll'.point = "fetch" /\ poll'.todo = EligibleUids(Matching)
             /\ poll'.config = poll.config /\ poll'.read = NewConnector
  <2> DEFINE found == EligibleUids(Matching)
  <2>1. poll' = [After("fetch") EXCEPT !.todo = found]
    BY <1>3 DEF Search
  <2> HIDE DEF found
  <2>2. /\ poll'.point = "fetch" /\ poll'.todo = found
        /\ poll'.config = poll.config /\ poll'.read = NewConnector
    BY <2>1, <1>a, <1>p DEF PollType
  <2> QED BY <2>2 DEF found
<1>4. ASSUME SynchronizeUidValidity
      PROVE  /\ poll'.point = "search" /\ poll'.read = NewConnector
             /\ poll'.config = SynchronizedConfig
  <2>1. poll' = [After("search") EXCEPT !.config = SynchronizedConfig]
    BY <1>4 DEF SynchronizeUidValidity
  <2> QED BY <2>1, <1>a, <1>p DEF PollType
<1>5. ASSUME poll' = NextMessage
      PROVE  /\ poll'.point = "fetch" /\ poll'.todo = poll.todo /\ poll'.uid = 0
             /\ poll'.config = poll.config /\ poll'.read = NewConnector
  BY <1>5, <1>a, <1>p DEF NextMessage, PollType
<1>6. ASSUME Fail, poll' # NoPoll
      PROVE  /\ poll'.point \in {"report", "transient"} /\ poll'.config = poll.config
             /\ poll'.read = NewConnector
             /\ poll'.point = "transient" => poll.point \in Session
  <2> DEFINE next == AfterError(poll.point)
  <2>1. next # "rest" /\ poll' = [After(next) EXCEPT !.caught = next = "report"]
    BY <1>6 DEF Fail, AwaitThrows
  <2>2. next \in {"report", "transient"} /\ (next = "transient" => poll.point \in Session)
    BY <2>1 DEF AfterError, Session
  <2>3. (next = "report") \in BOOLEAN
    OBVIOUS
  <2> HIDE DEF next
  <2>4. After(next) \in PollType /\ After(next).point = next /\ After(next).config = poll.config
        /\ After(next).read = NewConnector
    BY <2>2, <1>p, <1>a
  <2>5. poll'.point = next /\ poll'.config = poll.config /\ poll'.read = NewConnector
    BY <2>1, <2>4 DEF PollType
  <2> QED BY <2>2, <2>5
<1> QED BY <1>1, <1>2, <1>3, <1>4, <1>5, <1>6, <1>a

\* The lowest UID of the poll is the next one at hand.
LEMMA FetchOrder ==
  ASSUME MailInv, MailInv', SkipInv, Fetch, SettledMail \subseteq SettledMail'
  PROVE  OrderInv'
<1>t. /\ mailbox \in Seq(Mail) /\ poll \in PollType /\ poll.todo \subseteq DOMAIN mailbox
      /\ DOMAIN mailbox \subseteq Nat
  BY MailboxTypes DEF MailInv, TypeOK, PollerTypeOK, Mail, HeldUids, PollType
<1>1. PICK u \in poll.todo :
        /\ \A v \in poll.todo : u <= v
        /\ \/ /\ poll' = [poll EXCEPT !.point = "handle", !.uid = u, !.todo = @ \ {u}]
              /\ BeginHandling(mailbox[u].message, mailbox[u].dated)
           \/ poll' = [poll EXCEPT !.point = "count", !.uid = u, !.todo = @ \ {u}]
  BY Zenon DEF Fetch
<1>2. /\ poll'.uid = u /\ poll'.todo = poll.todo \ {u} /\ mailbox' = mailbox
      /\ poll'.point \in {"handle", "count"} /\ poll.point = "fetch"
      /\ poll'.point = "handle" =>
           handling'.message = mailbox[u].message /\ handling'.received = mailbox[u].dated
  <2>1. poll.point = "fetch" /\ mailbox' = mailbox
    BY DEF Fetch, PollAt, mailVars
  <2>2. CASE poll' = [poll EXCEPT !.point = "count", !.uid = u, !.todo = @ \ {u}]
    BY <2>1, <2>2, <1>t DEF PollType
  <2>3. CASE /\ poll' = [poll EXCEPT !.point = "handle", !.uid = u, !.todo = @ \ {u}]
             /\ BeginHandling(mailbox[u].message, mailbox[u].dated)
    <3>1. /\ poll'.uid = u /\ poll'.todo = poll.todo \ {u} /\ poll'.point = "handle"
      BY <2>3, <1>t DEF PollType
    <3> QED BY <2>1, <2>3, <3>1 DEF BeginHandling
  <2> QED BY <1>1, <2>2, <2>3
<1>3. ASSUME NEW w \in poll.todo, NEW v \in DOMAIN mailbox, v < w
      PROVE  v \in poll.todo \/ mailbox[v].message \in SettledMail
  BY <1>2, <1>3 DEF SkipInv, OrderInv, AtHand, Uncounted, Condemned
<1>4. ASSUME NEW v \in DOMAIN mailbox, v < u
      PROVE  mailbox[v].message \in SettledMail'
  <2>1. v \notin poll.todo
    <3>1. v \in Nat /\ u \in Nat
      BY <1>t
    <3> QED BY <3>1, <1>1, <1>4
  <2> QED BY <2>1, <1>3, <1>4
<1>5. ASSUME NEW w \in poll'.todo, NEW v \in DOMAIN mailbox, v < w
      PROVE  v \in poll'.todo \/ mailbox[v].message \in SettledMail' \/ v = u
  BY <1>2, <1>3, <1>5
<1>6. poll'.point \in AtHand /\ poll'.point \notin {"commit", "commit_write"}
  BY <1>2 DEF AtHand, Uncounted
<1> QED BY <1>2, <1>4, <1>5, <1>6 DEF OrderInv, Fetched

\* A message is done with once it is settled.
LEMMA NextOrder ==
  ASSUME MailInv, MailInv', SkipInv, SettledMail \subseteq SettledMail', mailbox' = mailbox,
         poll.point \in {"clear", "clear_write"} \/ Fetched.message \in SettledMail',
         poll.point \in Ordered, poll'.point \in {"fetch", "clear"}, poll'.todo = poll.todo
  PROVE  OrderInv'
<1>1. ASSUME NEW u \in poll.todo, NEW v \in DOMAIN mailbox, v < u
      PROVE  v \in poll.todo \/ mailbox[v].message \in SettledMail'
  <2>1. \/ v \in poll.todo \/ mailbox[v].message \in SettledMail
        \/ poll.point \in AtHand /\ v = poll.uid
    BY <1>1 DEF SkipInv, OrderInv, Ordered
  <2> QED BY <2>1 DEF Fetched, AtHand, Uncounted, Condemned
<1>2. poll'.point \notin AtHand /\ poll'.point # "handle"
  BY DEF AtHand, Uncounted, Condemned
<1> QED BY <1>1, <1>2 DEF OrderInv, AtHand

LEMMA OrderStep ==
  ASSUME MailInv, MailInv', SkipInv, HandledInv', [Next]_vars, SettledMail \subseteq SettledMail'
  PROVE  OrderInv'
<1>o. OrderInv /\ HandledInv
  BY DEF SkipInv
<1>p. /\ poll.point \in PollPoints
      /\ {"report", "quarantine", "clear", "commit"} \subseteq PollPoints
  BY DEF MailInv, TypeOK, PollerTypeOK, PollPoints, WriteAfter
<1>q. ASSUME poll'.point \notin Ordered PROVE OrderInv'
  BY <1>q DEF OrderInv, Ordered, AtHand
<1>1. CASE StartPoll \/ SeedProgress \/ SynchronizeUidValidity \/ Connect \/ ReportPoll
  <2>1. CASE StartPoll \/ ReportPoll
    <3>1. poll'.point \in {"seed", "connect", "rest"}
      <4>1. CASE StartPoll
        BY <4>1 DEF StartPoll, NoPoll
      <4>2. CASE ReportPoll
        BY <4>2 DEF ReportPoll, NoPoll
      <4> QED BY <2>1, <4>1, <4>2
    <3> QED BY <3>1, <1>q DEF Ordered, AtHand, Uncounted, Condemned
  <2>2. CASE SeedProgress
    <3>1. PICK newest : poll' = [After("connect") EXCEPT !.config.lastReceived = newest]
      BY <2>2, Zenon DEF SeedProgress
    <3>2. "connect" \in PollPoints
      BY DEF PollPoints
    <3>3. poll'.point = "connect"
      BY <3>1, <3>2, PollTypes DEF PollType
    <3> QED BY <3>3, <1>q DEF Ordered, AtHand, Uncounted, Condemned
  <2>3. CASE SynchronizeUidValidity \/ Connect
    <3>1. poll'.point \in {"search", "sync"}
      BY <2>3, PollMoves
    <3> QED BY <3>1, <1>q DEF Ordered, AtHand, Uncounted, Condemned
  <2> QED BY <1>1, <2>1, <2>2, <2>3
<1>2. CASE StopAtTransient \/ EndBatch \/ Fail
  <2>1. poll'.point \in {"rest", "report", "transient"}
    BY <1>2, <1>p, PollMoves DEF StopAtTransient, EndBatch, NoPoll
  <2> QED BY <2>1, <1>q DEF Ordered, AtHand, Uncounted, Condemned
<1>3. CASE Search
  <2>1. /\ poll'.point = "fetch" /\ poll'.todo = EligibleUids(Matching) /\ mailbox' = mailbox
    BY <1>3, PollMoves DEF Search, Stay, mailVars
  <2>2. poll'.point \notin AtHand /\ poll'.point # "handle"
    BY <2>1 DEF AtHand, Uncounted, Condemned
  <2>3. \A u \in poll'.todo : \A v \in DOMAIN mailbox' :
          v < u => v \in poll'.todo \/ mailbox'[v].message \in SettledMail'
    BY <1>3, <2>1, SearchOrder
  <2> QED BY <2>1, <2>2, <2>3 DEF OrderInv
<1>4. CASE Fetch
  BY <1>4, FetchOrder
<1>5. CASE CommitMessage
  <2>1. /\ poll.point = "commit_write" /\ poll' = NextMessage /\ mailbox' = mailbox
    BY <1>5 DEF CommitMessage, PollAt, Advance
  <2>2. Fetched.message \in SettledMail'
    BY <2>1, <1>o DEF OrderInv
  <2> QED BY <2>1, <2>2, NextOrder, PollMoves DEF Ordered, AtHand
<1>6. CASE Quarantine
  <2>1. /\ poll.point = "quarantine_write" /\ poll' = After("clear") /\ mailbox' = mailbox
        /\ Fetched.message \in quarantined'
    BY <1>6 DEF Quarantine, PollAt, Advance
  <2>2. Fetched.message \in SettledMail'
    <3>1. quarantined' \subseteq Messages
      BY DEF MailInv, TypeOK, PollerTypeOK
    <3> QED BY <2>1, <3>1 DEF SettledMail, Settled
  <2>3. poll'.point = "clear" /\ poll'.todo = poll.todo
    BY <2>1, <1>p, PollMoves
  <2> QED BY <2>1, <2>2, <2>3, NextOrder DEF Ordered, AtHand, Condemned
<1>7. CASE ClearFailure
  <2>1. /\ poll.point = "clear_write" /\ poll' = NextMessage /\ mailbox' = mailbox
    BY <1>7 DEF ClearFailure, PollAt, Stay, mailVars
  <2> QED BY <2>1, NextOrder, PollMoves DEF Ordered
<1>8. CASE ReadConnector
  <2>1. /\ poll'.point = WriteAfter[poll.point] /\ poll.point \in DOMAIN WriteAfter
        /\ poll'.todo = poll.todo /\ poll'.uid = poll.uid /\ ~Recreate /\ handling' = handling
    <3>1. uidValidity' = uidValidity /\ handling' = handling /\ poll.point \in DOMAIN WriteAfter
      BY <1>8 DEF ReadConnector, Stay, mailVars, inboundVars
    <3>2. uidValidity \in Nat
      BY DEF MailInv, TypeOK, PollerTypeOK
    <3>3. ~Recreate
      BY <3>1, <3>2 DEF Recreate
    <3> QED BY <1>8, <3>1, <3>3, PollMoves
  <2>2. Grown(mailbox, mailbox', today)
    BY <2>1, MailGrows
  <2>3. poll'.point \in Ordered =>
          poll.point \in Ordered /\ (poll'.point \in AtHand <=> poll.point \in AtHand)
    BY <2>1 DEF WriteAfter, Ordered, AtHand, Uncounted, Condemned
  <2>4. /\ poll'.point # "handle"
        /\ poll'.point \in {"commit", "commit_write"} => poll.point = "commit"
    BY <2>1 DEF WriteAfter
  <2>5. poll'.point \in {"commit", "commit_write"} => Fetched.message \in SettledMail'
    BY <2>4, <1>o DEF OrderInv
  <2> QED BY <2>1, <2>2, <2>3, <2>4, <2>5, <1>o, OrderKept
<1>9. CASE Handle
  <2>1. UNCHANGED poll /\ ~Recreate /\ poll.point = "handle"
    BY <1>9 DEF Handle, pollerVars, PollAt, Recreate
  <2>2. Grown(mailbox, mailbox', today)
    BY <2>1, MailGrows
  <2> QED BY <2>1, <2>2, <1>9, <1>o, HandlingKeeps, OrderKept
<1>10. CASE Handled
  <2>1. /\ poll.point = "handle" /\ poll' = After("commit") /\ ~Recreate /\ Now("handled")
    BY <1>10 DEF Handled, PollAt, Recreate
  <2>2. Grown(mailbox, mailbox', today)
    BY <2>1, MailGrows
  <2>3. Fetched.message \in SettledMail'
    BY <2>1, <1>o DEF OrderInv, HandledInv, Now
  <2>4. poll'.point = "commit" /\ poll'.todo = poll.todo /\ poll'.uid = poll.uid
    BY <2>1, <1>p, PollMoves
  <2> QED BY <2>1, <2>2, <2>3, <2>4, <1>o, OrderKept DEF Ordered, AtHand
<1>11. CASE CountFailure
  <2>1. poll.point = "count_write" /\ ~Recreate /\ handling' = handling
    BY <1>11 DEF CountFailure, PollAt, Recreate, Stay, inboundVars
  <2>2. Grown(mailbox, mailbox', today)
    BY <2>1, MailGrows
  <2>3. /\ poll'.point \in {"report", "quarantine"} /\ poll'.todo = poll.todo
        /\ poll'.uid = poll.uid
    <3> DEFINE point == IF Counted(poll.read).failedAttempts < QuarantineAttempts
                        THEN "report" ELSE "quarantine"
    <3>1. poll' = After(point) /\ point \in {"report", "quarantine"}
      BY <1>11 DEF CountFailure
    <3> HIDE DEF point
    <3> QED BY <3>1, <1>p, PollMoves
  <2> QED BY <2>1, <2>2, <2>3, <1>o, OrderKept DEF Ordered, AtHand, Uncounted, Condemned
<1>12. CASE \/ OpenSettings \/ SaveSettings \/ Deliver \/ PollComesDue \/ NextDay
            \/ UNCHANGED vars
  <2>1. UNCHANGED <<poll, handling>>
    BY <1>12 DEF OpenSettings, SaveSettings, Deliver, PollComesDue, NextDay, vars, pollerVars,
                 inboundVars
  <2>2. CASE Recreate
    <3>1. poll'.point \in Closed
      BY <2>1, <2>2 DEF Recreate, Closed
    <3> QED BY <3>1, <1>q DEF Closed, Ordered, AtHand, Uncounted, Condemned
  <2>3. CASE ~Recreate
    <3>1. Grown(mailbox, mailbox', today)
      BY <2>3, MailGrows
    <3> QED BY <2>1, <3>1, <1>o, OrderKept DEF OrderInv, Now
  <2> QED BY <2>2, <2>3
<1>13. CASE Recreate
  <2>1. poll'.point \in Closed
    BY <1>13 DEF Recreate, Closed, pollerVars
  <2> QED BY <2>1, <1>q DEF Closed, Ordered, AtHand, Uncounted, Condemned
<1> QED BY <1>1, <1>2, <1>3, <1>4, <1>5, <1>6, <1>7, <1>8, <1>9, <1>10, <1>11, <1>12, <1>13
        DEF Next, PollStep

\* What was safe stays safe, and a cursor taken over into the mailbox's own
\* generation is safe there.
LEMMA TakenOverIsSafe ==
  ASSUME NEW c, NEW d, NEW mail, NEW done, NEW now, NEW v, v # 0, v \in Nat,
         SafeCursors(c, mail, done, now, v), c.validity \in {0, v},
         d.lastUid = c.lastUid, d.lastReceived = c.lastReceived, d.validity = v
  PROVE  SafeCursors(d, mail, done, now, v)
BY DEF SafeCursors

Later(c) == SafeCursors(c, mailbox', SettledMail', today', uidValidity')

LEMMA CopiesStaySafe ==
  ASSUME MailInv, MailInv', SkipInv, [Next]_vars, ~Recreate, SettledMail \subseteq SettledMail'
  PROVE  /\ Later(connector) /\ Later(poll.read) /\ Later(poll.config) /\ Later(edit.read)
         /\ Later(NewConnector) /\ Later(NoPoll.config)
<1>t. /\ connector \in Connector /\ poll.read \in Connector /\ poll.config \in Config
      /\ edit.read \in Connector /\ mailbox \in Seq(Mail) /\ mailbox' \in Seq(Mail)
      /\ today \in Nat /\ today' \in Nat /\ uidValidity' \in Nat
  BY DEF MailInv, TypeOK, PollerTypeOK, Mail
<1>1. Grown(mailbox, mailbox', today) /\ today <= today' /\ uidValidity' = uidValidity
  BY MailGrows
<1>2. ASSUME NEW c, c.lastReceived \in Nat, c.lastUid \in Nat, Safe(c)
      PROVE  Later(c)
  BY <1>2, <1>1, <1>t, SafeGrows DEF Safe, Later
<1>3. Later(connector) /\ Later(poll.read) /\ Later(poll.config) /\ Later(edit.read)
  BY <1>2, <1>t DEF SkipInv, CursorInv, Connector, Config
<1>4. Later(NewConnector) /\ Later(NoPoll.config)
  BY <1>t, NoCursorIsSafe DEF Later, NewConnector, NoPoll, ConfigOf
<1> QED BY <1>3, <1>4

\* The cursor moves to the message at hand once everything up to it is settled.
LEMMA AdvanceIsSafe ==
  ASSUME MailInv, MailInv', SkipInv, SettledMail \subseteq SettledMail',
         mailbox' = mailbox, today' = today, uidValidity' = uidValidity, Later(poll.read),
         poll.point \in {"commit_write", "quarantine_write"}, Fetched.message \in SettledMail',
         NEW received \in {0, Fetched.dated}
  PROVE  Later(Progressed(poll.read, poll.uid, received))
<1>t. /\ poll.read \in Connector /\ mailbox \in Seq(Mail) /\ today \in Nat /\ uidValidity # 0
      /\ poll.uid \in DOMAIN mailbox /\ poll.uid \in Nat
  BY DEF MailInv, TypeOK, PollerTypeOK, HeldUids, Mail
<1>l. DOMAIN mailbox = 1 .. Len(mailbox) /\ Len(mailbox) \in Nat
  BY <1>t, LenProperties
<1>1. \A v \in DOMAIN mailbox : v < poll.uid => mailbox[v].message \in SettledMail
  BY DEF SkipInv, OrderInv, AtHand, Condemned
<1>2. Fetched.dated \in Nat /\ Fetched \in Mail
  <2>1. Fetched \in Mail
    BY <1>t DEF Fetched
  <2> QED BY <2>1 DEF Mail
<1>3. received \in Nat /\ received <= today /\ DoneBefore(received, mailbox, SettledMail)
  <2>1. Fetched.dated <= today /\ DoneBefore(Fetched.dated, mailbox, SettledMail)
    BY <1>1, <1>t, RipeDate DEF Fetched, SkipInv
  <2>2. DoneBefore(0, mailbox, SettledMail)
    <3>1. \A u \in DOMAIN mailbox : mailbox[u] \in Mail
      BY <1>t
    <3> QED BY <3>1 DEF DoneBefore, Mail
  <2> QED BY <2>1, <2>2, <1>2, <1>t
<1>4. DoneBefore(received, mailbox, SettledMail')
  BY <1>3 DEF DoneBefore
<1>5. DoneTo(poll.uid, mailbox, SettledMail')
  <2>1. ASSUME NEW u \in DOMAIN mailbox, u <= poll.uid PROVE mailbox[u].message \in SettledMail'
    <3>1. u < poll.uid \/ u = poll.uid
      BY <2>1, <1>l, <1>t
    <3> QED BY <3>1, <1>1 DEF Fetched
  <2> QED BY <2>1, <1>l, <1>t DEF DoneTo
<1>6. ~(MaxRecreations > 0 /\ poll.read.validity = 0)
  <2>1. MaxRecreations > 0 => poll.read.validity = poll.config.validity
    BY DEF SkipInv, CursorInv, Written, WriteAfter
  <2>2. poll.config.validity = uidValidity
    BY DEF SkipInv, CursorInv, Session, Condemned
  <2> QED BY <2>1, <2>2, <1>t
<1> QED BY <1>3, <1>4, <1>5, <1>6, <1>t, ProgressIsSafe DEF Later

\* The steps of a poll keep every copy of the cursors safe and of one generation.
LEMMA PollCursors ==
  ASSUME MailInv, MailInv', SkipInv, PollStep, SettledMail \subseteq SettledMail'
  PROVE  CursorInv'
<1>t. /\ connector \in Connector /\ poll.read \in Connector /\ poll.config \in Config
      /\ poll \in PollType /\ poll.point \in PollPoints /\ poll.uid \in Nat
      /\ uidValidity \in Nat \ {0} /\ mailbox \in Seq(Mail) /\ today \in Nat
  BY DEF MailInv, TypeOK, PollerTypeOK, PollType, Mail
<1>n. [Next]_vars
  BY DEF Next
<1>u. UNCHANGED <<mailbox, uidValidity, today, edit>>
  <2>1. Stay => UNCHANGED <<mailbox, uidValidity, today, edit>>
    BY DEF Stay, mailVars
  <2>2. ASSUME NEW dated, Advance(dated) PROVE UNCHANGED <<mailbox, uidValidity, today, edit>>
    BY <2>2 DEF Advance
  <2> QED BY <2>1, <2>2 DEF PollStep, StartPoll, ReadConnector, SeedProgress, Connect,
            SynchronizeUidValidity, Search, Fetch, Handle, Handled, CommitMessage, CountFailure,
            Quarantine, ClearFailure, StopAtTransient, EndBatch, ReportPoll, mailVars, pollerVars
<1>r. ~Recreate
  BY <1>u, <1>t DEF Recreate
<1>s. /\ Later(connector) /\ Later(poll.read) /\ Later(poll.config) /\ Later(edit.read)
      /\ Later(NewConnector) /\ Later(NoPoll.config)
  BY <1>n, <1>r, CopiesStaySafe
<1>c. CursorInv
  BY DEF SkipInv
\* It is enough to look at the connector and the poll.
<1>k. ASSUME Later(connector'), Later(poll'.read), Later(poll'.config),
             poll'.point \in Session => poll'.config.validity = uidValidity,
             MaxRecreations > 0 /\ poll'.point \in Unreported =>
               connector'.validity = poll'.config.validity,
             MaxRecreations > 0 /\ poll'.point \in Written =>
               poll'.read.validity = poll'.config.validity
      PROVE  CursorInv'
  <2>1. Safe(connector)' /\ Safe(poll.read)' /\ Safe(poll.config)'
    BY <1>k DEF Safe, Later
  <2>2. Safe(edit.read)'
    BY <1>s, <1>u DEF Safe, Later
  <2>3. /\ MaxRecreations = 0 => uidValidity' = 1
        /\ MaxEdits = 0 => edit'.point = "rest"
    BY <1>u, <1>c DEF CursorInv
  <2>4. Unreported' = Unreported /\ Written' = Written
    BY DEF Unreported, Written
  <2> QED BY <1>k, <1>u, <2>1, <2>2, <2>3, <2>4 DEF CursorInv
<1>p. /\ {"report", "quarantine", "clear", "commit"} \subseteq PollPoints
  BY DEF PollPoints, WriteAfter
\* After an operation the poll has no configuration at hand.
<1>a. ASSUME NEW point \in {"report", "quarantine", "clear", "commit", "fetch"},
             Later(connector'), poll'.point = point, poll'.read = NewConnector,
             poll'.config = poll.config, point # "report" => poll.point \in Session,
             MaxRecreations > 0 /\ point # "report" => connector'.validity = poll.config.validity
      PROVE  CursorInv'
  <2>1. /\ poll'.point \notin Written
        /\ poll'.point \in Session => point # "report"
        /\ poll'.point \in Unreported => point # "report"
    BY <1>a DEF Unreported, Written, WriteAfter, Session, Uncounted, Condemned
  <2>2. poll'.point \in Session => poll'.config.validity = uidValidity
    BY <2>1, <1>a, <1>c DEF CursorInv
  <2>3. Later(poll'.read) /\ Later(poll'.config)
    BY <1>a, <1>s
  <2> QED BY <2>1, <2>2, <2>3, <1>a, <1>k
<1>v. ASSUME MaxRecreations > 0, poll.point \in {"seed_write", "sync_write", "commit_write",
                                                "count_write", "quarantine_write", "clear_write"}
      PROVE  /\ poll.read.validity = poll.config.validity
             /\ connector.validity = poll.config.validity
  <2>1. poll.point \in Written /\ poll.point \in Unreported
    BY <1>v, <1>t DEF Written, WriteAfter, Unreported
  <2> QED BY <1>v, <2>1, <1>c DEF CursorInv
<1>1. CASE StartPoll
  <2>1. /\ connector' = connector /\ poll'.read = NewConnector
        /\ poll'.point \in {"seed", "connect"} /\ poll'.config = ConfigOf(connector)
    BY <1>1 DEF StartPoll, NoPoll
  <2>2. Later(poll'.config)
    <3>1. ConfigOf(poll'.config) = ConfigOf(connector)
      BY <2>1 DEF ConfigOf
    <3> QED BY <3>1, <1>s, SafeByCursors DEF Later
  <2>3. connector'.validity = poll'.config.validity
    BY <2>1 DEF ConfigOf
  <2> QED BY <2>1, <2>2, <2>3, <1>k, <1>s
        DEF Session, Uncounted, Condemned, Unreported, Written, WriteAfter
<1>2. CASE ReadConnector
  <2>1. /\ connector' = connector /\ poll.point \in DOMAIN WriteAfter
        /\ poll'.point = WriteAfter[poll.point] /\ poll'.read = connector
        /\ poll'.config = poll.config
    BY <1>2, PollMoves DEF ReadConnector
  <2>2. /\ poll'.point \in Session => poll.point \in Session
        /\ poll'.point \in Unreported \cup Written => poll.point \in Unreported
    BY <2>1, <1>t DEF WriteAfter, Session, Uncounted, Condemned, Unreported, Written
  <2> QED BY <2>1, <2>2, <1>k, <1>s, <1>c DEF CursorInv
<1>3. CASE SeedProgress
  <2>1. PICK newest \in {inbound[m].received : m \in Messages} :
           /\ connector' = Progressed(poll.read, 0, newest)
           /\ poll' = [After("connect") EXCEPT !.config.lastReceived = newest]
    BY <1>3, Zenon DEF SeedProgress
  <2>2. newest \in Nat /\ newest <= today /\ DoneBefore(newest, mailbox, SettledMail')
    <3>1. PICK m \in Messages : newest = inbound[m].received
      BY <2>1
    <3>2. newest <= today /\ DoneBefore(newest, mailbox, SettledMail)
      BY <3>1 DEF SkipInv, DatesInv
    <3>3. inbound[m] \in InboundRow
      BY DEF MailInv, TypeOK, InboundTypeOK
    <3> QED BY <3>1, <3>2, <3>3 DEF DoneBefore, InboundRow
  <2>3. /\ poll'.read = NewConnector /\ poll'.point = "connect"
        /\ poll'.config = [poll.config EXCEPT !.lastReceived = newest]
    <3>1. "connect" \in PollPoints
      BY DEF PollPoints
    <3>2. After("connect") \in PollType /\ After("connect").point = "connect"
          /\ After("connect").read = NewConnector /\ After("connect").config = poll.config
      BY <3>1, PollTypes, AfterKeeps
    <3> QED BY <2>1, <3>2 DEF PollType
  <2>4. /\ poll'.config.lastUid = poll.config.lastUid /\ poll'.config.lastReceived = newest
        /\ poll'.config.validity = poll.config.validity
    BY <2>3, <1>t DEF Config
  <2>5. Later(poll'.config)
    BY <2>2, <2>4, <1>s, <1>u DEF Later, SafeCursors
  <2>6. Later(connector')
    BY <2>1, <2>2, <1>s, <1>u, <1>t, ProgressIsSafe DEF Later
  <2>7. MaxRecreations > 0 => connector'.validity = poll'.config.validity
    <3>1. poll.point = "seed_write"
      BY <1>3 DEF SeedProgress, PollAt
    <3>2. connector'.validity = poll.read.validity
      BY <2>1, <1>t, ProgressCursors
    <3> QED BY <3>1, <3>2, <2>4, <1>v
  <2> QED BY <2>3, <2>5, <2>6, <2>7, <1>k, <1>s
        DEF Session, Uncounted, Condemned, Written, WriteAfter
<1>4. CASE Connect
  <2>1. /\ connector' = connector /\ poll.point = "connect"
        /\ poll'.point \in {"search", "sync"} /\ poll'.read = poll.read
        /\ poll'.config = poll.config
        /\ poll'.point = "search" => poll.config.validity = uidValidity
    BY <1>4, PollMoves DEF Connect, PollAt
  <2>2. poll.point \in Unreported
    BY <2>1, <1>t DEF Unreported
  <2> QED BY <2>1, <2>2, <1>k, <1>s, <1>c
        DEF CursorInv, Session, Uncounted, Condemned, Written, WriteAfter
<1>5. CASE SynchronizeUidValidity
  <2>1. /\ connector' = Synchronized(poll.read, poll.config) /\ poll.point = "sync_write"
        /\ poll'.point = "search" /\ poll'.read = NewConnector
        /\ poll'.config = SynchronizedConfig
    BY <1>5, PollMoves DEF SynchronizeUidValidity, PollAt
  <2> DEFINE zero == [lastUid |-> 0, lastReceived |-> 0, validity |-> uidValidity]
  <2>2. /\ ConfigOf(connector') = IF ResetNeeded(poll.config.validity) THEN zero
                                  ELSE [ConfigOf(poll.read) EXCEPT !.validity = uidValidity]
        /\ poll'.config = IF ResetNeeded(poll.config.validity) THEN zero
                          ELSE [poll.config EXCEPT !.validity = uidValidity]
    <3>1. TRUE \in BOOLEAN
      OBVIOUS
    <3> QED BY <2>1, <3>1, <1>t, OperationCursors DEF SynchronizedConfig
  <2>3. Later(connector') /\ Later(poll'.config) /\ connector'.validity = uidValidity
        /\ poll'.config.validity = uidValidity
    <3>1. CASE ResetNeeded(poll.config.validity)
      <4>1. /\ connector'.lastUid = 0 /\ connector'.lastReceived = 0
            /\ connector'.validity = uidValidity
        BY <2>2, <3>1 DEF ConfigOf
      <4>2. /\ poll'.config.lastUid = 0 /\ poll'.config.lastReceived = 0
            /\ poll'.config.validity = uidValidity
        BY <2>2, <3>1
      <4> QED BY <4>1, <4>2, <1>t, <1>u, NoCursorIsSafe DEF Later
    <3>2. CASE ~ResetNeeded(poll.config.validity)
      <4>1. /\ connector'.lastUid = poll.read.lastUid
            /\ connector'.lastReceived = poll.read.lastReceived
            /\ connector'.validity = uidValidity
        BY <2>2, <3>2 DEF ConfigOf
      <4>2. /\ poll'.config.lastUid = poll.config.lastUid
            /\ poll'.config.lastReceived = poll.config.lastReceived
            /\ poll'.config.validity = uidValidity
        BY <2>2, <3>2, <1>t DEF Config
      <4>3. poll.config.validity \in {0, uidValidity}
        BY <3>2 DEF ResetNeeded
      <4>4. poll.read.validity \in {0, uidValidity}
        <5>1. CASE MaxRecreations > 0
          BY <5>1, <4>3, <2>1, <1>v
        <5>2. CASE ~(MaxRecreations > 0)
          <6>1. uidValidity = 1
            BY <5>2, <1>c DEF CursorInv
          <6>2. poll.read.validity <= uidValidity /\ poll.read.validity \in Nat
            BY <1>c, <1>t DEF CursorInv, Safe, SafeCursors, Connector
          <6> QED BY <6>1, <6>2
        <5> QED BY <5>1, <5>2
      <4> QED BY <4>1, <4>2, <4>3, <4>4, <1>t, <1>s, <1>u, TakenOverIsSafe DEF Later
    <3> QED BY <3>1, <3>2
  <2> QED BY <2>1, <2>3, <1>k, <1>s DEF Written, WriteAfter
<1>6. CASE Search
  <2>1. /\ connector' = connector /\ poll.point = "search" /\ poll'.point = "fetch"
        /\ poll'.config = poll.config /\ poll'.read = NewConnector
    BY <1>6, PollMoves DEF Search, PollAt
  <2> QED BY <2>1, <1>a, <1>s, <1>c, <1>t DEF CursorInv, Session, Unreported
<1>7. CASE Fetch
  <2>1. PICK u \in poll.todo, point \in {"handle", "count"} :
          poll' = [poll EXCEPT !.point = point, !.uid = u, !.todo = @ \ {u}]
    <3>1. PICK u \in poll.todo :
            \/ poll' = [poll EXCEPT !.point = "handle", !.uid = u, !.todo = @ \ {u}]
            \/ poll' = [poll EXCEPT !.point = "count", !.uid = u, !.todo = @ \ {u}]
      BY <1>7, Zenon DEF Fetch
    <3> QED BY <3>1
  <2>2. /\ connector' = connector /\ poll.point = "fetch" /\ poll'.point \in {"handle", "count"}
        /\ poll'.config = poll.config /\ poll'.read = poll.read
    BY <2>1, <1>7, <1>t DEF Fetch, PollAt, PollType
  <2>3. poll.point \in Session /\ poll.point \in Unreported
    BY <2>2, <1>t DEF Session, Unreported
  <2> QED BY <2>2, <2>3, <1>k, <1>s, <1>c DEF CursorInv, Written, WriteAfter
<1>8. CASE Handle
  <2>1. connector' = connector /\ poll' = poll
    BY <1>8 DEF Handle, pollerVars
  <2> QED BY <2>1, <1>k, <1>s, <1>c DEF CursorInv
<1>9. CASE Handled
  <2>1. /\ connector' = connector /\ poll.point = "handle" /\ poll'.point = "commit"
        /\ poll'.config = poll.config /\ poll'.read = NewConnector
    BY <1>9, <1>p, PollMoves DEF Handled, PollAt
  <2> QED BY <2>1, <1>a, <1>s, <1>c, <1>t DEF CursorInv, Session, Unreported
<1>10. CASE CommitMessage
  <2>1. /\ connector' = Progressed(poll.read, poll.uid, Fetched.dated)
        /\ poll.point = "commit_write" /\ poll'.point = "fetch"
        /\ poll'.config = poll.config /\ poll'.read = NewConnector
    BY <1>10, PollMoves DEF CommitMessage, Advance, PollAt
  <2>2. Fetched.message \in SettledMail'
    BY <2>1 DEF SkipInv, OrderInv
  <2>3. Later(connector')
    BY <2>1, <2>2, <1>s, <1>u, AdvanceIsSafe
  <2>4. connector'.validity = poll.read.validity
    BY <2>1, <1>t, ProgressCursors
  <2> QED BY <2>1, <2>3, <2>4, <1>a, <1>v DEF Session
<1>11. CASE CountFailure
  <2>1. /\ connector' = Counted(poll.read) /\ poll.point = "count_write"
        /\ poll'.point \in {"report", "quarantine"}
        /\ poll'.config = poll.config /\ poll'.read = NewConnector
    <3> DEFINE point == IF Counted(poll.read).failedAttempts < QuarantineAttempts
                        THEN "report" ELSE "quarantine"
    <3>1. /\ poll' = After(point) /\ point \in {"report", "quarantine"}
          /\ connector' = Counted(poll.read) /\ poll.point = "count_write"
      BY <1>11 DEF CountFailure, PollAt
    <3> HIDE DEF point
    <3> QED BY <3>1, <1>p, PollMoves
  <2>2. ConfigOf(connector') = ConfigOf(poll.read)
    <3>1. TRUE \in BOOLEAN
      OBVIOUS
    <3> QED BY <2>1, <3>1, <1>t, OperationCursors
  <2>3. Later(connector')
    BY <2>2, <1>s, SafeByCursors DEF Later
  <2>4. connector'.validity = poll.read.validity
    BY <2>2 DEF ConfigOf
  <2> QED BY <2>1, <2>3, <2>4, <1>a, <1>v DEF Session, Uncounted
<1>12. CASE Quarantine
  <2>1. /\ connector' = Progressed(poll.read, poll.uid, 0)
        /\ poll.point = "quarantine_write" /\ poll'.point = "clear"
        /\ poll'.config = poll.config /\ poll'.read = NewConnector
        /\ Fetched.message \in quarantined'
    BY <1>12, <1>p, PollMoves DEF Quarantine, Advance, PollAt
  <2>2. Fetched.message \in SettledMail'
    <3>1. quarantined' \subseteq Messages
      BY DEF MailInv, TypeOK, PollerTypeOK
    <3> QED BY <2>1, <3>1 DEF SettledMail, Settled
  <2>3. Later(connector')
    BY <2>1, <2>2, <1>s, <1>u, AdvanceIsSafe
  <2>4. connector'.validity = poll.read.validity
    BY <2>1, <1>t, ProgressCursors
  <2> QED BY <2>1, <2>3, <2>4, <1>a, <1>v DEF Session, Condemned
<1>13. CASE ClearFailure
  <2>1. /\ connector' \in {ForgetFailure(poll.read), connector}
        /\ poll.point = "clear_write" /\ poll'.point = "fetch"
        /\ poll'.config = poll.config /\ poll'.read = NewConnector
    BY <1>13, PollMoves DEF ClearFailure, PollAt
  <2>2. ConfigOf(connector') \in {ConfigOf(poll.read), ConfigOf(connector)}
    <3>1. TRUE \in BOOLEAN
      OBVIOUS
    <3> QED BY <2>1, <3>1, <1>t, OperationCursors
  <2>3. Later(connector')
    BY <2>2, <1>s, SafeByCursors DEF Later
  <2>4. connector'.validity \in {poll.read.validity, connector.validity}
    BY <2>2 DEF ConfigOf
  <2> QED BY <2>1, <2>3, <2>4, <1>a, <1>v DEF Session
<1>14. CASE StopAtTransient \/ EndBatch
  <2>1. /\ connector' = connector /\ poll'.point = "report"
        /\ poll'.config = poll.config /\ poll'.read = NewConnector
    BY <1>14, <1>p, PollMoves DEF StopAtTransient, EndBatch
  <2> QED BY <2>1, <1>a, <1>s
<1>15. CASE ReportPoll
  <2>1. connector' = [poll.read EXCEPT !.due = FALSE] /\ poll' = NoPoll
    BY <1>15 DEF ReportPoll
  <2>2. ConfigOf(connector') = ConfigOf(poll.read)
    <3>1. FALSE \in BOOLEAN
      OBVIOUS
    <3> QED BY <2>1, <3>1, <1>t, OperationCursors
  <2>3. Later(connector')
    BY <2>2, <1>s, SafeByCursors DEF Later
  <2>4. poll'.point = "rest" /\ poll'.read = NewConnector
    BY <2>1 DEF NoPoll
  <2> QED BY <2>1, <2>3, <2>4, <1>k, <1>s
        DEF Session, Uncounted, Condemned, Unreported, Written, WriteAfter
<1> QED BY <1>1, <1>2, <1>3, <1>4, <1>5, <1>6, <1>7, <1>8, <1>9, <1>10, <1>11, <1>12, <1>13,
          <1>14, <1>15 DEF PollStep

\* The owner, the provider, the clock and failures do too: a page that saves
\* over the generation does so only in a mailbox that has one.
LEMMA EnvironmentCursors ==
  ASSUME MailInv, MailInv', SkipInv, SteadyMail, [Next]_vars, ~PollStep, ~Recreate,
         SettledMail \subseteq SettledMail'
  PROVE  CursorInv'
<1>t. /\ connector \in Connector /\ edit.read \in Connector /\ uidValidity \in Nat \ {0}
      /\ uidValidity' = uidValidity /\ budget.edits \in Nat /\ MaxEdits \in Nat
      /\ MaxRecreations \in Nat /\ edit \in [point : {"rest", "save"}, read : Connector]
  BY MailGrows DEF MailInv, TypeOK, PollerTypeOK
<1>s. /\ Later(connector) /\ Later(poll.read) /\ Later(poll.config) /\ Later(edit.read)
      /\ Later(NewConnector) /\ Later(NoPoll.config)
  BY CopiesStaySafe
<1>c. CursorInv
  BY DEF SkipInv
<1>k. ASSUME Later(connector'), Later(poll'.read), Later(poll'.config), Later(edit'.read),
             MaxEdits = 0 => edit'.point = "rest",
             poll'.point \in Session => poll'.config.validity = uidValidity,
             MaxRecreations > 0 /\ poll'.point \in Unreported =>
               connector'.validity = poll'.config.validity,
             MaxRecreations > 0 /\ poll'.point \in Written =>
               poll'.read.validity = poll'.config.validity
      PROVE  CursorInv'
  <2>1. Safe(connector)' /\ Safe(poll.read)' /\ Safe(poll.config)' /\ Safe(edit.read)'
    BY <1>k DEF Safe, Later
  <2>2. MaxRecreations = 0 => uidValidity' = 1
    BY <1>t, <1>c DEF CursorInv
  <2> QED BY <1>k, <1>t, <2>1, <2>2 DEF CursorInv
\* The poll is left alone, and the connector's generation.
<1>l. ASSUME poll' = poll, connector'.validity = connector.validity, Later(connector'),
             Later(edit'.read), MaxEdits = 0 => edit'.point = "rest"
      PROVE  CursorInv'
  BY <1>l, <1>k, <1>s, <1>c DEF CursorInv
<1>e. MaxEdits = 0 => edit.point = "rest"
  BY <1>c DEF CursorInv
<1>1. CASE Fail
  <2>1. connector' = connector /\ edit' = edit
    BY <1>1 DEF Fail
  <2>2. CASE poll' = NoPoll
    <3>1. poll'.point = "rest" /\ poll'.read = NewConnector
      BY <2>2 DEF NoPoll
    <3> QED BY <3>1, <2>1, <2>2, <1>k, <1>s, <1>e
          DEF Session, Uncounted, Condemned, Unreported, Written, WriteAfter
  <2>3. CASE poll' # NoPoll
    <3>1. /\ poll'.point \in {"report", "transient"} /\ poll'.config = poll.config
          /\ poll'.read = NewConnector
          /\ poll'.point = "transient" => poll.point \in Session
      BY <1>1, <2>3, PollMoves
    <3>2. /\ poll'.point \notin Session /\ poll'.point \notin Written
          /\ poll'.point \in Unreported => poll'.point = "transient"
      BY <3>1 DEF Session, Uncounted, Condemned, Unreported, Written, WriteAfter
    <3>3. poll.point \in Session => poll.point \in Unreported
      BY DEF MailInv, TypeOK, PollerTypeOK, Session, Uncounted, Condemned, Unreported
    <3> QED BY <3>1, <3>2, <3>3, <2>1, <1>k, <1>s, <1>c, <1>e DEF CursorInv
  <2> QED BY <2>2, <2>3
<1>2. CASE OpenSettings
  <2>1. /\ poll' = poll /\ connector' = connector /\ edit'.read = connector
        /\ budget.edits < MaxEdits
    BY <1>2 DEF OpenSettings
  <2>2. MaxEdits # 0
    BY <2>1, <1>t
  <2> QED BY <2>1, <2>2, <1>l, <1>s
<1>3. CASE SaveSettings
  <2>1. PICK enabled \in BOOLEAN : connector' = Saved(edit.read, enabled)
    BY <1>3, Zenon DEF SaveSettings
  <2>2. poll' = poll /\ edit' = NoEdit /\ edit.point = "save"
    BY <1>3 DEF SaveSettings
  <2>3. MaxRecreations = 0 /\ uidValidity = 1
    BY <2>2, <1>c DEF CursorInv, SteadyMail
  <2>4. ConfigOf(connector') = [ConfigOf(edit.read) EXCEPT !.validity = 0]
    <3>1. poll.config \in Config
      BY DEF MailInv, TypeOK, PollerTypeOK
    <3> QED BY <2>1, <3>1, <1>t, OperationCursors
  <2>5. /\ connector'.lastUid = edit.read.lastUid /\ connector'.validity = 0
        /\ connector'.lastReceived = edit.read.lastReceived
    BY <2>4 DEF ConfigOf
  <2>6. Later(connector')
    <3>1. edit.read.validity \in {0, uidValidity}
      <4>1. edit.read.validity <= uidValidity /\ edit.read.validity \in Nat
        BY <1>c, <1>t DEF CursorInv, Safe, SafeCursors, Connector
      <4> QED BY <4>1, <2>3
    <3> QED BY <3>1, <2>3, <2>5, <1>s, <1>t DEF Later, SafeCursors
  <2>7. edit'.read = NewConnector /\ edit'.point = "rest"
    BY <2>2 DEF NoEdit
  <2>8. ~(MaxRecreations > 0)
    BY <2>3
  <2> QED BY <2>2, <2>6, <2>7, <2>8, <1>k, <1>s, <1>c DEF CursorInv
<1>4. CASE PollComesDue
  <2>1. connector' = [connector EXCEPT !.due = TRUE] /\ poll' = poll /\ edit' = edit
    BY <1>4 DEF PollComesDue
  <2>2. ConfigOf(connector') = ConfigOf(connector)
    BY <2>1, <1>t DEF ConfigOf, Connector
  <2>3. Later(connector') /\ connector'.validity = connector.validity
    BY <2>2, <1>s, SafeByCursors DEF Later, ConfigOf
  <2> QED BY <2>1, <2>3, <1>l, <1>s, <1>e
<1>5. CASE Deliver \/ NextDay \/ UNCHANGED vars
  <2>1. UNCHANGED <<poll, connector, edit>>
    BY <1>5 DEF Deliver, NextDay, vars, pollerVars
  <2> QED BY <2>1, <1>l, <1>s, <1>e
<1> QED BY <1>1, <1>2, <1>3, <1>4, <1>5 DEF Next

\* A recreated mailbox holds older mail under new UIDs: dates still bound what
\* is settled, and no cursor is of its generation.
LEMMA RecreateSkips ==
  ASSUME MailInv, MailInv', SkipInv, SteadyMail, Recreate, SettledMail \subseteq SettledMail'
  PROVE  DatesInv' /\ CursorInv'
<1>t. /\ mailbox \in Seq(Mail) /\ mailbox' \in Seq(Mail) /\ today \in Nat
      /\ uidValidity \in Nat \ {0} /\ MaxRecreations \in Nat
      /\ connector \in Connector /\ poll.read \in Connector /\ poll.config \in Config
      /\ edit.read \in Connector
  BY DEF MailInv, TypeOK, PollerTypeOK, Mail
<1>l. /\ DOMAIN mailbox = 1 .. Len(mailbox) /\ DOMAIN mailbox' = 1 .. Len(mailbox')
      /\ Len(mailbox) \in Nat /\ Len(mailbox') \in Nat
  BY <1>t, LenProperties
<1>1. PICK first \in 1 .. Len(mailbox) + 1 : mailbox' = SubSeq(mailbox, first, Len(mailbox))
  BY DEF Recreate
<1>2. \A u \in DOMAIN mailbox' :
        u + first - 1 \in DOMAIN mailbox /\ mailbox'[u] = mailbox[u + first - 1]
  <2>1. /\ Len(mailbox') = IF first <= Len(mailbox) THEN Len(mailbox) - first + 1 ELSE 0
        /\ \A u \in 1 .. Len(mailbox) - first + 1 : mailbox'[u] = mailbox[first + u - 1]
    BY <1>1, <1>t, <1>l, SubSeqProperties
  <2> SUFFICES ASSUME NEW u \in DOMAIN mailbox'
               PROVE  u + first - 1 \in DOMAIN mailbox /\ mailbox'[u] = mailbox[u + first - 1]
    OBVIOUS
  <2>2. first \in Nat /\ u \in Nat /\ 1 <= u /\ u <= Len(mailbox) - first + 1 /\ 1 <= first
    BY <2>1, <1>1, <1>l
  <2>3. u + first - 1 = first + u - 1 /\ u + first - 1 \in 1 .. Len(mailbox)
    BY <2>2, <1>l
  <2>4. mailbox'[u] = mailbox[first + u - 1]
    <3>1. u \in 1 .. Len(mailbox) - first + 1
      BY <2>2, <1>l
    <3> QED BY <2>1, <3>1
  <2>5. mailbox'[u] = mailbox[u + first - 1]
    BY <2>3, <2>4
  <2> QED BY <2>3, <2>5, <1>l
<1>3. /\ UNCHANGED <<poll, connector, edit, today, inbound>> /\ seen' = {}
      /\ uidValidity' = uidValidity + 1 /\ uidValidity <= MaxRecreations /\ poll.point \in Closed
  BY DEF Recreate, pollerVars, inboundVars, Closed
<1>4. ASSUME NEW day, DoneBefore(day, mailbox, SettledMail)
      PROVE  DoneBefore(day, mailbox', SettledMail')
  BY <1>2, <1>4 DEF DoneBefore
<1>5. DatesInv'
  <2>1. \A u \in DOMAIN mailbox' : /\ mailbox'[u].dated = mailbox'[u].arrived
                                   /\ mailbox'[u].arrived <= today
    BY <1>2 DEF SkipInv, DatesInv
  <2>2. \A u, v \in DOMAIN mailbox' : u < v => mailbox'[u].arrived <= mailbox'[v].arrived
    <3> SUFFICES ASSUME NEW u \in DOMAIN mailbox', NEW v \in DOMAIN mailbox', u < v
                 PROVE  mailbox'[u].arrived <= mailbox'[v].arrived
      OBVIOUS
    <3>1. u + first - 1 < v + first - 1
      BY <1>l, <1>1
    <3> QED BY <3>1, <1>2 DEF SkipInv, DatesInv
  <2>3. \A m \in Messages : /\ inbound'[m].received <= today
                            /\ DoneBefore(inbound'[m].received, mailbox', SettledMail')
    BY <1>3, <1>4 DEF SkipInv, DatesInv
  <2> QED BY <2>1, <2>2, <2>3, <1>3 DEF DatesInv
<1>6. MaxRecreations > 0
  BY <1>3, <1>t
<1>7. ASSUME NEW c, c.validity \in Nat, c.lastUid \in Nat, Safe(c)
      PROVE  SafeCursors(c, mailbox', SettledMail', today, uidValidity')
  <2>1. /\ c.lastReceived <= today /\ DoneBefore(c.lastReceived, mailbox, SettledMail)
        /\ c.validity <= uidValidity /\ (c.validity = 0 => c.lastUid = 0)
    BY <1>7, <1>6 DEF Safe, SafeCursors
  <2>2. c.validity # uidValidity' /\ c.validity <= uidValidity'
    BY <2>1, <1>3, <1>t, <1>7
  <2>3. DoneTo(0, mailbox', SettledMail')
    BY <1>l DEF DoneTo
  <2> QED BY <2>1, <2>2, <2>3, <1>4 DEF SafeCursors
<1>8. CursorInv'
  <2>1. Safe(connector)' /\ Safe(poll.read)' /\ Safe(poll.config)' /\ Safe(edit.read)'
    BY <1>7, <1>3, <1>t DEF SkipInv, CursorInv, Safe, Connector, Config
  <2>2. poll'.point \notin Session
    BY <1>3 DEF Closed, Session, Uncounted, Condemned
  <2> QED BY <2>1, <2>2, <1>3, <1>6 DEF SkipInv, CursorInv
<1> QED BY <1>5, <1>8

LEMMA SkipStep ==
  ASSUME MailInv, MailInv', SkipInv, SteadyMail, [Next]_vars
  PROVE  SkipInv'
<1>1. HandledInv' /\ SettledMail \subseteq SettledMail'
  BY HandledStep DEF SkipInv
<1>2. OrderInv'
  BY <1>1, OrderStep
<1>3. DatesInv' /\ CursorInv'
  <2>1. CASE Recreate
    BY <2>1, <1>1, RecreateSkips
  <2>2. CASE ~Recreate
    BY <2>2, <1>1, DatesStep, PollCursors, EnvironmentCursors
  <2> QED BY <2>1, <2>2
<1> QED BY <1>1, <1>2, <1>3 DEF SkipInv

LEMMA InitSkip == Init => SkipInv
<1> SUFFICES ASSUME Init PROVE SkipInv
  OBVIOUS
<1>1. /\ connector = NewConnector /\ poll = NoPoll /\ edit = NoEdit /\ uidValidity = 1
      /\ mailbox = <<>> /\ seen = {} /\ today = 1 /\ handling = NotHandling
      /\ inbound = [m \in Messages |-> NoInboundRow]
  BY DEF Init, InboundInit
<1>2. HandledInv
  BY <1>1 DEF HandledInv, NotHandling, Now, NoInboundRow
<1>3. DatesInv
  BY <1>1 DEF DatesInv, NoInboundRow, DoneBefore
<1>4. OrderInv
  BY <1>1 DEF OrderInv, NoPoll, AtHand, Uncounted, Condemned
<1>5. ASSUME NEW c, c.lastUid = 0, c.lastReceived = 0, c.validity = 0 PROVE Safe(c)
  <2>1. /\ today \in Nat /\ uidValidity \in Nat /\ c.validity \in {0, uidValidity}
    BY <1>1, <1>5
  <2>2. mailbox \in Seq(Mail)
    BY <1>1, EmptySeq
  <2> QED BY <2>1, <2>2, <1>5, NoCursorIsSafe DEF Safe
<1>6. CursorInv
  <2>1. Safe(connector) /\ Safe(poll.read) /\ Safe(poll.config) /\ Safe(edit.read)
    BY <1>1, <1>5 DEF NoPoll, NoEdit, NewConnector, ConfigOf
  <2>2. poll.point = "rest" /\ edit.point = "rest"
    BY <1>1 DEF NoPoll, NoEdit
  <2> QED BY <1>1, <2>1, <2>2
        DEF CursorInv, Session, Uncounted, Condemned, Unreported, Written, WriteAfter
<1> QED BY <1>2, <1>3, <1>4, <1>6 DEF SkipInv

\* NoMailSkipped: processImapInbox's cursors, which live in a row that every
\* operation and the settings page rewrite from an earlier read, never pass a
\* message that is not settled, whatever fails, is retried or delivered twice;
\* in steady mail, for without it the code does skip (a date from ahead, or a
\* page saved over the generation of a mailbox recreated since).
THEOREM NoneSkipped == SteadyMail => (Spec => []NoMailSkipped)
<1> SUFFICES ASSUME SteadyMail PROVE Spec => []NoMailSkipped
  OBVIOUS
<1>1. Init => MailInv /\ SkipInv
  BY InitMailInv, InitSkip
<1>2. MailInv /\ SkipInv /\ [Next]_vars => MailInv' /\ SkipInv'
  BY StepTypes, SkipStep
<1>3. SkipInv => NoMailSkipped
  <2> SUFFICES ASSUME SkipInv, connector.validity = uidValidity, NEW u \in DOMAIN mailbox,
                      u <= connector.lastUid
               PROVE  Settled(mailbox[u].message)
    BY DEF NoMailSkipped
  <2>1. mailbox[u].message \in SettledMail
    BY DEF SkipInv, CursorInv, Safe, SafeCursors, DoneTo
  <2> QED BY <2>1 DEF SettledMail
<1> QED BY <1>1, <1>2, <1>3, PTL DEF Spec
=============================================================================
