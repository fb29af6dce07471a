-------------------------- MODULE InboundHandling --------------------------
(***************************************************************************)
(* What happens to one fetched message: handleInboundMessage and the       *)
(* handlers it calls, await by await.  The poller handles one message at a *)
(* time; an interrupted handling leaves its row, and a later poll finds it *)
(* again as a duplicate.  A sender writes one message, so that a sender    *)
(* and the classification of its message are one thing.                    *)
(***************************************************************************)
EXTENDS Integers, FiniteSets

CONSTANTS
  Messages,    \* messages as their provider ids name them
  Nobody,      \* no message
  Kind,        \* what a message is, and how its sender is classified
  WaitingApprovals   \* approvals pending at the start

\* An owner's message is a command ("owner") or a bare YES ("reply").
Kinds == {"owner", "reply", "trusted", "newsletter", "untrusted", "blocked", "malformed"}

Actions ==
  {"none", "blocked", "sender_reviewed", "approval_decided", "routed_to_agent",
   "accepted_trusted", "accepted_newsletter", "rate_limited", "queued_owner_review"}

ASSUME InboundAssumption ==
  /\ Nobody \notin Messages
  /\ Kind \in [Messages -> Kinds]
  /\ WaitingApprovals \in Nat

VARIABLES
  inbound,     \* the messages table
  handling,    \* the handling in progress: point, message, action to record
  approvable,  \* approvals still pending
  remembered,  \* messages whose content reached memory or the knowledge files
  agentRuns,   \* per message: runs of the owner agent
  notices      \* per message: review notices queued for the owner

inboundVars == <<inbound, handling, approvable, remembered, agentRuns, notices>>

InboundRow == [recorded : BOOLEAN, received : Nat, linked : BOOLEAN, action : Actions]
NoInboundRow == [recorded |-> FALSE, received |-> 0, linked |-> FALSE, action |-> "none"]

HandlingPoints ==
  {"idle", "record", "remember", "notify", "reply", "review", "link", "agent", "mark", "handled"}
NotHandling == [point |-> "idle", message |-> Nobody, received |-> 0, action |-> "none"]

InboundTypeOK ==
  /\ inbound \in [Messages -> InboundRow]
  /\ handling \in [point : HandlingPoints, message : Messages \cup {Nobody},
                   received : Nat, action : Actions]
  /\ approvable \in Nat
  /\ remembered \subseteq Messages
  /\ agentRuns \in [Messages -> Nat]
  /\ notices \in [Messages -> Nat]

InboundInit ==
  /\ inbound = [m \in Messages |-> NoInboundRow]
  /\ handling = NotHandling
  /\ approvable = WaitingApprovals
  /\ remembered = {}
  /\ agentRuns = [m \in Messages |-> 0]
  /\ notices = [m \in Messages |-> 0]

Classification(m) == IF Kind[m] = "reply" THEN "owner" ELSE Kind[m]
Now(point) == handling.point = point
GoTo(point) == handling' = [handling EXCEPT !.point = point]
Mark(action) == handling' = [handling EXCEPT !.point = "mark", !.action = action]

BeginHandling(m, received) ==
  handling' = [point |-> "record", message |-> m, received |-> received, action |-> "none"]

\* Where a message goes once its row exists.
FirstPoint(m) ==
  CASE Kind[m] \in {"trusted", "newsletter"} -> "remember"
    [] Kind[m] = "owner" -> "link"
    [] Kind[m] = "reply" -> "reply"
    [] Kind[m] = "untrusted" -> "notify"
    [] OTHER -> "mark"

\* A row without a handling action is handled again, except an owner's whose
\* run may have started, and senders' for whom nothing was to be resumed.
Resumable_Linked(m) ==   \* Mutant of Resumable: a started run is started again
  inbound[m].action = "none" /\ Classification(m) \in {"owner", "trusted", "newsletter"}
Resumable_Everyone(m) == \* Mutant of Resumable: any unfinished row is resumed
  inbound[m].action = "none" /\ ~inbound[m].linked
Resumable_OwnersOnly(m) == \* Mutant of Resumable: what a sender's message began is not
  Classification(m) = "owner" /\ inbound[m].action = "none" /\ ~inbound[m].linked
Resumable(m) ==
  /\ inbound[m].action = "none"
  /\ Classification(m) \in {"owner", "trusted", "newsletter"}
  /\ ~inbound[m].linked

RecordInbound ==
  /\ Now("record")
  /\ LET m == handling.message
         next == IF ~inbound[m].recorded \/ Resumable(m) THEN FirstPoint(m) ELSE "handled"
     IN /\ handling' = [handling EXCEPT !.point = next,
                                        !.action = IF next = "mark" THEN "blocked" ELSE "none"]
        /\ inbound' = IF inbound[m].recorded THEN inbound
                      ELSE [inbound EXCEPT ![m].recorded = TRUE, ![m].received = handling.received]
  /\ UNCHANGED <<approvable, remembered, agentRuns, notices>>

\* A trusted sender's message goes to memory, a newsletter to the knowledge files.
Remember ==
  /\ Now("remember")
  /\ remembered' = remembered \cup {handling.message}
  /\ Mark(IF Kind[handling.message] = "trusted" THEN "accepted_trusted" ELSE "accepted_newsletter")
  /\ UNCHANGED <<inbound, approvable, agentRuns, notices>>

\* An unknown sender: the owner is asked, unless the sender is over its limit
\* or there is nowhere to send the question.
NotifyOwner ==
  /\ Now("notify")
  /\ \/ /\ notices' = [notices EXCEPT ![handling.message] = @ + 1]
        /\ Mark("queued_owner_review")
     \/ notices' = notices /\ Mark("queued_owner_review")
     \/ notices' = notices /\ Mark("rate_limited")
  /\ UNCHANGED <<inbound, approvable, remembered, agentRuns>>

\* latestPendingSenderReview: by date received, newest first.
LatestReview ==
  {m \in Messages :
     /\ Kind[m] = "untrusted" /\ inbound[m].action = "queued_owner_review"
     /\ \A n \in Messages :
          Kind[n] = "untrusted" /\ inbound[n].action = "queued_owner_review"
            => inbound[n].received <= inbound[m].received}

\* A bare YES: a sender review if one is waiting, else the latest approval,
\* else a message for the agent.
AnswerReview ==
  /\ Now("reply")
  /\ \E m \in LatestReview :
       /\ remembered' = remembered \cup {m}
       /\ inbound' = [inbound EXCEPT ![m].action = "accepted_newsletter"]
  /\ Mark("sender_reviewed")
  /\ UNCHANGED <<approvable, agentRuns, notices>>

AnswerApproval ==
  /\ Now("reply") /\ LatestReview = {} /\ approvable > 0
  /\ approvable' = approvable - 1
  /\ Mark("approval_decided")
  /\ UNCHANGED <<inbound, remembered, agentRuns, notices>>

NothingToAnswer ==
  /\ Now("reply") /\ LatestReview = {} /\ approvable = 0
  /\ GoTo("link")
  /\ UNCHANGED <<inbound, approvable, remembered, agentRuns, notices>>

\* The thread link is written before the agent runs: it is the evidence that
\* a run may have started.
LinkThread ==
  /\ Now("link")
  /\ inbound' = [inbound EXCEPT ![handling.message].linked = TRUE]
  /\ GoTo("agent")
  /\ UNCHANGED <<approvable, remembered, agentRuns, notices>>

RunOwnerAgent_Replied == \* Mutant of RunOwnerAgent: records an action the table does not list
  /\ Now("agent")
  /\ agentRuns' = [agentRuns EXCEPT ![handling.message] = @ + 1]
  /\ Mark("replied")
  /\ UNCHANGED <<inbound, approvable, remembered, notices>>
RunOwnerAgent ==
  /\ Now("agent")
  /\ agentRuns' = [agentRuns EXCEPT ![handling.message] = @ + 1]
  /\ Mark("routed_to_agent")
  /\ UNCHANGED <<inbound, approvable, remembered, notices>>

RecordHandling ==
  /\ Now("mark")
  /\ inbound' = [inbound EXCEPT ![handling.message].action = handling.action]
  /\ GoTo("handled")
  /\ UNCHANGED <<approvable, remembered, agentRuns, notices>>

HandlingStep ==
  \/ RecordInbound \/ Remember \/ NotifyOwner
  \/ AnswerReview \/ AnswerApproval \/ NothingToAnswer
  \/ LinkThread \/ RunOwnerAgent \/ RecordHandling

\* An await that throws, or the end of the process: the rows stay as they are.
AbandonHandling ==
  /\ handling' = NotHandling
  /\ UNCHANGED <<inbound, approvable, remembered, agentRuns, notices>>
=============================================================================
