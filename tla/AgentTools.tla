----------------------------- MODULE AgentTools -----------------------------
(***************************************************************************)
(* What the host does when an agent run calls a tool: executeToolCall,     *)
(* reached through an MCP session of the run.  The execution belongs to    *)
(* the process, not to the run: a run that gives up waiting leaves it      *)
(* going.  One step per await that others may come between.                *)
(***************************************************************************)
EXTENDS ToolRegistry, Integers, FiniteSets

CONSTANTS
  Turns,        \* requests: an owner's message or prompt, a scheduled task
  Threads,      \* conversation threads
  NoThread,     \* a request that belongs to none
  Researched,   \* threads researched before the behaviour begins
  MaxMessages   \* maxOwnerVisibleOutboundMessagesPerUserPerDay

ASSUME ToolsAssumption ==
  /\ IsFiniteSet(Turns) /\ Turns # {}
  /\ NoThread \notin Threads
  /\ Researched \subseteq Threads \cup {NoThread}
  /\ MaxMessages \in Nat \ {0}

VARIABLES
  tool,        \* per turn: the tool execution in the process
  research,    \* threads with an unexpired web research session
  proactive,   \* proactive messages of the day that tools have queued
  effects      \* what calls have written, here or in another application

toolVars == <<tool, research, proactive, effects>>

RunNames == {"initial", "resumed", "forced"}

\* executed: what the result says.
NoTool ==
  [stage |-> "none", name |-> "none", owner |-> FALSE, thread |-> NoThread, run |-> "initial",
   call |-> 0, executed |-> FALSE]

ToolsInit ==
  /\ tool = [t \in Turns |-> NoTool]
  /\ research = Researched
  /\ proactive = 0
  /\ effects = {}

\* An MCP session is created for the call and names the tools of the run.
OpenSession(tools) == [allowed |-> tools]
ResolvesTo(session, name) == name \in session.allowed

BeginTool(t, name, owner, thread, run, call) ==
  tool' = [tool EXCEPT ![t] = [NoTool EXCEPT !.stage = "called", !.name = name, !.owner = owner,
                                             !.thread = thread, !.run = run, !.call = call]]

Called(t, names) == tool[t].stage = "called" /\ tool[t].name \in names
Stage(t, stage) == tool' = [tool EXCEPT ![t].stage = stage]
Return(t, executed) == tool' = [tool EXCEPT ![t].stage = "done", ![t].executed = executed]
Throw(t) == Stage(t, "failed")
Affect(t, kind) ==
  effects' = effects \cup
    {[turn |-> t, run |-> tool[t].run, call |-> tool[t].call, name |-> tool[t].name,
      owner |-> tool[t].owner, kind |-> kind]}

\* A store that fails, or a check that throws, ends the tool wherever it is.
BreakOff(t) ==
  /\ tool[t].stage \notin {"none", "done", "failed"}
  /\ Throw(t)
  /\ UNCHANGED <<research, proactive, effects>>

-----------------------------------------------------------------------------
\* Calls that change nothing here.
ReadHere(t) ==
  /\ Called(t, ContextTools)
  /\ Return(t, TRUE)
  /\ UNCHANGED <<research, proactive, effects>>

\* callReadIntegration: not configured, refused or timed out is a result too.
ReadThere(t) ==
  /\ Called(t, ReadTools \cap AppTools)
  /\ \E ok \in BOOLEAN : Return(t, ok)
  /\ UNCHANGED <<research, proactive, effects>>

\* Writes of the user's own rows, of several one after the other; or there is
\* no such row.  A question that can wait becomes a task.
WriteHere(t) ==
  /\ Called(t, TaskTools \cup MemoryTools \cup ThreadTools \cup ClarifyTools)
  /\ \/ Affect(t, "local") /\ (Return(t, TRUE) \/ Throw(t))
     \/ effects' = effects /\ Return(t, FALSE)
  /\ UNCHANGED <<research, proactive>>

\* conductWebResearch: not configured, or a session, kept with the thread of the
\* request, else of the session it follows.
SessionThreads(t) ==
  IF tool[t].thread # NoThread THEN {tool[t].thread} ELSE {NoThread} \cup research
Search(t) ==
  /\ Called(t, {"web_research"})
  /\ \/ Return(t, FALSE) /\ UNCHANGED research
     \/ /\ \E thread \in SessionThreads(t) : research' = research \cup {thread}
        /\ Return(t, TRUE)
  /\ UNCHANGED <<proactive, effects>>

\* callIntegrationApi: an answer, or an error or timeout of a call that may have
\* been carried out; or no call at all: no address, no token, a bad parameter.
ReachApp(t) == Affect(t, "remote") /\ \E ok \in BOOLEAN : Return(t, ok)
MissApp(t) == effects' = effects /\ Return(t, FALSE)

\* An owner's request calls the application at once.
CallApp(t) ==
  /\ Called(t, AppTools) /\ tool[t].owner
  /\ \E a \in ActionsOf(tool[t].name) : WriteAction(a)
  /\ ReachApp(t) \/ MissApp(t)
  /\ UNCHANGED <<research, proactive>>

\* integration_action cannot read, and some writes need the owner's own command.
RefuseApp(t) ==
  /\ Called(t, AppTools \ ReadTools)
  /\ \E a \in ActionsOf(tool[t].name) :
       ~WriteAction(a) \/ (DirectOwnerOnly(a) /\ ~tool[t].owner)
  /\ Return(t, FALSE)
  /\ UNCHANGED <<research, proactive, effects>>

\* Any other request queues an approval, and then a message that asks for it.
AskApproval(t) ==
  /\ Called(t, AppTools) /\ ~tool[t].owner
  /\ \E a \in ActionsOf(tool[t].name) : WriteAction(a) /\ ~DirectOwnerOnly(a)
  /\ Affect(t, "approval")
  /\ Stage(t, "asked")
  /\ UNCHANGED <<research, proactive>>

-----------------------------------------------------------------------------
\* assertOwnerVisibleOutboundBudget: counted now, written later.
WithinMessageBudget == proactive < MaxMessages
CountedTo(t, stage) ==
  IF WithinMessageBudget THEN Stage(t, stage) ELSE Throw(t)

\* Nowhere to write to: no sender to answer, no enabled owner contact.
NoDestination(t) ==
  /\ Called(t, MessageTools \cup {"send_runtime_cpu_model"})
  /\ Return(t, FALSE)
  /\ UNCHANGED <<research, proactive, effects>>

\* Messages an owner's request causes are not proactive: no budget, no approval.
AnswerOwner(t) ==
  /\ Called(t, MessageTools \cup {"send_runtime_cpu_model"}) /\ tool[t].owner
  /\ Affect(t, "message")
  /\ Return(t, TRUE)
  /\ UNCHANGED <<research, proactive>>

\* shouldRequireOutboundApproval: by the text of the task the run is for.
CountMessage(t) ==
  /\ Called(t, MessageTools) /\ ~tool[t].owner
  /\ IF tool[t].name = "propose_outbound_message"
     THEN CountedTo(t, "counted") \/ CountedTo(t, "gated")
     ELSE CountedTo(t, "counted")
  /\ UNCHANGED <<research, proactive, effects>>

QueueMessage(t) ==
  /\ tool[t].stage \in {"counted", "noticing"}
  /\ proactive' = proactive + 1
  /\ Affect(t, "message")
  /\ Return(t, TRUE)
  /\ UNCHANGED research

\* createOutboundApproval: the approval and the message it holds back, which
\* counts as well.
GateMessage(t) ==
  /\ tool[t].stage = "gated"
  /\ proactive' = proactive + 1
  /\ Affect(t, "approval")
  /\ Stage(t, "asked")
  /\ UNCHANGED research

\* queueOwnerApprovalNotification: a proactive message, with a budget of its own.
CountNotice(t) ==
  /\ tool[t].stage = "asked"
  /\ \/ CountedTo(t, "noticing")
     \/ Return(t, TRUE)   \* nowhere to write to: not an error
  /\ UNCHANGED <<research, proactive, effects>>

\* A session is listed until its day of expiry.
ResearchExpires(thread) ==
  /\ thread \in research
  /\ research' = research \ {thread}
  /\ UNCHANGED <<tool, proactive, effects>>

ToolStep(t) ==
  \/ BreakOff(t) \/ ReadHere(t) \/ ReadThere(t) \/ WriteHere(t) \/ Search(t)
  \/ CallApp(t) \/ RefuseApp(t) \/ AskApproval(t)
  \/ NoDestination(t) \/ AnswerOwner(t) \/ CountMessage(t)
  \/ QueueMessage(t) \/ GateMessage(t) \/ CountNotice(t)
=============================================================================
