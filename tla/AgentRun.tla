------------------------------ MODULE AgentRun ------------------------------
(***************************************************************************)
(* A request to the agent (a turn) and its runs: runAgentTask, the loop of *)
(* model output, validation, tool call and continuation under a deadline,  *)
(* and the handoff that may repeat an owner's request in a fresh run whose *)
(* prompt holds only what the owner wrote.                                 *)
(***************************************************************************)
EXTENDS AgentTools, Sequences

CONSTANTS
  Sources,       \* per turn: "inbound", "web" or "scheduled"
  Reach,         \* per turn: the tools its model proposes
  MaxRuns,       \* maxAgentRunsPerUserPerBurstWindow
  MaxToolCalls,  \* maxToolCallsPerRun
  MaxRows,       \* bound: per turn, tool calls a run records
  Mixes          \* bound: which turns come together

ASSUME RunAssumption ==
  /\ Sources \in [Turns -> SUBSET {"inbound", "web", "scheduled"}]
  /\ MaxRuns \in Nat \ {0} /\ MaxToolCalls \in Nat
  /\ MaxRows \in [Turns -> Nat]

VARIABLES
  turn,    \* the request and where its host code stands
  run,     \* the rows of its runs, with their tool calls
  earlier  \* runs the burst window held before

vars == <<toolVars, turn, run, earlier>>

\* What the owner's words amount to; a scheduled task has no owner's command.
Commands == {"question", "build", "act", "delegate", "none"}
Authorises(command) == command \in {"act", "delegate"}
StartsAction(command) == command \in {"build", "act", "delegate"}

NoTurn ==
  [at |-> "idle", owner |-> FALSE, command |-> "none", thread |-> NoThread,
   research |-> FALSE, news |-> FALSE, checkin |-> FALSE, run |-> "initial",
   outcome |-> "none", toolStatus |-> "none", refused |-> FALSE]
\* readOnly: the prompt holds evidence and the command authorises nothing.
NoRun == [status |-> "none", readOnly |-> FALSE, calls |-> <<>>]

Init ==
  /\ ToolsInit
  /\ turn = [t \in Turns |-> NoTurn]
  /\ run = [t \in Turns |-> [r \in RunNames |-> NoRun]]
  /\ earlier \in 0..MaxRuns

Current(t) == run[t][turn[t].run]
At(t, place) == turn[t].at = place
Go(t, place) == turn' = [turn EXCEPT ![t].at = place]

-----------------------------------------------------------------------------
\* The prompt of the first run holds web research and newsletters; the
\* trusted prompt of a later one holds neither.
Evidence(t) == turn[t].run = "initial" /\ (turn[t].research \/ turn[t].news)
ExternalContext_NoNews(t) == turn[t].run = "initial" /\ turn[t].research   \* Mutant: newsletters forgotten
ExternalContext(t) == turn[t].run = "initial" /\ (turn[t].research \/ turn[t].news)

Offered(t) ==
  CASE turn[t].run = "forced" -> {"delegate_development_task"}
    [] turn[t].checkin        -> {"web_research", "record_observation"}
    [] OTHER                  -> UNION {Reach[u] : u \in Turns}
AllowedTools(t) ==
  IF ExternalContext(t) /\ ~Authorises(turn[t].command)
  THEN Offered(t) \cap ReadTools ELSE Offered(t)
Proposals(t) ==
  IF turn[t].run = "forced" THEN {"delegate_development_task"} ELSE Reach[t]

MayCome(t) ==
  /\ At(t, "idle")
  /\ \E mix \in Mixes : t \in mix /\ {u \in Turns : ~At(u, "idle")} \subseteq mix
ReceiveInbound(t) ==
  /\ MayCome(t) /\ "inbound" \in Sources[t]
  /\ \E thread \in Threads, command \in Commands \ {"none"}, news \in BOOLEAN :
       turn' = [turn EXCEPT ![t] =
         [NoTurn EXCEPT !.at = "counting", !.owner = TRUE, !.command = command,
                        !.thread = thread, !.research = thread \in research, !.news = news]]
  /\ UNCHANGED <<toolVars, run>>

\* Recent research of any thread, if the prompt seems to refer to it.
ReceiveWeb(t) ==
  /\ MayCome(t) /\ "web" \in Sources[t]
  /\ \E command \in Commands \ {"none"}, hydrate, news \in BOOLEAN :
       turn' = [turn EXCEPT ![t] =
         [NoTurn EXCEPT !.at = "counting", !.owner = TRUE, !.command = command,
                        !.research = hydrate /\ research # {}, !.news = news]]
  /\ UNCHANGED <<toolVars, run>>

ReceiveScheduled(t) ==
  /\ MayCome(t) /\ "scheduled" \in Sources[t]
  /\ \E checkin \in BOOLEAN :
       turn' = [turn EXCEPT ![t] = [NoTurn EXCEPT !.at = "counting", !.checkin = checkin]]
  /\ UNCHANGED <<toolVars, run>>

-----------------------------------------------------------------------------
RunsInWindow ==
  earlier + Cardinality({row \in Turns \X RunNames : run[row[1]][row[2]].status # "none"})

\* The burst guardrail counts the runs of the window; the run is created later.
CountRuns(t) ==
  /\ At(t, "counting")
  /\ IF RunsInWindow < MaxRuns
     THEN Go(t, "creating")
     ELSE turn' = [turn EXCEPT ![t].at = "answered", ![t].outcome = "failed",
                               ![t].toolStatus = "none"]
  /\ UNCHANGED <<toolVars, run>>

CreateRun(t) ==
  /\ At(t, "creating")
  /\ run' = [run EXCEPT ![t][turn[t].run] =
              [status |-> "running", readOnly |-> Evidence(t) /\ ~Authorises(turn[t].command),
               calls |-> <<>>]]
  /\ turn' = [turn EXCEPT ![t].at = "model", ![t].toolStatus = "none"]
  /\ UNCHANGED toolVars

\* Record the call and end the run, or give the result back to the model.  The
\* calls of a run are a sequence of statuses; "searched" is accepted research.
Finish(t, rows, outcome, toolStatus) ==
  /\ run' = [run EXCEPT ![t][turn[t].run].status = outcome,
                        ![t][turn[t].run].calls = @ \o rows]
  /\ turn' = [turn EXCEPT ![t].at = "answered", ![t].outcome = outcome,
                          ![t].toolStatus = toolStatus]
Continue(t, rows, toolStatus) ==
  /\ turn[t].run # "forced"   \* its proposal names no response to continue
  /\ run' = [run EXCEPT ![t][turn[t].run].calls = @ \o rows]
  /\ turn' = [turn EXCEPT ![t].at = "model", ![t].toolStatus = toolStatus]
Accepted(t) == IF tool[t].name = "web_research" THEN <<"searched">> ELSE <<"accepted">>
MayRecord(t) == Len(Current(t).calls) < MaxRows[t]

\* Text: the answer, which may say that the action cannot be done here.
AnswerText(t) ==
  /\ At(t, "model") /\ turn[t].run # "forced"
  /\ \E refused \in BOOLEAN :
       /\ run' = [run EXCEPT ![t][turn[t].run].status = "completed"]
       /\ turn' = [turn EXCEPT ![t].at = "answered", ![t].outcome = "completed",
                               ![t].refused = refused]
  /\ UNCHANGED toolVars

\* Arguments no repair makes valid.
RejectInvalid(t) ==
  /\ At(t, "model") /\ turn[t].run # "forced" /\ MayRecord(t)
  /\ \/ Continue(t, <<"rejected">>, "rejected")
     \/ Finish(t, <<"rejected">>, "failed", "rejected")
  /\ UNCHANGED toolVars

RejectForbidden(t) ==
  /\ At(t, "model") /\ MayRecord(t)
  /\ Proposals(t) \ AllowedTools(t) # {}
  /\ Finish(t, <<"rejected">>, "failed", "rejected")
  /\ UNCHANGED toolVars

\* countToolCallsForRun counts the calls of every status.
OverBudget_Late(t) == Len(Current(t).calls) > MaxToolCalls   \* Mutant: one call too many
OverBudget(t) == Len(Current(t).calls) >= MaxToolCalls
RejectOverBudget(t) ==
  /\ At(t, "model") /\ OverBudget(t) /\ MayRecord(t)
  /\ Proposals(t) \cap AllowedTools(t) # {}
  /\ Finish(t, <<"rejected">>, "failed", "rejected")
  /\ UNCHANGED toolVars

CallTool(t) ==
  /\ At(t, "model") /\ ~OverBudget(t) /\ MayRecord(t)
  /\ \E name \in Proposals(t) \cap AllowedTools(t) :
       /\ ResolvesTo(OpenSession(AllowedTools(t)), name)
       /\ BeginTool(t, name, turn[t].owner, turn[t].thread, turn[t].run, Len(Current(t).calls) + 1)
  /\ Go(t, "tool")
  /\ UNCHANGED <<research, proactive, effects, run>>

\* Web research answers the turn; a write that cannot continue ends it, a read
\* is summed up first.
ToolReturned(t) ==
  /\ At(t, "tool") /\ tool[t].stage = "done"
  /\ LET row == Accepted(t) IN
       \/ tool[t].name # "web_research" /\ Continue(t, row, "accepted")
       \/ Finish(t, row, "completed", "accepted")
  /\ tool' = [tool EXCEPT ![t] = NoTool]
  /\ UNCHANGED <<research, proactive, effects>>

ToolFailed(t) ==
  /\ At(t, "tool") /\ tool[t].stage = "failed"
  /\ LET row == <<"failed">> IN
       Continue(t, row, "rejected") \/ Finish(t, row, "failed", "rejected")
  /\ UNCHANGED toolVars

\* The outer catch: the model client throws, or the result cannot be recorded.
\* Whatever was called, the result says no tool.
RunThrows(t) ==
  /\ At(t, "model") \/ (At(t, "tool") /\ tool[t].stage \in {"done", "failed"})
  /\ Finish(t, <<>>, "failed", "none")
  /\ UNCHANGED toolVars

\* AgentRuntimeDeadline: the host stops waiting; a tool it has started goes on.
Deadline_Model(t) ==   \* Mutant: tools are waited for without end
  /\ At(t, "model")
  /\ Finish(t, <<>>, "failed", "none")
  /\ UNCHANGED toolVars
Deadline(t) ==
  /\ \/ At(t, "model") /\ Finish(t, <<>>, "failed", "none")
     \/ /\ At(t, "model") /\ MayRecord(t)   \* while arguments are repaired
        /\ Finish(t, <<"rejected">>, "failed", "rejected")
     \/ /\ At(t, "tool") /\ tool[t].stage \notin {"done", "failed"}
        /\ Finish(t, <<"failed">>, "failed", "rejected")
  /\ UNCHANGED toolVars

-----------------------------------------------------------------------------
\* trustedContextHandoffTrigger: a completed run of an owner's turn that called
\* no tool, where the owner did start an action and the run refused it or the
\* owner named the development agent.
Untouched_Failed(t) == turn[t].toolStatus = "none"   \* Mutant: the outcome is not looked at
Untouched(t) == turn[t].outcome = "completed" /\ turn[t].toolStatus = "none"
Resumes(t) ==
  /\ turn[t].run = "initial" /\ turn[t].owner /\ Untouched(t)
  /\ StartsAction(turn[t].command)
  /\ turn[t].command = "delegate" \/ turn[t].refused
Forces(t) ==
  turn[t].run = "resumed" /\ Untouched(t) /\ turn[t].command = "delegate"

NextRun(t, name) ==
  turn' = [turn EXCEPT ![t].at = "counting", ![t].run = name, ![t].refused = FALSE]
Resume(t) ==
  /\ At(t, "answered") /\ Resumes(t)
  /\ NextRun(t, "resumed")
  /\ UNCHANGED <<toolVars, run>>
ForceRun(t) ==
  /\ At(t, "answered") /\ Forces(t)
  /\ NextRun(t, "forced")
  /\ UNCHANGED <<toolVars, run>>

\* The reply to an inbound message and the links of its thread follow; the rows
\* of the runs are all that stays.
Conclude(t) ==
  /\ At(t, "answered") /\ ~Resumes(t) /\ ~Forces(t)
  /\ turn' = [turn EXCEPT ![t] = [NoTurn EXCEPT !.at = "done"]]
  /\ UNCHANGED <<toolVars, run>>

\* The loop of runAgentTask once it has a run.
RunStep(t) ==
  \/ AnswerText(t) \/ RejectInvalid(t) \/ RejectForbidden(t) \/ RejectOverBudget(t)
  \/ CallTool(t) \/ ToolReturned(t) \/ ToolFailed(t) \/ RunThrows(t) \/ Deadline(t)
TurnStep(t) ==
  /\ \/ ReceiveInbound(t) \/ ReceiveWeb(t) \/ ReceiveScheduled(t)
     \/ CountRuns(t) \/ CreateRun(t) \/ RunStep(t)
     \/ Resume(t) \/ ForceRun(t) \/ Conclude(t)
  /\ UNCHANGED earlier

Next ==
  \/ \E t \in Turns : TurnStep(t) \/ (ToolStep(t) /\ UNCHANGED <<turn, run, earlier>>)
  \/ \E thread \in Threads \cup {NoThread} :
       ResearchExpires(thread) /\ UNCHANGED <<turn, run, earlier>>

Spec == Init /\ [][Next]_vars

\* A turn's own code goes on and its deadline fires; the model and the tools
\* may stay silent for ever.
HostSteps(t) ==
  CountRuns(t) \/ CreateRun(t) \/ ToolReturned(t) \/ ToolFailed(t)
  \/ Deadline(t) \/ Resume(t) \/ ForceRun(t) \/ Conclude(t)
FairSpec == Spec /\ \A t \in Turns : WF_vars(HostSteps(t) /\ UNCHANGED earlier)

-----------------------------------------------------------------------------
\* Evidence in a run: what its prompt held, and what its own search returned.
Searched(t, r, call) ==
  \E i \in DOMAIN run[t][r].calls : i < call /\ run[t][r].calls[i] = "searched"

\* A page or a newsletter causes no write: in an owner's run whose prompt held
\* such evidence every write is one the owner's own words authorised, after a
\* search nothing more is called, and what no owner asked for leaves for
\* another application only through an approval (runAgentTask,
\* externalResearchPolicy, executeOrQueueWriteIntegration).
EvidenceGivesNoAuthority ==
  \A e \in effects :
    /\ run[e.turn][e.run].readOnly => Access(e.name) = "read"
    /\ ~Searched(e.turn, e.run, e.call)
    /\ e.kind = "remote" => e.owner

Performed(t, r) ==
  Cardinality({i \in DOMAIN run[t][r].calls : run[t][r].calls[i] # "rejected"})

\* The budgets of the burst window and of the day hold up to one more for each other
\* turn, which may have counted at the same time, and that of a run's calls exactly
\* (runAgentTask, assertOwnerVisibleOutboundBudget).
BudgetsHold ==
  LET Others == Cardinality({t \in Turns : ~At(t, "idle")}) - 1 IN
  /\ \A t \in Turns, r \in RunNames : Performed(t, r) <= MaxToolCalls
  /\ Others >= 0 => RunsInWindow <= MaxRuns + Others
  /\ Others >= 0 => proactive <= MaxMessages + Others

\* A request is repeated in a fresh run only if no earlier run of the turn
\* called a tool, even one that failed: nothing the owner asked for is done
\* twice (trustedContextHandoffTrigger, runOwnerTaskWithTrustedContextHandoff).
HandoffIsClean ==
  [][\A t \in Turns : turn'[t].run \notin {"initial", turn[t].run} =>
       /\ tool[t] = NoTool
       /\ \A r \in RunNames : run[t][r].calls = <<>>
       /\ \A e \in effects : e.turn # t]_vars

\* However long the model or a tool takes, the turn ends
\* (AgentRuntimeDeadline, runOwnerTaskWithTrustedContextHandoff).
TurnsSettle ==
  \A t \in Turns : (turn[t].at = "counting") ~> (turn[t].at = "done")
=============================================================================
