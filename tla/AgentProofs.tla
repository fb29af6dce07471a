---------------------------- MODULE AgentProofs ----------------------------
(***************************************************************************)
(* What a run of the agent may not do, for any turns, threads and limits:  *)
(* evidence gives no authority, a request is handed to a fresh run only    *)
(* before anything was done for it, and the budgets of calls, runs and     *)
(* proactive messages hold but for the turns that counted together.        *)
(***************************************************************************)
EXTENDS AgentRun, SequenceTheorems, FiniteSetTheorems, TLAPS

\* Every tool a run may be offered.
Names ==
  {"none", "web_research", "record_observation", "delegate_development_task"}
    \cup UNION {Reach[u] : u \in Turns}
ThreadOrNone == Threads \cup {NoThread}

ToolType ==
  [stage : {"none", "called", "asked", "counted", "gated", "noticing", "done", "failed"},
   name : Names, owner : BOOLEAN, thread : ThreadOrNone, run : RunNames, call : Nat,
   executed : BOOLEAN]
EffectType ==
  [turn : Turns, run : RunNames, call : Nat, name : Names, owner : BOOLEAN,
   kind : {"local", "remote", "approval", "message"}]
TurnType ==
  [at : {"idle", "counting", "creating", "model", "tool", "answered", "done"},
   owner : BOOLEAN, command : Commands, thread : ThreadOrNone, research : BOOLEAN,
   news : BOOLEAN, checkin : BOOLEAN, run : RunNames,
   outcome : {"none", "completed", "failed"}, toolStatus : {"none", "accepted", "rejected"},
   refused : BOOLEAN]
CallStatuses == {"accepted", "searched", "rejected", "failed"}
RunType ==
  [status : {"none", "running", "completed", "failed"}, readOnly : BOOLEAN,
   calls : Seq(CallStatuses)]

AgentTypeOK ==
  /\ tool \in [Turns -> ToolType]
  /\ effects \subseteq EffectType
  /\ turn \in [Turns -> TurnType]
  /\ run \in [Turns -> [RunNames -> RunType]]

\* A run that is not created yet has no row: neither the next one nor those
\* that may follow it.
FreshInv ==
  \A t \in Turns :
    /\ turn[t].at = "idle" => turn[t].run = "initial"
    /\ turn[t].at \in {"idle", "counting", "creating"} => run[t][turn[t].run].status = "none"
    /\ turn[t].at # "done" /\ turn[t].run = "initial" => run[t]["resumed"].status = "none"
    /\ turn[t].at # "done" /\ turn[t].run # "forced" => run[t]["forced"].status = "none"

\* While a run goes on, it has accepted no research, and its row says what its
\* prompt holds.
LoopInv ==
  \A t \in Turns : turn[t].at \in {"model", "tool"} =>
    /\ Current(t).status # "none"
    /\ Current(t).readOnly => ExternalContext(t) /\ ~Authorises(turn[t].command)
    /\ \A i \in DOMAIN Current(t).calls : Current(t).calls[i] # "searched"

\* The call of that number of that run was one the run may make.
Sound(row, call, name) ==
  /\ row.status # "none"
  /\ row.readOnly => Access(name) = "read"
  /\ call <= Len(row.calls) + 1
  /\ \A i \in DOMAIN row.calls : i < call => row.calls[i] # "searched"

ToolsSound ==
  \A t \in Turns : tool[t].stage # "none" => Sound(run[t][tool[t].run], tool[t].call, tool[t].name)
EffectsSound ==
  \A e \in effects :
    /\ Sound(run[e.turn][e.run], e.call, e.name)
    /\ e.kind = "remote" => e.owner

AgentInv == AgentTypeOK /\ FreshInv /\ LoopInv /\ ToolsSound /\ EffectsSound

\* Nothing was called for the turn so far, not even in vain.
Clean(t) ==
  /\ tool[t] = NoTool
  /\ \A r \in RunNames : run[t][r].calls = <<>>
  /\ \A e \in effects : e.turn # t
CleanInv ==
  \A t \in Turns :
    \/ turn[t].at \in {"idle", "counting", "creating"}
    \/ turn[t].at = "model" /\ turn[t].toolStatus = "none"
    \/ turn[t].at = "answered" /\ Untouched(t)
    => Clean(t)

-----------------------------------------------------------------------------
(***************************************************************************)
(* The shapes of a turn's steps: what changes of the turn and of the row   *)
(* of its current run.                                                     *)
(***************************************************************************)
SameOthers(t) ==
  /\ \A u \in Turns \ {t} : turn'[u] = turn[u] /\ run'[u] = run[u]
  /\ \A r \in RunNames \ {turn[t].run} : run'[t][r] = run[t][r]
SamePrompt(t) ==
  /\ turn'[t].run = turn[t].run /\ turn'[t].command = turn[t].command
  /\ turn'[t].research = turn[t].research /\ turn'[t].news = turn[t].news
LongerRow(t, rows) ==
  /\ run'[t][turn[t].run].status # "none"
  /\ run'[t][turn[t].run].readOnly = Current(t).readOnly
  /\ run'[t][turn[t].run].calls = Current(t).calls \o rows

Received(t) ==
  turn[t].at = "idle" /\ turn'[t].at = "counting" /\ turn'[t].run = "initial" /\ run' = run
Counting(t) ==
  /\ turn[t].at = "counting" /\ run' = run /\ SamePrompt(t)
  /\ \/ turn'[t].at = "creating" /\ RunsInWindow < MaxRuns
     \/ turn'[t].at = "answered" /\ turn'[t].outcome = "failed"
Created(t) ==
  /\ turn[t].at = "creating" /\ turn'[t].at = "model" /\ SamePrompt(t)
  /\ run'[t][turn[t].run].status = "running" /\ run'[t][turn[t].run].calls = <<>>
  /\ run'[t][turn[t].run].readOnly = (Evidence(t) /\ ~Authorises(turn[t].command))
\* A call is recorded with what came of it only after it was made.
Recorded(t, rows) ==
  \/ rows \in {<<>>, <<"rejected">>}
  \/ turn[t].at = "tool" /\ \E status \in CallStatuses : rows = <<status>>
Finished(t) ==
  \E rows \in Seq(CallStatuses) :
    /\ turn[t].at \in {"model", "tool"} /\ turn'[t].at = "answered" /\ SamePrompt(t)
    /\ turn'[t].outcome = "failed" \/ turn'[t].toolStatus # "none"
    /\ LongerRow(t, rows) /\ Recorded(t, rows)
Continued(t) ==
  \E rows \in Seq(CallStatuses \ {"searched"}) :
    /\ turn[t].at \in {"model", "tool"} /\ turn'[t].at = "model" /\ SamePrompt(t)
    /\ turn'[t].toolStatus # "none" /\ LongerRow(t, rows) /\ Recorded(t, rows)
Answered(t) ==
  /\ turn[t].at = "model" /\ turn'[t].at = "answered" /\ SamePrompt(t)
  /\ turn'[t].toolStatus = turn[t].toolStatus /\ LongerRow(t, <<>>)
Calling(t) ==
  turn[t].at = "model" /\ ~OverBudget(t) /\ turn'[t].at = "tool" /\ SamePrompt(t) /\ run' = run
NewRun(t) ==
  /\ turn[t].at = "answered" /\ turn'[t].at = "counting" /\ run' = run /\ Untouched(t)
  /\ \/ turn[t].run = "initial" /\ turn'[t].run = "resumed"
     \/ turn[t].run = "resumed" /\ turn'[t].run = "forced"
Concluded(t) ==
  turn[t].at = "answered" /\ turn'[t].at = "done" /\ turn'[t].run = "initial" /\ run' = run

TurnTypes == turn' \in [Turns -> TurnType] /\ run' \in [Turns -> [RunNames -> RunType]]

LEMMA FinishShape ==
  ASSUME AgentTypeOK, NEW t \in Turns, turn[t].at \in {"model", "tool"},
         NEW rows \in Seq(CallStatuses), NEW outcome \in {"completed", "failed"},
         NEW toolStatus \in {"none", "accepted", "rejected"},
         outcome = "failed" \/ toolStatus # "none", Recorded(t, rows),
         Finish(t, rows, outcome, toolStatus)
  PROVE  TurnTypes /\ SameOthers(t) /\ Finished(t)
<1>t. /\ turn \in [Turns -> TurnType] /\ turn[t] \in TurnType /\ turn[t].run \in RunNames
      /\ run \in [Turns -> [RunNames -> RunType]] /\ run[t] \in [RunNames -> RunType]
      /\ Current(t) \in RunType
  BY DEF AgentTypeOK, TurnType, Current
<1>1. /\ turn' \in [Turns -> TurnType] /\ SamePrompt(t)
      /\ \A u \in Turns \ {t} : turn'[u] = turn[u]
      /\ turn'[t].at = "answered" /\ turn'[t].outcome = outcome /\ turn'[t].toolStatus = toolStatus
  BY <1>t DEF Finish, TurnType, SamePrompt
<1>2. PICK row \in RunType :
        /\ run' = [run EXCEPT ![t][turn[t].run] = row]
        /\ row.status = outcome /\ row.readOnly = Current(t).readOnly
        /\ row.calls = Current(t).calls \o rows
  <2> DEFINE row == [Current(t) EXCEPT !.status = outcome, !.calls = @ \o rows]
  <2>1. Current(t).calls \o rows \in Seq(CallStatuses)
    BY <1>t, ConcatProperties DEF RunType
  <2>2. row \in RunType
    BY <2>1, <1>t DEF RunType
  <2>3. /\ row.status = outcome /\ row.readOnly = Current(t).readOnly
        /\ row.calls = Current(t).calls \o rows
    BY <1>t DEF RunType
  <2>4. run' = [run EXCEPT ![t][turn[t].run] = row]
    BY <1>t DEF Finish, Current, RunType
  <2> HIDE DEF row
  <2> QED BY <2>2, <2>3, <2>4
<1>3. /\ run' \in [Turns -> [RunNames -> RunType]]
      /\ run'[t][turn[t].run] = row
      /\ \A u \in Turns \ {t} : run'[u] = run[u]
      /\ \A r \in RunNames \ {turn[t].run} : run'[t][r] = run[t][r]
  BY <1>2, <1>t
<1> QED BY <1>1, <1>2, <1>3 DEF TurnTypes, SameOthers, Finished, LongerRow

LEMMA ContinueShape ==
  ASSUME AgentTypeOK, NEW t \in Turns, turn[t].at \in {"model", "tool"},
         NEW rows \in Seq(CallStatuses \ {"searched"}), NEW toolStatus \in {"accepted", "rejected"},
         Current(t).status # "none", Recorded(t, rows), Continue(t, rows, toolStatus)
  PROVE  TurnTypes /\ SameOthers(t) /\ Continued(t)
<1>t. /\ turn \in [Turns -> TurnType] /\ turn[t] \in TurnType /\ turn[t].run \in RunNames
      /\ run \in [Turns -> [RunNames -> RunType]] /\ run[t] \in [RunNames -> RunType]
      /\ Current(t) \in RunType
  BY DEF AgentTypeOK, TurnType, Current
<1>1. /\ turn' \in [Turns -> TurnType] /\ SamePrompt(t)
      /\ \A u \in Turns \ {t} : turn'[u] = turn[u]
      /\ turn'[t].at = "model" /\ turn'[t].toolStatus = toolStatus
  BY <1>t DEF Continue, TurnType, SamePrompt
<1>2. PICK row \in RunType :
        /\ run' = [run EXCEPT ![t][turn[t].run] = row]
        /\ row.status = Current(t).status /\ row.readOnly = Current(t).readOnly
        /\ row.calls = Current(t).calls \o rows
  <2> DEFINE row == [Current(t) EXCEPT !.calls = @ \o rows]
  <2>1. Current(t).calls \o rows \in Seq(CallStatuses)
    <3>1. rows \in Seq(CallStatuses)
      BY DEF CallStatuses
    <3> QED BY <3>1, <1>t, ConcatProperties DEF RunType
  <2>2. row \in RunType
    BY <2>1, <1>t DEF RunType
  <2>3. /\ row.status = Current(t).status /\ row.readOnly = Current(t).readOnly
        /\ row.calls = Current(t).calls \o rows
    BY <1>t DEF RunType
  <2>4. run' = [run EXCEPT ![t][turn[t].run] = row]
    BY <1>t DEF Continue, Current, RunType
  <2> HIDE DEF row
  <2> QED BY <2>2, <2>3, <2>4
<1>3. /\ run' \in [Turns -> [RunNames -> RunType]]
      /\ run'[t][turn[t].run] = row
      /\ \A u \in Turns \ {t} : run'[u] = run[u]
      /\ \A r \in RunNames \ {turn[t].run} : run'[t][r] = run[t][r]
  BY <1>2, <1>t
<1> QED BY <1>1, <1>2, <1>3 DEF TurnTypes, SameOthers, Continued, LongerRow

Shape(t) ==
  \/ Received(t) \/ Counting(t) \/ Created(t) \/ Finished(t) \/ Continued(t)
  \/ Answered(t) \/ Calling(t) \/ NewRun(t) \/ Concluded(t)

LEMMA TurnShapes ==
  ASSUME AgentTypeOK, LoopInv, NEW t \in Turns, TurnStep(t)
  PROVE  TurnTypes /\ SameOthers(t) /\ Shape(t)
<1>t. /\ turn \in [Turns -> TurnType] /\ turn[t] \in TurnType /\ turn[t].run \in RunNames
      /\ run \in [Turns -> [RunNames -> RunType]] /\ run[t] \in [RunNames -> RunType]
      /\ Current(t) \in RunType
  BY DEF AgentTypeOK, TurnType, Current
<1>l. turn[t].at \in {"model", "tool"} => Current(t).status # "none"
  BY DEF LoopInv
<1>s. ASSUME NEW status \in CallStatuses PROVE <<status>> \in Seq(CallStatuses)
  OBVIOUS
<1>c. ASSUME NEW status \in CallStatuses \ {"searched"}
      PROVE  <<status>> \in Seq(CallStatuses \ {"searched"})
  OBVIOUS
<1>r. "rejected" \in CallStatuses \ {"searched"} /\ "failed" \in CallStatuses \ {"searched"}
      /\ "accepted" \in CallStatuses \ {"searched"} /\ "searched" \in CallStatuses
  BY DEF CallStatuses
<1>e. <<>> \in Seq(CallStatuses)
  OBVIOUS
\* The turn alone moves on.
<1>m. ASSUME NEW v \in TurnType, turn' = [turn EXCEPT ![t] = v], run' = run
      PROVE  TurnTypes /\ SameOthers(t) /\ turn'[t] = v
  BY <1>m, <1>t DEF TurnTypes, SameOthers
<1>n. NoTurn \in TurnType
  BY DEF NoTurn, TurnType, Commands, ThreadOrNone, RunNames
<1>1. CASE ReceiveInbound(t)
  <2>1. PICK thread \in Threads, command \in Commands \ {"none"}, news \in BOOLEAN :
          turn' = [turn EXCEPT ![t] =
            [NoTurn EXCEPT !.at = "counting", !.owner = TRUE, !.command = command,
                           !.thread = thread, !.research = thread \in research, !.news = news]]
    BY <1>1, Zenon DEF ReceiveInbound
  <2> DEFINE v == [NoTurn EXCEPT !.at = "counting", !.owner = TRUE, !.command = command,
                                 !.thread = thread, !.research = thread \in research, !.news = news]
  <2>2. v \in TurnType /\ v.at = "counting" /\ v.run = "initial"
    <3> DEFINE held == thread \in research
    <3>1. held \in BOOLEAN /\ NoTurn.run = "initial" /\ thread \in ThreadOrNone
      BY DEF NoTurn, ThreadOrNone
    <3> SUFFICES LET w == [NoTurn EXCEPT !.at = "counting", !.owner = TRUE, !.command = command,
                                         !.thread = thread, !.research = held, !.news = news]
                 IN  w \in TurnType /\ w.at = "counting" /\ w.run = "initial"
      OBVIOUS
    <3> HIDE DEF held
    <3> QED BY <3>1, <1>n DEF TurnType
  <2>3. turn' = [turn EXCEPT ![t] = v] /\ run' = run /\ turn[t].at = "idle"
    BY <2>1, <1>1 DEF ReceiveInbound, MayCome, At
  <2> HIDE DEF v
  <2> QED BY <2>2, <2>3, <1>m DEF Shape, Received
<1>2. CASE ReceiveWeb(t)
  <2>1. PICK command \in Commands \ {"none"}, hydrate, news \in BOOLEAN :
          turn' = [turn EXCEPT ![t] =
            [NoTurn EXCEPT !.at = "counting", !.owner = TRUE, !.command = command,
                           !.research = hydrate /\ research # {}, !.news = news]]
    BY <1>2, Zenon DEF ReceiveWeb
  <2> DEFINE v == [NoTurn EXCEPT !.at = "counting", !.owner = TRUE, !.command = command,
                                 !.research = hydrate /\ research # {}, !.news = news]
  <2>2. v \in TurnType /\ v.at = "counting" /\ v.run = "initial"
    BY <1>n DEF NoTurn, TurnType
  <2>3. turn' = [turn EXCEPT ![t] = v] /\ run' = run /\ turn[t].at = "idle"
    BY <2>1, <1>2 DEF ReceiveWeb, MayCome, At
  <2> HIDE DEF v
  <2> QED BY <2>2, <2>3, <1>m DEF Shape, Received
<1>3. CASE ReceiveScheduled(t)
  <2>1. PICK checkin \in BOOLEAN :
          turn' = [turn EXCEPT ![t] = [NoTurn EXCEPT !.at = "counting", !.checkin = checkin]]
    BY <1>3, Zenon DEF ReceiveScheduled
  <2> DEFINE v == [NoTurn EXCEPT !.at = "counting", !.checkin = checkin]
  <2>2. v \in TurnType /\ v.at = "counting" /\ v.run = "initial"
    BY <1>n DEF NoTurn, TurnType
  <2>3. turn' = [turn EXCEPT ![t] = v] /\ run' = run /\ turn[t].at = "idle"
    BY <2>1, <1>3 DEF ReceiveScheduled, MayCome, At
  <2> HIDE DEF v
  <2> QED BY <2>2, <2>3, <1>m DEF Shape, Received
<1>4. CASE CountRuns(t)
  <2>1. /\ turn[t].at = "counting" /\ run' = run
        /\ \/ turn' = [turn EXCEPT ![t].at = "creating"] /\ RunsInWindow < MaxRuns
           \/ turn' = [turn EXCEPT ![t].at = "answered", ![t].outcome = "failed",
                                   ![t].toolStatus = "none"]
    BY <1>4 DEF CountRuns, At, Go
  <2>2. PICK v \in TurnType :
          /\ turn' = [turn EXCEPT ![t] = v]
          /\ \/ v.at = "creating" /\ RunsInWindow < MaxRuns
             \/ v.at = "answered" /\ v.outcome = "failed"
          /\ v.run = turn[t].run /\ v.command = turn[t].command
          /\ v.research = turn[t].research /\ v.news = turn[t].news
    <3>1. CASE turn' = [turn EXCEPT ![t].at = "creating"] /\ RunsInWindow < MaxRuns
      <4> DEFINE v == [turn[t] EXCEPT !.at = "creating"]
      <4>1. /\ v \in TurnType /\ v.at = "creating"
            /\ v.run = turn[t].run /\ v.command = turn[t].command
            /\ v.research = turn[t].research /\ v.news = turn[t].news
        BY <1>t DEF TurnType
      <4>2. turn' = [turn EXCEPT ![t] = v]
        BY <3>1
      <4> HIDE DEF v
      <4> QED BY <3>1, <4>1, <4>2
    <3>2. CASE turn' = [turn EXCEPT ![t].at = "answered", ![t].outcome = "failed",
                                    ![t].toolStatus = "none"]
      <4> DEFINE v == [turn[t] EXCEPT !.at = "answered", !.outcome = "failed",
                                      !.toolStatus = "none"]
      <4>1. /\ v \in TurnType /\ v.at = "answered" /\ v.outcome = "failed"
            /\ v.run = turn[t].run /\ v.command = turn[t].command
            /\ v.research = turn[t].research /\ v.news = turn[t].news
        BY <1>t DEF TurnType
      <4>2. turn' = [turn EXCEPT ![t] = v]
        BY <3>2, <1>t
      <4> HIDE DEF v
      <4> QED BY <4>1, <4>2
    <3> QED BY <2>1, <3>1, <3>2
  <2>3. /\ TurnTypes /\ SameOthers(t) /\ SamePrompt(t)
        /\ \/ turn'[t].at = "creating" /\ RunsInWindow < MaxRuns
           \/ turn'[t].at = "answered" /\ turn'[t].outcome = "failed"
    BY <2>1, <2>2, <1>m DEF SamePrompt
  <2> QED BY <2>1, <2>3 DEF Shape, Counting
<1>5. CASE CreateRun(t)
  <2> DEFINE readOnly == Evidence(t) /\ ~Authorises(turn[t].command)
             row == [status |-> "running", readOnly |-> readOnly, calls |-> <<>>]
  <2>1. /\ turn[t].at = "creating"
        /\ run' = [run EXCEPT ![t][turn[t].run] = row]
        /\ turn' = [turn EXCEPT ![t].at = "model", ![t].toolStatus = "none"]
    BY <1>5 DEF CreateRun, At
  <2>2. row \in RunType /\ row.status = "running" /\ row.calls = <<>>
        /\ row.readOnly = readOnly
    <3>1. readOnly \in BOOLEAN
      OBVIOUS
    <3> HIDE DEF readOnly
    <3> QED BY <3>1, <1>e DEF RunType
  <2> HIDE DEF row
  <2>3. /\ turn' \in [Turns -> TurnType] /\ SamePrompt(t) /\ turn'[t].at = "model"
        /\ \A u \in Turns \ {t} : turn'[u] = turn[u]
    BY <2>1, <1>t DEF SamePrompt, TurnType
  <2>4. /\ run' \in [Turns -> [RunNames -> RunType]] /\ run'[t][turn[t].run] = row
        /\ \A u \in Turns \ {t} : run'[u] = run[u]
        /\ \A r \in RunNames \ {turn[t].run} : run'[t][r] = run[t][r]
    BY <2>1, <2>2, <1>t
  <2> QED BY <2>1, <2>2, <2>3, <2>4 DEF Shape, Created, TurnTypes, SameOthers
<1>6. CASE AnswerText(t)
  <2>1. PICK refused \in BOOLEAN :
          /\ run' = [run EXCEPT ![t][turn[t].run].status = "completed"]
          /\ turn' = [turn EXCEPT ![t].at = "answered", ![t].outcome = "completed",
                                  ![t].refused = refused]
    BY <1>6, Zenon DEF AnswerText
  <2>2. turn[t].at = "model"
    BY <1>6 DEF AnswerText, At
  <2>3. /\ turn' \in [Turns -> TurnType] /\ SamePrompt(t) /\ turn'[t].at = "answered"
        /\ turn'[t].toolStatus = turn[t].toolStatus
        /\ \A u \in Turns \ {t} : turn'[u] = turn[u]
    BY <2>1, <1>t DEF SamePrompt, TurnType
  <2> DEFINE row == [Current(t) EXCEPT !.status = "completed"]
  <2>4. row \in RunType /\ row.status = "completed" /\ row.calls = Current(t).calls
        /\ row.readOnly = Current(t).readOnly
    BY <1>t DEF RunType
  <2>5. run' = [run EXCEPT ![t][turn[t].run] = row]
    BY <2>1, <1>t DEF Current, RunType
  <2> HIDE DEF row
  <2>6. /\ run' \in [Turns -> [RunNames -> RunType]] /\ run'[t][turn[t].run] = row
        /\ \A u \in Turns \ {t} : run'[u] = run[u]
        /\ \A r \in RunNames \ {turn[t].run} : run'[t][r] = run[t][r]
    BY <2>4, <2>5, <1>t
  <2>7. Current(t).calls \o <<>> = Current(t).calls
    <3>1. Current(t).calls \in Seq(CallStatuses)
      BY <1>t DEF RunType
    <3> QED BY <3>1
  <2> QED BY <2>2, <2>3, <2>4, <2>6, <2>7 DEF Shape, Answered, LongerRow, TurnTypes, SameOthers
<1>7. CASE RejectInvalid(t) \/ RejectForbidden(t) \/ RejectOverBudget(t) \/ RunThrows(t)
           \/ Deadline(t) \/ ToolFailed(t)
  <2>1. /\ turn[t].at \in {"model", "tool"}
        /\ \E rows \in {<<>>, <<"rejected">>, <<"failed">>} :
           /\ rows = <<"failed">> => turn[t].at = "tool"
           /\ \/ \E toolStatus \in {"none", "rejected"} : Finish(t, rows, "failed", toolStatus)
              \/ rows # <<>> /\ Continue(t, rows, "rejected")
    BY <1>7 DEF RejectInvalid, RejectForbidden, RejectOverBudget, RunThrows, Deadline, ToolFailed,
                At
  <2>2. PICK rows \in {<<>>, <<"rejected">>, <<"failed">>} :
           /\ rows = <<"failed">> => turn[t].at = "tool"
           /\ \/ \E toolStatus \in {"none", "rejected"} : Finish(t, rows, "failed", toolStatus)
              \/ rows # <<>> /\ Continue(t, rows, "rejected")
    BY <2>1, Zenon
  <2>r. Recorded(t, rows)
    BY <2>2, <1>r DEF Recorded
  <2>3. CASE \E toolStatus \in {"none", "rejected"} : Finish(t, rows, "failed", toolStatus)
    <3>1. rows \in Seq(CallStatuses)
      BY <1>s, <1>r, <1>e
    <3> QED BY <2>1, <2>r, <2>3, <3>1, FinishShape DEF Shape
  <2>4. CASE rows # <<>> /\ Continue(t, rows, "rejected")
    <3>1. rows \in Seq(CallStatuses \ {"searched"})
      BY <2>4, <1>c, <1>r
    <3> QED BY <2>1, <2>r, <2>4, <3>1, <1>l, ContinueShape DEF Shape
  <2> QED BY <2>2, <2>3, <2>4
<1>8. CASE ToolReturned(t)
  <2>1. turn[t].at = "tool" /\ Accepted(t) \in Seq(CallStatuses)
        /\ (tool[t].name # "web_research" => Accepted(t) \in Seq(CallStatuses \ {"searched"}))
    BY <1>8, <1>s, <1>c, <1>r DEF ToolReturned, At, Accepted
  <2>2. \/ tool[t].name # "web_research" /\ Continue(t, Accepted(t), "accepted")
        \/ Finish(t, Accepted(t), "completed", "accepted")
    BY <1>8 DEF ToolReturned
  <2>3. Recorded(t, Accepted(t))
    BY <2>1, <1>r DEF Recorded, Accepted
  <2> QED BY <2>1, <2>2, <2>3, <1>l, FinishShape, ContinueShape DEF Shape
<1>9. CASE CallTool(t)
  <2>1. /\ turn[t].at = "model" /\ ~OverBudget(t)
        /\ turn' = [turn EXCEPT ![t].at = "tool"] /\ run' = run
    BY <1>9 DEF CallTool, At, Go
  <2>2. TurnTypes /\ SameOthers(t) /\ SamePrompt(t) /\ turn'[t].at = "tool"
    BY <2>1, <1>t DEF TurnTypes, SameOthers, SamePrompt, TurnType
  <2> QED BY <2>1, <2>2 DEF Shape, Calling
<1>10. CASE Resume(t) \/ ForceRun(t)
  <2>1. PICK name \in {"resumed", "forced"} :
          /\ turn' = [turn EXCEPT ![t].at = "counting", ![t].run = name, ![t].refused = FALSE]
          /\ turn[t].run = IF name = "resumed" THEN "initial" ELSE "resumed"
    BY <1>10 DEF Resume, ForceRun, NextRun, Resumes, Forces
  <2>2. turn[t].at = "answered" /\ run' = run /\ Untouched(t)
    BY <1>10 DEF Resume, ForceRun, Resumes, Forces, At
  <2>3. TurnTypes /\ SameOthers(t) /\ turn'[t].at = "counting" /\ turn'[t].run = name
    BY <2>1, <2>2, <1>t DEF TurnTypes, SameOthers, TurnType, RunNames
  <2> QED BY <2>1, <2>2, <2>3 DEF Shape, NewRun
<1>11. CASE Conclude(t)
  <2> DEFINE v == [NoTurn EXCEPT !.at = "done"]
  <2>1. turn' = [turn EXCEPT ![t] = v] /\ run' = run /\ turn[t].at = "answered"
    BY <1>11 DEF Conclude, At
  <2>2. v \in TurnType /\ v.at = "done" /\ v.run = "initial"
    BY <1>n DEF NoTurn, TurnType
  <2> HIDE DEF v
  <2> QED BY <2>1, <2>2, <1>m DEF Shape, Concluded
<1> QED BY <1>1, <1>2, <1>3, <1>4, <1>5, <1>6, <1>7, <1>8, <1>9, <1>10, <1>11 DEF TurnStep, RunStep

-----------------------------------------------------------------------------
(***************************************************************************)
(* The shapes of a tool's steps: an execution goes on, and what it writes  *)
(* carries its turn, run and call.                                         *)
(***************************************************************************)
GoesOn(t) ==
  /\ tool[t].stage # "none" /\ tool'[t].stage # "none"
  /\ tool'[t].run = tool[t].run /\ tool'[t].call = tool[t].call /\ tool'[t].name = tool[t].name
OtherTools(t) == \A u \in Turns \ {t} : tool'[u] = tool[u]
MadeBy(e, t) ==
  /\ e.turn = t /\ e.run = tool[t].run /\ e.call = tool[t].call /\ e.name = tool[t].name
  /\ e.kind = "remote" => e.owner

LEMMA ToolShapes ==
  ASSUME AgentTypeOK, NEW t \in Turns, ToolStep(t)
  PROVE  /\ tool' \in [Turns -> ToolType] /\ effects' \subseteq EffectType
         /\ GoesOn(t) /\ OtherTools(t)
         /\ \A e \in effects' : e \in effects \/ MadeBy(e, t)
<1>t. /\ tool \in [Turns -> ToolType] /\ tool[t] \in ToolType /\ effects \subseteq EffectType
  BY DEF AgentTypeOK
<1> DEFINE Stages == {"called", "asked", "counted", "gated", "noticing", "done", "failed"}
\* Of the execution.
<1>s. ASSUME tool[t].stage # "none",
             \/ \E stage \in Stages : Stage(t, stage)
             \/ \E executed \in BOOLEAN : Return(t, executed)
      PROVE  tool' \in [Turns -> ToolType] /\ GoesOn(t) /\ OtherTools(t)
  <2>1. ASSUME NEW v \in ToolType, tool' = [tool EXCEPT ![t] = v], v.stage # "none",
               v.run = tool[t].run, v.call = tool[t].call, v.name = tool[t].name
        PROVE  tool' \in [Turns -> ToolType] /\ GoesOn(t) /\ OtherTools(t)
    BY <1>t, <1>s, <2>1 DEF GoesOn, OtherTools
  <2>2. ASSUME NEW stage \in Stages, Stage(t, stage)
        PROVE  tool' \in [Turns -> ToolType] /\ GoesOn(t) /\ OtherTools(t)
    <3> DEFINE v == [tool[t] EXCEPT !.stage = stage]
    <3>1. /\ v \in ToolType /\ v.stage # "none"
          /\ v.run = tool[t].run /\ v.call = tool[t].call /\ v.name = tool[t].name
      BY <1>t DEF ToolType
    <3>2. tool' = [tool EXCEPT ![t] = v]
      BY <2>2 DEF Stage
    <3> HIDE DEF v
    <3> QED BY <3>1, <3>2, <2>1
  <2>3. ASSUME NEW executed \in BOOLEAN, Return(t, executed)
        PROVE  tool' \in [Turns -> ToolType] /\ GoesOn(t) /\ OtherTools(t)
    <3> DEFINE v == [tool[t] EXCEPT !.stage = "done", !.executed = executed]
    <3>1. /\ v \in ToolType /\ v.stage # "none"
          /\ v.run = tool[t].run /\ v.call = tool[t].call /\ v.name = tool[t].name
      BY <1>t DEF ToolType
    <3>2. tool' = [tool EXCEPT ![t] = v]
      BY <2>3, <1>t DEF Return
    <3> HIDE DEF v
    <3> QED BY <3>1, <3>2, <2>1
  <2> QED BY <1>s, <2>2, <2>3
\* Of what it writes.
<1>e. ASSUME \/ effects' = effects
             \/ \E kind \in {"local", "approval", "message"} : Affect(t, kind)
             \/ Affect(t, "remote") /\ tool[t].owner
      PROVE  effects' \subseteq EffectType /\ \A e \in effects' : e \in effects \/ MadeBy(e, t)
  <2>1. CASE effects' = effects
    BY <2>1, <1>t
  <2>2. ASSUME NEW kind \in {"local", "remote", "approval", "message"}, Affect(t, kind),
               kind = "remote" => tool[t].owner
        PROVE  effects' \subseteq EffectType /\ \A e \in effects' : e \in effects \/ MadeBy(e, t)
    <3> DEFINE new == [turn |-> t, run |-> tool[t].run, call |-> tool[t].call,
                       name |-> tool[t].name, owner |-> tool[t].owner, kind |-> kind]
    <3>1. new \in EffectType
      BY <1>t DEF ToolType, EffectType
    <3>2. MadeBy(new, t)
      BY <2>2 DEF MadeBy
    <3>3. effects' = effects \cup {new}
      BY <2>2 DEF Affect
    <3> HIDE DEF new
    <3> QED BY <3>1, <3>2, <3>3, <1>t
  <2> QED BY <1>e, <2>1, <2>2
<1>1. CASE BreakOff(t)
  <2>1. tool[t].stage # "none" /\ Stage(t, "failed") /\ effects' = effects
    BY <1>1 DEF BreakOff, Throw
  <2> QED BY <2>1, <1>s, <1>e
<1>2. CASE ReadHere(t) \/ ReadThere(t) \/ Search(t) \/ RefuseApp(t) \/ NoDestination(t)
  <2>1. /\ tool[t].stage # "none" /\ effects' = effects
        /\ \E executed \in BOOLEAN : Return(t, executed)
    BY <1>2 DEF ReadHere, ReadThere, Search, RefuseApp, NoDestination, Called
  <2> QED BY <2>1, <1>s, <1>e
<1>3. CASE WriteHere(t)
  <2>1. /\ tool[t].stage # "none" /\ (effects' = effects \/ Affect(t, "local"))
        /\ Stage(t, "failed") \/ \E executed \in BOOLEAN : Return(t, executed)
    BY <1>3 DEF WriteHere, Called, Throw
  <2> QED BY <2>1, <1>s, <1>e
<1>4. CASE CallApp(t)
  <2>1. /\ tool[t].stage # "none" /\ tool[t].owner
        /\ effects' = effects \/ Affect(t, "remote")
        /\ \E executed \in BOOLEAN : Return(t, executed)
    BY <1>4 DEF CallApp, Called, ReachApp, MissApp
  <2> QED BY <2>1, <1>s, <1>e
<1>5. CASE AskApproval(t)
  <2>1. tool[t].stage # "none" /\ Affect(t, "approval") /\ Stage(t, "asked")
    BY <1>5 DEF AskApproval, Called
  <2> QED BY <2>1, <1>s, <1>e
<1>6. CASE AnswerOwner(t)
  <2>1. tool[t].stage # "none" /\ Affect(t, "message") /\ Return(t, TRUE)
    BY <1>6 DEF AnswerOwner, Called
  <2> QED BY <2>1, <1>s, <1>e
<1>7. CASE CountMessage(t) \/ CountNotice(t)
  <2>1. /\ tool[t].stage # "none" /\ effects' = effects
        /\ (\E stage \in Stages : Stage(t, stage)) \/ \E executed \in BOOLEAN : Return(t, executed)
    BY <1>7 DEF CountMessage, CountNotice, Called, CountedTo, Throw
  <2> QED BY <2>1, <1>s, <1>e
<1>8. CASE QueueMessage(t)
  <2>1. tool[t].stage # "none" /\ Affect(t, "message") /\ Return(t, TRUE)
    BY <1>8 DEF QueueMessage
  <2> QED BY <2>1, <1>s, <1>e
<1>9. CASE GateMessage(t)
  <2>1. tool[t].stage # "none" /\ Affect(t, "approval") /\ Stage(t, "asked")
    BY <1>9 DEF GateMessage
  <2> QED BY <2>1, <1>s, <1>e
<1> QED BY <1>1, <1>2, <1>3, <1>4, <1>5, <1>6, <1>7, <1>8, <1>9 DEF ToolStep

\* What a turn's step does to its tool: nothing, except that it begins a call
\* of one of the tools of its run, or takes the result.
Begins(t) ==
  /\ turn[t].at = "model" /\ turn'[t].at = "tool"
  /\ tool'[t].stage = "called" /\ tool'[t].name \in AllowedTools(t)
  /\ tool'[t].run = turn[t].run /\ tool'[t].call = Len(Current(t).calls) + 1
TakesResult(t) == tool'[t] = NoTool /\ turn[t].at = "tool"

LEMMA TurnTools ==
  ASSUME AgentTypeOK, NEW t \in Turns, TurnStep(t)
  PROVE  /\ tool' \in [Turns -> ToolType] /\ effects' = effects /\ OtherTools(t)
         /\ proactive' = proactive
         /\ tool'[t] = tool[t] \/ Begins(t) \/ TakesResult(t)
<1>t. /\ tool \in [Turns -> ToolType] /\ tool[t] \in ToolType
      /\ turn \in [Turns -> TurnType] /\ turn[t] \in TurnType
      /\ Current(t) \in RunType
  BY DEF AgentTypeOK, TurnType, Current
<1>n. NoTool \in ToolType
  BY DEF NoTool, ToolType, Names, ThreadOrNone, RunNames
<1>1. CASE CallTool(t)
  <2>1. PICK name \in Proposals(t) \cap AllowedTools(t) :
          BeginTool(t, name, turn[t].owner, turn[t].thread, turn[t].run, Len(Current(t).calls) + 1)
    BY <1>1, Zenon DEF CallTool
  <2>2. name \in Names
    <3>1. name \in Offered(t)
      BY <2>1 DEF AllowedTools
    <3> QED BY <3>1 DEF Offered, Names
  <2> DEFINE call == Len(Current(t).calls) + 1
             new == [NoTool EXCEPT !.stage = "called", !.name = name, !.owner = turn[t].owner,
                                   !.thread = turn[t].thread, !.run = turn[t].run, !.call = call]
  <2>3. call \in Nat
    <3>1. Current(t).calls \in Seq(CallStatuses)
      BY <1>t DEF RunType
    <3> QED BY <3>1, LenProperties
  <2>4. /\ new \in ToolType /\ new.stage = "called" /\ new.name = name
        /\ new.run = turn[t].run /\ new.call = call
    <3> HIDE DEF call
    <3> QED BY <1>n, <1>t, <2>2, <2>3 DEF ToolType, TurnType
  <2>5. tool' = [tool EXCEPT ![t] = new]
    BY <2>1 DEF BeginTool
  <2>6. tool' \in [Turns -> ToolType] /\ OtherTools(t) /\ tool'[t] = new
    <3> HIDE DEF new
    <3> QED BY <2>4, <2>5, <1>t DEF OtherTools
  <2>7. /\ turn[t].at = "model" /\ turn'[t].at = "tool"
        /\ effects' = effects /\ proactive' = proactive
    BY <1>1, <1>t DEF CallTool, At, Go, TurnType
  <2> HIDE DEF new
  <2> QED BY <2>4, <2>6, <2>7 DEF Begins
<1>2. CASE ToolReturned(t)
  <2>1. /\ tool' = [tool EXCEPT ![t] = NoTool] /\ turn[t].at = "tool"
        /\ effects' = effects /\ proactive' = proactive
    BY <1>2 DEF ToolReturned, At
  <2> QED BY <2>1, <1>n, <1>t DEF OtherTools, TakesResult
<1>3. CASE UNCHANGED toolVars
  BY <1>3, <1>t DEF toolVars, OtherTools
<1> QED BY <1>1, <1>2, <1>3
        DEF TurnStep, RunStep, ReceiveInbound, ReceiveWeb, ReceiveScheduled, CountRuns, CreateRun,
            AnswerText, RejectInvalid, RejectForbidden, RejectOverBudget, ToolFailed, RunThrows,
            Deadline, Resume, ForceRun, Conclude

-----------------------------------------------------------------------------
(***************************************************************************)
(* The invariant                                                           *)
(***************************************************************************)
\* A row that exists is only ever extended.
Grows(row, more) ==
  row.status # "none" =>
    /\ more.status # "none" /\ more.readOnly = row.readOnly
    /\ Len(row.calls) <= Len(more.calls)
    /\ \A i \in 1 .. Len(row.calls) : more.calls[i] = row.calls[i]

LEMMA RunsGrow ==
  ASSUME AgentTypeOK, FreshInv, NEW t \in Turns, SameOthers(t), Shape(t)
  PROVE  \A u \in Turns, r \in RunNames : Grows(run[u][r], run'[u][r])
<1>t. /\ run \in [Turns -> [RunNames -> RunType]] /\ turn[t].run \in RunNames
      /\ Current(t) \in RunType
  BY DEF AgentTypeOK, TurnType, Current
<1>s. ASSUME NEW row \in RunType PROVE Grows(row, row)
  <2>1. Len(row.calls) \in Nat
    <3>1. row.calls \in Seq(CallStatuses)
      BY DEF RunType
    <3> QED BY <3>1, LenProperties
  <2> QED BY <2>1 DEF Grows
<1>1. Grows(Current(t), run'[t][turn[t].run])
  <2>1. CASE run' = run
    BY <2>1, <1>t, <1>s DEF Current
  <2>2. CASE Created(t)
    BY <2>2 DEF Created, FreshInv, Grows, Current
  <2>3. ASSUME NEW rows \in Seq(CallStatuses), LongerRow(t, rows)
        PROVE  Grows(Current(t), run'[t][turn[t].run])
    <3>1. Current(t).calls \in Seq(CallStatuses)
      BY <1>t DEF RunType
    <3> DEFINE calls == Current(t).calls
    <3>2. /\ Len(calls) \in Nat /\ Len(rows) \in Nat /\ Len(calls \o rows) = Len(calls) + Len(rows)
          /\ \A i \in 1 .. Len(calls) : (calls \o rows)[i] = calls[i]
      <4> HIDE DEF calls
      <4>1. calls \in Seq(CallStatuses)
        BY <3>1 DEF calls
      <4> QED BY <4>1, <2>3, LenProperties, ConcatProperties
    <3>3. /\ run'[t][turn[t].run].status # "none"
          /\ run'[t][turn[t].run].readOnly = Current(t).readOnly
          /\ run'[t][turn[t].run].calls = calls \o rows
      BY <2>3 DEF LongerRow
    <3>4. Len(calls) <= Len(calls \o rows)
      <4> HIDE DEF calls
      <4> QED BY <3>2
    <3> QED BY <3>2, <3>3, <3>4 DEF Grows
  <2>4. <<>> \in Seq(CallStatuses) /\ Seq(CallStatuses \ {"searched"}) \subseteq Seq(CallStatuses)
    BY SeqMonotonic
  <2> QED BY <2>1, <2>2, <2>3, <2>4
          DEF Shape, Received, Counting, Finished, Continued, Answered, Calling, NewRun, Concluded
<1> SUFFICES ASSUME NEW u \in Turns, NEW r \in RunNames PROVE Grows(run[u][r], run'[u][r])
  OBVIOUS
<1>2. CASE u = t /\ r = turn[t].run
  BY <1>1, <1>2 DEF Current
<1>3. CASE ~(u = t /\ r = turn[t].run)
  <2>1. run'[u][r] = run[u][r] /\ run[u][r] \in RunType
    BY <1>3, <1>t DEF SameOthers
  <2> QED BY <2>1, <1>s
<1> QED BY <1>2, <1>3

LEMMA SoundKept ==
  ASSUME NEW row \in RunType, NEW more \in RunType, Grows(row, more),
         NEW call \in Nat, NEW name, Sound(row, call, name)
  PROVE  Sound(more, call, name)
<1>1. /\ Len(row.calls) \in Nat /\ DOMAIN row.calls = 1 .. Len(row.calls)
      /\ Len(more.calls) \in Nat /\ DOMAIN more.calls = 1 .. Len(more.calls)
  <2>1. row.calls \in Seq(CallStatuses) /\ more.calls \in Seq(CallStatuses)
    BY DEF RunType
  <2> QED BY <2>1, LenProperties
<1>2. /\ more.status # "none" /\ more.readOnly = row.readOnly
      /\ Len(row.calls) <= Len(more.calls)
      /\ \A i \in 1 .. Len(row.calls) : more.calls[i] = row.calls[i]
      /\ row.readOnly => Access(name) = "read"
      /\ call <= Len(row.calls) + 1
      /\ \A i \in DOMAIN row.calls : i < call => row.calls[i] # "searched"
  BY DEF Grows, Sound
<1>3. call <= Len(more.calls) + 1
  BY <1>1, <1>2
<1>4. ASSUME NEW i \in DOMAIN more.calls, i < call PROVE more.calls[i] # "searched"
  <2>1. i \in 1 .. Len(row.calls)
    BY <1>1, <1>2, <1>4
  <2> QED BY <2>1, <1>1, <1>2, <1>4
<1> QED BY <1>2, <1>3, <1>4 DEF Sound

LEMMA FreshStep ==
  ASSUME AgentTypeOK, FreshInv, NEW t \in Turns, TurnTypes, SameOthers(t), Shape(t)
  PROVE  FreshInv'
<1> SUFFICES ASSUME NEW u \in Turns
             PROVE  /\ turn'[u].at = "idle" => turn'[u].run = "initial"
                    /\ turn'[u].at \in {"idle", "counting", "creating"} =>
                         run'[u][turn'[u].run].status = "none"
                    /\ turn'[u].at # "done" /\ turn'[u].run = "initial" =>
                         run'[u]["resumed"].status = "none"
                    /\ turn'[u].at # "done" /\ turn'[u].run # "forced" =>
                         run'[u]["forced"].status = "none"
  BY DEF FreshInv
<1>1. CASE u # t
  BY <1>1 DEF SameOthers, FreshInv
<1>2. CASE u = t
  <2>n. turn[t].run \in {"initial", "resumed", "forced"}
        /\ {"initial", "resumed", "forced"} = RunNames
    BY DEF AgentTypeOK, TurnType, RunNames
  <2>k. \A r \in RunNames \ {turn[t].run} : run'[t][r] = run[t][r]
    BY DEF SameOthers
  <2>1. CASE Received(t)
    <3>1. /\ run[t]["forced"].status = "none" /\ run[t]["resumed"].status = "none"
          /\ run[t]["initial"].status = "none"
      BY <2>1, <2>n DEF Received, FreshInv
    <3> QED BY <3>1, <2>1, <1>2 DEF Received
  <2>2. CASE Counting(t) \/ Calling(t)
    BY <2>2, <1>2 DEF Counting, Calling, SamePrompt, FreshInv
  <2>3. CASE Created(t)
    BY <2>3, <2>n, <2>k, <1>2 DEF Created, SamePrompt, FreshInv
  <2>4. CASE Finished(t)
    BY <2>4, <2>n, <2>k, <1>2 DEF Finished, SamePrompt, FreshInv
  <2>5. CASE Continued(t)
    BY <2>5, <2>n, <2>k, <1>2 DEF Continued, SamePrompt, FreshInv
  <2>6. CASE Answered(t)
    BY <2>6, <2>n, <2>k, <1>2 DEF Answered, SamePrompt, FreshInv
  <2>7. CASE NewRun(t) \/ Concluded(t)
    BY <2>7, <1>2 DEF NewRun, Concluded, FreshInv
  <2> QED BY <2>1, <2>2, <2>3, <2>4, <2>5, <2>6, <2>7 DEF Shape
<1> QED BY <1>1, <1>2

LEMMA LoopStep ==
  ASSUME AgentTypeOK, LoopInv, NEW t \in Turns, SameOthers(t), Shape(t)
  PROVE  LoopInv'
<1> SUFFICES ASSUME NEW u \in Turns, turn'[u].at \in {"model", "tool"}
             PROVE  /\ Current(u)'.status # "none"
                    /\ Current(u)'.readOnly => ExternalContext(u)' /\ ~Authorises(turn'[u].command)
                    /\ \A i \in DOMAIN Current(u)'.calls : Current(u)'.calls[i] # "searched"
  BY DEF LoopInv
<1>1. CASE u # t
  <2>1. turn'[u] = turn[u] /\ run'[u] = run[u]
    BY <1>1 DEF SameOthers
  <2>2. Current(u)' = Current(u) /\ ExternalContext(u)' = ExternalContext(u)
    BY <2>1 DEF Current, ExternalContext
  <2>3. /\ Current(u).status # "none"
        /\ Current(u).readOnly => ExternalContext(u) /\ ~Authorises(turn[u].command)
        /\ \A i \in DOMAIN Current(u).calls : Current(u).calls[i] # "searched"
    BY <2>1 DEF LoopInv
  <2> QED BY <2>1, <2>2, <2>3
<1>2. CASE u = t
  <2>c. Current(t) \in RunType
    BY DEF AgentTypeOK, TurnType, Current
  <2>p. ASSUME SamePrompt(t)
        PROVE  /\ Current(t)' = run'[t][turn[t].run] /\ ExternalContext(t)' = ExternalContext(t)
               /\ turn'[t].command = turn[t].command
    BY <2>p DEF SamePrompt, Current, ExternalContext
  <2>1. CASE Created(t)
    <3>1. /\ Current(t)'.status = "running" /\ Current(t)'.calls = <<>>
          /\ Current(t)'.readOnly = (Evidence(t) /\ ~Authorises(turn[t].command))
      BY <2>1, <2>p DEF Created
    <3>2. Evidence(t) <=> ExternalContext(t)
      BY DEF Evidence, ExternalContext
    <3>3. /\ turn'[t].command = turn[t].command /\ ExternalContext(t)' = ExternalContext(t)
      BY <2>1, <2>p DEF Created
    <3>4. Current(t)'.readOnly => ExternalContext(t)' /\ ~Authorises(turn'[t].command)
      BY <3>1, <3>2, <3>3
    <3>5. \A i \in DOMAIN Current(t)'.calls : Current(t)'.calls[i] # "searched"
      BY <3>1
    <3> QED BY <3>1, <3>4, <3>5, <1>2
  <2>2. CASE Continued(t)
    <3>1. PICK rows \in Seq(CallStatuses \ {"searched"}) :
            turn[t].at \in {"model", "tool"} /\ SamePrompt(t) /\ LongerRow(t, rows)
      BY <2>2, Zenon DEF Continued
    <3> DEFINE calls == Current(t).calls
    <3>2. /\ Current(t)'.status # "none" /\ Current(t)'.readOnly = Current(t).readOnly
          /\ Current(t)'.calls = calls \o rows
      BY <3>1, <2>p DEF LongerRow
    <3>3. /\ \A i \in DOMAIN calls : calls[i] # "searched"
          /\ Current(t).readOnly => ExternalContext(t) /\ ~Authorises(turn[t].command)
      BY <3>1 DEF LoopInv
    <3>4. calls \in Seq(CallStatuses \ {"searched"})
      <4>1. calls \in Seq(CallStatuses)
        BY <2>c DEF RunType
      <4>2. Len(calls) \in Nat /\ DOMAIN calls = 1 .. Len(calls)
            /\ calls \in [1 .. Len(calls) -> CallStatuses]
        <5> HIDE DEF calls
        <5> QED BY <4>1, LenProperties
      <4>3. calls \in [1 .. Len(calls) -> CallStatuses \ {"searched"}]
        <5> HIDE DEF calls
        <5> QED BY <4>2, <3>3
      <4> HIDE DEF calls
      <4> QED BY <4>2, <4>3, SeqDef
    <3>5. calls \o rows \in Seq(CallStatuses \ {"searched"})
      <4> HIDE DEF calls
      <4> QED BY <3>4, <3>1, ConcatProperties
    <3>6. \A i \in DOMAIN Current(t)'.calls : Current(t)'.calls[i] # "searched"
      <4>1. ASSUME NEW s \in Seq(CallStatuses \ {"searched"}), NEW i \in DOMAIN s
            PROVE  s[i] # "searched"
        BY <4>1, LenProperties
      <4> QED BY <4>1, <3>2, <3>5
    <3> QED BY <3>1, <3>2, <3>3, <3>6, <2>p, <1>2
  <2>3. CASE Calling(t)
    <3>1. Current(t)' = Current(t) /\ turn[t].at = "model"
      BY <2>3, <2>p DEF Calling, Current
    <3> QED BY <3>1, <2>3, <2>p, <1>2 DEF Calling, LoopInv
  <2>4. CASE ~(Created(t) \/ Continued(t) \/ Calling(t))
    BY <2>4, <1>2 DEF Shape, Received, Counting, Finished, Answered, NewRun, Concluded
  <2> QED BY <2>1, <2>2, <2>3, <2>4
<1> QED BY <1>1, <1>2

LEMMA TurnSound ==
  ASSUME AgentInv, AgentTypeOK', NEW t \in Turns, TurnStep(t)
  PROVE  AgentInv'
<1>1. TurnTypes /\ SameOthers(t) /\ Shape(t)
  BY TurnShapes DEF AgentInv
<1>2. /\ effects' = effects /\ OtherTools(t)
      /\ tool'[t] = tool[t] \/ Begins(t) \/ TakesResult(t)
  BY TurnTools DEF AgentInv
<1>3. \A u \in Turns, r \in RunNames :
        /\ Grows(run[u][r], run'[u][r])
        /\ run[u][r] \in RunType /\ run'[u][r] \in RunType
  BY <1>1, RunsGrow DEF AgentInv, AgentTypeOK
<1>4. ToolsSound'
  <2> SUFFICES ASSUME NEW u \in Turns, tool'[u].stage # "none"
               PROVE  Sound(run'[u][tool'[u].run], tool'[u].call, tool'[u].name)
    BY DEF ToolsSound
  <2>1. CASE tool'[u] = tool[u]
    <3>1. /\ tool[u].run \in RunNames /\ tool[u].call \in Nat
          /\ Sound(run[u][tool[u].run], tool[u].call, tool[u].name)
      BY <2>1 DEF AgentInv, AgentTypeOK, ToolType, ToolsSound
    <3> QED BY <2>1, <3>1, <1>3, SoundKept
  <2>2. CASE u = t /\ Begins(t)
    <3>1. turn[t].at = "model" /\ run' = run
      BY <1>1, <2>2 DEF Begins, Shape, Received, Counting, Created, Finished, Continued, Answered,
                        Calling, NewRun, Concluded
    <3>2. /\ Current(t).status # "none"
          /\ Current(t).readOnly => ExternalContext(t) /\ ~Authorises(turn[t].command)
          /\ \A i \in DOMAIN Current(t).calls : Current(t).calls[i] # "searched"
      BY <3>1 DEF AgentInv, LoopInv
    <3>3. Current(t).readOnly => Access(tool'[t].name) = "read"
      BY <3>2, <2>2 DEF Begins, AllowedTools, Access
    <3>4. tool'[t].call <= Len(Current(t).calls) + 1
      <4>1. Len(Current(t).calls) \in Nat
        <5>1. turn[t].run \in RunNames /\ run \in [Turns -> [RunNames -> RunType]]
          BY DEF AgentInv, AgentTypeOK, TurnType
        <5>2. Current(t) \in RunType
          BY <5>1 DEF Current
        <5>3. Current(t).calls \in Seq(CallStatuses)
          BY <5>2 DEF RunType
        <5> QED BY <5>3, LenProperties
      <4> QED BY <4>1, <2>2 DEF Begins
    <3>5. Sound(Current(t), tool'[t].call, tool'[t].name)
      BY <3>2, <3>3, <3>4 DEF Sound
    <3> QED BY <3>1, <3>5, <2>2 DEF Begins, Current
  <2>3. CASE u = t /\ TakesResult(t)
    BY <2>3 DEF TakesResult, NoTool
  <2> QED BY <1>2, <2>1, <2>2, <2>3 DEF OtherTools
<1>5. EffectsSound'
  <2> SUFFICES ASSUME NEW e \in effects
               PROVE  Sound(run'[e.turn][e.run], e.call, e.name) /\ (e.kind = "remote" => e.owner)
    BY <1>2 DEF EffectsSound
  <2>1. e.turn \in Turns /\ e.run \in RunNames /\ e.call \in Nat
    BY DEF AgentInv, AgentTypeOK, EffectType
  <2>2. Sound(run[e.turn][e.run], e.call, e.name) /\ (e.kind = "remote" => e.owner)
    BY DEF AgentInv, EffectsSound
  <2> QED BY <2>1, <2>2, <1>3, SoundKept
<1>6. FreshInv' /\ LoopInv'
  BY <1>1, FreshStep, LoopStep DEF AgentInv
<1> QED BY <1>4, <1>5, <1>6 DEF AgentInv

LEMMA ToolSound ==
  ASSUME AgentInv, AgentTypeOK', NEW t \in Turns, ToolStep(t), UNCHANGED <<turn, run>>
  PROVE  AgentInv'
<1>1. /\ GoesOn(t) /\ OtherTools(t)
      /\ \A e \in effects' : e \in effects \/ MadeBy(e, t)
  BY ToolShapes DEF AgentInv
<1>2. ToolsSound'
  BY <1>1 DEF AgentInv, ToolsSound, GoesOn, OtherTools
<1>3. EffectsSound'
  <2> SUFFICES ASSUME NEW e \in effects'
               PROVE  Sound(run[e.turn][e.run], e.call, e.name) /\ (e.kind = "remote" => e.owner)
    BY DEF EffectsSound
  <2>1. CASE e \in effects
    BY <2>1 DEF AgentInv, EffectsSound
  <2>2. CASE MadeBy(e, t)
    BY <2>2, <1>1 DEF MadeBy, GoesOn, AgentInv, ToolsSound
  <2> QED BY <1>1, <2>1, <2>2
<1>4. FreshInv' /\ LoopInv'
  BY DEF AgentInv, FreshInv, LoopInv, Current, ExternalContext
<1> QED BY <1>2, <1>3, <1>4 DEF AgentInv

LEMMA AgentStep == ASSUME AgentInv, [Next]_vars PROVE AgentInv'
<1>1. CASE UNCHANGED <<turn, run, tool, effects>>
  BY <1>1 DEF AgentInv, AgentTypeOK, FreshInv, LoopInv, ToolsSound, EffectsSound, Current,
              ExternalContext
<1>2. ASSUME NEW t \in Turns, TurnStep(t) PROVE AgentInv'
  <2>1. AgentTypeOK'
    <3>1. AgentTypeOK /\ LoopInv
      BY DEF AgentInv
    <3>2. TurnTypes
      BY <3>1, <1>2, TurnShapes
    <3>3. tool' \in [Turns -> ToolType] /\ effects' = effects
      BY <3>1, <1>2, TurnTools
    <3> QED BY <3>1, <3>2, <3>3 DEF TurnTypes, AgentTypeOK
  <2> QED BY <1>2, <2>1, TurnSound
<1>3. ASSUME NEW t \in Turns, ToolStep(t), UNCHANGED <<turn, run>> PROVE AgentInv'
  <2>1. AgentTypeOK'
    <3>1. tool' \in [Turns -> ToolType] /\ effects' \subseteq EffectType
      BY <1>3, ToolShapes DEF AgentInv
    <3> QED BY <3>1, <1>3 DEF AgentInv, AgentTypeOK
  <2> QED BY <1>3, <2>1, ToolSound
<1>4. \/ UNCHANGED <<turn, run, tool, effects>>
      \/ \E t \in Turns : TurnStep(t) \/ (ToolStep(t) /\ UNCHANGED <<turn, run>>)
  BY DEF Next, vars, toolVars, ResearchExpires
<1> QED BY <1>1, <1>2, <1>3, <1>4

LEMMA InitAgentInv == Init => AgentInv /\ CleanInv
<1> SUFFICES ASSUME Init PROVE AgentInv /\ CleanInv
  OBVIOUS
<1>1. /\ tool = [t \in Turns |-> NoTool] /\ effects = {} /\ turn = [t \in Turns |-> NoTurn]
      /\ run = [t \in Turns |-> [r \in RunNames |-> NoRun]]
  BY DEF Init, ToolsInit
<1>2. NoTool \in ToolType /\ NoTool.stage = "none"
  BY DEF NoTool, ToolType, Names, ThreadOrNone, RunNames
<1>3. NoTurn \in TurnType /\ NoTurn.at = "idle" /\ NoTurn.run = "initial"
  BY DEF NoTurn, TurnType, Commands, ThreadOrNone, RunNames
<1>4. NoRun \in RunType /\ NoRun.status = "none" /\ NoRun.calls = <<>>
  <2>1. <<>> \in Seq(CallStatuses)
    OBVIOUS
  <2> QED BY <2>1 DEF NoRun, RunType
<1>5. AgentTypeOK
  BY <1>1, <1>2, <1>3, <1>4 DEF AgentTypeOK
<1>6. FreshInv
  BY <1>1, <1>3, <1>4 DEF FreshInv, RunNames
<1>7. LoopInv /\ ToolsSound /\ EffectsSound
  BY <1>1, <1>2, <1>3 DEF LoopInv, ToolsSound, EffectsSound
<1>8. CleanInv
  BY <1>1, <1>4 DEF CleanInv, Clean
<1> QED BY <1>5, <1>6, <1>7, <1>8 DEF AgentInv

\* EvidenceGivesNoAuthority: whatever turns, threads and searches come
\* together, a call that runAgentTask lets through is one that the evidence of
\* its run allows, and it stays so while the tool outlives its run.
THEOREM NoAuthorityFromEvidence == Spec => []EvidenceGivesNoAuthority
<1>1. Init => AgentInv
  BY InitAgentInv
<1>2. AgentInv /\ [Next]_vars => AgentInv'
  BY AgentStep
<1>3. AgentInv => EvidenceGivesNoAuthority
  <2> SUFFICES ASSUME AgentInv, NEW e \in effects
               PROVE  /\ run[e.turn][e.run].readOnly => Access(e.name) = "read"
                      /\ ~Searched(e.turn, e.run, e.call)
                      /\ e.kind = "remote" => e.owner
    BY DEF EvidenceGivesNoAuthority
  <2> QED BY DEF AgentInv, EffectsSound, Sound, Searched
<1> QED BY <1>1, <1>2, <1>3, PTL DEF Spec

-----------------------------------------------------------------------------
LEMMA CleanStep ==
  ASSUME AgentInv, CleanInv, [Next]_vars
  PROVE  CleanInv'
<1> DEFINE Must(u) ==
      \/ turn[u].at \in {"idle", "counting", "creating"}
      \/ turn[u].at = "model" /\ turn[u].toolStatus = "none"
      \/ turn[u].at = "answered" /\ Untouched(u)
<1>c. \A u \in Turns : Must(u) => Clean(u)
  BY DEF CleanInv
<1> SUFFICES ASSUME NEW u \in Turns, Must(u)' PROVE Clean(u)'
  BY DEF CleanInv
<1>1. CASE UNCHANGED <<turn, run, tool, effects>>
  BY <1>1, <1>c DEF Clean, Untouched
<1>2. ASSUME NEW t \in Turns, ToolStep(t), UNCHANGED <<turn, run>> PROVE Clean(u)'
  <2>1. /\ GoesOn(t) /\ OtherTools(t)
        /\ \A e \in effects' : e \in effects \/ MadeBy(e, t)
    BY <1>2, ToolShapes DEF AgentInv
  <2>2. Clean(u)
    BY <1>2, <1>c DEF Untouched
  <2>3. u # t
    BY <2>1, <2>2 DEF Clean, GoesOn, NoTool
  <2> QED BY <2>1, <2>2, <2>3, <1>2 DEF Clean, OtherTools, MadeBy
<1>3. ASSUME NEW t \in Turns, TurnStep(t) PROVE Clean(u)'
  <2>1. SameOthers(t) /\ Shape(t)
    BY <1>3, TurnShapes DEF AgentInv
  <2>2. /\ effects' = effects /\ OtherTools(t)
        /\ tool'[t] = tool[t] \/ Begins(t) \/ TakesResult(t)
    BY <1>3, TurnTools DEF AgentInv
  <2>3. CASE u # t
    <3>1. turn'[u] = turn[u] /\ run'[u] = run[u] /\ tool'[u] = tool[u]
      BY <2>1, <2>2, <2>3 DEF SameOthers, OtherTools
    <3>2. Clean(u)
      BY <3>1, <1>c DEF Untouched
    <3> QED BY <3>1, <3>2, <2>2 DEF Clean
  <2>4. CASE u = t
    <3>1. CASE Received(t) \/ Counting(t) \/ NewRun(t)
      <4>1. Must(t) /\ run' = run /\ turn[t].at \notin {"model", "tool"}
        BY <3>1 DEF Received, Counting, NewRun
      <4>2. tool'[t] = tool[t]
        BY <4>1, <2>2 DEF Begins, TakesResult
      <4> QED BY <4>1, <4>2, <2>2, <2>4, <1>c DEF Clean
    <3>2. CASE Created(t) \/ Answered(t)
      <4>1. Clean(t) /\ turn'[t].at # "tool" /\ turn[t].at # "tool"
        BY <3>2, <2>4, <1>c DEF Created, Answered, Untouched
      <4>2. tool'[t] = tool[t]
        BY <4>1, <2>2 DEF Begins, TakesResult
      <4>3. turn[t].run \in RunNames
        BY DEF AgentInv, AgentTypeOK, TurnType
      <4>4. run'[t][turn[t].run].calls = <<>>
        <5>1. CASE Created(t)
          BY <5>1 DEF Created
        <5>2. CASE Answered(t)
          <6>1. Current(t).calls = <<>> /\ run'[t][turn[t].run].calls = Current(t).calls \o <<>>
            BY <5>2, <4>1, <4>3 DEF Answered, LongerRow, Clean, Current
          <6> QED BY <6>1
        <5> QED BY <3>2, <5>1, <5>2
      <4>5. \A r \in RunNames : run'[t][r].calls = <<>>
        BY <4>1, <4>4, <2>1 DEF SameOthers, Clean
      <4> QED BY <4>1, <4>2, <4>5, <2>2, <2>4 DEF Clean
    <3>3. CASE Finished(t) \/ Continued(t) \/ Calling(t) \/ Concluded(t)
      BY <3>3, <2>4 DEF Finished, Continued, Calling, Concluded, Untouched
    <3> QED BY <2>1, <3>1, <3>2, <3>3 DEF Shape
  <2> QED BY <2>3, <2>4
<1>4. \/ UNCHANGED <<turn, run, tool, effects>>
      \/ \E t \in Turns : TurnStep(t) \/ (ToolStep(t) /\ UNCHANGED <<turn, run>>)
  BY DEF Next, vars, toolVars, ResearchExpires
<1> QED BY <1>1, <1>2, <1>3, <1>4

\* HandoffIsClean: runOwnerTaskWithTrustedContextHandoff repeats a request only
\* while no run of it has called a tool and none is still going.
THEOREM CleanHandoffs == Spec => HandoffIsClean
<1> DEFINE Handoff ==
      \A t \in Turns : turn'[t].run \notin {"initial", turn[t].run} =>
        /\ tool[t] = NoTool
        /\ \A r \in RunNames : run[t][r].calls = <<>>
        /\ \A e \in effects : e.turn # t
<1>1. Init => AgentInv /\ CleanInv
  BY InitAgentInv
<1>2. AgentInv /\ CleanInv /\ [Next]_vars => AgentInv' /\ CleanInv'
  BY AgentStep, CleanStep
<1>3. AgentInv /\ CleanInv /\ [Next]_vars => [Handoff]_vars
  <2> SUFFICES ASSUME AgentInv, CleanInv, [Next]_vars, NEW u \in Turns,
                      turn'[u].run \notin {"initial", turn[u].run}
               PROVE  Clean(u)
    BY DEF Clean
  <2>1. PICK t \in Turns : TurnStep(t)
    BY DEF Next, vars, toolVars, ResearchExpires
  <2>2. SameOthers(t) /\ Shape(t)
    BY <2>1, TurnShapes DEF AgentInv
  <2>3. u = t /\ NewRun(t)
    BY <2>2 DEF SameOthers, Shape, Received, Counting, Created, Finished, Continued, Answered,
                Calling, Concluded, SamePrompt
  <2> QED BY <2>3 DEF NewRun, CleanInv
<1> QED BY <1>1, <1>2, <1>3, PTL DEF Spec, HandoffIsClean

-----------------------------------------------------------------------------
(***************************************************************************)
(* The budgets                                                             *)
(***************************************************************************)
\* Turns that have begun.
Busy == {t \in Turns : turn[t].at # "idle"}
\* Runs, and turns whose check let a run in that has no row yet.
Rows == {row \in Turns \X RunNames : run[row[1]][row[2]].status # "none"}
Creating == {t \in Turns : turn[t].at = "creating"}
\* Tools whose check let a message in that is not written yet.
Promises(t) == tool[t].stage \in {"counted", "gated", "noticing"}
Promising == {t \in Turns : Promises(t)}

\* A counted run or message takes its place at once; what it saw left of the
\* budget may be seen by each other turn that has begun as well.
BudgetInv ==
  /\ earlier \in 0..MaxRuns /\ proactive \in Nat
  /\ \A t \in Turns : turn[t].at = "tool" => Len(Current(t).calls) < MaxToolCalls
  /\ \A t \in Turns, r \in RunNames : Performed(t, r) <= MaxToolCalls
  /\ \A t \in Turns : tool[t].stage # "none" => t \in Busy
  /\ Busy = {} => proactive = 0
  /\ Busy # {} =>
       /\ RunsInWindow + Cardinality(Creating) < MaxRuns + Cardinality(Busy)
       /\ proactive + Cardinality(Promising) < MaxMessages + Cardinality(Busy)

\* A set of which one member at most comes or goes.
LEMMA Recount ==
  ASSUME NEW S, IsFiniteSet(S), NEW P \in SUBSET S, NEW Q \in SUBSET S, NEW x,
         P \ {x} = Q \ {x}
  PROVE  /\ Cardinality(P) \in Nat /\ Cardinality(Q) \in Nat
         /\ (x \in P <=> x \in Q) => Cardinality(Q) = Cardinality(P)
         /\ x \in Q /\ x \notin P => Cardinality(Q) = Cardinality(P) + 1
         /\ x \in P /\ x \notin Q => Cardinality(P) = Cardinality(Q) + 1
<1>1. IsFiniteSet(P) /\ IsFiniteSet(Q)
  BY FS_Subset
<1>2. Cardinality(P) \in Nat /\ Cardinality(Q) \in Nat
  BY <1>1, FS_CardinalityType
<1>3. CASE x \in P <=> x \in Q
  <2>1. P = Q
    BY <1>3
  <2> QED BY <2>1, <1>2, <1>3
<1>4. CASE x \in Q /\ x \notin P
  <2>1. Q = P \cup {x}
    BY <1>4
  <2>2. Cardinality(Q) = Cardinality(P) + 1
    BY <2>1, <1>1, <1>4, FS_AddElement
  <2> QED BY <2>2, <1>2, <1>4
<1>5. CASE x \in P /\ x \notin Q
  <2>1. P = Q \cup {x}
    BY <1>5
  <2>2. Cardinality(P) = Cardinality(Q) + 1
    BY <2>1, <1>1, <1>5, FS_AddElement
  <2> QED BY <2>2, <1>2, <1>5
<1> QED BY <1>3, <1>4, <1>5

\* The calls of a run that were made.
Made(calls) == {i \in DOMAIN calls : calls[i] # "rejected"}

LEMMA MadeCalls ==
  ASSUME NEW calls \in Seq(CallStatuses)
  PROVE  /\ Cardinality(Made(calls)) \in Nat /\ Len(calls) \in Nat
         /\ Cardinality(Made(calls)) <= Len(calls)
<1>1. DOMAIN calls = 1 .. Len(calls) /\ Len(calls) \in Nat
  BY LenProperties
<1>2. IsFiniteSet(1 .. Len(calls)) /\ Cardinality(1 .. Len(calls)) = Len(calls)
  BY <1>1, FS_Interval
<1>3. Made(calls) \subseteq 1 .. Len(calls)
  BY <1>1 DEF Made
<1>4. /\ IsFiniteSet(Made(calls))
      /\ Cardinality(Made(calls)) <= Cardinality(1 .. Len(calls))
  BY <1>2, <1>3, FS_Subset
<1> QED BY <1>1, <1>2, <1>4, FS_CardinalityType

LEMMA MadeByRecord ==
  ASSUME NEW calls \in Seq(CallStatuses), NEW status \in CallStatuses
  PROVE  /\ Cardinality(Made(calls \o <<status>>)) <= Cardinality(Made(calls)) + 1
         /\ status = "rejected" => Cardinality(Made(calls \o <<status>>)) = Cardinality(Made(calls))
<1> DEFINE n == Len(calls) + 1
           more == calls \o <<status>>
<1>1. /\ Len(calls) \in Nat /\ DOMAIN calls = 1 .. Len(calls)
      /\ more \in Seq(CallStatuses) /\ Len(more) = n
      /\ \A i \in 1 .. Len(calls) : more[i] = calls[i]
      /\ more[n] = status
  <2>1. <<status>> \in Seq(CallStatuses) /\ Len(<<status>>) = 1 /\ <<status>>[1] = status
    OBVIOUS
  <2> QED BY <2>1, LenProperties, ConcatProperties
<1>2. DOMAIN more = 1 .. n
  BY <1>1, LenProperties
<1> HIDE DEF more
<1>3. Made(more) \ {n} = Made(calls) \ {n}
  BY <1>1, <1>2 DEF Made
<1>4. Made(calls) \in SUBSET (1 .. n) /\ Made(more) \in SUBSET (1 .. n) /\ n \notin Made(calls)
  BY <1>1, <1>2 DEF Made
<1>5. IsFiniteSet(1 .. n)
  BY <1>1, FS_Interval
<1>6. status = "rejected" => n \notin Made(more)
  BY <1>1 DEF Made
<1>7. /\ Cardinality(Made(calls)) \in Nat /\ Cardinality(Made(more)) \in Nat
      /\ n \notin Made(more) => Cardinality(Made(more)) = Cardinality(Made(calls))
      /\ n \in Made(more) => Cardinality(Made(more)) = Cardinality(Made(calls)) + 1
  <2> DEFINE S == 1 .. n
             P == Made(calls)
             Q == Made(more)
  <2>1. IsFiniteSet(S) /\ P \in SUBSET S /\ Q \in SUBSET S /\ P \ {n} = Q \ {n} /\ n \notin P
    BY <1>3, <1>4, <1>5
  <2> HIDE DEF n, S, P, Q
  <2>2. /\ Cardinality(P) \in Nat /\ Cardinality(Q) \in Nat
        /\ (n \in P <=> n \in Q) => Cardinality(Q) = Cardinality(P)
        /\ n \in Q /\ n \notin P => Cardinality(Q) = Cardinality(P) + 1
    BY <2>1, Recount
  <2> QED BY <2>1, <2>2 DEF P, Q
<1>8. /\ Cardinality(Made(more)) <= Cardinality(Made(calls)) + 1
      /\ status = "rejected" => Cardinality(Made(more)) = Cardinality(Made(calls))
  <2> HIDE DEF n
  <2> QED BY <1>6, <1>7
<1> QED BY <1>8 DEF more

\* The counting parts of BudgetInv, one at a time.
CallsWithin ==
  /\ \A t \in Turns : turn[t].at = "tool" => Len(Current(t).calls) < MaxToolCalls
  /\ \A t \in Turns, r \in RunNames : Performed(t, r) <= MaxToolCalls
RunsWithin ==
  Busy # {} => RunsInWindow + Cardinality(Creating) < MaxRuns + Cardinality(Busy)
MessagesWithin ==
  /\ \A t \in Turns : tool[t].stage # "none" => t \in Busy
  /\ Busy = {} => proactive = 0
  /\ Busy # {} => proactive + Cardinality(Promising) < MaxMessages + Cardinality(Busy)

LEMMA CallsStep ==
  ASSUME AgentTypeOK, CallsWithin, NEW t \in Turns, SameOthers(t), Shape(t), TurnTypes
  PROVE  CallsWithin'
<1>t. /\ run \in [Turns -> [RunNames -> RunType]] /\ turn[t].run \in RunNames
      /\ run' \in [Turns -> [RunNames -> RunType]]
      /\ Current(t) \in RunType /\ Current(t).calls \in Seq(CallStatuses)
  BY DEF AgentTypeOK, TurnType, Current, RunType, TurnTypes
<1>p. \A u \in Turns, r \in RunNames :
        Performed(u, r) = Cardinality(Made(run[u][r].calls))
  BY DEF Performed, Made
<1>q. \A u \in Turns, r \in RunNames :
        Performed(u, r)' = Cardinality(Made(run'[u][r].calls))
  BY DEF Performed, Made
<1>1. turn'[t].at = "tool" => Len(Current(t)'.calls) < MaxToolCalls
  <2>1. CASE Calling(t)
    <3>1. Current(t)' = Current(t) /\ ~OverBudget(t)
      BY <2>1 DEF Calling, SamePrompt, Current
    <3>2. Len(Current(t).calls) \in Nat /\ MaxToolCalls \in Nat
      BY <1>t, LenProperties, RunAssumption
    <3> QED BY <3>1, <3>2 DEF OverBudget
  <2>2. CASE ~Calling(t)
    BY <2>2 DEF Shape, Received, Counting, Created, Finished, Continued, Answered, NewRun, Concluded
  <2> QED BY <2>1, <2>2
\* Of the current run.
<1>2. Cardinality(Made(run'[t][turn[t].run].calls)) <= MaxToolCalls
  <2> DEFINE calls == Current(t).calls
             made == Cardinality(Made(calls))
  <2>1. /\ made \in Nat /\ Len(calls) \in Nat /\ made <= Len(calls) /\ MaxToolCalls \in Nat
    BY <1>t, MadeCalls, RunAssumption
  <2>2. made <= MaxToolCalls /\ (turn[t].at = "tool" => Len(calls) < MaxToolCalls)
    BY <1>t, <1>p DEF CallsWithin, Current
  <2>3. ASSUME NEW rows \in Seq(CallStatuses), LongerRow(t, rows), Recorded(t, rows)
        PROVE  Cardinality(Made(run'[t][turn[t].run].calls)) <= MaxToolCalls
    <3>1. run'[t][turn[t].run].calls = calls \o rows
      BY <2>3 DEF LongerRow
    <3>2. CASE rows = <<>>
      <4>1. calls \o rows = calls
        BY <3>2, <1>t
      <4> QED BY <3>1, <4>1, <2>2
    <3>3. CASE rows = <<"rejected">>
      <4>1. Cardinality(Made(calls \o <<"rejected">>)) = made
        BY <1>t, MadeByRecord DEF CallStatuses
      <4> QED BY <3>1, <3>3, <4>1, <2>2
    <3>4. CASE turn[t].at = "tool" /\ \E status \in CallStatuses : rows = <<status>>
      <4>1. PICK status \in CallStatuses : rows = <<status>>
        BY <3>4
      <4>2. Cardinality(Made(calls \o <<status>>)) <= made + 1
        BY <1>t, MadeByRecord
      <4> DEFINE after == Cardinality(Made(calls \o <<status>>))
      <4>3. after \in Nat
        <5>1. <<status>> \in Seq(CallStatuses)
          OBVIOUS
        <5>2. calls \o <<status>> \in Seq(CallStatuses)
          BY <1>t, <5>1, ConcatProperties
        <5> QED BY <5>2, MadeCalls
      <4>4. after <= MaxToolCalls
        <5> HIDE DEF after, made
        <5> QED BY <4>2, <4>3, <2>1, <2>2, <3>4 DEF after
      <4> QED BY <3>1, <4>1, <4>4
    <3> QED BY <2>3, <3>2, <3>3, <3>4 DEF Recorded
  <2>4. CASE run' = run
    BY <2>4, <2>2 DEF Current
  <2>5. CASE Created(t)
    <3>1. Made(run'[t][turn[t].run].calls) = {}
      BY <2>5 DEF Created, Made
    <3> QED BY <3>1, <2>1, FS_EmptySet
  <2>6. CASE Finished(t)
    BY <2>6, <2>3 DEF Finished
  <2>7. CASE Continued(t)
    <3>1. Seq(CallStatuses \ {"searched"}) \subseteq Seq(CallStatuses)
      BY SeqMonotonic
    <3> QED BY <2>7, <3>1, <2>3 DEF Continued
  <2>8. CASE Answered(t)
    <3>1. <<>> \in Seq(CallStatuses) /\ Recorded(t, <<>>)
      BY DEF Recorded
    <3> QED BY <2>8, <3>1, <2>3 DEF Answered
  <2> QED BY <2>4, <2>5, <2>6, <2>7, <2>8
          DEF Shape, Received, Counting, Calling, NewRun, Concluded
<1>3. ASSUME NEW u \in Turns, NEW r \in RunNames PROVE Performed(u, r)' <= MaxToolCalls
  <2>1. CASE u = t /\ r = turn[t].run
    BY <2>1, <1>2, <1>q
  <2>2. CASE ~(u = t /\ r = turn[t].run)
    <3>1. run'[u][r] = run[u][r]
      BY <2>2 DEF SameOthers
    <3> QED BY <3>1, <1>p, <1>q DEF CallsWithin
  <2> QED BY <2>1, <2>2
<1>4. ASSUME NEW u \in Turns, u # t, turn'[u].at = "tool"
      PROVE  Len(Current(u)'.calls) < MaxToolCalls
  BY <1>4 DEF SameOthers, Current, CallsWithin
<1> QED BY <1>1, <1>3, <1>4 DEF CallsWithin

\* How the sets that RunsWithin counts change with a turn's step.
LEMMA BusyStep ==
  ASSUME AgentTypeOK, NEW t \in Turns, SameOthers(t), Shape(t)
  PROVE  Busy' = Busy \cup {t} /\ (Received(t) \/ t \in Busy)
  BY DEF Busy, SameOthers, Shape, Received, Counting, Created, Finished, Continued, Answered,
         Calling, NewRun, Concluded

LEMMA RunsStep ==
  ASSUME AgentInv, RunsWithin, earlier \in 0..MaxRuns, earlier' = earlier,
         NEW t \in Turns, SameOthers(t), Shape(t)
  PROVE  RunsWithin'
<1> DEFINE row == <<t, turn[t].run>>
<1>t. /\ run \in [Turns -> [RunNames -> RunType]] /\ turn[t].run \in RunNames
      /\ AgentTypeOK /\ row \in Turns \X RunNames
      /\ MaxRuns \in Nat
  BY RunAssumption DEF AgentInv, AgentTypeOK, TurnType
<1>f. IsFiniteSet(Turns) /\ IsFiniteSet(Turns \X RunNames)
  <2>1. IsFiniteSet(RunNames)
    <3>1. IsFiniteSet({}) /\ RunNames = (({} \cup {"initial"}) \cup {"resumed"}) \cup {"forced"}
      BY FS_EmptySet DEF RunNames
    <3> QED BY <3>1, FS_AddElement
  <2> QED BY <2>1, ToolsAssumption, FS_Product
<1>b. Busy' = Busy \cup {t} /\ (Received(t) \/ t \in Busy)
  BY <1>t, BusyStep
\* The sets, and their sizes.
<1>r. /\ Rows \in SUBSET (Turns \X RunNames) /\ Rows' \in SUBSET (Turns \X RunNames)
      /\ Rows \ {row} = Rows' \ {row}
  <2>1. \A u \in Turns, r \in RunNames : <<u, r>> # row => run'[u][r] = run[u][r]
    BY DEF SameOthers
  <2>2. \A x \in Turns \X RunNames : x # row => run'[x[1]][x[2]] = run[x[1]][x[2]]
    BY <2>1
  <2> HIDE DEF row
  <2> QED BY <2>2 DEF Rows
<1>c. /\ Creating \in SUBSET Turns /\ Creating' \in SUBSET Turns
      /\ Creating \ {t} = Creating' \ {t}
  BY DEF Creating, SameOthers
<1>n. /\ row \in Rows <=> Current(t).status # "none"
      /\ row \in Rows' <=> run'[t][turn[t].run].status # "none"
  BY <1>t DEF Rows, Current
<1>w. RunsInWindow = earlier + Cardinality(Rows) /\ RunsInWindow' = earlier + Cardinality(Rows')
  BY DEF RunsInWindow, Rows
<1> HIDE DEF row
<1> DEFINE rows == Cardinality(Rows)
           rows1 == Cardinality(Rows')
           creating == Cardinality(Creating)
           creating1 == Cardinality(Creating')
           busy == Cardinality(Busy)
           busy1 == Cardinality(Busy')
<1>1. /\ rows \in Nat /\ rows1 \in Nat
      /\ (row \in Rows <=> row \in Rows') => rows1 = rows
      /\ row \in Rows' /\ row \notin Rows => rows1 = rows + 1
  <2> DEFINE P == Rows
             Q == Rows'
             S == Turns \X RunNames
  <2>1. IsFiniteSet(S) /\ P \in SUBSET S /\ Q \in SUBSET S /\ P \ {row} = Q \ {row}
    BY <1>f, <1>r
  <2> HIDE DEF P, Q, S
  <2>2. /\ Cardinality(P) \in Nat /\ Cardinality(Q) \in Nat
        /\ (row \in P <=> row \in Q) => Cardinality(Q) = Cardinality(P)
        /\ row \in Q /\ row \notin P => Cardinality(Q) = Cardinality(P) + 1
    BY <2>1, Recount
  <2> QED BY <2>2 DEF P, Q
<1>2. /\ creating \in Nat /\ creating1 \in Nat
      /\ (t \in Creating <=> t \in Creating') => creating1 = creating
      /\ t \in Creating /\ t \notin Creating' => creating = creating1 + 1
  <2> DEFINE P == Creating
             Q == Creating'
  <2>1. IsFiniteSet(Turns) /\ P \in SUBSET Turns /\ Q \in SUBSET Turns /\ P \ {t} = Q \ {t}
    BY <1>f, <1>c
  <2> HIDE DEF P, Q
  <2>2. /\ Cardinality(P) \in Nat /\ Cardinality(Q) \in Nat
        /\ (t \in P <=> t \in Q) => Cardinality(Q) = Cardinality(P)
        /\ t \in P /\ t \notin Q => Cardinality(P) = Cardinality(Q) + 1
    BY <2>1, Recount
  <2> QED BY <2>2 DEF P, Q
<1>3. /\ busy \in Nat /\ busy1 \in Nat /\ busy1 >= busy
      /\ t \notin Busy => busy1 = busy + 1
      /\ t \in Busy => busy1 = busy
      /\ creating1 <= busy1
      /\ Busy = {} => busy = 0
  <2>1. Busy \in SUBSET Turns /\ IsFiniteSet(Busy)
    BY <1>f, FS_Subset DEF Busy
  <2>2. IsFiniteSet(Busy') /\ busy \in Nat /\ busy1 \in Nat
    BY <2>1, <1>b, FS_AddElement, FS_CardinalityType
  <2>3. t \notin Busy => busy1 = busy + 1
    BY <2>1, <1>b, FS_AddElement
  <2>4. t \in Busy => busy1 = busy
    <3>1. t \in Busy => Busy' = Busy
      BY <1>b
    <3> QED BY <3>1
  <2>5. Creating' \subseteq Busy'
    BY DEF Creating, Busy
  <2>6. creating1 <= busy1
    BY <2>2, <2>5, FS_Subset
  <2>7. Busy = {} => busy = 0
    BY FS_EmptySet
  <2>8. busy1 >= busy
    <3> HIDE DEF busy, busy1
    <3> QED BY <2>2, <2>3, <2>4
  <2> QED BY <2>2, <2>3, <2>4, <2>6, <2>7, <2>8
<1>4. t \in Busy'
  BY <1>b
<1>5. Busy # {} => earlier + rows + creating < MaxRuns + busy
  BY <1>w DEF RunsWithin
<1> SUFFICES earlier + rows1 + creating1 < MaxRuns + busy1
  BY <1>w DEF RunsWithin
<1> HIDE DEF rows, rows1, creating, creating1, busy, busy1
<1>6. CASE Received(t)
  <2>1. /\ t \notin Creating /\ t \notin Creating' /\ t \notin Busy
        /\ row \in Rows <=> row \in Rows'
    BY <1>6, <1>n DEF Received, Creating, Busy, Current
  <2>2. rows1 = rows /\ creating1 = creating /\ busy1 = busy + 1
    BY <2>1, <1>1, <1>2, <1>3
  <2>3. CASE Busy = {}
    <3>1. Rows = {} /\ Creating = {}
      <4>1. \A u \in Turns : turn[u].at = "idle"
        BY <2>3 DEF Busy
      <4>2. \A u \in Turns, r \in RunNames : run[u][r].status = "none"
        BY <4>1 DEF AgentInv, FreshInv, RunNames
      <4> QED BY <4>1, <4>2 DEF Rows, Creating
    <3>2. rows = 0 /\ creating = 0
      BY <3>1, FS_EmptySet DEF rows, creating
    <3> QED BY <2>2, <2>3, <3>2, <1>3, <1>t
  <2>4. CASE Busy # {}
    BY <2>2, <2>4, <1>1, <1>2, <1>3, <1>5, <1>t
  <2> QED BY <2>3, <2>4
<1>7. CASE ~Received(t)
  <2>0. t \in Busy /\ Busy # {} /\ busy1 = busy
    BY <1>7, <1>b, <1>3
  <2>1. CASE Counting(t) /\ turn'[t].at = "creating"
    <3>1. earlier + rows < MaxRuns /\ (row \in Rows <=> row \in Rows')
      BY <2>1, <1>n, <1>w DEF Counting, Current, rows
    <3> QED BY <3>1, <1>1, <1>2, <1>3, <1>t
  <2>2. CASE Created(t)
    <3>1. /\ t \in Creating /\ t \notin Creating'
          /\ row \in Rows' /\ row \notin Rows
      BY <2>2, <1>n DEF Created, Creating, AgentInv, FreshInv, Current
    <3>2. rows1 = rows + 1 /\ creating = creating1 + 1
      BY <3>1, <1>1, <1>2
    <3> QED BY <3>2, <2>0, <1>1, <1>2, <1>3, <1>5, <1>t
  <2>3. CASE ~Created(t) /\ ~(Counting(t) /\ turn'[t].at = "creating")
    <3>1. t \notin Creating /\ t \notin Creating'
      BY <2>3, <1>7
         DEF Creating, Shape, Counting, Finished, Continued, Answered, Calling, NewRun, Concluded
    <3>2. row \in Rows <=> row \in Rows'
      <4>1. turn[t].at \in {"model", "tool"} => Current(t).status # "none"
        BY DEF AgentInv, LoopInv
      <4>2. run' = run \/ (Current(t).status # "none" /\ run'[t][turn[t].run].status # "none")
        BY <2>3, <1>7, <4>1
           DEF Shape, Counting, Finished, Continued, Answered, Calling, NewRun, Concluded, LongerRow
      <4> QED BY <4>2, <1>n DEF Current
    <3>3. rows1 = rows /\ creating1 = creating
      BY <3>1, <3>2, <1>1, <1>2
    <3> QED BY <3>3, <2>0, <1>5
  <2> QED BY <2>1, <2>2, <2>3
<1> QED BY <1>6, <1>7

\* A message is written where one was let in, and let in only while the
\* messages of the day were fewer than the budget.
Budgeted(t) ==
  \/ proactive' = proactive /\ (Promises(t)' => Promises(t) \/ proactive < MaxMessages)
  \/ proactive' = proactive + 1 /\ Promises(t) /\ ~Promises(t)'

LEMMA ToolBudget ==
  ASSUME AgentTypeOK, NEW t \in Turns, ToolStep(t)
  PROVE  Budgeted(t)
<1>t. tool \in [Turns -> ToolType] /\ tool[t] \in ToolType
  BY DEF AgentTypeOK
<1>s. ASSUME NEW stage, Stage(t, stage) PROVE tool'[t].stage = stage
  BY <1>s, <1>t DEF Stage, ToolType
<1>r. ASSUME NEW executed, Return(t, executed) PROVE tool'[t].stage = "done"
  BY <1>r, <1>t DEF Return, ToolType
<1>1. CASE BreakOff(t)
  BY <1>1, <1>s DEF BreakOff, Throw, Budgeted, Promises
<1>2. CASE ReadHere(t) \/ ReadThere(t) \/ WriteHere(t) \/ Search(t) \/ CallApp(t)
           \/ RefuseApp(t) \/ AskApproval(t) \/ NoDestination(t) \/ AnswerOwner(t)
  <2>1. /\ proactive' = proactive
        /\ \/ \E executed \in BOOLEAN : Return(t, executed)
           \/ Stage(t, "failed") \/ Stage(t, "asked")
    BY <1>2 DEF ReadHere, ReadThere, WriteHere, Search, CallApp, ReachApp, MissApp, RefuseApp,
                AskApproval, NoDestination, AnswerOwner, Throw
  <2>2. tool'[t].stage \in {"done", "failed", "asked"}
    BY <2>1, <1>s, <1>r
  <2> QED BY <2>1, <2>2 DEF Budgeted, Promises
<1>3. CASE CountMessage(t) \/ CountNotice(t)
  <2>1. /\ proactive' = proactive
        /\ \/ Return(t, TRUE) \/ Stage(t, "failed")
           \/ WithinMessageBudget /\ \E stage \in {"counted", "gated", "noticing"} : Stage(t, stage)
    BY <1>3 DEF CountMessage, CountNotice, CountedTo, Throw
  <2>2. tool'[t].stage \in {"done", "failed"} \/ proactive < MaxMessages
    BY <2>1, <1>s, <1>r DEF WithinMessageBudget
  <2> QED BY <2>1, <2>2 DEF Budgeted, Promises
<1>4. CASE QueueMessage(t)
  BY <1>4, <1>r DEF QueueMessage, Budgeted, Promises
<1>5. CASE GateMessage(t)
  BY <1>5, <1>s DEF GateMessage, Budgeted, Promises
<1> QED BY <1>1, <1>2, <1>3, <1>4, <1>5 DEF ToolStep

\* The messages and the promises of one step, in a set of busy turns that may
\* have gained one.
LEMMA MessagesCount ==
  ASSUME NEW t \in Turns, proactive \in Nat, OtherTools(t), Budgeted(t),
         Busy' \in {Busy, Busy \cup {t}}, Busy' # {}, Promising \subseteq Busy,
         Promising' \subseteq Busy', Busy = {} => proactive = 0,
         Busy # {} => proactive + Cardinality(Promising) < MaxMessages + Cardinality(Busy)
  PROVE  proactive' + Cardinality(Promising') < MaxMessages + Cardinality(Busy')
<1> DEFINE promises == Cardinality(Promising)
           promises1 == Cardinality(Promising')
           busy == Cardinality(Busy)
           busy1 == Cardinality(Busy')
<1>f. IsFiniteSet(Turns) /\ MaxMessages \in Nat \ {0}
  BY ToolsAssumption
<1>1. /\ promises \in Nat /\ promises1 \in Nat
      /\ (t \in Promising <=> t \in Promising') => promises1 = promises
      /\ t \in Promising' /\ t \notin Promising => promises1 = promises + 1
      /\ t \in Promising /\ t \notin Promising' => promises = promises1 + 1
  <2> DEFINE P == Promising
             Q == Promising'
  <2>1. P \in SUBSET Turns /\ Q \in SUBSET Turns /\ P \ {t} = Q \ {t}
    BY DEF Promising, Promises, OtherTools
  <2> HIDE DEF P, Q
  <2>2. /\ Cardinality(P) \in Nat /\ Cardinality(Q) \in Nat
        /\ (t \in P <=> t \in Q) => Cardinality(Q) = Cardinality(P)
        /\ t \in Q /\ t \notin P => Cardinality(Q) = Cardinality(P) + 1
        /\ t \in P /\ t \notin Q => Cardinality(P) = Cardinality(Q) + 1
    BY <1>f, <2>1, Recount
  <2> QED BY <2>2 DEF P, Q
<1>2. /\ busy \in Nat /\ busy1 \in Nat /\ busy1 >= 1 /\ busy1 >= busy
      /\ promises <= busy /\ promises1 <= busy1
      /\ Busy = {} => busy = 0
  <2>1. Busy \in SUBSET Turns /\ Busy' \in SUBSET Turns
    BY DEF Busy
  <2>2. IsFiniteSet(Busy) /\ IsFiniteSet(Busy')
    BY <2>1, <1>f, FS_Subset
  <2>3. busy \in Nat /\ busy1 \in Nat /\ (busy1 = 0 <=> Busy' = {}) /\ (Busy = {} => busy = 0)
    BY <2>2, FS_CardinalityType, FS_EmptySet
  <2>4. busy1 >= busy
    <3>1. Busy \subseteq Busy'
      OBVIOUS
    <3>2. busy <= busy1
      BY <3>1, <2>2, FS_Subset
    <3> HIDE DEF busy, busy1
    <3> QED BY <3>2, <2>3
  <2>5. promises <= busy /\ promises1 <= busy1
    BY <2>2, FS_Subset
  <2>6. busy1 >= 1
    <3> HIDE DEF busy, busy1
    <3> QED BY <2>3
  <2> QED BY <2>3, <2>4, <2>5, <2>6
<1>3. Busy # {} => proactive + promises < MaxMessages + busy
  OBVIOUS
<1>4. t \in Promising <=> Promises(t)
  BY DEF Promising
<1>5. t \in Promising' <=> Promises(t)'
  BY DEF Promising
<1> SUFFICES proactive' + promises1 < MaxMessages + busy1
  OBVIOUS
<1> HIDE DEF promises, promises1, busy, busy1
<1>6. CASE proactive' = proactive /\ (Promises(t)' => Promises(t) \/ proactive < MaxMessages)
  <2>1. CASE promises1 <= promises
    <3>1. CASE Busy = {}
      BY <3>1, <2>1, <1>6, <1>1, <1>2, <1>f
    <3>2. CASE Busy # {}
      BY <3>2, <2>1, <1>6, <1>1, <1>2, <1>3, <1>f
    <3> QED BY <3>1, <3>2
  <2>2. CASE ~(promises1 <= promises)
    <3>1. proactive < MaxMessages
      BY <2>2, <1>6, <1>1, <1>4, <1>5
    <3> QED BY <3>1, <1>6, <1>1, <1>2, <1>f
  <2> QED BY <2>1, <2>2
<1>7. CASE proactive' = proactive + 1 /\ Promises(t) /\ ~Promises(t)'
  <2>1. promises = promises1 + 1 /\ Busy # {}
    BY <1>7, <1>1, <1>2, <1>4, <1>5
  <2> QED BY <2>1, <1>7, <1>1, <1>2, <1>3, <1>f
<1> QED BY <1>6, <1>7 DEF Budgeted

LEMMA BudgetStep ==
  ASSUME AgentInv, BudgetInv, [Next]_vars
  PROVE  BudgetInv'
<1>t. AgentTypeOK /\ earlier \in 0..MaxRuns /\ proactive \in Nat
  BY DEF AgentInv, BudgetInv
<1>b. CallsWithin /\ RunsWithin /\ MessagesWithin
  BY DEF BudgetInv, CallsWithin, RunsWithin, MessagesWithin
<1> SUFFICES /\ earlier' \in 0..MaxRuns /\ proactive' \in Nat
             /\ CallsWithin' /\ RunsWithin' /\ MessagesWithin'
  BY DEF BudgetInv, CallsWithin, RunsWithin, MessagesWithin
<1>p. Promising \subseteq Busy
  BY <1>b DEF MessagesWithin, Promising, Promises
<1>1. CASE UNCHANGED <<turn, run, tool, proactive, earlier>>
  <2>1. CallsWithin' /\ RunsWithin'
    BY <1>1, <1>b DEF CallsWithin, RunsWithin, Current, Performed, Busy, RunsInWindow, Creating
  <2>2. MessagesWithin'
    BY <1>1, <1>b DEF MessagesWithin, Busy, Promising, Promises
  <2> QED BY <1>1, <2>1, <2>2, <1>t
<1>2. ASSUME NEW t \in Turns, TurnStep(t)
      PROVE  /\ earlier' \in 0..MaxRuns /\ proactive' \in Nat
             /\ CallsWithin' /\ RunsWithin' /\ MessagesWithin'
  <2>1. TurnTypes /\ SameOthers(t) /\ Shape(t) /\ earlier' = earlier
    BY <1>2, TurnShapes DEF AgentInv, TurnStep
  <2>2. /\ OtherTools(t) /\ proactive' = proactive
        /\ tool'[t] = tool[t] \/ Begins(t) \/ TakesResult(t)
    BY <1>2, <1>t, TurnTools
  <2>3. CallsWithin' /\ RunsWithin'
    BY <2>1, <1>b, <1>t, CallsStep, RunsStep
  <2>4. Busy' = Busy \cup {t}
    BY <2>1, <1>t, BusyStep
  <2>5. Budgeted(t)
    <3>1. Promises(t)' => Promises(t)
      <4>1. CASE Begins(t)
        BY <4>1 DEF Begins, Promises
      <4>2. CASE TakesResult(t)
        BY <4>2 DEF TakesResult, Promises, NoTool
      <4>3. CASE tool'[t] = tool[t]
        BY <4>3 DEF Promises
      <4> QED BY <2>2, <4>1, <4>2, <4>3
    <3> QED BY <3>1, <2>2 DEF Budgeted
  <2>6. \A u \in Turns : tool'[u].stage # "none" => u \in Busy'
    BY <2>2, <2>4, <1>b DEF MessagesWithin, OtherTools
  <2>7. Promising' \subseteq Busy' /\ Busy' # {}
    BY <2>4, <2>6 DEF Promising, Promises
  <2>8. proactive' + Cardinality(Promising') < MaxMessages + Cardinality(Busy')
    BY <2>2, <2>4, <2>5, <2>7, <1>b, <1>p, <1>t, MessagesCount DEF MessagesWithin
  <2> QED BY <2>1, <2>2, <2>3, <2>6, <2>7, <2>8, <1>t DEF MessagesWithin
<1>3. ASSUME NEW t \in Turns, ToolStep(t), UNCHANGED <<turn, run, earlier>>
      PROVE  /\ earlier' \in 0..MaxRuns /\ proactive' \in Nat
             /\ CallsWithin' /\ RunsWithin' /\ MessagesWithin'
  <2>1. GoesOn(t) /\ OtherTools(t) /\ Budgeted(t)
    BY <1>3, <1>t, ToolShapes, ToolBudget
  <2>2. CallsWithin' /\ RunsWithin'
    BY <1>3, <1>b DEF CallsWithin, RunsWithin, Current, Performed, Busy, RunsInWindow, Creating
  <2>3. Busy' = Busy /\ t \in Busy
    BY <1>3, <2>1, <1>b DEF Busy, MessagesWithin, GoesOn
  <2>4. \A u \in Turns : tool'[u].stage # "none" => u \in Busy'
    BY <2>1, <2>3, <1>b DEF MessagesWithin, OtherTools
  <2>5. Promising' \subseteq Busy' /\ Busy' # {}
    BY <2>3, <2>4 DEF Promising, Promises
  <2>6. proactive' + Cardinality(Promising') < MaxMessages + Cardinality(Busy')
    BY <2>1, <2>3, <2>5, <1>b, <1>p, <1>t, MessagesCount DEF MessagesWithin
  <2>7. proactive' \in Nat
    BY <2>1, <1>t DEF Budgeted
  <2> QED BY <1>3, <2>2, <2>4, <2>5, <2>6, <2>7, <1>t DEF MessagesWithin
<1>4. \/ UNCHANGED <<turn, run, tool, proactive, earlier>>
      \/ \E t \in Turns : TurnStep(t) \/ (ToolStep(t) /\ UNCHANGED <<turn, run, earlier>>)
  BY DEF Next, vars, toolVars, ResearchExpires
<1> QED BY <1>1, <1>2, <1>3, <1>4

LEMMA InitBudgetInv == Init => BudgetInv
<1> SUFFICES ASSUME Init PROVE BudgetInv
  OBVIOUS
<1>1. /\ \A t \in Turns : turn[t].at = "idle" /\ tool[t].stage = "none"
      /\ \A t \in Turns, r \in RunNames : run[t][r].calls = <<>>
      /\ proactive = 0 /\ earlier \in 0..MaxRuns
  BY DEF Init, ToolsInit, NoTurn, NoTool, NoRun
<1>2. Busy = {}
  BY <1>1 DEF Busy
<1>3. \A t \in Turns, r \in RunNames : Performed(t, r) = 0
  <2> SUFFICES ASSUME NEW t \in Turns, NEW r \in RunNames PROVE Performed(t, r) = 0
    OBVIOUS
  <2>1. {i \in DOMAIN run[t][r].calls : run[t][r].calls[i] # "rejected"} = {}
    BY <1>1
  <2> QED BY <2>1, FS_EmptySet DEF Performed
<1> QED BY <1>1, <1>2, <1>3, RunAssumption DEF BudgetInv

\* BudgetsHold: runAgentTask and assertOwnerVisibleOutboundBudget let in what
\* they counted room for, and only what other turns let in meanwhile comes on
\* top of it.
THEOREM WithinBudgets == Spec => []BudgetsHold
<1>1. Init => AgentInv /\ BudgetInv
  BY InitAgentInv, InitBudgetInv
<1>2. AgentInv /\ BudgetInv /\ [Next]_vars => AgentInv' /\ BudgetInv'
  BY AgentStep, BudgetStep
<1>3. BudgetInv => BudgetsHold
  <2> SUFFICES ASSUME BudgetInv PROVE BudgetsHold
    OBVIOUS
  <2> DEFINE busy == Cardinality(Busy)
  <2>1. {t \in Turns : ~At(t, "idle")} = Busy
    BY DEF At, Busy
  <2>2. IsFiniteSet(Busy) /\ IsFiniteSet(Creating) /\ IsFiniteSet(Promising) /\ IsFiniteSet(Rows)
    <3>1. IsFiniteSet(Turns) /\ IsFiniteSet(RunNames)
      <4>1. IsFiniteSet({}) /\ RunNames = (({} \cup {"initial"}) \cup {"resumed"}) \cup {"forced"}
        BY FS_EmptySet DEF RunNames
      <4> QED BY <4>1, ToolsAssumption, FS_AddElement
    <3>2. IsFiniteSet(Turns \X RunNames)
      BY <3>1, FS_Product
    <3> QED BY <3>1, <3>2, FS_Subset DEF Busy, Creating, Promising, Rows
  <2>3. /\ busy \in Nat /\ Cardinality(Creating) \in Nat /\ Cardinality(Promising) \in Nat
        /\ RunsInWindow \in Nat /\ proactive \in Nat /\ (busy - 1 >= 0 => Busy # {})
        /\ MaxRuns \in Nat /\ MaxMessages \in Nat
    <3>1. RunsInWindow = earlier + Cardinality(Rows) /\ earlier \in Nat
      BY RunAssumption DEF RunsInWindow, Rows, BudgetInv
    <3>2. Busy = {} => busy = 0
      BY FS_EmptySet
    <3>3. /\ busy \in Nat /\ Cardinality(Creating) \in Nat /\ Cardinality(Promising) \in Nat
          /\ Cardinality(Rows) \in Nat /\ proactive \in Nat
      BY <2>2, FS_CardinalityType DEF BudgetInv
    <3>4. RunsInWindow \in Nat
      BY <3>1, <3>3
    <3>5. busy - 1 >= 0 => Busy # {}
      <4> HIDE DEF busy
      <4> QED BY <3>2, <3>3
    <3> QED BY <3>3, <3>4, <3>5, RunAssumption, ToolsAssumption
  <2>4. /\ busy - 1 >= 0 => RunsInWindow <= MaxRuns + (busy - 1)
        /\ busy - 1 >= 0 => proactive <= MaxMessages + (busy - 1)
    <3> DEFINE creating == Cardinality(Creating)
               promising == Cardinality(Promising)
               window == RunsInWindow
    <3>1. Busy # {} => /\ window + creating < MaxRuns + busy
                       /\ proactive + promising < MaxMessages + busy
      BY DEF BudgetInv
    <3>2. creating \in Nat /\ promising \in Nat /\ window \in Nat
      BY <2>3
    <3> HIDE DEF busy, creating, promising, window
    <3> QED BY <2>3, <3>1, <3>2 DEF window
  <2>5. \A t \in Turns, r \in RunNames : Performed(t, r) <= MaxToolCalls
    BY DEF BudgetInv
  <2> QED BY <2>1, <2>4, <2>5 DEF BudgetsHold
<1> QED BY <1>1, <1>2, <1>3, PTL DEF Spec
=============================================================================
