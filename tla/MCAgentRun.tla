----------------------------- MODULE MCAgentRun -----------------------------
(***************************************************************************)
(* An owner's turn with all its runs, or two scheduled tasks side by side. *)
(***************************************************************************)
EXTENDS AgentRun

CONSTANTS owner, task1, task2

MCTurns == {owner, task1, task2}
MCMixes == {{owner}, {task1, task2}}
MCSources == owner :> {"inbound", "web"} @@ task1 :> {"scheduled"} @@ task2 :> {"scheduled"}
MCReach ==
  owner :> {"web_research", "delegate_development_task", "list_goals", "propose_outbound_message"}
  @@ task1 :> {"propose_outbound_message", "create_goal", "ask_owner_clarification", "list_ongoing_tasks"}
  @@ task2 :> {"propose_outbound_message", "integration_action", "web_research"}
MCMaxRows == owner :> 3 @@ task1 :> 1 @@ task2 :> 1
=============================================================================
