---------------------------- MODULE ToolRegistry ----------------------------
(***************************************************************************)
(* The agent's tools as three tables of the code describe them: the access *)
(* the registry declares (tools/registry.ts), the integration action the   *)
(* executor calls for a tool (tools/toolExecutor.ts), and the access and   *)
(* approval mode of that action (integrations/capabilityRegistry.ts).      *)
(* The access decides what a turn that holds external evidence may call,   *)
(* the executor's case what happens: they are written in different files.  *)
(***************************************************************************)
EXTENDS TLC

ReadTools ==
  {"list_ongoing_tasks", "list_recent_context", "list_recent_owner_conversations",
   "list_conversation_threads", "get_recent_bot_activity", "list_app_capabilities",
   "list_goals", "list_goal_metrics", "list_goal_notifications",
   "list_note_lists", "list_note_items", "list_budget_accounts", "get_budget_account",
   "get_net_worth_history", "get_net_worth_forecast", "list_budget_transfers",
   "list_budget_contracts", "list_budget_expenses", "list_budget_investments",
   "list_budget_audit_logs", "list_memory_items", "search_memory_lists",
   "web_research", "search_development_jobs", "get_development_job"}

Access(tool) == IF tool \in ReadTools THEN "read" ELSE "write"

\* Integration actions: reads, writes, and the writes only a direct command of
\* the owner may cause.
GoalActions ==
  [read   |-> {"goals.list_goals", "goals.list_metrics", "goals.list_notifications"},
   write  |-> {"goals.create_goal", "goals.update_goal", "goals.complete_checklist_item",
               "goals.create_metric", "goals.record_metric_entry", "goals.complete_notification"},
   direct |-> {}]

NoteWrites ==
  {"notes.create_list", "notes.update_list", "notes.reorder_lists", "notes.delete_list",
   "notes.create_item", "notes.update_item", "notes.delete_item"}
NoteActions ==
  [read |-> {"notes.list_lists", "notes.list_items"}, write |-> NoteWrites, direct |-> NoteWrites]

GateActions ==
  [read |-> {}, write |-> {"apartment_gate.open_right_gate"},
   direct |-> {"apartment_gate.open_right_gate"}]

DevActions ==
  [read   |-> {"omni_dev.search_jobs", "omni_dev.get_job"},
   write  |-> {"omni_dev.create_job", "omni_dev.cancel_job",
               "omni_dev.confirm_dangerous_job", "omni_dev.respond_to_job"},
   direct |-> {"omni_dev.confirm_dangerous_job", "omni_dev.respond_to_job"}]

AccountActions ==
  [read   |-> {"budget.list_accounts", "budget.get_account", "budget.get_net_worth_history",
               "budget.get_net_worth_forecast", "budget.list_transfers"},
   write  |-> {"budget.update_account_value"},
   direct |-> {}]
PlanActions ==
  [read   |-> {"budget.list_contracts", "budget.list_expenses", "budget.list_investments",
               "budget.list_audit_logs"},
   write  |-> {"budget.create_contract", "budget.update_contract", "budget.delete_contract",
               "budget.create_expense", "budget.update_expense", "budget.delete_expense"},
   direct |-> {}]

Apps == {GoalActions, NoteActions, GateActions, DevActions, AccountActions, PlanActions}
WriteAction(a) == \E app \in Apps : a \in app.write
DirectOwnerOnly(a) == \E app \in Apps : a \in app.direct

\* The action a case of the executor calls, reading or writing.
GoalTools ==
  "list_goals" :> "goals.list_goals" @@ "create_goal" :> "goals.create_goal"
  @@ "update_goal" :> "goals.update_goal"
  @@ "complete_goal_checklist_item" :> "goals.complete_checklist_item"
  @@ "list_goal_metrics" :> "goals.list_metrics" @@ "create_goal_metric" :> "goals.create_metric"
  @@ "record_goal_metric_entry" :> "goals.record_metric_entry"
  @@ "list_goal_notifications" :> "goals.list_notifications"
  @@ "complete_goal_notification" :> "goals.complete_notification"

NoteTools ==
  "list_note_lists" :> "notes.list_lists" @@ "create_note_list" :> "notes.create_list"
  @@ "update_note_list" :> "notes.update_list" @@ "reorder_note_lists" :> "notes.reorder_lists"
  @@ "delete_note_list" :> "notes.delete_list" @@ "list_note_items" :> "notes.list_items"
  @@ "create_note_item" :> "notes.create_item" @@ "update_note_item" :> "notes.update_item"
  @@ "delete_note_item" :> "notes.delete_item"

BudgetTools ==
  "list_budget_accounts" :> "budget.list_accounts" @@ "get_budget_account" :> "budget.get_account"
  @@ "record_budget_account_value" :> "budget.update_account_value"
  @@ "get_net_worth_history" :> "budget.get_net_worth_history"
  @@ "get_net_worth_forecast" :> "budget.get_net_worth_forecast"
  @@ "list_budget_transfers" :> "budget.list_transfers"
  @@ "list_budget_contracts" :> "budget.list_contracts"
  @@ "create_budget_contract" :> "budget.create_contract"
  @@ "update_budget_contract" :> "budget.update_contract"
  @@ "delete_budget_contract" :> "budget.delete_contract"
  @@ "list_budget_expenses" :> "budget.list_expenses"
  @@ "create_budget_expense" :> "budget.create_expense"
  @@ "update_budget_expense" :> "budget.update_expense"
  @@ "delete_budget_expense" :> "budget.delete_expense"
  @@ "list_budget_investments" :> "budget.list_investments"
  @@ "list_budget_audit_logs" :> "budget.list_audit_logs"

DevTools ==
  "delegate_development_task" :> "omni_dev.create_job"
  @@ "search_development_jobs" :> "omni_dev.search_jobs"
  @@ "get_development_job" :> "omni_dev.get_job"
  @@ "cancel_development_job" :> "omni_dev.cancel_job"
  @@ "confirm_dangerous_development_job" :> "omni_dev.confirm_dangerous_job"
  @@ "respond_to_development_job" :> "omni_dev.respond_to_job"

ActionOf == GoalTools @@ NoteTools @@ BudgetTools @@ DevTools

\* The actions a call of a tool may address: integration_action names its own.
ActionsOf(tool) ==
  IF tool \in DOMAIN ActionOf THEN {ActionOf[tool]}
  ELSE IF tool = "integration_action" THEN UNION {app.read \cup app.write : app \in Apps}
  ELSE {}

\* Tools of the user's own rows: those that change nothing, record_observation
\* among them although it is declared a write, and the writes of tasks, memory
\* and threads.
ContextTools ==
  {"list_ongoing_tasks", "list_recent_context", "list_recent_owner_conversations",
   "list_conversation_threads", "get_recent_bot_activity", "list_app_capabilities",
   "list_memory_items", "search_memory_lists", "record_observation"}
TaskTools ==
  {"create_task", "append_task_prompt", "update_task_schedule", "update_task_status",
   "split_task", "create_followup_task", "mark_waiting_on", "schedule_owner_message",
   "record_schedule_rationale"}
MemoryTools ==
  {"write_memory", "write_file", "record_owner_feedback", "add_memory_list_item",
   "update_memory_list_item", "remove_memory_list_item"}
ThreadTools == {"update_conversation_thread", "link_conversation_thread"}
ClarifyTools == {"ask_owner_clarification", "request_clarification"}
MessageTools == {"propose_outbound_message"} \cup ClarifyTools
AppTools == DOMAIN ActionOf \cup {"integration_action"}

\* The files agree: a tool is declared "write" exactly if its action writes.
ASSUME RegistriesAgree ==
  \A tool \in DOMAIN ActionOf : Access(tool) = "write" <=> WriteAction(ActionOf[tool])
=============================================================================
