------------------------------ MODULE AcpUpdates ------------------------------
(***************************************************************************)
(* What the ACP server tells a client about one kernel event: a pure model *)
(* of AcpEventMapper (crates/acp/src/mapping.rs), of the plan and hidden   *)
(* call rules (plan.rs) and of the terminal and status helpers             *)
(* (terminal.rs, tool_call.rs).                                            *)
(*                                                                         *)
(* An event is a record with its name in `event` and its Turn in `turn`.   *)
(* An update is a record with its kind in `u`; a field the wire message    *)
(* omits is a field the record does not have.  Text is a sequence of       *)
(* pieces.  A Tool result is                                               *)
(*   [call, output, details, isError, cancelled]                           *)
(* where details.type names the variant of ToolResultDetails.  Titles,     *)
(* kinds, locations, directories, timing and raw input are left out.       *)
(***************************************************************************)
EXTENDS Naturals, Sequences, SequencesExt

(* The typed event itself, sent through the product's own update.          *)
ExtensionUpdate(e) == [u |-> "event", event |-> e]

StateUpdate(state) == [u |-> "state", state |-> state]

WarningNotice == [u |-> "notice"]

(* Cancellation wins over failure.                                         *)
ToolStatusOf(cancelled, isError) ==
  IF cancelled THEN "cancelled" ELSE IF isError THEN "failed" ELSE "completed"

(* A blocked shell, a non-zero exit or an exit by signal is a failure.     *)
ShellStatusOf(result) ==
  ToolStatusOf(result.cancelled,
               result.blocked \/ result.exit \in {"nonzero", "signal"})

IsTodoList(details) == details.type = "todos"

(* An approved plan or a todo list; nothing for any other details.         *)
PlanUpdateOf(details) ==
  CASE IsTodoList(details) ->
         <<[u |-> "plan", plan |-> "todos", value |-> details.value]>>
    [] details.type = "approval" /\ details.approved ->
         <<[u |-> "plan", plan |-> "approved", value |-> details.value]>>
    [] OTHER -> <<>>

(* The blocks of the result, and the patch of an edit.                     *)
ToolResultContent(result) ==
  <<result.output>> \o IF result.details.type = "edit" THEN <<"diff">> ELSE <<>>

(* The terminal with its final output and exit, then the end of its Tool.  *)
BashToolEnd(result, raw) ==
  <<[u |-> "terminal", id |-> result.call, output |-> result.output,
     exit |-> result.details.exit],
    [u |-> "tool", id |-> result.call,
     status |-> ToolStatusOf(result.cancelled, result.isError),
     content |-> <<"terminal">> \o IF result.details.saved THEN <<"path">> ELSE <<>>,
     raw |-> raw]>>

(* The end of a call that is not a shell.                                  *)
ToolEndUpdate(result, raw) ==
  [u |-> "tool", id |-> result.call,
   status |-> ToolStatusOf(result.cancelled, result.isError),
   content |-> ToolResultContent(result), raw |-> raw]

(* The prompt a prefixed shell was accepted as.                            *)
UserBashMessage(id) ==
  [u |-> "message", role |-> "user", id |-> id, text |-> <<"command">>,
   usage |-> "none", origin |-> "user_bash"]

UserBashTool(id, status, blocked) ==
  [u |-> "tool", id |-> id, content |-> <<"terminal">>, status |-> status,
   blocked |-> blocked]
-----------------------------------------------------------------------------
(* MessageEnd, by the content of the message.                              *)

(* Live, the snapshot of the thought replaces what was streamed; the calls *)
(* open their cards.                                                       *)
AssistantEndWithoutThought(m) ==
  <<[u |-> "message", role |-> "assistant", id |-> m.id, text |-> m.text,
     usage |-> m.usage, origin |-> "none"]>>
  \o [i \in DOMAIN m.calls |->
        [u |-> "tool", id |-> m.calls[i].id, status |-> "in_progress"]]

AssistantEnd(m) ==
  <<[u |-> "message", role |-> "assistant", id |-> m.id, text |-> m.text,
     usage |-> m.usage, origin |-> "none"],
    [u |-> "thought", id |-> m.id, text |-> m.reasoning]>>
  \o [i \in DOMAIN m.calls |->
        [u |-> "tool", id |-> m.calls[i].id, status |-> "in_progress"]]

(* A prompt, typed or expanded, shows what the user wrote.                 *)
UserEnd(m) ==
  <<[u |-> "message", role |-> "user", id |-> m.id, text |-> m.text,
     usage |-> "none", origin |-> "none"]>>

(* A todo list is a plan and no card; a shell closes its terminal; an      *)
(* approved plan follows the result that approved it.                      *)
ToolResultEnd(m) ==
  LET result == m.result
      raw    == [content |-> [details |-> result.details]]
  IN  CASE IsTodoList(result.details) -> PlanUpdateOf(result.details)
        [] result.details.type = "bash" -> BashToolEnd(result, raw)
        [] OTHER -> <<ToolEndUpdate(result, raw)>> \o PlanUpdateOf(result.details)

(* The saved shell: the same prompt, its card and its closed terminal.     *)
BashExecutionEnd(m) ==
  <<UserBashMessage(m.id),
    UserBashTool(m.id, ShellStatusOf(m.result), m.result.blocked),
    [u |-> "terminal", id |-> m.id, output |-> m.result.output,
     exit |-> m.result.exit]>>

(* The invocation reads as the user's, the output as the agent's.          *)
SlashCommandEndOf(m) ==
  <<[u |-> "message", id |-> m.id, text |-> m.text, usage |-> "none",
     role |-> IF m.kind = "invocation" THEN "user" ELSE "assistant",
     origin |-> "none"]>>

MessageEnd(e) ==
  LET m == e.message
  IN  CASE m.kind = "assistant"   -> AssistantEnd(m)
        [] m.kind = "user"        -> UserEnd(m)
        [] m.kind = "tool_result" -> ToolResultEnd(m)
        [] m.kind = "bash"        -> BashExecutionEnd(m)
        [] m.kind = "extension"   -> <<ExtensionUpdate(e)>>
        [] m.kind \in {"invocation", "output"} -> SlashCommandEndOf(m)
-----------------------------------------------------------------------------
(* Tools, shells, compactions and the life of an operation.                *)

(* A shell call shows a terminal from the start.                           *)
ToolExecutionStart(e) ==
  LET card == [u |-> "tool", id |-> e.call.id, status |-> "in_progress"]
  IN  IF e.call.name = "bash"
      THEN <<[u |-> "tool", id |-> e.call.id, status |-> "in_progress",
              content |-> <<"terminal">>],
             [u |-> "terminal", id |-> e.call.id]>>
      ELSE <<card>>

ToolExecutionUpdate(e) ==
  IF e.result.details.type = "bash"
  THEN <<[u |-> "terminal", id |-> e.result.call, output |-> e.result.output]>>
  ELSE <<[u |-> "tool", id |-> e.result.call, status |-> "in_progress",
          content |-> ToolResultContent(e.result),
          raw |-> [details |-> e.result.details]]>>

ToolExecutionEnd(e) ==
  LET raw == [details |-> e.result.details]
  IN  CASE e.result.details.type = "bash" -> BashToolEnd(e.result, raw)
        [] IsTodoList(e.result.details) -> <<>>
        [] OTHER -> <<ToolEndUpdate(e.result, raw)>>

(* The counters of the provider, or the event alone when none are known.   *)
UsageUpdated(e) ==
  IF e.usage = "unknown" THEN <<ExtensionUpdate(e)>>
  ELSE <<[u |-> "usage", used |-> e.usage]>>

UserBashStarted(e) ==
  <<ExtensionUpdate(e), StateUpdate("running"), UserBashMessage(e.id),
    UserBashTool(e.id, "in_progress", FALSE), [u |-> "terminal", id |-> e.id]>>

UserBashFinishedOpen(e) == <<ExtensionUpdate(e), StateUpdate("idle")>>

(* Without a result message this event closes the terminal and the card.   *)
UserBashFinished(e) ==
  <<ExtensionUpdate(e)>>
  \o (IF e.emitted THEN <<>>
      ELSE <<[u |-> "terminal", id |-> e.id, exit |-> "unknown"],
             [u |-> "tool", id |-> e.id,
              status |-> IF e.outcome = "succeeded" THEN "completed"
                         ELSE e.outcome]>>)
  \o <<StateUpdate("idle")>>

CompactionUpdate(e) ==
  <<ExtensionUpdate(e),
    [u |-> "compaction", id |-> e.id,
     status |-> IF e.event = "compaction_start" THEN "in_progress"
                ELSE e.outcome]>>

(* AcpEventMapper::updates: the ordered updates of one event.              *)
Updates(e) ==
  CASE e.event = "message_text_delta" ->
         <<[u |-> "message_chunk", id |-> e.id, text |-> e.delta]>>
    [] e.event = "message_reasoning_delta" ->
         <<[u |-> "thought_chunk", id |-> e.id, text |-> e.delta]>>
    [] e.event = "message_end"           -> MessageEnd(e)
    [] e.event = "tool_execution_start"  -> ToolExecutionStart(e)
    [] e.event = "tool_execution_update" -> ToolExecutionUpdate(e)
    [] e.event = "tool_execution_end"    -> ToolExecutionEnd(e)
    [] e.event = "usage_updated"         -> UsageUpdated(e)
    [] e.event \in {"run_start", "slash_command_start"} ->
         <<ExtensionUpdate(e), StateUpdate("running")>>
    [] e.event \in {"agent_settled", "slash_command_end"} ->
         <<ExtensionUpdate(e), StateUpdate("idle")>>
    [] e.event = "user_bash_started"     -> UserBashStarted(e)
    [] e.event = "user_bash_output"      ->
         <<[u |-> "terminal", id |-> e.id, output |-> e.output]>>
    [] e.event = "user_bash_finished"    -> UserBashFinished(e)
    [] e.event \in {"compaction_start", "compaction_end"} -> CompactionUpdate(e)
    [] e.event = "extension_handler_failed" ->
         <<ExtensionUpdate(e), WarningNotice>>
    [] e.event \in {"run_end", "turn_end", "retry_scheduled", "retry_start",
                    "retry_end"} -> <<ExtensionUpdate(e)>>
    \* not an event: the state the server publishes when a prompt failed
    [] e.event = "terminal_fallback" -> <<StateUpdate("idle")>>
-----------------------------------------------------------------------------
(* HiddenToolCalls::apply: a todo_write call has no card.                  *)

(* The calls to hide once an event has announced its own.                  *)
Announced(hidden, e) ==
  LET calls == CASE e.event = "tool_execution_start" -> {e.call}
                 [] e.event = "message_end" /\ e.message.kind = "assistant" ->
                      ToSet(e.message.calls)
                 [] OTHER -> {}
  IN  hidden \cup {c.id : c \in {d \in calls : d.name = "todo_write"}}

Visible(hidden, updates) ==
  SelectSeq(updates, LAMBDA x : ~(x.u = "tool" /\ x.id \in hidden))

(* The result message is a call's last update, so it is forgotten after.   *)
Forgotten(hidden, e) ==
  IF e.event = "message_end" /\ e.message.kind = "tool_result"
  THEN hidden \ {e.message.result.call} ELSE hidden
=============================================================================
