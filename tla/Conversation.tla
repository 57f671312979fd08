---------------------------- MODULE Conversation ----------------------------
(***************************************************************************)
(* One Session as its user sees it: what the kernel stores and announces   *)
(* while it runs prompts, commands and shells, what the ACP server makes   *)
(* of each announcement (AcpUpdates) and what the web client shows of it   *)
(* (ClientView); and what a client that loads the Session later is shown   *)
(* from the stored log alone (session_replay, send_replay_items).          *)
(*                                                                         *)
(* Sources: crates/kernel/src/runtime/run/{turn,settlement}.rs,            *)
(* tools/batch.rs, compaction.rs, command/{execution,user_bash}.rs,        *)
(* extension/{host,diagnostics}.rs, session/replay.rs and                  *)
(* crates/acp/src/server.rs.                                               *)
(*                                                                         *)
(* A step stores and announces what one stretch of the code stores and     *)
(* announces; events reach the client in order (their delivery is the      *)
(* subject of AcpSession).  Events that no view shows (MessageStart,       *)
(* TurnStart, titles, settings, queue snapshots) are left out, and so is   *)
(* the outcome of a Run, which the view does not keep.                     *)
(***************************************************************************)
EXTENDS AcpUpdates, ClientView

CONSTANTS Tools,        \* names of the Tools the model may call
          MaxOps,       \* prompts, commands and shells
          MaxTurns,     \* Turns of all the Runs together
          MaxEvents,    \* whatever else happens: a streamed piece, a call, a
                        \* failure, a cancellation, a busy command, a reload
          MaxRetries    \* retries of one Run

VARIABLES
  pc,       \* where the operation of the Session is; "idle" without one
  run,      \* the operation: its ids and what it has decided
  log,      \* stored entries and records, in Store order
  view,     \* the client's view, from the live events
  hidden,   \* HiddenToolCalls of the live stream
  ids,      \* the next id
  left,     \* what remains of the bounds
  aside,    \* history: messages stored while another one was being shown
  broken,   \* history: Turns ended by an operational error
  orphans,  \* history: calls no Turn will run
  unsaved,  \* history: shells whose result was not announced
  abandoned \* history: Runs that ended within a retry and did not say so

history == <<aside, broken, orphans, unsaved, abandoned>>
vars == <<pc, run, log, view, hidden, ids, left, history>>

NoRun == [id |-> 0, turn |-> 0, message |-> 0, text |-> <<>>, reasoning |-> <<>>,
          calls |-> <<>>, waiting |-> {}, results |-> <<>>, saved |-> 0,
          attempt |-> "none", retries |-> 0, overflowed |-> FALSE,
          cancelled |-> FALSE, stopped |-> FALSE, resume |-> "idle"]

Init ==
  /\ pc = "idle" /\ run = NoRun /\ log = <<>> /\ view = InitialView
  /\ hidden = {} /\ ids = 1
  /\ left = [ops |-> MaxOps, turns |-> MaxTurns, events |-> MaxEvents]
  /\ aside = {} /\ broken = {} /\ orphans = {} /\ unsaved = {} /\ abandoned = {}
-----------------------------------------------------------------------------
(* Announcing and replaying.                                               *)

(* One event: mapped, stripped of hidden cards, decoded into the view.     *)
Receive(client, e) ==
  LET known   == Announced(client.hidden, e)
      updates == Visible(known, Updates(e))
  IN  [view   |-> FoldLeft(LAMBDA v, x : Decode(v, e.turn, x), client.view, updates),
       hidden |-> Forgotten(known, e)]

Publish(events) ==
  LET client == FoldLeft(Receive, [view |-> view, hidden |-> hidden], events)
  IN  view' = client.view /\ hidden' = client.hidden

(* session_replay: the messages and compactions of the branch, the Turns   *)
(* with an Assistant message on it and the ends of the Runs of those.      *)
ReplayItems(entries) ==
  LET IsAnswer(x) == x.kind = "message" /\ x.message.kind = "assistant"
      turns == {x.message.turn : x \in {y \in ToSet(entries) : IsAnswer(y)}}
      runs  == {x.run : x \in {y \in ToSet(entries) :
                                 y.kind = "turn" /\ y.turn \in turns}}
  IN  SelectSeq(entries,
        LAMBDA x : CASE x.kind = "turn" -> x.turn \in turns
                     [] x.kind = "run_end" -> x.run \in runs
                     [] OTHER -> TRUE)

(* The events send_replay_items makes of one item.                         *)
ReplayEvents(x) ==
  CASE x.kind = "message" ->
         <<[event |-> "message_end", turn |-> x.message.turn,
            message |-> x.message]>>
         \o IF x.message.kind # "assistant" THEN <<>>
            ELSE <<[event |-> "usage_updated", turn |-> x.message.turn,
                    usage |-> x.message.usage]>>
    [] x.kind = "compaction" ->
         <<[event |-> "compaction_end", turn |-> x.turn, id |-> x.id,
            outcome |-> "completed"]>>
    [] x.kind = "turn" ->
         <<[event |-> "turn_end", turn |-> x.turn, run |-> x.run]>>
    [] x.kind = "run_end" ->
         <<[event |-> "run_end", turn |-> x.turn, run |-> x.run]>>

(* What a client that loads an idle Session shows: the replay, without     *)
(* its state updates, on an empty view.                                    *)
Rebuilt(entries) ==
  LET items  == ReplayItems(entries)
      events == FlattenSeq([i \in DOMAIN items |-> ReplayEvents(items[i])])
  IN  RunningChanged(
        FoldLeft(Receive, [view |-> InitialView, hidden |-> {}], events).view,
        FALSE)
-----------------------------------------------------------------------------
(* Entries, and the messages of an operation.                              *)

Stored(message) == [kind |-> "message", message |-> message]

Ended(message) ==
  [event |-> "message_end", turn |-> message.turn, message |-> message]

Typed(id, turn, kind) ==
  [kind |-> kind, id |-> id, turn |-> turn, text |-> <<kind>>]

ExtensionMessageOf(id, turn, shown) ==
  [kind |-> "extension", id |-> id, turn |-> turn, shown |-> shown]

Event(name) == [event |-> name, turn |-> run.turn, run |-> run.id]

(* What the bounds still allow.                                            *)
SpendMany(what, n) == left[what] >= n /\ left' = [left EXCEPT ![what] = @ - n]

Spend(what) == SpendMany(what, 1)

Cost(condition) == IF condition THEN 1 ELSE 0

Moves(to) == pc' = to /\ run' = run

Quiet == UNCHANGED history

QuietRun == UNCHANGED <<aside, broken, orphans, unsaved>>
-----------------------------------------------------------------------------
(* A Run: RunScope::execute and the loop of its Turns (turn.rs).           *)

(* The prompt is admitted and the Run announced.                           *)
StartRun ==
  /\ pc = "idle" /\ Spend("ops")
  /\ pc' = "accepted"
  /\ run' = [NoRun EXCEPT !.id = ids, !.turn = ids + 1]
  /\ ids' = ids + 2
  /\ Publish(<<[event |-> "run_start", turn |-> ids + 1, run |-> ids]>>)
  /\ UNCHANGED log /\ Quiet

(* settle: the end of the Run is recorded, then announced.                 *)
EndRun(auto) ==
  /\ log' = Append(log, [kind |-> "run_end", turn |-> run.turn, run |-> run.id])
  /\ pc' = "settling"
  /\ run' = [run EXCEPT !.resume = auto]

(* A prompt cancelled before its message is stored ends the Run.           *)
InsertCancelled ==
  /\ pc \in {"accepted", "inserting"} /\ run.cancelled
  /\ EndRun("settle") /\ Publish(<<Event("run_end")>>)
  /\ UNCHANGED <<ids, left>> /\ Quiet

(* insert_user_message, then the attempt begins.                           *)
Insert ==
  LET message == Typed(ids, run.turn, "user")
  IN  /\ pc \in {"accepted", "inserting"} /\ ~run.cancelled /\ Spend("turns")
      /\ log' = Append(log, Stored(message))
      /\ Publish(<<Ended(message)>>)
      /\ pc' = "streaming"
      /\ run' = [run EXCEPT !.message = ids + 1, !.text = <<>>, !.reasoning = <<>>]
      /\ ids' = ids + 2 /\ Quiet

(* A Turn without a message of the user: after Tools, a retry, an overflow.*)
BeginTurn ==
  /\ pc = "turn" /\ Spend("turns")
  /\ pc' = "streaming"
  /\ run' = [run EXCEPT !.turn = ids, !.message = ids + 1, !.text = <<>>,
                        !.reasoning = <<>>]
  /\ ids' = ids + 2
  /\ UNCHANGED <<log, view, hidden>> /\ Quiet

(* stream_assistant: one piece of the answer or of the thought.            *)
Delta(field) ==
  LET piece == ToString(Len(run[field]))
  IN  /\ pc = "streaming" /\ Spend("events")
      /\ run' = [run EXCEPT ![field] = Append(@, piece)]
      /\ Publish(<<[event |-> IF field = "text" THEN "message_text_delta"
                              ELSE "message_reasoning_delta",
                    turn |-> run.turn, id |-> run.message, delta |-> piece]>>)
      /\ UNCHANGED <<pc, log, ids>> /\ Quiet

(* attempt.settle, settle_assistant and publish_assistant.  The final      *)
(* blocks, or a message_end hook, may correct or remove what was streamed; *)
(* only a completed attempt runs its calls.                                *)
SettleAttempt(how, text, reasoning, names, usage) ==
  LET calls   == [i \in DOMAIN names |-> [id |-> ids + i - 1, name |-> names[i]]]
      message == [kind |-> "assistant", id |-> run.message, turn |-> run.turn,
                  text |-> text, reasoning |-> reasoning, calls |-> calls,
                  usage |-> usage]
      runs    == how = "completed" /\ calls # <<>>
  IN  /\ pc = "streaming"
      /\ how = "cancelled" => run.cancelled
      /\ SpendMany("events", Len(calls) + Cost(how # "completed")
                              + Cost(text # run.text)
                              + Cost(reasoning # run.reasoning))
      /\ log' = Append(log, Stored(message))
      /\ Publish(<<Ended(message),
                   [event |-> "usage_updated", turn |-> run.turn, usage |-> usage]>>)
      /\ pc' = IF runs THEN "tools" ELSE "record"
      /\ run' = [run EXCEPT !.attempt = how, !.stopped = how = "cancelled",
                            !.calls = IF runs THEN calls ELSE <<>>,
                            !.results = <<>>, !.saved = 0]
      /\ ids' = ids + Len(calls)
      /\ orphans' = orphans \cup (IF runs THEN {} ELSE {c.id : c \in ToSet(calls)})
      /\ UNCHANGED <<aside, broken, unsaved, abandoned>>

(* The texts a final message may have: what was streamed, or another one.  *)
Finals(streamed) == {streamed, <<"final">>}

SettleSomeAttempt ==
  \E how \in {"completed", "retryable", "overflow", "fatal", "cancelled"},
     text \in Finals(run.text),
     reasoning \in {run.reasoning, <<>>},
     names \in {<<>>} \cup {<<a>> : a \in Tools} \cup {<<a, b>> : a, b \in Tools},
     usage \in {"known", "unknown"} :
       /\ (usage = "unknown") = (how \in {"retryable", "fatal", "cancelled"})
       /\ how # "completed" => text = run.text /\ reasoning = run.reasoning
       /\ SettleAttempt(how, text, reasoning, names, usage)
-----------------------------------------------------------------------------
(* Tool batches (tools/batch.rs) and the result messages (run_tools).      *)

NoDetails == [type |-> "none"]

(* What a call may come to, by its Tool.                                   *)
Outcomes(call) ==
  LET Result(details, isError) ==
        [call |-> call.id, output |-> "output", details |-> details,
         isError |-> isError, cancelled |-> isError /\ run.cancelled]
      Failure == Result(NoDetails, TRUE)
      Blocked == Result([type |-> "blocked"], TRUE)
  IN  {Failure, Blocked} \cup
      CASE call.name = "bash" ->
             {Result([type |-> "bash", exit |-> "zero", saved |-> FALSE], FALSE),
              Result([type |-> "bash", exit |-> "nonzero", saved |-> TRUE], TRUE)}
        [] call.name = "todo_write" ->
             {Result([type |-> "todos", value |-> call.id], FALSE)}
        [] call.name = "exit_plan_mode" ->
             {Result([type |-> "approval", approved |-> yes, value |-> call.id],
                     FALSE) : yes \in BOOLEAN}
        [] call.name = "edit" -> {Result([type |-> "edit"], FALSE)}

(* Every call of the batch is announced before any of them runs.           *)
StartTools ==
  /\ pc = "tools"
  /\ pc' = "running"
  /\ run' = [run EXCEPT !.waiting = DOMAIN run.calls]
  /\ Publish([i \in DOMAIN run.calls |->
                [event |-> "tool_execution_start", turn |-> run.turn,
                 call |-> run.calls[i]]])
  /\ UNCHANGED <<log, ids, left>> /\ Quiet

(* A partial result, which may be published after the call has ended.      *)
ToolUpdate(i) ==
  LET call    == run.calls[i]
      details == IF call.name = "bash"
                 THEN [type |-> "bash", exit |-> "none", saved |-> FALSE]
                 ELSE NoDetails
  IN  /\ pc = "running" /\ Spend("events")
      /\ i \notin run.waiting => run.results[i].details.type # "blocked"
      /\ Publish(<<[event |-> "tool_execution_update", turn |-> run.turn,
                    result |-> [call |-> call.id, output |-> "partial",
                                details |-> details, isError |-> FALSE,
                                cancelled |-> FALSE]]>>)
      /\ Moves(pc) /\ UNCHANGED <<log, ids>> /\ Quiet

(* A cancellation seen while calls are pending stops the Turn.             *)
ToolEnd(i, result) ==
  /\ pc = "running" /\ i \in run.waiting
  /\ run' = [run EXCEPT !.waiting = @ \ {i}, !.results = (i :> result) @@ @,
                        !.stopped = @ \/ run.cancelled]
  /\ SpendMany("events", Cost(result.details.type \in {"none", "blocked"}))
  /\ Publish(<<[event |-> "tool_execution_end", turn |-> run.turn,
                result |-> result]>>)
  /\ UNCHANGED <<pc, log, ids>> /\ Quiet

EndBatch ==
  /\ pc = "running" /\ run.waiting = {}
  /\ Moves("results")
  /\ UNCHANGED <<log, view, hidden, ids, left>> /\ Quiet

(* The result messages are stored one by one in the order of the calls; a  *)
(* message_end hook may replace one, but not its cancellation.             *)
PersistResult(replaced) ==
  LET i       == run.saved + 1
      result  == IF replaced
                 THEN [run.results[i] EXCEPT !.output = "replaced",
                                             !.details = NoDetails]
                 ELSE run.results[i]
      message == [kind |-> "tool_result", id |-> ids, turn |-> run.turn,
                  result |-> result]
  IN  /\ pc = "results" /\ i \in DOMAIN run.calls
      /\ SpendMany("events", Cost(replaced))
      /\ log' = Append(log, Stored(message))
      /\ Publish(<<Ended(message)>>)
      /\ run' = [run EXCEPT !.saved = i]
      /\ ids' = ids + 1
      /\ UNCHANGED pc /\ Quiet

(* record_turn: the Turn is durable before it is announced.                *)
RecordTurn ==
  /\ pc = "record" \/ (pc = "results" /\ run.saved = Len(run.calls))
  /\ log' = Append(log, [kind |-> "turn", turn |-> run.turn, run |-> run.id])
  /\ Publish(<<Event("turn_end")>>)
  /\ Moves("next")
  /\ UNCHANGED <<ids, left>> /\ Quiet
-----------------------------------------------------------------------------
(* next_action: the one next action of a settled Turn.                     *)

Overflows == run.attempt = "overflow" /\ ~run.overflowed

Retries == run.attempt = "retryable" /\ run.retries < MaxRetries

Failed == run.attempt \in {"retryable", "overflow", "fatal"}

RetryEnds == IF run.retries > 0 THEN <<Event("retry_end")>> ELSE <<>>

Abandons ==
  abandoned' = IF run.retries > 0 THEN abandoned \cup {run.id} ELSE abandoned

(* A stopped Run ends without a word about its retries.                    *)
NextStopped ==
  /\ pc = "next" /\ run.stopped
  /\ EndRun("settle") /\ Publish(<<Event("run_end")>>)
  /\ UNCHANGED <<ids, left>> /\ Abandons /\ QuietRun

(* Once per Run an overflowing context is compacted and tried again.       *)
NextOverflow ==
  /\ pc = "next" /\ ~run.stopped /\ Overflows
  /\ pc' = "compact"
  /\ run' = [run EXCEPT !.overflowed = TRUE, !.resume = "turn"]
  /\ UNCHANGED <<log, view, hidden, ids, left>> /\ Quiet

NextRetry ==
  /\ pc = "next" /\ ~run.stopped /\ ~Overflows /\ Retries
  /\ Publish(<<Event("retry_scheduled")>>)
  /\ pc' = "backoff"
  /\ run' = [run EXCEPT !.retries = @ + 1]
  /\ UNCHANGED <<log, ids, left>> /\ Quiet

(* The wait before a retry ends, or is cancelled.                          *)
Backoff ==
  /\ pc = "backoff"
  /\ IF run.cancelled
     THEN EndRun("settle") /\ Publish(<<Event("retry_end"), Event("run_end")>>)
     ELSE Moves("turn") /\ Publish(<<Event("retry_start")>>) /\ log' = log
  /\ UNCHANGED <<ids, left>> /\ Quiet

NextFailed ==
  /\ pc = "next" /\ ~run.stopped /\ Failed /\ ~Overflows /\ ~Retries
  /\ EndRun("settle") /\ Publish(RetryEnds \o <<Event("run_end")>>)
  /\ UNCHANGED <<ids, left>> /\ Quiet

(* A plan the user did not approve ends the Run.                           *)
Terminates ==
  \E i \in DOMAIN run.results :
    LET details == run.results[i].details
    IN  details.type = "approval" /\ ~details.approved

(* A hook that blocks a call may end the Run as well.                      *)
MayTerminate ==
  \E i \in DOMAIN run.results : run.results[i].details.type = "blocked"

(* Tools continue the Run, a queued message does, or it ends.              *)
NextContinues ==
  LET tools == run.calls # <<>> /\ ~Terminates
      done  == [run EXCEPT !.retries = 0]
  IN  /\ pc = "next" /\ ~run.stopped /\ run.attempt = "completed"
      /\ \/ /\ Spend("events")
            /\ pc' = "inserting" /\ run' = [done EXCEPT !.turn = ids]
            /\ ids' = ids + 1 /\ log' = log /\ Publish(RetryEnds)
         \/ /\ tools
            /\ pc' = "turn" /\ run' = done
            /\ Publish(RetryEnds) /\ UNCHANGED <<log, ids, left>>
         \/ /\ ~tools \/ MayTerminate
            /\ \E auto \in {"settle", "compact"} :
                 EndRun(auto) /\ SpendMany("events", Cost(auto = "compact"))
            /\ Publish(RetryEnds \o <<Event("run_end")>>)
            /\ UNCHANGED ids
      /\ Quiet

(* AgentSettled, after the compaction the Run asked for.                   *)
Settle ==
  /\ pc = "settling" /\ run.resume = "settle"
  /\ pc' = "idle" /\ run' = NoRun
  /\ Publish(<<Event("agent_settled")>>)
  /\ UNCHANGED <<log, ids, left>> /\ Quiet

(* An error of the Store or of a channel breaks a Turn: the Run still ends.*)
Breaks ==
  /\ pc \in {"streaming", "running", "results"} /\ Spend("events")
  /\ EndRun("settle") /\ Publish(<<Event("run_end")>>)
  /\ broken' = broken \cup {run.turn}
  /\ UNCHANGED <<ids, aside, orphans, unsaved>> /\ Abandons
-----------------------------------------------------------------------------
(* perform_compaction, from the four places that ask for it.               *)

(* Before the prompt, after an overflow, after the Run, or by a command.   *)
CompactionStart ==
  /\ \/ /\ pc = "accepted" /\ Spend("events")
        /\ run' = [run EXCEPT !.resume = "inserting"]
     \/ pc = "compact" /\ run' = run /\ left' = left
     \/ /\ pc = "settling" /\ run.resume = "compact" /\ left' = left
        /\ run' = [run EXCEPT !.resume = "settling"]
     \/ /\ pc = "invoked" /\ Spend("events")
        /\ run' = [run EXCEPT !.resume = "answering"]
  /\ pc' = "compacting"
  /\ Publish(<<[event |-> "compaction_start", turn |-> ids, id |-> ids]>>)
  /\ UNCHANGED <<log, ids>> /\ Quiet

(* Where an operation goes when its compaction failed: a command reports   *)
(* it, a Run ends, and an ended Run leaves the idle state to the server's  *)
(* fallback (publish_terminal_fallback), as it never gets to AgentSettled. *)
CompactionError(events) ==
  CASE run.resume = "answering" ->
         /\ pc' = "failing" /\ run' = run /\ log' = log
         /\ Publish(events) /\ UNCHANGED abandoned
    [] run.resume = "settling" ->
         /\ pc' = "idle" /\ run' = NoRun /\ log' = log
         /\ Publish(events \o <<Event("terminal_fallback")>>)
         /\ UNCHANGED abandoned
    [] OTHER ->
         EndRun("settle") /\ Publish(events \o <<Event("run_end")>>) /\ Abandons

CompactionEnd(outcome) ==
  LET end == [event |-> "compaction_end", turn |-> ids, id |-> ids,
              outcome |-> outcome]
  IN  /\ pc = "compacting"
      /\ outcome = "cancelled" => run.cancelled
      /\ IF outcome = "completed"
         THEN /\ log' = Append(log, [kind |-> "compaction", turn |-> ids, id |-> ids])
              /\ Publish(<<end>>)
              /\ pc' = run.resume
              /\ run' = IF run.resume = "settling"
                        THEN [run EXCEPT !.resume = "settle"] ELSE run
              /\ UNCHANGED abandoned
         ELSE CompactionError(<<end>>)
      /\ ids' = ids + 1
      /\ UNCHANGED left /\ QuietRun

(* There is nothing to compact, or an extension refuses: no event at all.  *)
CompactionRejected ==
  /\ pc = "compact" \/ (pc = "settling" /\ run.resume = "compact")
  /\ IF pc = "compact"
     THEN EndRun("settle") /\ Publish(<<Event("run_end")>>) /\ Abandons
     ELSE /\ pc' = "idle" /\ run' = NoRun /\ log' = log
          /\ Publish(<<Event("terminal_fallback")>>) /\ UNCHANGED abandoned
  /\ UNCHANGED <<ids, left>> /\ QuietRun
-----------------------------------------------------------------------------
(* Slash commands (command/execution.rs).                                  *)

StartCommand ==
  /\ pc = "idle" /\ Spend("ops")
  /\ pc' = "command"
  /\ run' = [NoRun EXCEPT !.id = ids, !.turn = ids + 1]
  /\ ids' = ids + 2
  /\ Publish(<<[event |-> "slash_command_start", turn |-> ids + 1]>>)
  /\ UNCHANGED log /\ Quiet

Invoked ==
  LET message == Typed(ids, run.turn, "invocation")
  IN  /\ pc = "command"
      /\ log' = Append(log, Stored(message))
      /\ Publish(<<Ended(message)>>)
      /\ Moves("invoked")
      /\ ids' = ids + 1 /\ UNCHANGED left /\ Quiet

(* A started command still ends when its invocation is lost.               *)
InvocationLost ==
  /\ pc = "command" /\ Spend("events")
  /\ pc' = "idle" /\ run' = NoRun
  /\ Publish(<<Event("slash_command_end")>>)
  /\ UNCHANGED <<log, ids>> /\ Quiet

(* A failed command always has an output; another one may be silent.       *)
CommandEnd(silent) ==
  LET message == Typed(ids, run.turn, "output")
  IN  /\ pc \in {"invoked", "answering", "failing"}
      /\ silent => pc # "failing"
      /\ log' = IF silent THEN log ELSE Append(log, Stored(message))
      /\ Publish((IF silent THEN <<>> ELSE <<Ended(message)>>)
                 \o <<Event("slash_command_end")>>)
      /\ pc' = "idle" /\ run' = NoRun
      /\ ids' = ids + 1 /\ UNCHANGED left /\ Quiet

(* A message the live client is already showing, stored only when it ends. *)
BeingShown ==
  \/ pc = "streaming" /\ run.message \in DOMAIN view.messages
  \/ pc = "shell"

(* A command given while another operation holds the Session.              *)
BusyCommand ==
  LET turn       == ids
      invocation == Typed(ids + 1, turn, "invocation")
      output     == Typed(ids + 2, turn, "output")
  IN  /\ pc # "idle" /\ Spend("events")
      /\ log' = log \o <<Stored(invocation), Stored(output)>>
      /\ Publish(<<Ended(invocation), Ended(output)>>)
      /\ ids' = ids + 3
      /\ aside' = aside \cup IF BeingShown THEN {ids + 1, ids + 2} ELSE {}
      /\ Moves(pc) /\ UNCHANGED <<broken, orphans, unsaved, abandoned>>
-----------------------------------------------------------------------------
(* Shells of the user (command/user_bash.rs).                              *)

StartShell ==
  /\ pc = "idle" /\ Spend("ops")
  /\ pc' = "shell"
  /\ run' = [NoRun EXCEPT !.id = ids, !.turn = ids + 1, !.message = ids + 2]
  /\ ids' = ids + 3
  /\ Publish(<<[event |-> "user_bash_started", turn |-> ids + 1, id |-> ids + 2]>>)
  /\ UNCHANGED log /\ Quiet

ShellOutput ==
  /\ pc = "shell" /\ Spend("events")
  /\ Publish(<<[event |-> "user_bash_output", turn |-> run.turn,
                id |-> run.message, output |-> "partial"]>>)
  /\ Moves(pc) /\ UNCHANGED <<log, ids>> /\ Quiet

ShellFinished(emitted, outcome) ==
  [event |-> "user_bash_finished", turn |-> run.turn, id |-> run.message,
   emitted |-> emitted, outcome |-> outcome]

(* It exits, is killed by a signal, is blocked by a hook or cancelled.     *)
ShellResults ==
  LET Result(exit, cancelled, blocked) ==
        [output |-> "output", exit |-> exit, cancelled |-> cancelled,
         blocked |-> blocked]
  IN  {Result(exit, FALSE, FALSE) : exit \in {"zero", "nonzero", "signal"}}
      \cup {Result("unknown", FALSE, TRUE)}
      \cup (IF run.cancelled THEN {Result("unknown", TRUE, FALSE)} ELSE {})

(* The result is stored and announced, then the shell is finished.         *)
ShellSaved(result) ==
  LET message == [kind |-> "bash", id |-> run.message, turn |-> run.turn,
                  result |-> result]
  IN  /\ pc = "shell"
      /\ SpendMany("events", Cost(result.exit \in {"nonzero", "signal"}))
      /\ log' = Append(log, Stored(message))
      /\ Publish(<<Ended(message),
                   ShellFinished(TRUE, IF result.cancelled THEN "cancelled"
                                       ELSE "succeeded")>>)
      /\ pc' = "idle" /\ run' = NoRun
      /\ UNCHANGED ids /\ Quiet

(* The shell, the save or its sync fails: only the end is announced.       *)
ShellFails(result, stored) ==
  LET message == [kind |-> "bash", id |-> run.message, turn |-> run.turn,
                  result |-> result]
  IN  /\ pc = "shell" /\ Spend("events")
      /\ log' = IF stored THEN Append(log, Stored(message)) ELSE log
      /\ Publish(<<ShellFinished(FALSE, IF run.cancelled THEN "cancelled"
                                        ELSE "failed")>>)
      /\ unsaved' = unsaved \cup {run.message}
      /\ pc' = "idle" /\ run' = NoRun
      /\ UNCHANGED <<ids, aside, broken, orphans, abandoned>>
-----------------------------------------------------------------------------
(* Extensions, cancellation and loading the Session again.                 *)

InRun == pc \notin {"idle", "command", "invoked", "answering", "failing"}

(* send_extension_message within an operation that has an event sink.      *)
ExtensionMessage ==
  LET message == ExtensionMessageOf(ids, run.turn, "message")
  IN  /\ InRun /\ Spend("events")
      /\ log' = Append(log, Stored(message))
      /\ Publish(<<Ended(message)>>)
      /\ ids' = ids + 1 /\ Moves(pc) /\ Quiet

(* A failing handler is stored as a message and announced as an event, so  *)
(* its card has another id live than after a replay.                       *)
HandlerFails ==
  LET message == ExtensionMessageOf(ids, run.turn, "error")
  IN  /\ InRun /\ Spend("events")
      /\ log' = Append(log, Stored(message))
      /\ Publish(<<[event |-> "extension_handler_failed", turn |-> run.turn,
                    sequence |-> ids + 1]>>)
      /\ ids' = ids + 2 /\ Moves(pc) /\ Quiet

Cancel ==
  /\ pc # "idle" /\ ~run.cancelled /\ Spend("events")
  /\ run' = [run EXCEPT !.cancelled = TRUE]
  /\ UNCHANGED <<pc, log, view, hidden, ids>> /\ Quiet

(* The client loads the idle Session, of this process or of the next one.  *)
Reload(restarted) ==
  /\ pc = "idle" /\ Spend("events")
  /\ view' = Rebuilt(log)
  /\ hidden' = IF restarted THEN {} ELSE hidden
  /\ aside' = {} /\ unsaved' = {} /\ abandoned' = {}
  /\ UNCHANGED <<pc, run, log, ids, broken, orphans>>

RunSteps ==
  \/ StartRun \/ InsertCancelled \/ Insert \/ BeginTurn
  \/ \E field \in {"text", "reasoning"} : Delta(field)
  \/ SettleSomeAttempt
  \/ StartTools \/ EndBatch \/ RecordTurn
  \/ \E i \in DOMAIN run.calls :
       ToolUpdate(i) \/ \E result \in Outcomes(run.calls[i]) : ToolEnd(i, result)
  \/ \E replaced \in BOOLEAN : PersistResult(replaced)
  \/ NextStopped \/ NextOverflow \/ NextRetry \/ Backoff \/ NextFailed
  \/ NextContinues \/ Settle \/ Breaks

OtherSteps ==
  \/ CompactionStart \/ CompactionRejected
  \/ \E outcome \in {"completed", "failed", "cancelled"} : CompactionEnd(outcome)
  \/ StartCommand \/ Invoked \/ InvocationLost
  \/ \E silent \in BOOLEAN : CommandEnd(silent)
  \/ BusyCommand
  \/ StartShell \/ ShellOutput
  \/ \E result \in ShellResults :
       ShellSaved(result) \/ \E stored \in BOOLEAN : ShellFails(result, stored)
  \/ ExtensionMessage \/ HandlerFails \/ Cancel
  \/ \E restarted \in BOOLEAN : Reload(restarted)

Next == RunSteps \/ OtherSteps

Spec == Init /\ [][Next]_vars
-----------------------------------------------------------------------------
(* What two views have in common.                                          *)

Only(f, S) == [x \in DOMAIN f \cap S |-> f[x]]

(* Messages and cards, without those of broken Turns and unsaved shells.   *)
ShownMessages(v) ==
  Only(v.messages, {id \in DOMAIN v.messages : v.messages[id].turn \notin broken})

ShownTools(v) ==
  {<<id, v.tools[id].status, v.tools[id].content>> :
     id \in {t \in DOMAIN v.tools : v.tools[t].turn \notin broken /\ t \notin unsaved}}

(* The terminals a card shows.                                             *)
ShownTerminals(v) ==
  Only(v.terminals, {id \in DOMAIN v.tools :
                       /\ v.tools[id].turn \notin broken /\ id \notin unsaved
                       /\ Contains(v.tools[id].content, "terminal")})

ExtensionCards(v) ==
  [card \in {v.extensions[x] : x \in DOMAIN v.extensions} |->
     Cardinality({x \in DOMAIN v.extensions : v.extensions[x] = card})]

(* The order of the entries, apart from what was stored while another      *)
(* message was shown, from extension cards and from what is left out above.*)
ShownOrder(v) ==
  SelectSeq(v.transcript,
    LAMBDA x : CASE x[1] = "message" -> x[2] \notin aside
                                        /\ v.messages[x[2]].turn \notin broken
                 [] x[1] = "tool" -> x[2] \notin unsaved
                                     /\ v.tools[x[2]].turn \notin broken
                 [] x[1] = "extension" -> FALSE
                 [] OTHER -> TRUE)

(* PROPERTY.  A client that followed an idle Session live and one that     *)
(* loads it from the log show the same conversation: the same messages     *)
(* with the same final text and reasoning, Tool cards, terminals, plans,   *)
(* compactions, usage and order, although the first was told of deltas,    *)
(* partial results and cards that the log does not hold (mapping.rs,       *)
(* replay.rs, server.rs send_replay_items; sessionState.ts says of the     *)
(* plans "RunEnd replays, so a reload agrees").                            *)
ReplayShowsTheSame ==
  pc = "idle" =>
    LET stored == Rebuilt(log)
    IN  /\ ShownMessages(view) = ShownMessages(stored)
        /\ ShownTools(view) = ShownTools(stored)
        /\ ShownTerminals(view) = ShownTerminals(stored)
        /\ ShownOrder(view) = ShownOrder(stored)
        /\ ExtensionCards(view) = ExtensionCards(stored)
        /\ view.compactions = stored.compactions
        /\ view.runUsages = stored.runUsages
        /\ view.usage = stored.usage
        /\ broken = {} => view.plans = stored.plans

(* PROPERTY.  Once the Session is idle nothing is shown as going on: no    *)
(* streaming message, no running card or open terminal, no compaction, no  *)
(* retry, no open plan, and never a card for a todo_write call             *)
(* (mapping.rs "A reported compaction must always reach a terminal         *)
(* status", user_bash.rs "Every accepted shell reaches exactly one         *)
(* foreground terminal state").  The exceptions are what the code leaves   *)
(* open: calls that no Turn ran, broken Turns, and a retry whose Run was   *)
(* cancelled, broken or not compacted while it ran, which stays "running"  *)
(* on the idle Session (no RetryEnd is sent, and sessionStaging.ts:278     *)
(* clears only a finished one).                                            *)
NothingLeftOpen ==
  pc = "idle" =>
    /\ ~view.running
    /\ view.compaction # "running" /\ view.retry # "waiting"
    /\ view.retry = "running" => abandoned # {}
    /\ view.plans.settled \/ broken # {}
    /\ \A id \in DOMAIN view.messages :
         view.messages[id].streaming => view.messages[id].turn \in broken
    /\ \A id \in DOMAIN view.tools :
         \/ id \in orphans \/ view.tools[id].turn \in broken
         \/ /\ view.tools[id].status \in {"completed", "failed", "blocked",
                                          "cancelled"}
            /\ Contains(view.tools[id].content, "terminal") =>
                 view.terminals[id].exit # "none"
    /\ \A i \in DOMAIN log :
         (log[i].kind = "message" /\ log[i].message.kind = "assistant") =>
           \A c \in ToSet(log[i].message.calls) :
             c.name = "todo_write" => c.id \notin DOMAIN view.tools
=============================================================================
