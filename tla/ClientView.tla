------------------------------ MODULE ClientView ------------------------------
(***************************************************************************)
(* What the web client shows of a Session: a pure model of the update      *)
(* decoder (web/src/workspace/updateDecoder.ts), the terminal decoder      *)
(* (terminals.ts) and the stager that applies the decoded actions of a     *)
(* frame (sessionStaging.ts).  The controller's own actions go through the *)
(* reducer of sessionState.ts, which is not modelled and is not the same:  *)
(* when a Run ends it keeps a finished retry and clears any other (306),   *)
(* the stager clears a finished one and keeps any other (278).             *)
(*                                                                         *)
(* A view is the projection of one Session.  The transcript holds entries  *)
(* in the order of their first update: the client sorts by the kernel's    *)
(* sequence, which grows along one stream.  Images, titles, timing, the    *)
(* cache trail, the raw event list and the queue are left out.             *)
(***************************************************************************)
EXTENDS Naturals, Sequences, FiniteSets, TLC

(* The part of initialSessionWorkspaceState the view keeps.                *)
InitialView ==
  [messages |-> <<>>, tools |-> <<>>, terminals |-> <<>>, extensions |-> <<>>,
   compactions |-> {}, turnRuns |-> <<>>, runUsages |-> <<>>,
   plans |-> [todos |-> 0, approved |-> 0, settled |-> TRUE],
   retry |-> "none", compaction |-> "idle", running |-> FALSE,
   usage |-> "none", transcript |-> <<>>]

Field(r, name, default) == IF name \in DOMAIN r THEN r[name] ELSE default

(* The first update of an entity gives it its place in the transcript.     *)
Entered(transcript, known, entry) ==
  IF known THEN transcript ELSE Append(transcript, entry)
-----------------------------------------------------------------------------
(* The actions of the stager.                                              *)

MessageUpserted(v, id, message) ==
  [v EXCEPT !.messages = (id :> message) @@ @,
            !.transcript = Entered(@, id \in DOMAIN v.messages, <<"message", id>>)]

(* A message that is already known keeps its role and its Turn.            *)
MessageDelta(v, turn, id, field, piece) ==
  LET base == Field(v.messages, id,
                    [role |-> "assistant", turn |-> turn, text |-> <<>>,
                     reasoning |-> <<>>, usage |-> "none", streaming |-> TRUE])
  IN  MessageUpserted(v, id, [base EXCEPT ![field] = Append(@, piece),
                                          !.streaming = TRUE])

ToolUpserted(v, id, tool) ==
  [v EXCEPT !.tools = (id :> tool) @@ @,
            !.transcript = Entered(@, id \in DOMAIN v.tools, <<"tool", id>>)]

TerminalUpserted(v, id, terminal) ==
  [v EXCEPT !.terminals = (id :> terminal) @@ @]

ExtensionUpserted(v, id, extension) ==
  [v EXCEPT !.extensions = (id :> extension) @@ @,
            !.transcript = Entered(@, id \in DOMAIN v.extensions,
                                   <<"extension", id>>)]

CompactionUpserted(v, id) ==
  [v EXCEPT !.compactions = @ \cup {id},
            !.transcript = Entered(@, id \in v.compactions, <<"compaction", id>>)]

(* A Turn adds the usage of its Assistant messages to its Run, once.       *)
TurnSettled(v, turn, run) ==
  LET answers == {id \in DOMAIN v.messages :
                    /\ v.messages[id].turn = turn
                    /\ v.messages[id].usage # "none"}
      known   == {id \in answers : v.messages[id].usage = "known"}
      before  == Field(v.runUsages, run, [known |-> 0, settled |-> FALSE])
  IN  CASE turn \in DOMAIN v.turnRuns -> v
        [] answers = {} -> [v EXCEPT !.turnRuns = (turn :> run) @@ @]
        [] OTHER ->
             [v EXCEPT !.turnRuns = (turn :> run) @@ @,
                       !.runUsages =
                          (run :> [before EXCEPT !.known = @ + Cardinality(known)])
                          @@ @]

(* The plans collapse when a Run ends; its usage row appears once.         *)
RunSettled(v, run) ==
  LET closed == [v EXCEPT !.plans.settled = TRUE]
  IN  IF run \notin DOMAIN v.runUsages \/ v.runUsages[run].settled
      THEN closed
      ELSE [closed EXCEPT !.runUsages[run].settled = TRUE,
                          !.transcript = Append(@, <<"usage", run>>)]

RunningChanged(v, running) ==
  IF running THEN [v EXCEPT !.running = TRUE]
  ELSE [v EXCEPT !.running = FALSE,
                 !.retry = IF @ = "finished" THEN "none" ELSE @,
                 !.compaction = IF @ = "running" THEN "idle" ELSE @]

(* New plan content opens the panel again.                                 *)
PlanReplaced(v, plan, value) ==
  [v EXCEPT !.plans[plan] = value, !.plans.settled = FALSE]
-----------------------------------------------------------------------------
(* SessionUpdateDecoder.decode, by the kind of update.                     *)

(* A shell's prompt is shown by its card; a whole message replaces the     *)
(* text and ends the stream, and keeps the reasoning known so far.         *)
DecodeMessage(v, turn, x) ==
  LET previous == Field(v.messages, x.id, [reasoning |-> <<>>, usage |-> "none"])
  IN  IF x.origin = "user_bash" THEN v
      ELSE MessageUpserted(v, x.id,
             [role |-> x.role, turn |-> turn, text |-> x.text,
              reasoning |-> previous.reasoning, streaming |-> FALSE,
              usage |-> IF x.usage = "none" THEN previous.usage ELSE x.usage])

DecodeThought(v, turn, x) ==
  LET previous == Field(v.messages, x.id,
                        [role |-> "assistant", turn |-> turn, text |-> <<>>,
                         reasoning |-> <<>>, usage |-> "none",
                         streaming |-> FALSE])
  IN  MessageUpserted(v, x.id, [previous EXCEPT !.reasoning = x.text])

(* The details of a live result and of a saved message, which wraps them.  *)
DetailsOf(raw) ==
  CASE "details" \in DOMAIN raw -> raw.details.type
    [] "content" \in DOMAIN raw -> raw.content.details.type
    [] OTHER -> "none"

(* Omitted fields keep their value; a failed call that was blocked says so.*)
DecodeTool(v, turn, x) ==
  LET previous == Field(v.tools, x.id,
                        [status |-> "pending", content |-> <<>>, raw |-> <<>>])
      raw      == Field(x, "raw", previous.raw)
      status   == Field(x, "status", previous.status)
      blocked  == DetailsOf(raw) = "blocked" \/ Field(x, "blocked", FALSE)
  IN  ToolUpserted(v, x.id,
        [status  |-> IF status = "failed" /\ blocked THEN "blocked" ELSE status,
         content |-> Field(x, "content", previous.content),
         raw |-> raw, turn |-> turn])

DecodeTerminal(v, x) ==
  LET previous == Field(v.terminals, x.id, [output |-> "", exit |-> "none"])
  IN  TerminalUpserted(v, x.id, [output |-> Field(x, "output", previous.output),
                                 exit   |-> Field(x, "exit", previous.exit)])

(* A finished compaction shows its card and clears the context usage.      *)
DecodeCompaction(v, x) ==
  CASE x.status = "in_progress" -> [v EXCEPT !.compaction = "running"]
    [] x.status = "completed" ->
         [CompactionUpserted(v, x.id) EXCEPT !.compaction = "finished",
                                             !.usage = "none"]
    [] OTHER -> [v EXCEPT !.compaction = x.status]

(* The events that have no update of their own.                            *)
DecodeEvent(v, turn, e) ==
  CASE e.event = "usage_updated" -> [v EXCEPT !.usage = e.usage]
    [] e.event = "turn_end" -> TurnSettled(v, turn, e.run)
    [] e.event = "run_end" -> RunSettled(v, e.run)
    [] e.event = "message_end" ->
         ExtensionUpserted(v, e.message.id,
                           [turn |-> turn, kind |-> e.message.shown])
    [] e.event = "extension_handler_failed" ->
         ExtensionUpserted(v, e.sequence, [turn |-> turn, kind |-> "error"])
    [] e.event = "retry_scheduled" -> [v EXCEPT !.retry = "waiting"]
    [] e.event = "retry_start" -> [v EXCEPT !.retry = "running"]
    [] e.event = "retry_end" -> [v EXCEPT !.retry = "finished"]
    [] OTHER -> v

(* Notices belong to the whole workspace, not to the Session.              *)
Decode(v, turn, x) ==
  CASE x.u = "message_chunk" -> MessageDelta(v, turn, x.id, "text", x.text)
    [] x.u = "thought_chunk" -> MessageDelta(v, turn, x.id, "reasoning", x.text)
    [] x.u = "message"    -> DecodeMessage(v, turn, x)
    [] x.u = "thought"    -> DecodeThought(v, turn, x)
    [] x.u = "tool"       -> DecodeTool(v, turn, x)
    [] x.u = "terminal"   -> DecodeTerminal(v, x)
    [] x.u = "plan"       -> PlanReplaced(v, x.plan, x.value)
    [] x.u = "usage"      -> [v EXCEPT !.usage = x.used]
    [] x.u = "state"      -> RunningChanged(v, x.state # "idle")
    [] x.u = "compaction" -> DecodeCompaction(v, x)
    [] x.u = "event"      -> DecodeEvent(v, turn, x.event)
    [] x.u = "notice"     -> v
=============================================================================
