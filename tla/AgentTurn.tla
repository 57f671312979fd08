----------------------------- MODULE AgentTurn -----------------------------
(***************************************************************************)
(* The Turns of a Run: the request built from the Session's context, the   *)
(* model's attempt, the batch of tool calls, retries, overflow recovery    *)
(* and compaction, and plan mode, whose switches and approvals come from   *)
(* clients and tools while a Run is under way.                             *)
(*                                                                         *)
(* What enters the queue and who is told is in RunQueue, the file behind   *)
(* the entries in SessionStore: here entries are appended or, when the Run *)
(* breaks, not.  A model's answer, a tool's result, the reported usage and *)
(* an extension's message are arbitrary.                                   *)
(***************************************************************************)
EXTENDS AgentContext

CONSTANTS
    Batches,       \* the batches of tool calls a model may ask for
    Answers,       \* the outcomes of a model attempt that are explored
    Sizes,         \* sizes of a tool's result; 0 is an empty one
    MaxRetries,    \* max_retries of the retry policy
    TurnLimit,     \* turns a Run may take
    MaxRuns,       \* bound on the Runs and manual compactions
    MaxEntries,    \* bound on the length of the branch
    MaxEvents      \* bound on what happens from outside, all together: switches of
                   \* the mode, cancellations, extensions' messages, broken Runs

ASSUME TurnAssumption ==
    /\ MaxRetries \in Nat /\ TurnLimit \in Nat /\ MaxRuns \in Nat
    /\ MaxEvents \in Nat /\ MaxEntries \in Nat
    /\ Sizes \subseteq {0, 1}
    /\ Batches \subseteq Seq({"plan", "write"})

\* What the model's attempt may come to, once message_end hooks have seen it: a
\* hook may end it, but not revive it.  Calls that arrived before an attempt failed
\* or was cancelled stay in its message and are never run.
Partial == {<<>>, <<"write">>}
Attempt(calls, stop, failure, over) ==
    [calls |-> calls, stop |-> stop, failure |-> failure, over |-> over]
Attempts ==
    {Attempt(<<>>, "end", "none", over) : over \in {"none", "compact"}}
    \cup {Attempt(calls, "tools", "none", "none") : calls \in Batches}
    \cup {Attempt(calls, "length", "none", over) : calls \in Partial, over \in {"none", "retry"}}
    \cup {Attempt(calls, "error", failure, over) :
              calls \in Partial, failure \in {"retry", "fatal"}, over \in {"none", "retry"}}
    \cup {Attempt(<<>>, "refusal", "fatal", "none")}
    \cup {Attempt(calls, "cancelled", "none", "none") : calls \in Partial}
ASSUME AnswerAssumption == Answers \subseteq Attempts

VARIABLES
    entries,   \* the active branch of the Store
    context,   \* the model context in memory: history and held notes
    plan,      \* SessionPlanState: the mode, and the plan waiting for approval
    switch,    \* the mode change that holds the settings lock, if any
    run,       \* the Run or compaction that holds the operation gate
    tools,     \* the tool calls of the current batch, by index
    cut,       \* the compaction under way
    covered,   \* ids of messages the newest summary stands for, and of the ones
               \* that only an earlier summary did
    late,      \* ids of messages added while a summary was being written
    broken,    \* whether a Run has been broken, dropped or killed
    budget     \* what is left of the bounds

vars == <<entries, context, plan, switch, run, tools, cut, covered, late, broken, budget>>

None == "none"
NoSwitch == [mode |-> None, by |-> 0]
NextId == Len(entries) + 1

\* A settled attempt: the assistant message and what it asks the Turn to do.
Settled == [id : Nat, failure : {"none", "retry", "fatal"}, cancelled : BOOLEAN,
            over : Recoveries, calls : Seq({"plan", "write"}), stop : BOOLEAN]
NoReply == [id |-> 0, failure |-> "none", cancelled |-> FALSE, over |-> "none",
            calls |-> <<>>, stop |-> FALSE]

Fresh == [at |-> "idle", input |-> None,
          cancelled |-> FALSE, turns |-> 0, attempts |-> 0, tries |-> 0,
          recovered |-> FALSE, request |-> <<>>, gate |-> "default", reply |-> NoReply,
          failed |-> None, auto |-> FALSE]
NoTools == <<>>
NoCut == [on |-> FALSE, excluded |-> 0, then |-> "idle", parts |-> Preparation(<<>>)]

TypeOK ==
    /\ plan.mode \in Modes /\ plan.asked \in Nat /\ plan.unsynced \in BOOLEAN
    /\ plan.pending \in 0 .. plan.asked
    /\ run.at \in {"idle", "turn", "request", "mode", "stream", "calls",
                   "batch", "next", "backoff", "settle", "compact"}
    /\ run.gate \in Modes /\ run.turns \in 0 .. TurnLimit
    /\ run.reply \in Settled
    /\ \A k \in DOMAIN tools : tools[k].st \in {"queued", "waits", "leaves", "left", "done"}
    /\ \A n \in covered.stands \cup covered.dropped \cup late : n \in DOMAIN entries
    /\ cut.on = (run.at = "compact")

Init ==
    /\ entries = <<>>
    /\ context = [history |-> <<>>, held |-> <<>>]
    /\ plan = [mode |-> "default", pending |-> 0, asked |-> 0, unsynced |-> FALSE]
    /\ switch = NoSwitch
    /\ run = Fresh /\ tools = NoTools /\ cut = NoCut
    /\ covered = [stands |-> {}, dropped |-> {}] /\ late = {}
    /\ broken = FALSE
    /\ budget = [runs |-> MaxRuns, events |-> MaxEvents]

Spend(what) == budget[what] > 0 /\ budget' = [budget EXCEPT ![what] = @ - 1]

Extend(entry) == Len(entries) < MaxEntries /\ entries' = Append(entries, entry)

\* append_context_message: the entry and the context change under one lock.
Store(m) ==
    /\ Extend(MessageEntry(m))
    /\ context' = Push(context, m)
    /\ late' = IF cut.on THEN late \cup {m.id} ELSE late
Stay == UNCHANGED <<entries, context, late>>

(***************************************************************************)
(* Compaction.                                                             *)
(***************************************************************************)
Ids(h) == {h[i].id : i \in DOMAIN h}

\* The Run ends with an operational error, or as cancelled; an internal input that
\* has not gone in is then kept.
Failed(r, error) == [r EXCEPT !.at = "settle", !.failed = error, !.reply = NoReply]

\* perform_compaction up to the summary request: the history without failed and
\* excluded attempts is cut, or refused when no context is left to summarize.
Compactable(excluded) ==
    SelectSeq(Active(context.history), LAMBDA m : m.id # excluded \/ m.t # "assistant")
PerformCompaction(r, excluded, then) ==
    LET parts == Preparation(Compactable(excluded)) IN
    IF TokensFrom(parts.summarized \o parts.prefix, 1) > 0
    THEN /\ cut' = [on |-> TRUE, excluded |-> excluded, then |-> then, parts |-> parts]
         /\ run' = [r EXCEPT !.at = "compact"]
    ELSE /\ cut' = cut
         /\ run' = IF then = "idle" THEN Fresh ELSE Failed(r, "error")

\* compact_session: a client compacts an idle Session.
CompactSession ==
    /\ run.at = "idle" /\ Spend("runs")
    /\ PerformCompaction(Fresh, 0, "idle")
    /\ Stay /\ UNCHANGED <<plan, switch, tools, covered, broken>>

\* The compaction ends after its boundary was committed; the records and events that
\* report it may still fail, and with them the Run.
AfterCut ==
    \E r \in {[run EXCEPT !.at = cut.then], Failed(run, "error")} :
        run' = IF cut.then = "idle" THEN Fresh ELSE r

\* The summary is an update of the previous one, unless there is nothing to summarize
\* but the first part of a split Turn: that part's summary then stands alone.
Coverage ==
    LET ids == Ids(cut.parts.summarized \o cut.parts.prefix) \cup ({cut.excluded} \ {0}) IN
    IF cut.parts.summarized = <<>>
    THEN [stands |-> ids, dropped |-> covered.dropped \cup covered.stands]
    ELSE [covered EXCEPT !.stands = @ \cup ids]

\* Mutant: the mode is restated from memory, which a switch under way has not changed.
CommitCompactionByMemory ==
    /\ run.at = "compact"
    /\ Extend(CompactionEntry(cut.parts.tail))
    /\ context' = AfterCompaction(<<Summary(NextId)>> \o cut.parts.tail, plan.mode, NextId)
    /\ covered' = Coverage
    /\ AfterCut
    /\ cut' = NoCut
    /\ UNCHANGED <<plan, switch, tools, late, broken, budget>>

\* The summary is written: the boundary and the context change under one lock,
\* and the mode of the branch is restated if the tail does not state it.
CommitCompaction ==
    /\ run.at = "compact"
    /\ Extend(CompactionEntry(cut.parts.tail))
    /\ context' = AfterCompaction(<<Summary(NextId)>> \o cut.parts.tail, BranchMode(entries), NextId)
    /\ covered' = Coverage
    /\ AfterCut
    /\ cut' = NoCut
    /\ UNCHANGED <<plan, switch, tools, late, broken, budget>>

\* How the summary request may end but with a summary: refused by the provider after
\* its retries, empty, with a tool call, or cancelled; an initial input that the
\* cancellation keeps from going in is stored by itself.
SummaryErrors == {"error", "cancelled", "kept"}

\* An extension, the model or a cancellation stops it, and with it the Run that
\* needed it.
CompactionFails ==
    /\ run.at = "compact"
    /\ \E error \in SummaryErrors :
         /\ error # "error" => run.cancelled
         /\ error = "kept" => run.input = "initial"
         /\ run' = IF cut.then = "idle" THEN Fresh ELSE Failed(run, error)
    /\ cut' = NoCut
    /\ Stay /\ UNCHANGED <<plan, switch, tools, covered, broken, budget>>

(***************************************************************************)
(* A Run and its Turns.                                                    *)
(***************************************************************************)
\* A Run takes the gate, and start_agent compacts the previous context before the
\* input enters history.
StartRun ==
    /\ run.at = "idle" /\ Spend("runs")
    /\ LET p == LatestAssistant(context.history)
           over == IF p = 0 THEN "none" ELSE context.history[p].over
           excluded == IF over = "retry" THEN context.history[p].id ELSE 0
           started == [Fresh EXCEPT !.at = "turn", !.input = "initial"] IN
       \/ over = "none" /\ run' = started /\ cut' = cut
       \/ context.history # <<>> /\ PerformCompaction(started, excluded, "turn")
    /\ Stay /\ UNCHANGED <<plan, switch, tools, covered, broken>>

\* begin_turn checks the limit, and insert_user_message puts the Turn's input into
\* history; of a cancelled Run only an internal initial input goes in all the same.
BeginTurn ==
    /\ run.at = "turn"
    /\ \/ /\ run.turns >= TurnLimit
          /\ run' = Failed(run, "error") /\ Stay
       \/ /\ run.turns < TurnLimit /\ run.input = None
          /\ run' = [run EXCEPT !.at = "request"] /\ Stay
    /\ UNCHANGED <<plan, switch, tools, cut, covered, broken, budget>>

InsertUserMessage ==
    /\ run.at = "turn" /\ run.turns < TurnLimit /\ run.input # None
    /\ \/ /\ run.cancelled
          /\ run' = Failed(run, "cancelled") /\ Stay
       \/ /\ run.cancelled => run.input = "initial"
          /\ Store(User(NextId))
          /\ run' = [run EXCEPT !.at = "request", !.input = None]
    /\ UNCHANGED <<plan, switch, tools, cut, covered, broken, budget>>

\* model_request reads the history, and then the mode with the tools.
ReadHistory ==
    /\ run.at = "request"
    /\ run' = [run EXCEPT !.at = "mode", !.request = Active(context.history)]
    /\ Stay /\ UNCHANGED <<plan, switch, tools, cut, covered, broken, budget>>

ReadMode ==
    /\ run.at = "mode"
    /\ \/ /\ run' = [run EXCEPT !.at = "stream", !.gate = plan.mode]
          /\ Stay /\ UNCHANGED budget
       \/ \* a message before_agent_start hooks add to the Run's first request
          /\ run.turns = 0 /\ run.tries = 0 /\ Spend("events")
          /\ Store(Extension(NextId, TRUE))
          /\ run' = [run EXCEPT !.at = "stream", !.gate = plan.mode,
                       !.request = Append(@, Extension(NextId, TRUE))]
    /\ UNCHANGED <<plan, switch, tools, cut, covered, broken>>
\* settle_assistant: only a reply that asks for tools, or was cut short, runs them.
Runnable(a) == IF a.stop \in {"tools", "length"} THEN a.calls ELSE <<>>
SettleAssistant(a) ==
    [id |-> NextId, failure |-> a.failure, cancelled |-> a.stop = "cancelled",
     over |-> a.over, calls |-> Runnable(a), stop |-> FALSE]

\* stream_assistant, settle_assistant and publish_assistant
StreamAssistant ==
    /\ run.at = "stream"
    /\ \E a \in Answers :
         /\ Store(Assistant(NextId, a.calls, a.stop, a.stop = "error", a.over))
         /\ run' = [run EXCEPT !.at = IF Runnable(a) = <<>> THEN "next" ELSE "calls",
                      !.reply = SettleAssistant(a), !.tries = @ + 1, !.request = <<>>]
    /\ UNCHANGED <<plan, switch, tools, cut, covered, broken, budget>>

(***************************************************************************)
(* Tools.                                                                  *)
(***************************************************************************)
Done(size) == [st |-> "done", size |-> size, request |-> 0, answer |-> None]
Queued == [Done(0) EXCEPT !.st = "queued"]
Running(k, kind, st) ==
    /\ run.at = "batch" /\ k \in DOMAIN tools
    /\ run.reply.calls[k] = kind /\ tools[k].st = st

\* PlanModeGate::check, with the mode of the Turn's snapshot
Refused(kind) == run.gate = "plan" /\ kind = "write"

\* The calls are started in order, with hooks, the gate and the arguments' check;
\* none runs before all have started.
StartCalls ==
    /\ run.at = "calls"
    /\ \E blocked \in SUBSET DOMAIN run.reply.calls :
       \E stop \in {FALSE} \cup {blocked # {}} :
         /\ tools' = [k \in DOMAIN run.reply.calls |->
                        IF k \in blocked \/ Refused(run.reply.calls[k]) THEN Done(1) ELSE Queued]
         /\ run' = [run EXCEPT !.at = "batch", !.reply.stop = stop]
    /\ Stay /\ UNCHANGED <<plan, switch, cut, covered, broken, budget>>

Pending == \E k \in DOMAIN tools : tools[k].st # "done"

\* The batch's loop looks at the cancellation before it takes another result.
Collecting == ~run.cancelled \/ run.reply.cancelled
\* Mutant: what has not finished when the cancellation is seen gets no result.
ObserveCancellationDropping ==
    /\ run.at = "batch" /\ Pending /\ run.cancelled /\ ~run.reply.cancelled
    /\ run' = [run EXCEPT !.reply.cancelled = TRUE]
    /\ tools' = SelectSeq(tools, LAMBDA t : t.st = "done")
    /\ Stay /\ UNCHANGED <<plan, switch, cut, covered, broken, budget>>

ObserveCancellation ==
    /\ run.at = "batch" /\ Pending /\ run.cancelled /\ ~run.reply.cancelled
    /\ run' = [run EXCEPT !.reply.cancelled = TRUE]
    /\ Stay /\ UNCHANGED <<plan, switch, tools, cut, covered, broken, budget>>

FinishTool(k) ==
    /\ Running(k, "write", "queued") /\ Collecting
    /\ \E size \in Sizes : tools' = [tools EXCEPT ![k] = Done(size)]
    /\ Stay /\ UNCHANGED <<plan, switch, run, cut, covered, broken, budget>>

\* exit_plan_mode: refused outside plan mode, when the Run was stopped and while
\* another plan waits.
BeginApproval(k) ==
    /\ Running(k, "plan", "queued") /\ Collecting
    /\ IF run.cancelled \/ plan.mode # "plan" \/ plan.pending # 0
       THEN /\ tools' = [tools EXCEPT ![k] = Done(1)] /\ plan' = plan
       ELSE /\ plan' = [plan EXCEPT !.asked = @ + 1, !.pending = plan.asked + 1]
            /\ tools' = [tools EXCEPT ![k] = [Queued EXCEPT !.st = "waits", !.request = plan.asked + 1]]
    /\ Stay /\ UNCHANGED <<switch, run, cut, covered, broken, budget>>

\* respond_plan_approval takes the plan it names; any other answer is refused.
RespondPlanApproval ==
    /\ plan.pending # 0
    /\ \E decision \in {"approve", "keep"} :
         tools' = [k \in DOMAIN tools |->
                    IF tools[k].request = plan.pending THEN [tools[k] EXCEPT !.answer = decision]
                    ELSE tools[k]]
    /\ plan' = [plan EXCEPT !.pending = 0]
    /\ Stay /\ UNCHANGED <<switch, run, cut, covered, broken, budget>>

\* Dropping the wait forgets the plan unless an answer already took it.
\* Mutant: a dropped wait leaves its plan behind.
ForgetNothing(requests) == plan
Forget(requests) == IF plan.pending \in requests THEN [plan EXCEPT !.pending = 0] ELSE plan

\* The wait ends with an answer or the Run's cancellation.
DecidePlan(k) ==
    /\ Running(k, "plan", "waits") /\ Collecting
    /\ run.cancelled \/ tools[k].answer # None
    /\ plan' = Forget({tools[k].request})
    /\ LET approved == ~run.cancelled /\ tools[k].answer = "approve" IN
       /\ tools' = [tools EXCEPT ![k] = IF approved THEN [@ EXCEPT !.st = "leaves"] ELSE Done(1)]
       /\ run' = [run EXCEPT !.reply.stop = @ \/ (~approved /\ ~run.cancelled)]
    /\ Stay /\ UNCHANGED <<switch, cut, covered, broken, budget>>
(***************************************************************************)
(* Mode switches, one at a time under the settings lock.                   *)
(***************************************************************************)
\* SessionSettingsUpdate::mode writes the entry with its note, then replaces the
\* mode; `by' is the waiting call, or 0 for a client.
WriteSwitch(mode, by) ==
    /\ Extend(ModeEntry(mode))
    /\ context' = Place(context, Note(NextId, mode))
    /\ switch' = [mode |-> mode, by |-> by]

SetMode ==
    /\ switch = NoSwitch /\ Spend("events")
    /\ \E mode \in Modes \ {plan.mode} : WriteSwitch(mode, 0)
    /\ UNCHANGED <<plan, run, tools, cut, covered, late, broken>>

\* An approved plan leaves plan mode, unless the user already has.
LeavePlanMode(k) ==
    /\ Running(k, "plan", "leaves") /\ switch = NoSwitch
    /\ IF plan.mode = "default"
       THEN /\ tools' = [tools EXCEPT ![k] = Done(1)]
            /\ switch' = switch /\ UNCHANGED <<entries, context>>
       ELSE /\ WriteSwitch("default", k)
            /\ tools' = [tools EXCEPT ![k].st = "left"]
    /\ UNCHANGED <<plan, run, cut, covered, late, broken, budget>>

EndSwitch ==
    /\ switch # NoSwitch /\ switch' = NoSwitch
    /\ tools' = IF switch.by = 0 THEN tools ELSE [tools EXCEPT ![switch.by] = Done(1)]

ReplaceMode ==
    /\ EndSwitch
    /\ plan' = [plan EXCEPT !.mode = switch.mode, !.unsynced = FALSE]
    /\ Stay /\ UNCHANGED <<run, cut, covered, broken, budget>>

\* The entry and its note are written and the sync fails: the mode stays as it was.
SwitchFails ==
    /\ EndSwitch /\ Spend("events")
    /\ plan' = [plan EXCEPT !.unsynced = TRUE]
    /\ Stay /\ UNCHANGED <<run, cut, covered, broken>>

(***************************************************************************)
(* The end of a Turn.                                                      *)
(***************************************************************************)
\* The results are sorted back to the order of the calls and stored one by one,
\* with hooks in between.
StoreResult ==
    /\ run.at = "batch" /\ ~Pending /\ tools # NoTools
    /\ LET k == Len(run.reply.calls) - Len(tools) + 1 IN
       Store(Result(NextId, k, Head(tools).size))
    /\ tools' = Tail(tools)
    /\ UNCHANGED <<plan, switch, run, cut, covered, broken, budget>>

ResultsStored ==
    /\ run.at = "batch" /\ tools = NoTools
    /\ run' = [run EXCEPT !.at = "next"]
    /\ Stay /\ UNCHANGED <<plan, switch, tools, cut, covered, broken, budget>>

\* record_turn, and then the one next action of a settled Turn, in this order:
\* cancellation, overflow recovery, retry, failure, continuation.
Recorded == [run EXCEPT !.turns = @ + 1, !.gate = "default", !.reply = NoReply]
Recovers == run.reply.over = "retry" /\ ~run.recovered
\* Mutant: one retry too many.
SchedulesOneMore == run.reply.failure = "retry" /\ run.attempts <= MaxRetries
Schedules == run.reply.failure = "retry" /\ run.attempts < MaxRetries
TurnEnds(condition) == run.at = "next" /\ condition

TurnCancelled ==
    /\ TurnEnds(run.reply.cancelled)
    /\ run' = [Recorded EXCEPT !.at = "settle"]
    /\ Stay /\ UNCHANGED <<plan, switch, tools, cut, covered, broken, budget>>

RecoverOverflow ==
    /\ TurnEnds(~run.reply.cancelled /\ Recovers)
    /\ PerformCompaction([Recorded EXCEPT !.recovered = TRUE], run.reply.id, "turn")
    /\ Stay /\ UNCHANGED <<plan, switch, tools, covered, broken, budget>>

ScheduleRetry ==
    /\ TurnEnds(~run.reply.cancelled /\ ~Recovers /\ Schedules)
    /\ run' = [Recorded EXCEPT !.at = "backoff", !.attempts = @ + 1]
    /\ Stay /\ UNCHANGED <<plan, switch, tools, cut, covered, broken, budget>>

\* The wait ends by itself or with the cancellation of the Run.
Backoff ==
    /\ run.at = "backoff"
    /\ \/ run' = [run EXCEPT !.at = "turn"]
       \/ run.cancelled /\ run' = [run EXCEPT !.at = "settle"]
    /\ Stay /\ UNCHANGED <<plan, switch, tools, cut, covered, broken, budget>>

RunFails ==
    /\ TurnEnds(~run.reply.cancelled /\ ~Recovers /\ ~Schedules /\ run.reply.failure # "none")
    /\ run' = [Recorded EXCEPT !.at = "settle"]
    /\ Stay /\ UNCHANGED <<plan, switch, tools, cut, covered, broken, budget>>

Succeeds == TurnEnds(~run.reply.cancelled /\ ~Recovers /\ run.reply.failure = "none")
ForTools == run.reply.calls # <<>> /\ ~run.reply.stop
Answered == [Recorded EXCEPT !.attempts = 0, !.tries = 0]

\* Tool results or a queued input continue the Run.
ContinueRun ==
    /\ Succeeds
    /\ \/ /\ ForTools /\ UNCHANGED budget
          /\ run' = [Answered EXCEPT !.at = "turn"]
       \/ /\ Spend("runs")
          /\ run' = [Answered EXCEPT !.at = "turn", !.input = "queued"]
    /\ Stay /\ UNCHANGED <<plan, switch, tools, cut, covered, broken>>

\* ContextUsageEstimate::should_compact: the usage providers report is arbitrary.
ShouldCompact == BOOLEAN

\* Nothing is left to do; a full context is compacted after the Run.
FinishRun ==
    /\ Succeeds /\ ~ForTools
    /\ \E full \in ShouldCompact :
         run' = [Answered EXCEPT !.at = "settle", !.auto = full \/ run.reply.over = "compact"]
    /\ Stay /\ UNCHANGED <<plan, switch, tools, cut, covered, broken, budget>>

\* RunScope::settle; an internal input that was stopped before it went in is kept.
SettleRun ==
    /\ run.at = "settle"
    /\ IF run.auto THEN PerformCompaction(run, 0, "idle")
       ELSE run' = Fresh /\ cut' = cut
    /\ IF run.failed = "kept" THEN Store(User(NextId)) ELSE Stay
    /\ UNCHANGED <<plan, switch, tools, covered, broken, budget>>
(***************************************************************************)
(* What happens to a Run from outside.                                     *)
(***************************************************************************)
Cancel ==
    /\ run.at # "idle" /\ ~run.cancelled
    /\ Spend("events")
    /\ run' = [run EXCEPT !.cancelled = TRUE]
    /\ Stay /\ UNCHANGED <<plan, switch, tools, cut, covered, broken>>

\* An extension adds a message, shown to the model or not.
SendExtensionMessage(shown) ==
    /\ Spend("events")
    /\ Store(Extension(NextId, shown))
    /\ UNCHANGED <<plan, switch, run, tools, cut, covered, broken>>

\* record_handler_failure: an extension's handler fails, anywhere, and a diagnostic is
\* stored that the model never sees.
RecordDiagnostic ==
    /\ Spend("events")
    /\ Store(Extension(NextId, FALSE))
    /\ UNCHANGED <<plan, switch, run, tools, cut, covered, broken>>

\* The tools' futures go with the batch, and with them a plan that waits.  A tool
\* that is writing a switch runs in the same task, and is not interrupted.
Requests == {tools[k].request : k \in DOMAIN tools}
Interrupted(r) ==
    /\ switch # NoSwitch => switch.by = 0
    /\ Spend("events")
    /\ run' = r /\ tools' = NoTools /\ cut' = NoCut /\ broken' = TRUE
    /\ plan' = Forget(Requests \ {0})
    /\ Stay /\ UNCHANGED <<switch, covered>>

\* An operational error, such as an event that cannot be sent or a result that
\* cannot be projected, ends the Run where it is.
RunBreaks ==
    /\ run.at \notin {"idle", "compact", "settle"}
    /\ Interrupted(Failed(run, "error"))

\* The future of the Run or of the compaction is dropped.
DropRun == run.at # "idle" /\ Interrupted(Fresh)

\* The process stops, and the Session is resumed from its Store.
Reopen ==
    /\ Spend("events")
    /\ context' = HistoryFromStore(entries)
    /\ plan' = [plan EXCEPT !.mode = BranchMode(entries), !.pending = 0,
                          !.unsynced = FALSE]
    /\ switch' = NoSwitch /\ run' = Fresh /\ tools' = NoTools /\ cut' = NoCut
    /\ broken' = TRUE
    /\ UNCHANGED <<entries, covered, late>>

Next ==
    \/ StartRun \/ CompactSession \/ CommitCompaction \/ CompactionFails
    \/ BeginTurn \/ InsertUserMessage \/ ReadHistory \/ ReadMode
    \/ StreamAssistant \/ StartCalls \/ ObserveCancellation
    \/ \E k \in DOMAIN tools :
         FinishTool(k) \/ BeginApproval(k) \/ DecidePlan(k) \/ LeavePlanMode(k)
    \/ RespondPlanApproval \/ SetMode \/ ReplaceMode \/ SwitchFails
    \/ StoreResult \/ ResultsStored
    \/ TurnCancelled \/ RecoverOverflow \/ ScheduleRetry \/ Backoff \/ RunFails
    \/ ContinueRun \/ FinishRun \/ SettleRun
    \/ Cancel \/ \E shown \in BOOLEAN : SendExtensionMessage(shown)
    \/ RecordDiagnostic
    \/ RunBreaks \/ DropRun \/ Reopen

Spec == Init /\ [][Next]_vars

(***************************************************************************)
(* Properties.                                                             *)
(***************************************************************************)
\* The context in memory is the one a resumed Session rebuilds from its Store,
\* with the same notes in the same places and the same ones held back, also while
\* a batch runs and after a switch during a compaction.
LiveContextIsRebuilt == TypeOK /\ context = HistoryFromStore(entries)

\* The stored results of an assistant message at position p, up to the next one.
IsMessage(n, t) == entries[n].kind = "message" /\ entries[n].message.t = t
ResultsOf(p) ==
    LET after == {n \in p + 1 .. Len(entries) : IsMessage(n, "assistant")}
        end == IF after = {} THEN Len(entries) ELSE Min(after) - 1
        found == SelectSeq(SubSeq(entries, p + 1, end),
                     LAMBDA e : e.kind = "message" /\ e.message.t = "result")
    IN [i \in DOMAIN found |-> found[i].message.call]

\* Every call of an attempt that asks for tools has exactly one result, in the order of the calls,
\* whatever order the tools finished in and when the Run was cancelled among them.
\* Only a Run that broke, was dropped or died may leave the last ones out.  And in a
\* request every call that was run has its result behind it, as providers require,
\* unless a compaction dropped one that is empty.  The calls of an attempt that was
\* cancelled are never run; its message stays in the requests, without results.
EveryCallAnswered ==
    /\ \A p \in DOMAIN entries : IsMessage(p, "assistant") =>
          LET calls == Runnable(entries[p].message)
              found == ResultsOf(p)
              open == run.at \in {"calls", "batch"} /\ run.reply.id = p IN
          /\ Len(found) <= Len(calls) /\ \A i \in DOMAIN found : found[i] = i
          /\ Len(found) = Len(calls) \/ open \/ broken
    /\ run.at = "stream" /\ ~broken /\ 0 \notin Sizes =>
          LET request == Converted(run.request) IN
          \A p \in DOMAIN request : IsAssistant(request[p]) =>
              \A c \in DOMAIN Runnable(request[p]) : \E q \in p + 1 .. Len(request) :
                  /\ request[q].t = "result" /\ request[q].call = c
                  /\ \A r \in p + 1 .. q : ~IsAssistant(request[r])

\* The context ends up stating the mode of the branch, nothing is held back from it
\* except behind calls without results, and the mode is the branch's between switches,
\* unless the last one could not be synced.
ModeIsTold ==
    /\ StatedMode(context.history \o context.held) = BranchMode(entries)
    /\ context.held # <<>> => AwaitingResults(context.history)
    /\ switch = NoSwitch /\ ~plan.unsynced => plan.mode = BranchMode(entries)

\* Every message the model may see is in its context or behind the summary in it, but
\* for failed attempts, for what extensions add while a summary is being written, and
\* for what the previous summary stood for when a compaction had nothing else to
\* summarize than the first part of a split Turn.
NothingLost ==
    \A p \in DOMAIN entries : entries[p].kind = "message" =>
        LET m == entries[p].message IN
        \/ p \in Ids(context.history) \cup covered.stands \cup covered.dropped \cup late
        \/ EstimatedTokens(m) = 0 \/ (IsAssistant(m) /\ m.error)

\* Between two answers the model is asked at most as often as the retries allow,
\* and once more only after the one overflow recovery of a Run, whose compaction
\* must neither reset the retries nor be done again.
RetryBudget == run.tries <= MaxRetries + (IF run.recovered THEN 2 ELSE 1)

\* A plan waits for the user only as long as its call does, so none is left to
\* block the next one; and no two calls share an approval.
NoStalePlan ==
    /\ plan.pending # 0 => \E k \in DOMAIN tools :
         tools[k].st = "waits" /\ tools[k].request = plan.pending
    /\ \A j, k \in DOMAIN tools : tools[j].request = tools[k].request => j = k \/ tools[j].request = 0
=============================================================================
