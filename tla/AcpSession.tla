----------------------------- MODULE AcpSession -----------------------------
(***************************************************************************)
(* One Session seen through ACP: the projection that journals and          *)
(* broadcasts the Kernel's events, the watcher that queues them on one     *)
(* connection, the requests answered on that connection, the relay that    *)
(* batches what is queued, and the web client that applies the frames,     *)
(* keeps a recovery cursor and reconnects.                                 *)
(*                                                                         *)
(* Two tasks of the Kernel emit: the Run, and whoever changes a setting.   *)
(* An event takes its sequence, is resolved to the Operation it belongs to *)
(* and is appended to the projection in steps of their own.                *)
(*                                                                         *)
(* An event is abstracted to its kind: "start" and "end" (the boundaries   *)
(* of an Operation, two updates each), "text" (a streamed chunk), "term"   *)
(* (a terminal snapshot, which replaces the one before it), "settings",    *)
(* and the four events of a plan approval: "asked" and "resolved" carry    *)
(* the request, "required" and "resumed" only the foreground state.        *)
(***************************************************************************)
EXTENDS Naturals, Sequences, SequencesExt, FiniteSets

CONSTANTS
    Kinds,       \* what a Run may emit: a subset of {"text", "term", "plan"}
    Capacity,    \* groups the broadcast channel keeps for a slow watcher
    MaxBatch,    \* updates one frame carries at most
    MaxQueue,    \* bound on the updates queued on the connection
    MaxSeq,      \* bound on the events of the Session
    MaxRuns,     \* bound on its Runs
    MaxChanges,  \* bound on its settings changes
    MaxDrops     \* bound on lost connections

ASSUME BoundsAssumption ==
    /\ Kinds \subseteq {"text", "term", "plan"}
    /\ Capacity \in Nat \ {0} /\ MaxBatch \in Nat \ {0}
    /\ MaxQueue \in Nat \ {0} /\ {MaxSeq, MaxRuns, MaxChanges, MaxDrops} \subseteq Nat

VARIABLES
    kernel,      \* the Session in the Kernel: its Run, history, settings and waiting plan
    emit,        \* the event each of the two emitters is publishing
    sequence,    \* the newest event sequence taken
    projection,  \* journal, newest sequence and foreground state
    watcher,     \* this connection's watcher
    open,        \* plan approvals asked on this connection and not settled
    out,         \* the connection's outbound queue
    client,      \* the web client
    config,      \* a session/set_config_option request being answered
    closing,     \* a session/close request being answered
    drops,       \* connections lost so far
    displaced    \* history: sequences of groups that did not keep their place

vars == <<kernel, emit, sequence, projection, watcher, open, out, client,
          config, closing, drops, displaced>>

-----------------------------------------------------------------------------
(* The projection of the Session.                                          *)

\* Foreground state an event leaves, or "same".
StateOf(kind) ==
    CASE kind \in {"start", "resumed"} -> "running"
      [] kind = "required"             -> "requires_action"
      [] kind \in {"end", "fallback"}  -> "idle"
      [] OTHER                         -> "same"

After(state, kind) == IF StateOf(kind) = "same" THEN state ELSE StateOf(kind)

\* No Operation was projected yet.
NoJournal == [run |-> 0, base |-> <<>>, groups |-> <<>>, running |-> FALSE,
              incremental |-> FALSE]

NewProjection == [journal |-> NoJournal, last |-> 0, foreground |-> "idle"]

\* The journal with one more group; groups of other Runs and of ended ones stay out.
Appended(j, g, base) ==
    IF g.kind = "start"
    THEN [run |-> g.run, base |-> base, groups |-> <<g>>, running |-> TRUE,
          incremental |-> TRUE]
    ELSE IF ~(j.running /\ g.run = j.run) THEN j
    ELSE LET kept == SelectSeq(j.groups, LAMBDA k : g.kind # "term" \/ k.kind # "term")
         IN  [j EXCEPT !.groups  = Append(kept, g),
                       !.running = g.kind # "end"]

\* Whether the journal covers an inclusive cursor.
Covers(j, run, next) ==
    /\ j.run # 0 /\ j.run = run /\ j.incremental
    /\ Head(j.groups).seq <= next
    /\ next <= Last(j.groups).seq + 1


From(groups, next) == SelectSeq(groups, LAMBDA g : g.seq >= next)

\* The Operation an event without one of its own belongs to.
ActiveOperation == IF projection.journal.running THEN projection.journal.run ELSE 0

\* A group on the broadcast channel: the oldest unread one makes room.
Heard(w, g) ==
    IF w.stage = "off" \/ w.closed THEN w
    ELSE IF Len(w.inbox) < Capacity THEN [w EXCEPT !.inbox = Append(@, g)]
    ELSE [w EXCEPT !.inbox = Append(Tail(@), g), !.lagged = TRUE,
                   !.lost = IF Head(w.inbox).run = 0 THEN @ \cup {Head(w.inbox).seq} ELSE @]

\* Records and broadcasts one group under the projection's lock.
AppendGroup(g, base) ==
    LET j == Appended(projection.journal, g, base)
        misplaced == \/ g.seq < projection.last
                     \/ g.run # 0 /\ ~(j.run = g.run /\ g \in ToSet(j.groups))
    IN  /\ projection' = [journal    |-> j,
                          last       |-> IF g.seq > projection.last THEN g.seq
                                         ELSE projection.last,
                          foreground |-> After(projection.foreground, g.kind)]
        /\ watcher' = Heard(watcher, g)
        /\ displaced' = IF misplaced THEN displaced \cup {g.seq} ELSE displaced

-----------------------------------------------------------------------------
(* What the Kernel does and emits.                                         *)

NotEmitting == [stage |-> "idle", kind |-> "none", seq |-> 0, run |-> 0, val |-> 0]

Closing == closing.stage # "none"

\* An emitter takes the next sequence for an event.
Taken(e, kind, run, val) ==
    /\ emit[e].stage = "idle"
    /\ sequence' = sequence + 1
    /\ emit' = [emit EXCEPT ![e] = [stage |-> "taken", kind |-> kind,
                                    seq |-> sequence + 1, run |-> run, val |-> val]]

\* There is room for n more events that somebody chooses to cause.
Room(n) == sequence + n <= MaxSeq

\* A Run starts: it is installed, then RunStart is emitted.
StartRun ==
    /\ kernel.phase = "idle" /\ ~Closing /\ kernel.run < MaxRuns /\ Room(1)
    /\ kernel' = [kernel EXCEPT !.run = @ + 1, !.phase = "running", !.term = 0]
    /\ Taken("run", "start", kernel.run + 1, 0)
    /\ UNCHANGED <<projection, watcher, open, out, client, config, closing, drops, displaced>>

\* The model's output, which history keeps, and a terminal's newest view.
RunOutput(kind) ==
    /\ kernel.phase = "running" /\ kind \in Kinds \cap {"text", "term"} /\ Room(1)
    /\ Taken("run", kind, 0, 0)
    /\ kernel' = IF kind = "text"
                 THEN [kernel EXCEPT !.history = Append(@, sequence + 1)]
                 ELSE [kernel EXCEPT !.term = sequence + 1]
    /\ UNCHANGED <<projection, watcher, open, out, client, config, closing, drops, displaced>>

\* exit_plan_mode records the plan as waiting, then announces it.
AskPlan ==
    /\ kernel.phase = "running" /\ "plan" \in Kinds /\ Room(2)
    /\ kernel' = [kernel EXCEPT !.phase = "asked", !.plan = sequence + 1,
                                !.asked = sequence + 1]
    /\ Taken("run", "asked", 0, sequence + 1)
    /\ UNCHANGED <<projection, watcher, open, out, client, config, closing, drops, displaced>>

\* The Run starts waiting for the user.
RequireAction ==
    /\ kernel.phase = "asked"
    /\ kernel' = [kernel EXCEPT !.phase = "waiting"]
    /\ Taken("run", "required", 0, 0)
    /\ UNCHANGED <<projection, watcher, open, out, client, config, closing, drops, displaced>>

\* The plan is answered by another client, or withdrawn when the Run is stopped.
DecideElsewhere ==
    /\ kernel.phase = "waiting" /\ kernel.plan # 0
    /\ kernel' = [kernel EXCEPT !.plan = 0]
    /\ UNCHANGED <<emit, sequence, projection, watcher, open, out, client, config,
                   closing, drops, displaced>>

\* The wait is over: the plan is forgotten and both events say so.
ResolvePlan ==
    /\ kernel.phase = "waiting" /\ kernel.plan = 0
    /\ kernel' = [kernel EXCEPT !.phase = "resolved", !.asked = 0]
    /\ Taken("run", "resolved", 0, kernel.asked)
    /\ UNCHANGED <<projection, watcher, open, out, client, config, closing, drops, displaced>>

ResolveAction ==
    /\ kernel.phase = "resolved"
    /\ kernel' = [kernel EXCEPT !.phase = "running"]
    /\ Taken("run", "resumed", 0, 0)
    /\ UNCHANGED <<projection, watcher, open, out, client, config, closing, drops, displaced>>

\* The Run settles; AgentSettled is emitted before the Session is idle again.
EndRun ==
    /\ kernel.phase = "running"
    /\ kernel' = [kernel EXCEPT !.phase = "ending"]
    /\ Taken("run", "end", kernel.run, 0)
    /\ UNCHANGED <<projection, watcher, open, out, client, config, closing, drops, displaced>>

\* The Run ends with an error that never reached AgentSettled.
FailRun ==
    /\ kernel.phase = "running" /\ emit["run"].stage = "idle" /\ kernel.failed = "no"
    /\ kernel' = [kernel EXCEPT !.phase = "idle", !.failed = "untold"]
    /\ UNCHANGED <<emit, sequence, projection, watcher, open, out, client, config,
                   closing, drops, displaced>>

\* The Session left the Kernel, whether or not its close reported an error.
KernelClosed == closing.stage \in {"closed", "answered", "forgotten", "failed"}

\* The prompt's task looks whether another Run owns the Session by now,
CheckFallback ==
    /\ kernel.failed = "untold"
    /\ kernel' = [kernel EXCEPT !.failed =
                      IF kernel.phase = "idle" /\ ~KernelClosed THEN "checked" ELSE "told"]
    /\ UNCHANGED <<emit, sequence, projection, watcher, open, out, client, config,
                   closing, drops, displaced>>

\* and later ends the live state: that of a Run that started since, too.
PublishTerminalFallback ==
    LET j == projection.journal
        g == [seq |-> IF j.run = 0 THEN 1 ELSE Last(j.groups).seq + 1,
              run |-> 0, kind |-> "fallback", val |-> 0]
        overtaken == kernel.phase # "idle" /\ j.running /\ j.run = kernel.run
    IN  /\ kernel.failed = "checked"
        /\ kernel' = [kernel EXCEPT !.failed = "told"]
        /\ projection' =
             [journal    |-> [j EXCEPT !.running = FALSE, !.incremental = FALSE],
              last       |-> IF g.seq > projection.last THEN g.seq ELSE projection.last,
              foreground |-> "idle"]
        /\ watcher' = Heard(watcher, g)
        /\ displaced' = IF overtaken THEN displaced \cup {g.seq} ELSE displaced
        /\ UNCHANGED <<emit, sequence, open, out, client, config, closing, drops>>

\* ProjectionSink::emit for the Run's own events; nothing else moves the journal meanwhile.
RunAppends ==
    LET e == emit["run"]
        g == [seq |-> e.seq, kind |-> e.kind, val |-> e.val,
              run |-> IF e.run # 0 THEN e.run ELSE ActiveOperation]
    IN  /\ e.stage = "taken"
        /\ AppendGroup(g, kernel.history)
        /\ emit' = [emit EXCEPT !["run"] = NotEmitting]
        /\ kernel' = IF e.kind = "end" THEN [kernel EXCEPT !.phase = "idle"] ELSE kernel
        /\ UNCHANGED <<sequence, open, out, client, config, closing, drops>>

\* A setting is changed, by this client's request or by anyone else, under the
\* lock that the publication still holds.
ChangeSettings(mine) ==
    /\ ~Closing /\ kernel.settings < MaxChanges /\ Room(1)
    /\ mine => client.link = "ready" /\ config.stage = "none"
    /\ kernel' = [kernel EXCEPT !.settings = @ + 1]
    /\ Taken("settings", "settings", 0, kernel.settings + 1)
    /\ config' = IF mine THEN [config EXCEPT !.stage = "publishing"] ELSE config
    /\ UNCHANGED <<projection, watcher, open, out, client, closing, drops, displaced>>

\* Its event is given to the Operation active at this moment,
SettingsResolved ==
    /\ emit["settings"].stage = "taken"
    /\ emit' = [emit EXCEPT !["settings"].stage = "resolved",
                            !["settings"].run   = ActiveOperation]
    /\ UNCHANGED <<kernel, sequence, projection, watcher, open, out, client, config,
                   closing, drops, displaced>>

\* and appended at a later one.
SettingsAppended ==
    LET e == emit["settings"]
    IN  /\ e.stage = "resolved"
        /\ AppendGroup([seq |-> e.seq, kind |-> e.kind, val |-> e.val, run |-> e.run], <<>>)
        /\ emit' = [emit EXCEPT !["settings"] = NotEmitting]
        /\ config' = IF config.stage = "publishing"
                     THEN [config EXCEPT !.stage = "published"] ELSE config
        /\ UNCHANGED <<kernel, sequence, open, out, client, closing, drops>>

-----------------------------------------------------------------------------
(* Notifications and requests on the connection.                           *)

PhaseOf(kind) == IF kind \in {"start", "end"} THEN kind ELSE "none"

\* One update of a group, with the envelope that places it.
Note(kind, g, i, n) ==
    [type |-> "note", kind |-> kind, run |-> g.run, seq |-> g.seq, last |-> g.seq,
     phase |-> PhaseOf(g.kind), index |-> i, count |-> n,
     val |-> IF kind = "text" THEN <<g.seq>> ELSE g.val]

\* An update outside any group.
Loose(kind, val) ==
    [type |-> "note", kind |-> kind, run |-> 0, seq |-> 0, last |-> 0, phase |-> "none",
     index |-> 1, count |-> 1, val |-> val]

StateOnly == {"required", "resumed", "fallback"}

\* The updates of one group: the event itself and, where it has one, its state.
Notifications(g) ==
    CASE g.kind \in {"start", "end"} -> <<Note(g.kind, g, 1, 2), Note(StateOf(g.kind), g, 2, 2)>>
      [] g.kind \in StateOnly        -> <<Note(StateOf(g.kind), g, 1, 1)>>
      [] OTHER                       -> <<Note(g.kind, g, 1, 1)>>

\* The same group as history: without its state, and nothing when nothing remains.
Replayed(g) == IF g.kind \in StateOnly THEN <<>> ELSE <<Note(g.kind, g, 1, 1)>>

\* Asks the client to approve a plan, once per connection.
Request(asked, id) ==
    IF id = 0 \/ id \in asked THEN <<>> ELSE <<[type |-> "ask", val |-> id]>>

\* What settling a plan sends to a connection that still asks for it.
Withdraw(asked, id) == IF id \in asked THEN <<[type |-> "cancel", val |-> id]>> ELSE <<>>

NoWatcher == [stage |-> "off", inbox |-> <<>>, lagged |-> FALSE, lost |-> {},
              closed |-> FALSE, batch |-> <<>>, base |-> <<>>, run |-> 0, next |-> 0,
              progress |-> 0, state |-> "idle"]

\* A subscription taken under the projection's lock.
Subscribed(stage) ==
    [NoWatcher EXCEPT !.stage = stage, !.progress = projection.last,
                      !.state = projection.foreground]

\* The retained Operation from its start.
FromStart ==
    LET j == projection.journal
    IN  [Subscribed("chosen") EXCEPT !.base = j.base, !.batch = j.groups, !.run = j.run,
                                     !.next = Head(j.groups).seq]

\* Advances the watcher's cursor past a group it queued.
RecordSent(w, g) == IF g.run = 0 THEN w ELSE [w EXCEPT !.run = g.run, !.next = g.seq + 1]

Sent(w, g) ==
    [RecordSent(w, g) EXCEPT !.progress = IF @ >= g.seq THEN @ ELSE g.seq]

NoConfig == [stage |-> "none", target |-> 0, val |-> 0]

\* Mutant: the permit is taken before the wait.
PermitBeforeWait == config.stage \in {"waiting", "holding"}

\* A response being written keeps the watcher from sending.
PermitHeld == config.stage = "holding"

\* The watcher takes the next group and queues it with the requests it carries,
\* unless the group is behind the watcher's cursor.
WatcherSends ==
    LET direct == watcher.batch = <<>>
        g == IF direct THEN Head(watcher.inbox) ELSE Head(watcher.batch)
        w == IF direct THEN [watcher EXCEPT !.inbox = Tail(@)]
             ELSE [watcher EXCEPT !.batch = Tail(@)]
        behind == g.seq < watcher.next
        requests == CASE g.kind = "asked"    -> Request(open, g.val)
                      [] g.kind = "resolved" -> Withdraw(open, g.val)
                      [] OTHER               -> <<>>
    IN  /\ watcher.stage = "on"
        /\ direct => ~watcher.lagged /\ watcher.inbox # <<>>
        /\ behind \/ (~PermitHeld /\ Len(out) < MaxQueue)
        /\ watcher' = IF behind THEN w ELSE Sent(w, g)
        /\ out' = IF behind THEN out ELSE out \o Notifications(g) \o requests
        /\ open' = CASE behind               -> open
                     [] g.kind = "asked"     -> open \cup {g.val}
                     [] g.kind = "resolved"  -> open \ {g.val}
                     [] OTHER                -> open
        /\ UNCHANGED <<kernel, emit, sequence, projection, client, config, closing,
                       drops, displaced>>

\* A connection is over: its tasks end, its queue and its open requests go with it.
\* A close it asked for goes on without it.
Unplugged(c) ==
    /\ watcher' = NoWatcher /\ out' = <<>> /\ open' = {}
    /\ config' = NoConfig
    /\ closing' = [closing EXCEPT !.stage = IF @ = "asked" THEN "detached"
                                            ELSE IF @ = "closed" THEN "answered" ELSE @]
    /\ client' = [c EXCEPT !.link = "down", !.part = <<>>, !.asks = {}]

\* A watcher that fell behind reads what it missed from the journal, or its failure
\* ends the connection.
WatcherLagged ==
    LET j == projection.journal
    IN  /\ watcher.stage = "on" /\ watcher.batch = <<>> /\ watcher.lagged
        /\ IF watcher.next # 0 /\ Covers(j, watcher.run, watcher.next)
           THEN /\ watcher' = [watcher EXCEPT !.batch = From(j.groups, watcher.next),
                                              !.lagged = FALSE, !.lost = {}]
                /\ displaced' = displaced \cup watcher.lost
                /\ UNCHANGED <<open, out, client, config, closing>>
           ELSE Unplugged(client) /\ UNCHANGED displaced
        /\ UNCHANGED <<kernel, emit, sequence, projection, drops>>

\* The projection was dropped and everything it broadcast is sent: the watcher ends.
WatcherEnds ==
    /\ watcher.stage = "on" /\ watcher.closed /\ ~watcher.lagged
    /\ watcher.batch = <<>> /\ watcher.inbox = <<>>
    /\ watcher' = NoWatcher
    /\ UNCHANGED <<kernel, emit, sequence, projection, open, out, client, config, closing,
                   drops, displaced>>

-----------------------------------------------------------------------------
(* Attaching: initialize, then session/resume from a cursor or from the    *)
(* start.                                                                  *)

\* A new connection; initialize plans the recovery of the cursor the client kept.
\* A Session that is being closed refuses to be attached.
Initialize ==
    LET watch == Covers(projection.journal, client.run, client.next)
    IN  /\ client.link = "down" /\ ~Closing
        /\ client' = [client EXCEPT !.link = IF client.run # 0 /\ watch THEN "watch"
                                             ELSE "resume"]
        /\ UNCHANGED <<kernel, emit, sequence, projection, watcher, open, out, config,
                       closing, drops, displaced>>

\* Resume from the cursor; a cursor lost since initialize asks for a full resume.
ResumeFromCursor ==
    LET j == projection.journal
    IN  /\ client.link = "watch"
        /\ IF Covers(j, client.run, client.next)
           THEN /\ watcher' = [Subscribed("chosen") EXCEPT
                                  !.batch = From(j.groups, client.next),
                                  !.run = client.run, !.next = client.next]
                /\ client' = [client EXCEPT !.link = "attaching"]
           ELSE /\ client' = [client EXCEPT !.link = "resume"]
                /\ UNCHANGED watcher
        /\ UNCHANGED <<kernel, emit, sequence, projection, open, out, config, closing,
                       drops, displaced>>

\* Full resume: the client forgets its view; the server replays the retained Operation
\* or, without one, subscribes before it reads the durable Session.
ResumeFromStart ==
    /\ client.link = "resume"
    /\ client' = [client EXCEPT !.link = "attaching", !.run = 0, !.next = 0, !.part = <<>>,
                                !.fullOnly = TRUE, !.text = <<>>, !.term = 0]
    /\ watcher' = IF projection.journal.run # 0 THEN FromStart ELSE Subscribed("live")
    /\ UNCHANGED <<kernel, emit, sequence, projection, open, out, config, closing, drops,
                   displaced>>

\* The durable Session is read,
ReadDurable ==
    /\ watcher.stage = "live"
    /\ watcher' = [watcher EXCEPT !.stage = "read", !.base = kernel.history]
    /\ UNCHANGED <<kernel, emit, sequence, projection, open, out, client, config, closing,
                   drops, displaced>>

\* and used unless an Operation started meanwhile, which is then replayed instead.
SelectDurableResume ==
    /\ watcher.stage = "read"
    /\ watcher' = IF projection.journal.run # 0 THEN FromStart
                  ELSE [watcher EXCEPT !.stage = "chosen"]
    /\ UNCHANGED <<kernel, emit, sequence, projection, open, out, client, config, closing,
                   drops, displaced>>

\* Mutant: the requests that still wait are not asked again.
AttachWithoutPlan ==
    LET groups == watcher.batch
        base == IF watcher.base = <<>> THEN <<>> ELSE <<Loose("history", watcher.base)>>
        sent == FoldLeft(RecordSent, watcher, groups)
    IN  /\ watcher.stage = "chosen"
        /\ watcher' = [sent EXCEPT !.stage = "on", !.batch = <<>>, !.base = <<>>,
                                   !.state = "idle"]
        /\ out' = out \o base \o FlattenSeq([i \in DOMAIN groups |-> Replayed(groups[i])])
                      \o <<Loose(watcher.state, 0),
                           [type |-> "resumed", val |-> kernel.settings]>>
        /\ UNCHANGED <<kernel, emit, sequence, projection, open, client, config, closing,
                       drops, displaced>>

\* The watcher is installed: history, the state captured with the subscription, the
\* plan that still waits, and the response with the current settings.
Attach ==
    LET groups == watcher.batch
        base == IF watcher.base = <<>> THEN <<>> ELSE <<Loose("history", watcher.base)>>
        sent == FoldLeft(RecordSent, watcher, groups)
    IN  /\ watcher.stage = "chosen"
        /\ watcher' = [sent EXCEPT !.stage = "on", !.batch = <<>>, !.base = <<>>,
                                   !.state = "idle"]
        /\ out' = out \o base \o FlattenSeq([i \in DOMAIN groups |-> Replayed(groups[i])])
                      \o <<Loose(watcher.state, 0)>>
                      \o Request(open, kernel.plan)
                      \o <<[type |-> "resumed", val |-> kernel.settings]>>
        /\ open' = IF kernel.plan = 0 THEN open ELSE open \cup {kernel.plan}
        /\ UNCHANGED <<kernel, emit, sequence, projection, client, config, closing, drops,
                       displaced>>

-----------------------------------------------------------------------------
(* Requests answered after this connection's updates.                      *)

\* The change is published: the response waits for what was broadcast by now,
ConfigWaits ==
    /\ config.stage = "published"
    /\ config' = [config EXCEPT !.stage = "waiting", !.target = projection.last]
    /\ UNCHANGED <<kernel, emit, sequence, projection, watcher, open, out, client, closing,
                   drops, displaced>>

\* then stops the watcher and reads the settings it will carry,
ConfigHolds ==
    /\ config.stage = "waiting" /\ watcher.progress >= config.target /\ ~KernelClosed
    /\ config' = [config EXCEPT !.stage = "holding", !.val = kernel.settings]
    /\ UNCHANGED <<kernel, emit, sequence, projection, watcher, open, out, client, closing,
                   drops, displaced>>

\* unless the watcher stopped or the Session is gone: an error answers it then,
ConfigFails ==
    /\ config.stage = "waiting"
    /\ watcher.stage = "off" \/ (watcher.progress >= config.target /\ KernelClosed)
    /\ config' = NoConfig
    /\ UNCHANGED <<kernel, emit, sequence, projection, watcher, open, out, client, closing,
                   drops, displaced>>

\* and is queued before the watcher goes on.
ConfigAnswers ==
    /\ config.stage = "holding"
    /\ out' = Append(out, [type |-> "config", val |-> config.val])
    /\ config' = NoConfig
    /\ UNCHANGED <<kernel, emit, sequence, projection, watcher, open, client, closing,
                   drops, displaced>>

\* The client closes the Session; the Kernel refuses new work and stops the Run.
AskClose ==
    /\ client.link = "ready" /\ ~Closing
    /\ closing' = [closing EXCEPT !.stage = "asked"]
    /\ UNCHANGED <<kernel, emit, sequence, projection, watcher, open, out, client, config,
                   drops, displaced>>

\* Dropping the projection ends every watcher once it sent what was broadcast.
Forget ==
    /\ projection' = NewProjection
    /\ watcher' = [watcher EXCEPT !.closed = watcher.stage # "off"]

\* The close outlasts its grace period: an error answers it and the close goes on.
CloseTimesOut ==
    /\ closing.stage = "asked" /\ kernel.phase # "idle"
    /\ closing' = [closing EXCEPT !.stage = "detached"]
    /\ UNCHANGED <<kernel, emit, sequence, projection, watcher, open, out, client, config,
                   drops, displaced>>

\* The Run is gone and the Session is closed. With nobody left to answer the
\* projection goes at once; otherwise the answer waits for the newest group.
KernelCloses ==
    /\ kernel.phase = "idle" /\ emit["run"].stage = "idle"
    /\ \/ /\ closing.stage = "asked"
          /\ closing' = [stage |-> "closed", target |-> projection.last]
          /\ UNCHANGED <<projection, watcher>>
       \/ /\ closing.stage = "detached"
          /\ closing' = [closing EXCEPT !.stage = "forgotten"]
          /\ Forget
    /\ UNCHANGED <<kernel, emit, sequence, open, out, client, config, drops, displaced>>

\* Closing ends with an error, which answers the request: the projection and its
\* watchers stay.
CloseFails ==
    /\ kernel.phase = "idle" /\ emit["run"].stage = "idle"
    /\ closing.stage \in {"asked", "detached"}
    /\ closing' = [closing EXCEPT !.stage = "failed"]
    /\ UNCHANGED <<kernel, emit, sequence, projection, watcher, open, out, client, config,
                   drops, displaced>>

\* Mutant: the answer does not wait.
CloseAnswersAtOnce ==
    /\ closing.stage = "closed"
    /\ out' = Append(out, [type |-> "closed", val |-> 0])
    /\ closing' = [stage |-> "answered", target |-> 0]
    /\ UNCHANGED <<kernel, emit, sequence, projection, watcher, open, client, config,
                   drops, displaced>>

CloseAnswers ==
    /\ closing.stage = "closed" /\ watcher.progress >= closing.target
    /\ out' = Append(out, [type |-> "closed", val |-> 0])
    /\ closing' = [stage |-> "answered", target |-> 0]
    /\ UNCHANGED <<kernel, emit, sequence, projection, watcher, open, client, config,
                   drops, displaced>>

ForgetProjection ==
    /\ closing.stage = "answered"
    /\ closing' = [closing EXCEPT !.stage = "forgotten"]
    /\ Forget
    /\ UNCHANGED <<kernel, emit, sequence, open, out, client, config, drops, displaced>>

-----------------------------------------------------------------------------
(* The relay and the web client.                                           *)

\* Whether one chunk may continue another in the same notification.
Merges(target, source) ==
    /\ target.kind = "text" /\ source.kind = "text"
    /\ target.run # 0 /\ target.run = source.run
    /\ {target.count, source.count} = {1} /\ {target.phase, source.phase} = {"none"}
    /\ source.seq > target.last

\* Adjacent chunks become one notification that covers all their sequences.
CoalesceUpdates(notes) ==
    LET step(merged, n) ==
            IF merged # <<>> /\ Merges(Last(merged), n)
            THEN [merged EXCEPT ![Len(merged)].val = @ \o n.val,
                                ![Len(merged)].last = n.last]
            ELSE Append(merged, n)
    IN  FoldLeft(step, <<>>, notes)

\* One update decoded into the view.
Shown(c, n) ==
    CASE n.kind \in {"text", "history"} -> [c EXCEPT !.text = @ \o n.val]
      [] n.kind = "term"                -> [c EXCEPT !.term = n.seq]
      [] n.kind = "start"               -> [c EXCEPT !.term = 0]
      [] n.kind = "settings"            -> [c EXCEPT !.config = n.val]
      [] n.kind \in {"running", "requires_action", "idle"} -> [c EXCEPT !.state = n.kind]
      [] OTHER                          -> c

\* The cursor after a complete group.
Committed(c, n) ==
    IF n.phase = "end" THEN [c EXCEPT !.run = 0, !.next = 0, !.fullOnly = FALSE]
    ELSE [c EXCEPT !.run = n.run, !.next = n.last + 1, !.fullOnly = FALSE]

\* Recovery state is given up until a full replay starts.
FullReplayOnly(c) == [c EXCEPT !.run = 0, !.next = 0, !.part = <<>>, !.fullOnly = TRUE]

\* SessionRecoveryBuffer.accept and commit: loose updates pass, a group is applied when
\* it is complete, and a group that does not follow the cursor is an error.
Accept(c, n) ==
    LET first == IF c.part = <<>> THEN n ELSE c.part[1]
        group == Append(c.part, n)
        moved == c.run # 0 /\ (c.run # n.run \/ n.seq < c.next)
        changed == \/ <<first.run, first.seq, first.count>> # <<n.run, n.seq, n.count>>
                   \/ \E i \in DOMAIN c.part : c.part[i].index = n.index
    IN  CASE c.broken                                -> c
          [] n.run = 0                               -> Shown(c, n)
          [] c.fullOnly /\ n.phase # "start"         -> c
          [] moved                                   -> [c EXCEPT !.broken = TRUE]
          [] c.part = <<>> /\ c.run = 0 /\ n.phase # "start" -> FullReplayOnly(c)
          [] changed                                 -> [c EXCEPT !.broken = TRUE]
          [] Len(group) < n.count                    -> [c EXCEPT !.part = group]
          [] OTHER -> Committed([FoldLeft(Shown, c, group) EXCEPT !.part = <<>>], n)

\* SessionUpdateRouter.applyMany: one frame, staged update by update.
ApplyMany(c, frame) == FoldLeft(Accept, c, frame)

\* A frame with the first n queued updates. Its view changes together or, after an
\* error, not at all: the client then reconnects for a full replay.
DeliverUpdates(n) ==
    LET frame == CoalesceUpdates(SubSeq(out, 1, n))
        applied == ApplyMany(client, frame)
    IN  /\ n <= Len(out) /\ \A i \in 1..n : out[i].type = "note"
        /\ IF applied.broken
           THEN Unplugged(FullReplayOnly(client))
           ELSE /\ client' = applied
                /\ out' = SubSeq(out, n + 1, Len(out))
                /\ UNCHANGED <<watcher, open, config, closing>>
        /\ UNCHANGED <<kernel, emit, sequence, projection, drops, displaced>>

\* A response or a request of the agent, in a frame of its own.
DeliverMessage ==
    LET m == Head(out)
    IN  /\ out # <<>> /\ m.type # "note"
        /\ out' = Tail(out)
        /\ client' =
             CASE m.type = "ask"     -> [client EXCEPT !.asks = @ \cup {m.val}]
               [] m.type = "cancel"  -> [client EXCEPT !.asks = @ \ {m.val}]
               [] m.type = "resumed" -> [client EXCEPT !.link = "ready", !.config = m.val]
               [] m.type = "config"  -> [client EXCEPT !.config = m.val]
               [] m.type = "closed"  -> [client EXCEPT !.told = TRUE]
        /\ UNCHANGED <<kernel, emit, sequence, projection, watcher, open, config, closing,
                       drops, displaced>>

\* The user answers; a plan settled elsewhere ignores the answer.
AnswerPlan ==
    \E id \in client.asks :
        /\ client' = [client EXCEPT !.asks = @ \ {id}]
        /\ open' = open \ {id}
        /\ kernel' = IF kernel.plan = id THEN [kernel EXCEPT !.plan = 0] ELSE kernel
        /\ UNCHANGED <<emit, sequence, projection, watcher, out, config, closing, drops,
                       displaced>>

\* The connection is lost.
Drop ==
    /\ client.link # "down" /\ drops < MaxDrops
    /\ drops' = drops + 1
    /\ Unplugged(client)
    /\ UNCHANGED <<kernel, emit, sequence, projection, displaced>>

-----------------------------------------------------------------------------
\* The client created the Session, which attached it.
Init ==
    /\ kernel = [run |-> 0, phase |-> "idle", failed |-> "no", plan |-> 0, asked |-> 0,
                 history |-> <<>>, term |-> 0, settings |-> 0]
    /\ emit = [e \in {"run", "settings"} |-> NotEmitting]
    /\ sequence = 0 /\ projection = NewProjection
    /\ watcher = [NoWatcher EXCEPT !.stage = "on"] /\ open = {} /\ out = <<>>
    /\ client = [link |-> "ready", run |-> 0, next |-> 0, part |-> <<>>, fullOnly |-> FALSE,
                 broken |-> FALSE, text |-> <<>>, term |-> 0, state |-> "idle",
                 config |-> 0, asks |-> {}, told |-> FALSE]
    /\ config = NoConfig
    /\ closing = [stage |-> "none", target |-> 0]
    /\ drops = 0 /\ displaced = {}

\* What the server, the client and a Run being stopped do of their own accord.
Progress ==
    \/ RunAppends \/ SettingsResolved \/ SettingsAppended
    \/ CheckFallback \/ PublishTerminalFallback
    \/ RequireAction \/ ResolvePlan \/ ResolveAction
    \/ Closing /\ (EndRun \/ DecideElsewhere)
    \/ WatcherSends \/ WatcherLagged \/ WatcherEnds
    \/ Initialize \/ ResumeFromCursor \/ ResumeFromStart
    \/ ReadDurable \/ SelectDurableResume \/ Attach
    \/ ConfigWaits \/ ConfigHolds \/ ConfigFails \/ ConfigAnswers
    \/ KernelCloses \/ CloseAnswers \/ ForgetProjection
    \/ \E n \in 1..MaxBatch : DeliverUpdates(n)
    \/ DeliverMessage

\* What people and the network may do; the model follows a displaced group until it
\* is delivered and no further.
Environment ==
    /\ displaced = {}
    /\ \/ StartRun \/ RunOutput("text") \/ RunOutput("term") \/ AskPlan
       \/ DecideElsewhere \/ EndRun \/ FailRun
       \/ \E mine \in BOOLEAN : ChangeSettings(mine)
       \/ AskClose \/ CloseTimesOut \/ CloseFails \/ AnswerPlan \/ Drop

Next == Progress \/ Environment

Spec == Init /\ [][Next]_vars /\ WF_vars(Progress)

-----------------------------------------------------------------------------
(* Properties. A group is displaced when it was appended behind a higher   *)
(* sequence, after the Operation it was given to had ended, or outside any *)
(* Operation and pushed out of the channel by later ones: the watcher or   *)
(* the client drops such a group.  So is the idle state published for a    *)
(* failed Run when it falls into the next one: it ends that Run's journal. *)

InPlace(texts) == SelectSeq(texts, LAMBDA s : s \notin displaced)


Emitting == \E e \in DOMAIN emit : emit[e].stage # "idle"

\* Nothing is under way between the Kernel and a client that is attached.
Quiet ==
    /\ client.link = "ready" /\ client.part = <<>> /\ out = <<>>
    /\ watcher.stage = "on" /\ ~watcher.lagged
    /\ watcher.inbox = <<>> /\ watcher.batch = <<>>
    /\ ~Emitting /\ kernel.failed \in {"no", "told"}
    /\ kernel.phase \in {"idle", "running"} \/ (kernel.phase = "waiting" /\ kernel.plan # 0)

\* What the client shows is what the Kernel has.
Current ==
    /\ client.text = kernel.history
    /\ client.term = kernel.term
    /\ client.config = kernel.settings
    /\ client.asks = {kernel.plan} \ {0}
    /\ client.state = CASE kernel.phase = "idle"    -> "idle"
                        [] kernel.phase = "waiting" -> "requires_action"
                        [] OTHER                    -> "running"

\* An attached client that has received everything shows the Session as it is: its text,
\* terminal, settings, the plan that waits for an answer, and whether it is running,
\* after any number of reconnects, lags and failed Runs, unless a group was displaced.
QuietIsCurrent == Quiet /\ displaced = {} /\ closing.stage = "none" => Current

\* Answers keep their place among the updates.  The answer to session/close comes after
\* every update the close produced: a client that was told shows the whole Session, with
\* no question left open, and as idle unless a Run ended without an event of its own.  The
\* answer to session/set_config_option is no older than any update sent before it, so it
\* never takes the client back to earlier settings.
AnswersInOrder ==
    /\ client.told /\ displaced = {} =>
          /\ client.text = kernel.history /\ client.asks = {}
          /\ kernel.failed = "no" => client.state = "idle"
    /\ \A i \in DOMAIN out : out[i].type = "config" =>
          /\ client.config <= out[i].val
          /\ \A k \in 1..(i - 1) :
                out[k].type = "note" /\ out[k].kind = "settings" => out[k].val <= out[i].val

\* The client catches up for good and every request is answered: a response that waits for
\* its updates does not keep them from being sent, and no recovery repeats for ever.  A
\* client that a displaced group reached waits for the next Run to be current again.
Settles ==
    <>[](\/ displaced # {}
         \/ /\ config.stage = "none" /\ closing.stage \in {"none", "forgotten", "failed"}
            /\ closing.stage = "none" => Quiet /\ Current)
=============================================================================
