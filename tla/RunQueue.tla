------------------------------ MODULE RunQueue ------------------------------
(***************************************************************************)
(* The durable pending queue of one Session and the Run that drains it     *)
(* (crates/kernel/src/runtime/run/queue.rs, run/queue/operations.rs, the   *)
(* queue half of run/turn.rs, run.rs, run/submit.rs, run/lifecycle.rs and  *)
(* session/transcript.rs).                                                 *)
(*                                                                         *)
(* An input is accepted by appending a QueueEnqueued record; it leaves the *)
(* queue by entering history (its message entry, then a QueueCancelled     *)
(* record with reason Consumed) or by a QueueCancelled record with another *)
(* reason.  Whoever submitted it is told once what happened: client        *)
(* prompts by an InsertionNotice, delegated submissions by a               *)
(* SubmissionReceipt; plain messages have no waiter.  The process may stop *)
(* at any moment and be restarted from the log, losing any suffix that was *)
(* not synced.                                                             *)
(***************************************************************************)
EXTENDS Naturals, Sequences, FiniteSets, OrderedLists

CONSTANTS
    Prompts,       \* client prompts; each waits on an InsertionNotice
    Submissions,   \* delegated inputs; each waits on a SubmissionReceipt
    Messages,      \* inputs queued by an extension; nobody waits for them
    Client,        \* the caller of Kernel::cancel_session
    None,          \* no item
    MaxTurns,      \* config::TurnLimit: Turns one Run may take
    MaxRuns,       \* bound: Runs started
    MaxReopens,    \* bound: crashes or reopenings
    MaxStops,      \* bound: calls of cancel_session
    MaxFaults      \* bound: Store writes that fail

Items == Prompts \cup Submissions \cup Messages

ASSUME ItemsAssumption ==
    /\ Prompts \cap Submissions = {}
    /\ Messages \cap (Prompts \cup Submissions) = {}
    /\ None \notin Items
    /\ Client \notin Items

ASSUME BoundsAssumption ==
    /\ MaxTurns \in Nat
    /\ MaxRuns \in Nat
    /\ MaxReopens \in Nat
    /\ MaxStops \in Nat
    /\ MaxFaults \in Nat

VARIABLES
    open,         \* PendingQueue::open
    steering,     \* PendingQueue::steering, front first
    followUp,     \* PendingQueue::follow_up, front first
    lane,         \* QueuedMessage::kind of every item
    claimed,      \* the item of the Run's uncommitted ClaimedItem, or None
    cancelled,    \* SessionExecution::cancellation is cancelled
    stale,        \* prompts whose captured waiter generation was cancelled
    stop,         \* where each caller of SessionExecution::cancel stands
    phase,        \* how far the active Run has come; "idle": no active Run
    turns,        \* TurnLoop::turns.len()
    outcome,      \* AgentOutcome the Run settles with
    failedBy,     \* the error run_until_settled returns: none, cancelled, other
    initial,      \* the input the Run was started for, or None
    inserted,     \* TurnLoop::user_message_inserted
    submissions,  \* SessionExecution::submissions
    stage,        \* where each input is on its way to the Session
    told,         \* the one outcome each waiter received
    log,          \* queue records and message entries in append order
    synced,       \* length of the prefix of log known to be on disk
    writeFailed,  \* SessionTranscriptState::write_failed
    dropped,      \* some Run future was dropped before it settled
    budget        \* what is left of the bounds

queueVars == <<open, steering, followUp, lane, claimed>>
runVars   == <<phase, turns, outcome, failedBy, initial, inserted>>
logVars   == <<log, synced, writeFailed>>
vars == <<open, steering, followUp, lane, claimed, cancelled, stale, stop, phase,
          turns, outcome, failedBy, initial, inserted, submissions, stage, told,
          log, synced, writeFailed, dropped, budget>>

Lanes    == {"steering", "followUp"}
Phases   == {"idle", "starting", "turn", "model", "finishing", "closed",
             "settling", "ending"}
Stages   == {"new", "arrived", "queued", "gate", "running", "out"}
Tellings == {"nothing", "inserted", "withdrawn", "stopped", "error",
             "answered", "lost"}
Stoppers == {Client} \cup Submissions
Bounds   == {"runs", "reopens", "stops", "faults"}

Enqueued(i, l) == [type |-> "enqueued", item |-> i, lane |-> l]
Cancelled(i)   == [type |-> "cancelled", item |-> i]
Consumed(i)    == [type |-> "consumed", item |-> i]
Message(i)     == [type |-> "message", item |-> i]
Entry == [type : {"enqueued"}, item : Items, lane : Lanes]
           \cup [type : {"cancelled", "consumed", "message"}, item : Items]

TypeOK ==
    /\ open \in BOOLEAN
    /\ steering \in Seq(Items)
    /\ followUp \in Seq(Items)
    /\ lane \in [Items -> Lanes]
    /\ claimed \in Items \cup {None}
    /\ cancelled \in BOOLEAN
    /\ stale \in SUBSET Prompts
    /\ stop \in [Stoppers -> {"none", "locked", "closed", "waitIdle"}]
    /\ phase \in Phases
    /\ turns \in Nat
    /\ outcome \in {"none", "succeeded", "cancelled", "failed"}
    /\ failedBy \in {"none", "cancelled", "other"}
    /\ initial \in Items \cup {None}
    /\ inserted \in BOOLEAN
    /\ submissions \in SUBSET Submissions
    /\ stage \in [Items -> Stages]
    /\ told \in [Items -> Tellings]
    /\ log \in Seq(Entry)
    /\ synced \in 0..Len(log)
    /\ writeFailed \in BOOLEAN
    /\ dropped \in BOOLEAN
    /\ budget \in [Bounds -> Nat]

(***************************************************************************)
(* Queue lanes and the log.                                                *)
(***************************************************************************)
Waiting == In(steering) \cup In(followUp)
Pending == Waiting \cup (IF claimed = None THEN {} ELSE {claimed})

MessagesOf(l) == {l[k].item : k \in {k \in 1..Len(l) : l[k].type = "message"}}

\* k is the last queue record of item i: later ones replace earlier ones when
\* PendingQueue::from_records replays them.
LastQueueRecord(l, i, k) ==
    /\ l[k].type # "message"
    /\ l[k].item = i
    /\ \A m \in 1..Len(l) : m > k => l[m].item # i \/ l[m].type = "message"

\* Mutant: restore without the check for an existing entry.
LiveIgnoringEntries(l) ==
    {i \in Items : \E k \in 1..Len(l) : /\ LastQueueRecord(l, i, k)
                                        /\ l[k].type = "enqueued"}

\* PendingQueue::restore: the items whose last queue record enqueues them and
\* whose reserved entry is not in the Store.
Live(l) ==
    {i \in Items : /\ \E k \in 1..Len(l) : /\ LastQueueRecord(l, i, k)
                                           /\ l[k].type = "enqueued"
                   /\ i \notin MessagesOf(l)}

PlaceIn(l, i) == CHOOSE k \in 1..Len(l) : LastQueueRecord(l, i, k)
LaneIn(l, i)  == l[PlaceIn(l, i)].lane

RestoredLane(l, q) ==
    Ordered({i \in Live(l) : LaneIn(l, i) = q},
            [i \in Live(l) |-> PlaceIn(l, i)])

\* Settling a waiter: the first outcome wins, plain messages have no waiter.
Tell(S, what) ==
    [i \in Items |-> IF i \in S \ Messages /\ told[i] = "nothing"
                     THEN what ELSE told[i]]

Spend(b) ==
    /\ budget[b] > 0
    /\ budget' = [budget EXCEPT ![b] = @ - 1]

\* A stopper between the two halves of SessionExecution::cancel holds the
\* cancellation lock.
CancellationLockFree == \A x \in Stoppers : stop[x] # "locked"

\* Mutant: commit_records without its final sync.
CommitWithoutSync(records) ==
    /\ ~writeFailed
    /\ log' = log \o records
    /\ UNCHANGED <<synced, writeFailed, budget>>

\* SessionTranscript::commit_records: every record, then a sync, or an error
\* after which nothing more is written until the Session is reopened.
CommitOk(records) ==
    /\ ~writeFailed
    /\ log' = log \o records
    /\ synced' = Len(log) + Len(records)
    /\ UNCHANGED <<writeFailed, budget>>

CommitFails(records) ==
    \/ /\ writeFailed
       /\ UNCHANGED <<log, synced, writeFailed, budget>>
    \/ /\ ~writeFailed
       /\ Spend("faults")
       /\ \E n \in 0..Len(records) : log' = log \o SubSeq(records, 1, n)
       /\ writeFailed' = TRUE
       /\ UNCHANGED synced

Init ==
    /\ open = FALSE
    /\ steering = <<>>
    /\ followUp = <<>>
    /\ lane = [i \in Items |-> "steering"]
    /\ claimed = None
    /\ cancelled = FALSE
    /\ stale = {}
    /\ stop = [x \in Stoppers |-> "none"]
    /\ phase = "idle"
    /\ turns = 0
    /\ outcome = "none"
    /\ failedBy = "none"
    /\ initial = None
    /\ inserted = FALSE
    /\ submissions = {}
    /\ stage = [i \in Items |-> "new"]
    /\ told = [i \in Items |-> "nothing"]
    /\ log = <<>>
    /\ synced = 0
    /\ writeFailed = FALSE
    /\ dropped = FALSE
    /\ budget = [b \in Bounds |-> CASE b = "runs"    -> MaxRuns
                                    [] b = "reopens" -> MaxReopens
                                    [] b = "stops"   -> MaxStops
                                    [] b = "faults"  -> MaxFaults]

(***************************************************************************)
(* Inputs on their way to the queue: Kernel::prompt, Kernel::submit and    *)
(* Kernel::queue_message.                                                  *)
(***************************************************************************)

\* A prompt captures the current waiter generation when it arrives.
Arrive(i) ==
    /\ stage[i] = "new"
    /\ stage' = [stage EXCEPT ![i] = "arrived"]
    /\ UNCHANGED <<queueVars, cancelled, stale, stop, runVars, submissions, told,
                   logVars, dropped, budget>>

\* The generation was cancelled before the input was queued.
RejectStale(p) ==
    /\ stage[p] \in {"arrived", "gate"}
    /\ p \in stale
    /\ stage' = [stage EXCEPT ![p] = "out"]
    /\ told' = Tell({p}, "withdrawn")
    /\ UNCHANGED <<queueVars, cancelled, stale, stop, runVars, submissions,
                   logVars, dropped, budget>>

\* The parent of a delegated input was cancelled before a Run took it.
RejectOrphan(s) ==
    /\ stage[s] \in {"arrived", "gate"}
    /\ Spend("stops")
    /\ stage' = [stage EXCEPT ![s] = "out"]
    /\ told' = Tell({s}, "withdrawn")
    /\ UNCHANGED <<queueVars, cancelled, stale, stop, runVars, submissions,
                   logVars, dropped>>

\* ensure_writable refuses the input before any side effect.
RejectUncertain(i) ==
    /\ stage[i] = "arrived"
    /\ writeFailed
    /\ stage' = [stage EXCEPT ![i] = "out"]
    /\ told' = Tell({i}, "error")
    /\ UNCHANGED <<queueVars, cancelled, stale, stop, runVars, submissions,
                   logVars, dropped, budget>>

\* Session::enqueue_pending under the queue lock.
Enqueue(i, q) ==
    /\ stage[i] = "arrived"
    /\ i \notin stale
    /\ open
    /\ CommitOk(<<Enqueued(i, q)>>)
    /\ lane' = [lane EXCEPT ![i] = q]
    /\ steering' = IF q = "steering" THEN Append(steering, i) ELSE steering
    /\ followUp' = IF q = "followUp" THEN Append(followUp, i) ELSE followUp
    /\ stage' = [stage EXCEPT ![i] = "queued"]
    /\ UNCHANGED <<open, claimed, cancelled, stale, stop, runVars, submissions,
                   told, dropped>>

EnqueueFails(i, q) ==
    /\ stage[i] = "arrived"
    /\ i \notin stale
    /\ open
    /\ CommitFails(<<Enqueued(i, q)>>)
    /\ stage' = [stage EXCEPT ![i] = "out"]
    /\ told' = Tell({i}, "error")
    /\ UNCHANGED <<queueVars, cancelled, stale, stop, runVars, submissions,
                   dropped>>

\* SessionNotRunning: the input waits for the operation gate to start a Run.
EnqueueClosed(i) ==
    /\ stage[i] = "arrived"
    /\ ~writeFailed
    /\ ~open
    /\ stage' = [stage EXCEPT ![i] = "gate"]
    /\ UNCHANGED <<queueVars, cancelled, stale, stop, runVars, submissions, told,
                   logVars, dropped, budget>>

\* The requester of a queued prompt disconnects: is_listening becomes false.
ClientLeaves(p) ==
    /\ stage[p] = "queued"
    /\ told[p] = "nothing"
    /\ told' = Tell({p}, "lost")
    /\ UNCHANGED <<queueVars, cancelled, stale, stop, runVars, submissions,
                   stage, logVars, dropped, budget>>

(***************************************************************************)
(* Queue mutations by clients.                                             *)
(***************************************************************************)

\* Session::remove_pending.
Remove(i) ==
    /\ i \in Waiting
    /\ CommitOk(<<Cancelled(i)>>)
    /\ steering' \in Keep(steering, {i})
    /\ followUp' \in Keep(followUp, {i})
    /\ told' = Tell({i}, "withdrawn")
    /\ UNCHANGED <<open, lane, claimed, cancelled, stale, stop, runVars,
                   submissions, stage, dropped>>

\* Kernel::clear_pending_messages: selection, commit and draining in one lock.
ClearRecords ==
    LET all == steering \o followUp
    IN  [k \in 1..Len(all) |-> Cancelled(all[k])]

Clear ==
    /\ CommitOk(ClearRecords)
    /\ steering' = <<>>
    /\ followUp' = <<>>
    /\ told' = Tell(Waiting, "withdrawn")
    /\ UNCHANGED <<open, lane, claimed, cancelled, stale, stop, runVars,
                   submissions, stage, dropped>>

\* Mutant: a promotion that goes to the front of the steering lane.
PromoteToFront(i) ==
    /\ i \in In(followUp)
    /\ i \notin In(steering)
    /\ CommitOk(<<Enqueued(i, "steering")>>)
    /\ followUp' \in Keep(followUp, {i})
    /\ steering' = <<i>> \o steering
    /\ lane' = [lane EXCEPT ![i] = "steering"]
    /\ UNCHANGED <<open, claimed, cancelled, stale, stop, runVars, submissions,
                   stage, told, dropped>>

\* Kernel::promote_pending_message: one enqueue record moves the item.
Promote(i) ==
    /\ i \in In(followUp)
    /\ i \notin In(steering)
    /\ CommitOk(<<Enqueued(i, "steering")>>)
    /\ followUp' \in Keep(followUp, {i})
    /\ steering' = Append(steering, i)
    /\ lane' = [lane EXCEPT ![i] = "steering"]
    /\ UNCHANGED <<open, claimed, cancelled, stale, stop, runVars, submissions,
                   stage, told, dropped>>

\* A removal, clearing or promotion whose commit fails leaves memory as it was.
MutationFails ==
    /\ ~writeFailed
    /\ \/ \E i \in Waiting : CommitFails(<<Cancelled(i)>>)
       \/ \E i \in In(followUp) : CommitFails(<<Enqueued(i, "steering")>>)
       \/ CommitFails(ClearRecords)
    /\ UNCHANGED <<queueVars, cancelled, stale, stop, runVars, submissions,
                   stage, told, dropped>>

(***************************************************************************)
(* Stopping: Kernel::cancel_session, and Kernel::submit when the parent of *)
(* a queued submission is cancelled.                                       *)
(***************************************************************************)

\* SessionExecution::cancel, up to close_queue: the token and the waiters.
CancelTokens(x) ==
    /\ stop[x] = "none"
    /\ CancellationLockFree
    /\ x \in Submissions => stage[x] = "queued" /\ told[x] = "nothing"
    /\ Spend("stops")
    /\ cancelled' = TRUE
    /\ stale' = stale \cup {p \in Prompts : stage[p] \in {"arrived", "gate"}}
    /\ stop' = [stop EXCEPT ![x] = "locked"]
    /\ UNCHANGED <<queueVars, runVars, submissions, stage, told, logVars, dropped>>

\* close_queue, the end of SessionExecution::cancel.
CancelCloses(x) ==
    /\ stop[x] = "locked"
    /\ open' = FALSE
    /\ stop' = [stop EXCEPT ![x] = "closed"]
    /\ UNCHANGED <<steering, followUp, lane, claimed, cancelled, stale, runVars,
                   submissions, stage, told, logVars, dropped, budget>>

\* Items withdraw_pending selects: a notice still listened to, or any receipt.
Withdrawable ==
    {i \in Waiting : \/ i \in Prompts /\ told[i] = "nothing"
                     \/ i \in Submissions /\ told[i] # "lost"}

\* withdraw_pending: records and sync first, only then are the items given back.
WithdrawOk ==
    /\ open' = FALSE
    /\ \E w \in Keep(steering \o followUp, Waiting \ Withdrawable) :
          IF w = <<>> THEN UNCHANGED <<logVars, budget>>
          ELSE CommitOk([k \in 1..Len(w) |-> Cancelled(w[k])])
    /\ steering' \in Keep(steering, Withdrawable)
    /\ followUp' \in Keep(followUp, Withdrawable)
    /\ told' = Tell(Withdrawable, "withdrawn")
    /\ UNCHANGED <<lane, claimed>>

WithdrawFails ==
    /\ open' = FALSE
    /\ Withdrawable # {}
    /\ \E w \in Keep(steering \o followUp, Waiting \ Withdrawable) :
          CommitFails([k \in 1..Len(w) |-> Cancelled(w[k])])
    /\ told' = Tell(Withdrawable, "error")
    /\ UNCHANGED <<steering, followUp, lane, claimed>>

CancelWithdraws(x) ==
    /\ stop[x] = "closed"
    /\ \/ /\ WithdrawOk
          /\ stop' = [stop EXCEPT ![x] = IF x = Client THEN "none" ELSE "waitIdle"]
       \/ /\ WithdrawFails
          /\ stop' = [stop EXCEPT ![x] = "none"]
    /\ UNCHANGED <<cancelled, stale, runVars, submissions, stage, dropped>>

\* Kernel::submit returns a cancelled answer once the Session is idle.
SubmitReturns(s) ==
    /\ stop[s] = "waitIdle"
    /\ phase = "idle"
    /\ stop' = [stop EXCEPT ![s] = "none"]
    /\ told' = Tell({s}, "answered")
    /\ UNCHANGED <<queueVars, cancelled, stale, runVars, submissions, stage,
                   logVars, dropped, budget>>

\* The Run's token is a child of its submission's parent token.
ParentCancelsRun ==
    /\ phase \notin {"idle", "ending"}
    /\ initial \in Submissions
    /\ ~cancelled
    /\ Spend("stops")
    /\ cancelled' = TRUE
    /\ UNCHANGED <<queueVars, stale, stop, runVars, submissions, stage, told,
                   logVars, dropped>>

(***************************************************************************)
(* The Run: run_until_settled, the Turn loop and settlement.               *)
(***************************************************************************)

\* acquire_operation_for_prompt and install_run: the gate, a fresh token.
StartRun(i) ==
    /\ phase = "idle"
    /\ stage[i] = "gate"
    /\ i \notin stale
    /\ CancellationLockFree
    /\ Spend("runs")
    /\ phase' = "starting"
    /\ stage' = [stage EXCEPT ![i] = "running"]
    /\ initial' = i
    /\ inserted' = FALSE
    /\ cancelled' = FALSE
    /\ turns' = 0
    /\ outcome' = "none"
    /\ failedBy' = "none"
    /\ UNCHANGED <<queueVars, stale, stop, submissions, told, logVars, dropped>>

\* An event or the OperationStarted record fails: no queue, no settlement.
StartFails ==
    /\ phase = "starting"
    /\ phase' = "ending"
    /\ failedBy' = "other"
    /\ UNCHANGED <<queueVars, cancelled, stale, stop, turns, outcome, initial,
                   inserted, submissions, stage, told, logVars, dropped, budget>>

OpenQueue ==
    /\ phase = "starting"
    /\ ~writeFailed
    /\ CancellationLockFree
    /\ open' = ~cancelled
    /\ phase' = "turn"
    /\ UNCHANGED <<steering, followUp, lane, claimed, cancelled, stale, stop,
                   turns, outcome, failedBy, initial, inserted, submissions,
                   stage, told, logVars, dropped, budget>>

\* Mutant: a dropped claim that queues up again at the back.
ReturnClaimToBack ==
    /\ claimed' = None
    /\ steering' = IF claimed # None /\ lane[claimed] = "steering"
                   THEN Append(steering, claimed) ELSE steering
    /\ followUp' = IF claimed # None /\ lane[claimed] = "followUp"
                   THEN Append(followUp, claimed) ELSE followUp

\* ClaimedItem::drop: an uncommitted claim goes back to the front of its lane.
ReturnClaim ==
    /\ claimed' = None
    /\ steering' = IF claimed # None /\ lane[claimed] = "steering"
                   THEN <<claimed>> \o steering ELSE steering
    /\ followUp' = IF claimed # None /\ lane[claimed] = "followUp"
                   THEN <<claimed>> \o followUp ELSE followUp

\* The Turn limit, model preflight, a hook's event or a write ends the Run
\* before this Turn inserted anything.
TurnFails ==
    /\ phase = "turn"
    /\ ReturnClaim
    /\ phase' = "finishing"
    /\ outcome' = "failed"
    /\ failedBy' = "other"
    /\ UNCHANGED <<open, lane, cancelled, stale, stop, turns, initial, inserted,
                   submissions, stage, told, logVars, dropped, budget>>

\* Cancellation seen before the Turn's user message is written.
TurnCancelled ==
    /\ phase = "turn"
    /\ turns < MaxTurns
    /\ cancelled
    /\ ~inserted \/ claimed # None
    /\ ReturnClaim
    /\ phase' = "finishing"
    /\ outcome' = IF inserted THEN "failed" ELSE "cancelled"
    /\ failedBy' = "cancelled"
    /\ UNCHANGED <<open, lane, cancelled, stale, stop, turns, initial, inserted,
                   submissions, stage, told, logVars, dropped, budget>>

\* persist_message for the Run's own input; only a client prompt is checked
\* for cancellation first.
InsertInitial ==
    /\ phase = "turn"
    /\ turns < MaxTurns
    /\ ~inserted
    /\ initial \in Prompts => ~cancelled
    /\ ~writeFailed
    /\ log' = Append(log, Message(initial))
    /\ inserted' = TRUE
    /\ told' = IF initial \in Prompts THEN Tell({initial}, "inserted") ELSE told
    /\ phase' = "model"
    /\ UNCHANGED <<queueVars, cancelled, stale, stop, turns, outcome, failedBy,
                   initial, submissions, stage, synced, writeFailed, dropped,
                   budget>>

\* Mutant: the consumption record is written before the message entry.
ConsumeRecordFirst ==
    /\ phase = "turn"
    /\ turns < MaxTurns
    /\ claimed # None
    /\ CancellationLockFree
    /\ ~cancelled
    /\ ~writeFailed
    /\ log' = log \o <<Consumed(claimed), Message(claimed)>>
    /\ claimed' = None
    /\ told' = IF claimed \in Prompts THEN Tell({claimed}, "inserted") ELSE told
    /\ submissions' = submissions \cup ({claimed} \cap Submissions)
    /\ phase' = "model"
    /\ UNCHANGED <<open, steering, followUp, lane, cancelled, stale, stop, turns,
                   outcome, failedBy, initial, inserted, stage, synced,
                   writeFailed, dropped, budget>>

\* Mutant: a consumed submission is not accepted by the Run.
ConsumeWithoutReceipt ==
    /\ phase = "turn"
    /\ turns < MaxTurns
    /\ claimed # None
    /\ CancellationLockFree
    /\ ~cancelled
    /\ ~writeFailed
    /\ log' = log \o <<Message(claimed), Consumed(claimed)>>
    /\ claimed' = None
    /\ told' = IF claimed \in Prompts THEN Tell({claimed}, "inserted") ELSE told
    /\ phase' = "model"
    /\ UNCHANGED <<open, steering, followUp, lane, cancelled, stale, stop, turns,
                   outcome, failedBy, initial, inserted, stage, synced,
                   submissions, writeFailed, dropped, budget>>

\* Session::consume_claimed, whose first write and cancel exclude each other.
ConsumeClaimed ==
    /\ phase = "turn"
    /\ turns < MaxTurns
    /\ claimed # None
    /\ CancellationLockFree
    /\ ~cancelled
    /\ ~writeFailed
    /\ log' = log \o <<Message(claimed), Consumed(claimed)>>
    /\ claimed' = None
    /\ told' = IF claimed \in Prompts THEN Tell({claimed}, "inserted") ELSE told
    /\ submissions' = submissions \cup ({claimed} \cap Submissions)
    /\ phase' = "model"
    /\ UNCHANGED <<open, steering, followUp, lane, cancelled, stale, stop, turns,
                   outcome, failedBy, initial, inserted, stage, synced,
                   writeFailed, dropped, budget>>

ConsumeFails ==
    /\ phase = "turn"
    /\ turns < MaxTurns
    /\ claimed # None
    /\ CancellationLockFree
    /\ ~cancelled
    /\ CommitFails(<<Message(claimed), Consumed(claimed)>>)
    /\ claimed' = None
    /\ told' = Tell({claimed}, "error")
    /\ phase' = "finishing"
    /\ outcome' = "failed"
    /\ failedBy' = "other"
    /\ UNCHANGED <<open, steering, followUp, lane, cancelled, stale, stop, turns,
                   initial, inserted, submissions, stage, dropped>>

\* A retry or a continuation after Tools inserts no user message.
ContinueTurn ==
    /\ phase = "turn"
    /\ turns < MaxTurns
    /\ inserted
    /\ claimed = None
    /\ phase' = "model"
    /\ UNCHANGED <<queueVars, cancelled, stale, stop, turns, outcome, failedBy,
                   initial, inserted, submissions, stage, told, logVars, dropped,
                   budget>>

\* An operational error (an event, a write, a compaction) ends the Run.
ModelErrs ==
    /\ phase = "model"
    /\ phase' = "finishing"
    /\ outcome' = "failed"
    /\ failedBy' = "other"
    /\ UNCHANGED <<queueVars, cancelled, stale, stop, turns, initial, inserted,
                   submissions, stage, told, logVars, dropped, budget>>

\* record_turn, which precedes every choice of next_action: append and sync.
RecordTurn ==
    /\ phase = "model"
    /\ ~writeFailed
    /\ turns' = turns + 1
    /\ synced' = Len(log)

\* next_action of a cancelled or finally failed Turn.
EndTurn(o) ==
    /\ RecordTurn
    /\ o = "cancelled" => cancelled
    /\ phase' = "finishing"
    /\ outcome' = o
    /\ UNCHANGED <<queueVars, cancelled, stale, stop, failedBy, initial, inserted,
                   submissions, stage, told, log, writeFailed, dropped, budget>>

\* next_action of a Turn that is retried, after a compaction or a backoff.
RetryTurn ==
    /\ RecordTurn
    /\ phase' = "turn"
    /\ UNCHANGED <<queueVars, cancelled, stale, stop, outcome, failedBy, initial,
                   inserted, submissions, stage, told, log, writeFailed, dropped,
                   budget>>

\* Mutant: the last look at the queue does not end acceptance.
ClaimNextOnly(allowFollowUp) ==
    /\ claimed' = IF steering # <<>> THEN Head(steering)
                  ELSE IF allowFollowUp /\ followUp # <<>> THEN Head(followUp)
                  ELSE None
    /\ steering' = IF steering # <<>> THEN Tail(steering) ELSE steering
    /\ followUp' = IF steering = <<>> /\ allowFollowUp /\ followUp # <<>>
                   THEN Tail(followUp) ELSE followUp
    /\ UNCHANGED open

\* claim_next_or_close: the next item, or the end of acceptance, in one lock.
ClaimNextOrClose(allowFollowUp) ==
    /\ claimed' = IF steering # <<>> THEN Head(steering)
                  ELSE IF allowFollowUp /\ followUp # <<>> THEN Head(followUp)
                  ELSE None
    /\ steering' = IF steering # <<>> THEN Tail(steering) ELSE steering
    /\ followUp' = IF steering = <<>> /\ allowFollowUp /\ followUp # <<>>
                   THEN Tail(followUp) ELSE followUp
    /\ open' = (open /\ (claimed' # None \/ ~allowFollowUp))

\* next_action of a successful Turn: continue for Tools or queued input, or
\* succeed with the queue closed.
NextTurn(tools) ==
    /\ RecordTurn
    /\ ClaimNextOrClose(~tools)
    /\ IF tools \/ claimed' # None
       THEN phase' = "turn" /\ UNCHANGED outcome
       ELSE phase' = "finishing" /\ outcome' = "succeeded"
    /\ UNCHANGED <<lane, cancelled, stale, stop, failedBy, initial, inserted,
                   submissions, stage, told, log, writeFailed, dropped, budget>>

\* Mutant: settlement closes acceptance and withdraws nothing.
CloseWithoutWithdrawal ==
    /\ phase = "finishing"
    /\ open' = FALSE
    /\ phase' = "settling"
    /\ UNCHANGED <<steering, followUp, lane, claimed, cancelled, stale, stop,
                   turns, outcome, failedBy, initial, inserted, submissions,
                   stage, told, logVars, dropped, budget>>

\* RunScope::settle closes acceptance; only a success needs no withdrawal.
CloseQueue ==
    /\ phase = "finishing"
    /\ open' = FALSE
    /\ phase' = IF outcome = "succeeded" THEN "settling" ELSE "closed"
    /\ UNCHANGED <<steering, followUp, lane, claimed, cancelled, stale, stop,
                   turns, outcome, failedBy, initial, inserted, submissions,
                   stage, told, logVars, dropped, budget>>

RunWithdraws ==
    /\ phase = "closed"
    /\ \/ WithdrawOk /\ phase' = "settling" /\ UNCHANGED failedBy
       \/ WithdrawFails /\ phase' = "ending" /\ failedBy' = "other"
    /\ UNCHANGED <<cancelled, stale, stop, turns, outcome, initial, inserted,
                   submissions, stage, dropped>>

\* Internal input whose Run was cancelled before insertion is kept in history.
Retained == outcome = "cancelled" /\ ~inserted /\ initial \notin Prompts

\* RunSettlement::settle: records, syncs and events, then the receipts.
Settle ==
    /\ phase = "settling"
    /\ ~writeFailed
    /\ log' = IF Retained THEN Append(log, Message(initial)) ELSE log
    /\ synced' = Len(log')
    /\ failedBy' = IF Retained THEN "none" ELSE failedBy
    /\ inserted' = (inserted \/ Retained)
    /\ told' = Tell(submissions, "answered")
    /\ submissions' = {}
    /\ phase' = "ending"
    /\ UNCHANGED <<queueVars, cancelled, stale, stop, turns, outcome, initial,
                   stage, writeFailed, dropped, budget>>

SettleFails ==
    /\ phase = "settling"
    /\ \/ UNCHANGED <<log, inserted>>
       \/ /\ Retained /\ ~writeFailed
          /\ log' = Append(log, Message(initial))
          /\ inserted' = TRUE
    /\ failedBy' = "other"
    /\ phase' = "ending"
    /\ UNCHANGED <<queueVars, cancelled, stale, stop, turns, outcome, initial,
                   submissions, stage, told, synced, writeFailed, dropped, budget>>

\* What run_with_source's caller reports for the Run's own input.
RunResult ==
    CASE failedBy = "none"      -> "answered"
      [] failedBy = "cancelled" -> IF initial \in Prompts THEN "withdrawn"
                                   ELSE "stopped"
      [] failedBy = "other"     -> "error"

\* ActiveRunLease::drop after the Run returned.
ReleaseRun(result) ==
    /\ open' = FALSE
    /\ told' = [i \in Items |->
                  IF i = initial THEN Tell({i}, result)[i]
                  ELSE Tell(submissions, "answered")[i]]
    /\ submissions' = {}
    /\ stage' = IF initial = None THEN stage
                ELSE [stage EXCEPT ![initial] = "out"]
    /\ initial' = None
    /\ inserted' = FALSE
    /\ turns' = 0
    /\ phase' = "idle"
    /\ outcome' = "none"
    /\ failedBy' = "none"

FinishRun ==
    /\ phase = "ending"
    /\ ReleaseRun(RunResult)
    /\ UNCHANGED <<steering, followUp, lane, claimed, cancelled, stale, stop,
                   logVars, dropped, budget>>

\* The future that drives the Run is dropped at one of its awaits.
DropRun ==
    /\ phase \in {"starting", "turn", "model", "settling"}
    /\ Spend("faults")
    /\ ReturnClaim
    /\ ReleaseRun("lost")
    /\ dropped' = TRUE
    /\ UNCHANGED <<lane, cancelled, stale, stop, logVars>>

\* The process stops and the Session is opened again from what the disk kept,
\* or it is closed and reopened (n = Len(log)).
Reopen ==
    /\ Spend("reopens")
    /\ \E n \in synced..Len(log) :
          /\ log' = SubSeq(log, 1, n)
          /\ synced' = n
    /\ steering' \in RestoredLane(log', "steering")
    /\ followUp' \in RestoredLane(log', "followUp")
    /\ lane' = [i \in Items |-> IF i \in Live(log') THEN LaneIn(log', i)
                                ELSE lane[i]]
    /\ open' = FALSE
    /\ claimed' = None
    /\ cancelled' = FALSE
    /\ stop' = [x \in Stoppers |-> "none"]
    /\ phase' = "idle"
    /\ turns' = 0
    /\ outcome' = "none"
    /\ failedBy' = "none"
    /\ initial' = None
    /\ inserted' = FALSE
    /\ submissions' = {}
    /\ told' = Tell({i \in Items : stage[i] # "new"}, "lost")
    /\ stage' = [i \in Items |-> IF stage[i] = "new" THEN "new" ELSE "out"]
    /\ stale' = {}
    /\ writeFailed' = FALSE
    /\ UNCHANGED dropped

RunStep ==
    \/ StartFails \/ OpenQueue \/ TurnFails \/ TurnCancelled \/ InsertInitial
    \/ ConsumeClaimed \/ ConsumeFails \/ ContinueTurn \/ ModelErrs
    \/ \E o \in {"cancelled", "failed"} : EndTurn(o)
    \/ RetryTurn
    \/ \E tools \in BOOLEAN : NextTurn(tools)
    \/ CloseQueue \/ RunWithdraws \/ Settle \/ SettleFails \/ FinishRun

StopStep(x) == CancelCloses(x) \/ CancelWithdraws(x)

ItemStep(i) ==
    \/ Arrive(i) \/ RejectUncertain(i) \/ EnqueueClosed(i) \/ StartRun(i)
    \/ \E q \in Lanes : Enqueue(i, q) \/ EnqueueFails(i, q)

Next ==
    \/ RunStep
    \/ \E i \in Items : ItemStep(i) \/ Remove(i) \/ Promote(i)
    \/ \E p \in Prompts : RejectStale(p) \/ ClientLeaves(p)
    \/ \E s \in Submissions : RejectOrphan(s) \/ SubmitReturns(s)
    \/ \E x \in Stoppers : CancelTokens(x) \/ StopStep(x)
    \/ Clear \/ MutationFails \/ ParentCancelsRun \/ DropRun \/ Reopen

Spec == Init /\ [][Next]_vars

(***************************************************************************)
(* Safety.                                                                 *)
(***************************************************************************)

\* An input enters history at most once, and while it is pending (in a lane or
\* claimed) it is not in history: neither a returned claim, nor an uncertain
\* consumption, nor a replay after a crash inserts an input a second time.
HistoryOnce ==
    /\ \A j, k \in 1..Len(log) :
          /\ log[j].type = "message"
          /\ log[k].type = "message"
          /\ log[j].item = log[k].item
          => j = k
    /\ Pending \cap MessagesOf(log) = {}

\* An input given back to its submitter as cancelled (the client may send it
\* again) is in no lane and in no history, and no crash brings it back: the
\* withdrawal was synced before the waiter heard of it.
WithdrawnIsFinal ==
    \A i \in Items : told[i] = "withdrawn" =>
        /\ i \notin Pending
        /\ i \notin MessagesOf(log)
        /\ \A n \in synced..Len(log) : i \notin Live(SubSeq(log, 1, n))

\* The lanes in memory with the claimed item put back.
PutBack(s, q) == IF claimed # None /\ lane[claimed] = q THEN <<claimed>> \o s
                 ELSE s

\* An input that its lane already held when another one was queued behind it
\* leaves the queue first (into history, by cancellation or by promotion).
LaneOrder ==
    \A a, b, c \in 1..Len(log) :
        /\ a < b /\ b < c
        /\ log[a].type = "enqueued" /\ log[b].type = "enqueued"
        /\ log[a].lane = log[b].lane
        /\ log[a].item # log[b].item
        /\ log[c] = Message(log[b].item)
        /\ \A m \in (b + 1)..(c - 1) : log[m].item # log[b].item
        => \E d \in (a + 1)..(c - 1) : log[d].item = log[a].item

\* A queued prompt whose client was told it is in history stays there, or, when
\* a crash lost the entry but not the enqueue record, is queued again until
\* somebody removes it.
InsertedNotLost ==
    \A p \in Prompts :
        /\ told[p] = "inserted"
        /\ \E k \in 1..Len(log) : log[k].type = "enqueued" /\ log[k].item = p
        => \/ p \in MessagesOf(log) \cup Live(log)
           \/ \E k \in 1..Len(log) : log[k] = Cancelled(p)

\* Once a Run is over nobody is left waiting, also while a stop has not finished:
\* whatever is in the closed queue was withdrawn or reported as uncertain, and the receipts of the inputs the Run
\* consumed were settled before it let go, so no later Run can answer them.
NoStrandedWaiter ==
    /\ phase = "idle" /\ ~dropped =>
          \A i \in Waiting \ Messages : told[i] # "nothing"
    /\ phase = "idle" =>
          /\ submissions = {}
          /\ \A s \in Submissions :
                s \in MessagesOf(log) /\ stage[s] = "queued" => told[s] # "nothing"

\* A successful Run leaves no pending input behind, and none can be accepted
\* between its last look at the queue and its end.
SuccessEmptiesQueue ==
    outcome = "succeeded" => Pending = {} /\ ~open

\* PendingQueue::remove of the items of R, in the order the lane has.
Without(s, R) == CHOOSE t \in Keep(s, R) : TRUE

\* One record of PendingQueue::from_records: whatever it says of the item
\* replaces what an earlier one said.
ReplayRecord(queue, e) ==
    LET i  == e.item
        st == Without(queue.steering, {i})
        fu == Without(queue.followUp, {i})
    IN  CASE e.type = "message" -> queue
          [] e.type \in {"cancelled", "consumed"} ->
               [steering |-> st, followUp |-> fu]
          [] e.type = "enqueued" ->
               [steering |-> IF e.lane = "steering" THEN Append(st, i) ELSE st,
                followUp |-> IF e.lane = "followUp" THEN Append(fu, i) ELSE fu]

\* PendingQueue::from_records followed by the entry check of restore, as the
\* code folds it over the records.
FromRecords(l) ==
    LET replayed[k \in 0..Len(l)] ==
            IF k = 0 THEN [steering |-> <<>>, followUp |-> <<>>]
            ELSE ReplayRecord(replayed[k - 1], l[k])
        queue == replayed[Len(l)]
    IN  [steering |-> Without(queue.steering, MessagesOf(l)),
         followUp |-> Without(queue.followUp, MessagesOf(l))]

\* As long as every write succeeded, the replay loop of from_records and restore
\* gives exactly the queue in memory, in the same order, with a claim back at the
\* front of its lane; and for every log the Session writes it computes the lanes
\* that Reopen installs.
MemoryMatchesLog ==
    LET replayed == FromRecords(log) IN
    /\ replayed.steering \in RestoredLane(log, "steering")
    /\ replayed.followUp \in RestoredLane(log, "followUp")
    /\ ~writeFailed => /\ PutBack(steering, "steering") = replayed.steering
                       /\ PutBack(followUp, "followUp") = replayed.followUp

(***************************************************************************)
(* Liveness.                                                               *)
(***************************************************************************)
\* A Run's future is polled until it settles, and a stop runs to its end.
Fairness ==
    /\ WF_vars(RunStep)
    /\ \A x \in Stoppers : WF_vars(StopStep(x))

LiveSpec == Spec /\ Fairness

\* Whoever waits on a queued input is eventually told what became of it,
\* whatever fails, is stopped or is reopened in between, unless the future of
\* the Run that would settle it was dropped (run/lifecycle.rs leaves that to the
\* Session's close).
WaiterEventuallyTold ==
    \A i \in Prompts \cup Submissions :
        stage[i] = "queued" /\ told[i] = "nothing"
            ~> told[i] # "nothing" \/ dropped
=============================================================================
