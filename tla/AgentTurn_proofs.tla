------------------------- MODULE AgentTurn_proofs -------------------------
(***************************************************************************)
(* Two safety properties of a Run's Turns, for every set of answers and    *)
(* batches, every retry policy and any number of Runs and interruptions.   *)
(*                                                                         *)
(* RetryBudget: the attempts of an answer are paid for by the retries that *)
(* were scheduled and by the one overflow recovery of the Run, and one     *)
(* more is under way from the moment the model is asked (Paid).            *)
(*                                                                         *)
(* NoStalePlan: every approval has a number of its own, the call that      *)
(* waits for the pending one is still in the batch, and a call whose mode  *)
(* switch is being written stays in it until the switch ends (Approvals).  *)
(***************************************************************************)
EXTENDS AgentTurn, TLAPS

\* A record is a function over its fields; what most of them hold does not matter.
Keeps(record, fields) == record = [f \in fields |-> record[f]]
RunFields == {"at", "input", "cancelled", "turns", "attempts", "tries", "recovered",
              "request", "gate", "reply", "failed", "auto"}

\* Where the attempt that was made last is not yet paid for.
Asked == \/ run.at \in {"calls", "batch", "next", "settle"}
         \/ run.at = "compact" /\ cut.then = "idle"

Paid ==
    /\ Keeps(run, RunFields)
    /\ run.tries \in Nat /\ run.attempts \in 0 .. MaxRetries /\ run.recovered \in BOOLEAN
    /\ run.tries <= run.attempts + (IF run.recovered THEN 1 ELSE 0) + (IF Asked THEN 1 ELSE 0)
    /\ run.at = "compact" => cut.then \in {"turn", "idle"}
    /\ run.at = "idle" => run.tries = 0

Calls == [st : {"queued", "waits", "leaves", "left", "done"}, size : {0, 1},
          request : Nat, answer : {"none", "approve", "keep"}]

Approvals ==
    /\ Keeps(run, RunFields)
    /\ run.at = "calls" => run.reply.calls \in Seq({"plan", "write"})
    /\ tools \in Seq(Calls)
    /\ tools # <<>> => run.at = "batch"
    /\ Keeps(plan, {"mode", "pending", "asked", "unsynced"})
    /\ plan.asked \in Nat /\ plan.pending \in Nat
    /\ \A k \in DOMAIN tools : tools[k].request <= plan.asked
    /\ \A k \in DOMAIN tools : tools[k].st \in {"queued", "done"} => tools[k].request = 0
    /\ switch = NoSwitch \/ switch.by = 0 \/ (switch.by \in DOMAIN tools /\ tools[switch.by].st = "left")
    /\ plan.pending <= plan.asked
    /\ NoStalePlan

-----------------------------------------------------------------------------
(* The retry budget.                                                       *)

LEMMA NoTries ==
    0 \in Nat /\ 0 \in 0 .. MaxRetries /\ 0 <= 0 + 0 + 0 /\ 0 <= 0 + 0 + 1
BY TurnAssumption

LEMMA FreshIsPaid ==
    ASSUME run' = Fresh PROVE Paid'
BY TurnAssumption DEF Paid, Keeps, Fresh, RunFields, Asked

LEMMA SamePaid ==
    ASSUME Paid, run' = run, cut' = cut PROVE Paid'
BY DEF Paid, Keeps, Asked

\* A compaction is entered with a paid Run, or refused, which ends the Run.
LEMMA CompactionIsPaid ==
    ASSUME NEW r, NEW e, NEW then \in {"turn", "idle"}, PerformCompaction(r, e, then),
           Keeps(r, RunFields), r.tries \in Nat, r.attempts \in 0 .. MaxRetries,
           r.recovered \in BOOLEAN,
           r.tries <= r.attempts + (IF r.recovered THEN 1 ELSE 0)
                                 + (IF then = "idle" THEN 1 ELSE 0)
    PROVE  Paid'
<1> DEFINE parts == Preparation(Compactable(e))
           some == TokensFrom(parts.summarized \o parts.prefix, 1) > 0
<1> HIDE DEF some
<1>1. CASE some
  <2>1. run' = [r EXCEPT !.at = "compact"] /\ cut'.then = then
    BY <1>1 DEF PerformCompaction, some
  <2>2. /\ Keeps(run', RunFields) /\ run'.at = "compact" /\ run'.tries = r.tries
        /\ run'.attempts = r.attempts /\ run'.recovered = r.recovered
    BY <2>1 DEF Keeps, RunFields
  <2> QED
    BY <2>1, <2>2 DEF Paid, Asked
<1>2. CASE ~some
  <2>1. run' = IF then = "idle" THEN Fresh ELSE Failed(r, "error")
    BY <1>2 DEF PerformCompaction, some
  <2>2. CASE then = "idle"
    BY <2>1, <2>2, FreshIsPaid
  <2>3. CASE then # "idle"
    <3>1. /\ Keeps(run', RunFields) /\ run'.at = "settle" /\ run'.tries = r.tries
          /\ run'.attempts = r.attempts /\ run'.recovered = r.recovered
      BY <2>1, <2>3 DEF Failed, Keeps, RunFields
    <3> QED
      BY <3>1, <2>3, TurnAssumption DEF Paid, Asked
  <2> QED
    BY <2>2, <2>3
<1> QED
  BY <1>1, <1>2

\* Paid again when the Run goes on with the same counts, or stops.
LEMMA MovedIsPaid ==
    ASSUME Paid, Keeps(run', RunFields), run'.tries = run.tries,
           run'.attempts = run.attempts, run'.recovered = run.recovered,
           run.at \notin {"compact", "idle"}, run'.at \notin {"compact", "idle"},
           Asked => Asked'
    PROVE  Paid'
BY TurnAssumption DEF Paid, Asked

LEMMA PaidStep ==
    ASSUME Paid, [Next]_vars
    PROVE  Paid'
<1> USE DEF Stay
<1>1. CASE BeginTurn
  <2>1. /\ Keeps(run', RunFields) /\ run'.tries = run.tries /\ run'.attempts = run.attempts
        /\ run'.recovered = run.recovered /\ run.at \notin {"compact", "idle"}
        /\ run'.at \notin {"compact", "idle"} /\ (Asked => Asked')
    BY <1>1 DEF BeginTurn, Failed, NoReply, Paid, Keeps, RunFields, Asked
  <2> QED
    BY <2>1, MovedIsPaid
<1>2. CASE InsertUserMessage
  <2>1. /\ Keeps(run', RunFields) /\ run'.tries = run.tries /\ run'.attempts = run.attempts
        /\ run'.recovered = run.recovered /\ run.at \notin {"compact", "idle"}
        /\ run'.at \notin {"compact", "idle"} /\ (Asked => Asked')
    BY <1>2 DEF InsertUserMessage, Failed, Paid, Keeps, RunFields, Asked
  <2> QED
    BY <2>1, MovedIsPaid
<1>3. CASE ReadHistory
  <2>1. /\ Keeps(run', RunFields) /\ run'.tries = run.tries /\ run'.attempts = run.attempts
        /\ run'.recovered = run.recovered /\ run.at \notin {"compact", "idle"}
        /\ run'.at \notin {"compact", "idle"} /\ (Asked => Asked')
    BY <1>3 DEF ReadHistory, Paid, Keeps, RunFields, Asked
  <2> QED
    BY <2>1, MovedIsPaid
<1>4. CASE ReadMode
  <2>1. /\ Keeps(run', RunFields) /\ run'.tries = run.tries /\ run'.attempts = run.attempts
        /\ run'.recovered = run.recovered /\ run.at \notin {"compact", "idle"}
        /\ run'.at \notin {"compact", "idle"} /\ (Asked => Asked')
    BY <1>4 DEF ReadMode, Paid, Keeps, RunFields, Asked
  <2> QED
    BY <2>1, MovedIsPaid
<1>5. CASE StartCalls
  <2>1. /\ Keeps(run', RunFields) /\ run'.tries = run.tries /\ run'.attempts = run.attempts
        /\ run'.recovered = run.recovered /\ run.at \notin {"compact", "idle"}
        /\ run'.at \notin {"compact", "idle"} /\ (Asked => Asked')
    BY <1>5 DEF StartCalls, Paid, Keeps, RunFields, Asked
  <2> QED
    BY <2>1, MovedIsPaid
<1>6. CASE ObserveCancellation
  <2>1. /\ Keeps(run', RunFields) /\ run'.tries = run.tries /\ run'.attempts = run.attempts
        /\ run'.recovered = run.recovered /\ run.at \notin {"compact", "idle"}
        /\ run'.at \notin {"compact", "idle"} /\ (Asked => Asked')
    BY <1>6 DEF ObserveCancellation, Paid, Keeps, RunFields, Asked
  <2> QED
    BY <2>1, MovedIsPaid
<1>7. CASE ResultsStored
  <2>1. /\ Keeps(run', RunFields) /\ run'.tries = run.tries /\ run'.attempts = run.attempts
        /\ run'.recovered = run.recovered /\ run.at \notin {"compact", "idle"}
        /\ run'.at \notin {"compact", "idle"} /\ (Asked => Asked')
    BY <1>7 DEF ResultsStored, Paid, Keeps, RunFields, Asked
  <2> QED
    BY <2>1, MovedIsPaid
<1>8. CASE TurnCancelled
  <2>1. /\ Keeps(run', RunFields) /\ run'.tries = run.tries /\ run'.attempts = run.attempts
        /\ run'.recovered = run.recovered /\ run.at \notin {"compact", "idle"}
        /\ run'.at \notin {"compact", "idle"} /\ (Asked => Asked')
    BY <1>8 DEF TurnCancelled, TurnEnds, Recorded, Paid, Keeps, RunFields, Asked
  <2> QED
    BY <2>1, MovedIsPaid
<1>9. CASE RunFails
  <2>1. /\ Keeps(run', RunFields) /\ run'.tries = run.tries /\ run'.attempts = run.attempts
        /\ run'.recovered = run.recovered /\ run.at \notin {"compact", "idle"}
        /\ run'.at \notin {"compact", "idle"} /\ (Asked => Asked')
    BY <1>9 DEF RunFails, TurnEnds, Recorded, Paid, Keeps, RunFields, Asked
  <2> QED
    BY <2>1, MovedIsPaid
<1>10. CASE StartRun
  <2>1. CASE run' = [Fresh EXCEPT !.at = "turn", !.input = "initial"]
    <3>1. /\ Keeps(run', RunFields) /\ run'.at = "turn" /\ run'.tries = 0 /\ run'.attempts = 0
          /\ ~run'.recovered /\ run'.recovered \in BOOLEAN
      BY <2>1 DEF Keeps, Fresh, RunFields
    <3> QED
      BY <3>1, NoTries DEF Paid, Asked
  <2>2. CASE \E e : PerformCompaction([Fresh EXCEPT !.at = "turn", !.input = "initial"], e, "turn")
    <3>1. PICK e : PerformCompaction([Fresh EXCEPT !.at = "turn", !.input = "initial"], e, "turn")
      BY <2>2
    <3> DEFINE r == [Fresh EXCEPT !.at = "turn", !.input = "initial"]
    <3>2. /\ Keeps(r, RunFields) /\ r.tries = 0 /\ r.attempts = 0
          /\ ~r.recovered /\ r.recovered \in BOOLEAN
      BY DEF Keeps, Fresh, RunFields
    <3>3. PerformCompaction(r, e, "turn")
      BY <3>1
    <3> HIDE DEF r
    <3>4. /\ r.tries \in Nat /\ r.attempts \in 0 .. MaxRetries /\ r.recovered \in BOOLEAN
          /\ r.tries <= r.attempts + (IF r.recovered THEN 1 ELSE 0)
                                    + (IF "turn" = "idle" THEN 1 ELSE 0)
      BY <3>2, NoTries
    <3> QED
      BY <3>2, <3>3, <3>4, CompactionIsPaid
  <2> QED
    BY <1>10, <2>1, <2>2 DEF StartRun
<1>11. CASE CompactSession
  <2>1. /\ Keeps(Fresh, RunFields) /\ Fresh.tries = 0 /\ Fresh.attempts = 0
        /\ ~Fresh.recovered /\ Fresh.recovered \in BOOLEAN
    BY DEF Keeps, Fresh, RunFields
  <2>2. /\ Fresh.tries \in Nat /\ Fresh.attempts \in 0 .. MaxRetries /\ Fresh.recovered \in BOOLEAN
        /\ Fresh.tries <= Fresh.attempts + (IF Fresh.recovered THEN 1 ELSE 0)
                                          + (IF "idle" = "idle" THEN 1 ELSE 0)
    BY <2>1, NoTries
  <2> QED
    BY <1>11, <2>1, <2>2, CompactionIsPaid DEF CompactSession
<1>12. CASE CommitCompaction
  <2>1. CASE cut.then = "idle"
    BY <1>12, <2>1, FreshIsPaid DEF CommitCompaction, AfterCut
  <2>2. CASE cut.then = "turn"
    <3>1. PICK r \in {[run EXCEPT !.at = cut.then], Failed(run, "error")} : run' = r
      BY <1>12, <2>2 DEF CommitCompaction, AfterCut
    <3>2. /\ Keeps(run', RunFields) /\ run'.tries = run.tries /\ run'.attempts = run.attempts
          /\ run'.recovered = run.recovered /\ run'.at \in {"turn", "settle"} /\ ~Asked
      BY <1>12, <2>2, <3>1 DEF CommitCompaction, Paid, Keeps, RunFields, Failed, Asked
    <3> QED
      BY <3>2, TurnAssumption DEF Paid, Asked
  <2> QED
    BY <1>12, <2>1, <2>2 DEF CommitCompaction, Paid
<1>13. CASE CompactionFails
  <2>1. CASE cut.then = "idle"
    BY <1>13, <2>1, FreshIsPaid DEF CompactionFails
  <2>2. CASE cut.then = "turn"
    <3>1. /\ Keeps(run', RunFields) /\ run'.tries = run.tries /\ run'.attempts = run.attempts
          /\ run'.recovered = run.recovered /\ run'.at = "settle" /\ ~Asked
      BY <1>13, <2>2 DEF CompactionFails, Paid, Keeps, RunFields, Failed, Asked
    <3> QED
      BY <3>1, TurnAssumption DEF Paid, Asked
  <2> QED
    BY <1>13, <2>1, <2>2 DEF CompactionFails, Paid
<1>14. CASE StreamAssistant
  <2>1. /\ Keeps(run', RunFields) /\ run'.tries = run.tries + 1 /\ run'.attempts = run.attempts
        /\ run'.recovered = run.recovered /\ run'.at \in {"next", "calls"} /\ ~Asked
    BY <1>14 DEF StreamAssistant, Paid, Keeps, RunFields, Asked
  <2> QED
    BY <2>1, TurnAssumption DEF Paid, Asked
<1>15. CASE \E k \in DOMAIN tools : FinishTool(k) \/ BeginApproval(k) \/ LeavePlanMode(k)
  BY <1>15, SamePaid DEF FinishTool, BeginApproval, LeavePlanMode
<1>16. CASE \E k \in DOMAIN tools : DecidePlan(k)
  <2>1. /\ Keeps(run', RunFields) /\ run'.tries = run.tries /\ run'.attempts = run.attempts
        /\ run'.recovered = run.recovered /\ run'.at = run.at /\ run.at = "batch"
    BY <1>16 DEF DecidePlan, Running, Paid, Keeps, RunFields
  <2> QED
    BY <2>1, MovedIsPaid DEF Asked
<1>17. CASE \/ RespondPlanApproval \/ SetMode \/ ReplaceMode \/ SwitchFails \/ StoreResult
             \/ RecordDiagnostic \/ \E shown \in BOOLEAN : SendExtensionMessage(shown)
  BY <1>17, SamePaid DEF RespondPlanApproval, SetMode, ReplaceMode, SwitchFails, StoreResult,
     RecordDiagnostic, SendExtensionMessage
<1>18. CASE RecoverOverflow
  <2> DEFINE r == [Recorded EXCEPT !.recovered = TRUE]
  <2>1. /\ Keeps(r, RunFields) /\ r.tries = run.tries /\ r.attempts = run.attempts
        /\ r.recovered /\ r.recovered \in BOOLEAN
    BY DEF Recorded, Paid, Keeps, RunFields
  <2>2. run.at = "next" /\ ~run.recovered
    BY <1>18 DEF RecoverOverflow, TurnEnds, Recovers, Paid
  <2>3. r.tries <= r.attempts + 1
    BY <2>1, <2>2 DEF Paid, Asked
  <2>4. PerformCompaction(r, run.reply.id, "turn")
    BY <1>18 DEF RecoverOverflow
  <2> HIDE DEF r
  <2>5. /\ r.tries \in Nat /\ r.attempts \in 0 .. MaxRetries /\ r.recovered \in BOOLEAN
        /\ r.tries <= r.attempts + (IF r.recovered THEN 1 ELSE 0)
                                  + (IF "turn" = "idle" THEN 1 ELSE 0)
    BY <2>1, <2>3 DEF Paid
  <2> QED
    BY <2>1, <2>4, <2>5, CompactionIsPaid
<1>19. CASE ScheduleRetry
  <2>1. /\ Keeps(run', RunFields) /\ run'.tries = run.tries /\ run'.attempts = run.attempts + 1
        /\ run'.recovered = run.recovered /\ run'.at = "backoff" /\ run.at = "next"
        /\ run.attempts < MaxRetries
    BY <1>19 DEF ScheduleRetry, TurnEnds, Schedules, Recorded, Paid, Keeps, RunFields
  <2> QED
    BY <2>1, TurnAssumption DEF Paid, Asked
<1>20. CASE Backoff
  <2>1. /\ Keeps(run', RunFields) /\ run'.tries = run.tries /\ run'.attempts = run.attempts
        /\ run'.recovered = run.recovered /\ run'.at \in {"turn", "settle"} /\ run.at = "backoff"
    BY <1>20 DEF Backoff, Paid, Keeps, RunFields
  <2> QED
    BY <2>1, MovedIsPaid DEF Asked
<1>21. CASE ContinueRun \/ FinishRun
  <2>1. /\ Keeps(run', RunFields) /\ run'.tries = 0 /\ run'.attempts = 0
        /\ run'.recovered = run.recovered /\ run'.at \in {"turn", "settle"}
    BY <1>21, ZenonT(60) DEF ContinueRun, FinishRun, Answered, Recorded, Paid, Keeps, RunFields
  <2> QED
    BY <2>1, TurnAssumption DEF Paid, Asked
<1>22. CASE SettleRun
  <2>1. CASE run.auto
    BY <1>22, <2>1, CompactionIsPaid DEF SettleRun, Paid, Asked
  <2>2. CASE ~run.auto
    BY <1>22, <2>2, FreshIsPaid DEF SettleRun
  <2> QED
    BY <2>1, <2>2
<1>23. CASE Cancel
  <2>1. /\ Keeps(run', RunFields) /\ run'.tries = run.tries /\ run'.attempts = run.attempts
        /\ run'.recovered = run.recovered /\ run'.at = run.at /\ cut' = cut
    BY <1>23 DEF Cancel, Paid, Keeps, RunFields
  <2> QED
    BY <2>1 DEF Paid, Asked
<1>24. CASE RunBreaks
  <2>1. /\ Keeps(run', RunFields) /\ run'.tries = run.tries /\ run'.attempts = run.attempts
        /\ run'.recovered = run.recovered /\ run'.at = "settle"
        /\ run.at \notin {"idle", "compact"}
    BY <1>24 DEF RunBreaks, Interrupted, Failed, Paid, Keeps, RunFields
  <2> QED
    BY <2>1, MovedIsPaid DEF Asked
<1>25. CASE DropRun \/ Reopen
  BY <1>25, FreshIsPaid DEF DropRun, Interrupted, Reopen
<1>26. CASE UNCHANGED vars
  BY <1>26, SamePaid DEF vars
<1> QED
  BY <1>1, <1>2, <1>3, <1>4, <1>5, <1>6, <1>7, <1>8, <1>9, <1>10, <1>11, <1>12, <1>13, <1>14, <1>15, <1>16, <1>17, <1>18, <1>19, <1>20, <1>21, <1>22, <1>23, <1>24, <1>25, <1>26 DEF Next

LEMMA AlwaysPaid == Spec => []Paid
<1>1. Init => Paid
  BY TurnAssumption DEF Init, Paid, Keeps, Fresh, RunFields, Asked
<1> QED
  BY <1>1, PaidStep, PTL DEF Spec

\* The model is asked at most MaxRetries + 1 times for one answer, and once more in
\* a Run that recovered from an overflow, whatever is cancelled, compacted, breaks or
\* is resumed in between.
THEOREM RetriesAreBounded == Spec => []RetryBudget
<1>1. Paid => RetryBudget
  BY TurnAssumption DEF Paid, RetryBudget
<1> QED
  BY <1>1, AlwaysPaid, PTL

-----------------------------------------------------------------------------
(* The approvals.                                                          *)

\* Runnable: what a settled attempt asks the Turn to run is a batch of calls.
LEMMA RunnableCalls ==
    ASSUME NEW a \in Answers PROVE Runnable(a) \in Seq({"plan", "write"})
<1>1. a \in Attempts
  BY AnswerAssumption
<1>2. <<>> \in Seq({"plan", "write"}) /\ <<"write">> \in Seq({"plan", "write"})
  OBVIOUS
<1>3. a.stop \in {"tools", "length"} => a.calls \in Batches \cup Partial \cup {<<>>}
  BY <1>1 DEF Attempts, Attempt, Partial
<1>4. a.stop \in {"tools", "length"} => a.calls \in Seq({"plan", "write"})
  BY <1>2, <1>3, TurnAssumption DEF Partial
<1> QED
  BY <1>2, <1>4 DEF Runnable

\* No call changes: the Run moves on with its batch stored, or inside it.
LEMMA SameCalls ==
    ASSUME Approvals, tools' = tools, Keeps(run', RunFields),
           tools # <<>> => run'.at = "batch",
           run'.at = "calls" => run'.reply.calls \in Seq({"plan", "write"}),
           Keeps(plan', {"mode", "pending", "asked", "unsynced"}),
           plan'.asked = plan.asked, plan'.pending = plan.pending,
           switch' \in {switch, NoSwitch} \/ switch'.by = 0
    PROVE  Approvals'
BY DEF Approvals, NoStalePlan

\* The batch is gone, and with it the approval one of its calls was waiting for.
LEMMA CallsGone ==
    ASSUME Approvals, tools' = <<>>, Keeps(run', RunFields), run'.at # "calls",
           Keeps(plan', {"mode", "pending", "asked", "unsynced"}),
           plan'.asked = plan.asked, plan'.pending = 0,
           switch' = NoSwitch \/ switch'.by = 0
    PROVE  Approvals'
<1>1. tools' \in Seq(Calls) /\ DOMAIN (tools') = {}
  OBVIOUS
<1> QED
  BY <1>1 DEF Approvals, NoStalePlan

\* One call takes a step that asks for no approval.
LEMMA CallMoves ==
    ASSUME Approvals, NEW k \in DOMAIN tools, NEW c \in Calls,
           tools' = [tools EXCEPT ![k] = c],
           c.request \in {0, tools[k].request},
           c.st \in {"queued", "done"} => c.request = 0,
           Keeps(run', RunFields), run'.at = "batch",
           Keeps(plan', {"mode", "pending", "asked", "unsynced"}),
           plan'.asked = plan.asked, plan'.pending \in {0, plan.pending},
           plan'.pending # 0 => ~(tools[k].st = "waits" /\ tools[k].request = plan.pending),
           \/ switch' = NoSwitch
           \/ switch' = switch /\ switch.by # k
           \/ switch'.by = k /\ c.st = "left"
    PROVE  Approvals'
<1>1. /\ tools' \in Seq(Calls) /\ DOMAIN (tools') = DOMAIN tools /\ (tools')[k] = c
      /\ \A j \in DOMAIN tools : j # k => (tools')[j] = tools[j]
  BY DEF Approvals
<1>2. /\ tools' \in Seq(Calls) /\ (tools' # <<>> => run'.at = "batch")
      /\ Keeps(run', RunFields)
      /\ (run'.at = "calls" => run'.reply.calls \in Seq({"plan", "write"}))
  BY <1>1
<1>3. plan'.asked \in Nat /\ plan'.pending \in Nat /\ plan'.pending <= plan'.asked
  BY DEF Approvals
<1>4. \A j \in DOMAIN (tools') : (tools')[j].request <= plan'.asked
  BY <1>1 DEF Approvals
<1>5. \A j \in DOMAIN (tools') : (tools')[j].st \in {"queued", "done"} => (tools')[j].request = 0
  BY <1>1 DEF Approvals
<1>6. switch' = NoSwitch \/ switch'.by = 0
        \/ (switch'.by \in DOMAIN (tools') /\ (tools')[switch'.by].st = "left")
  BY <1>1 DEF Approvals
<1>7. plan'.pending # 0 => \E j \in DOMAIN (tools') :
         (tools')[j].st = "waits" /\ (tools')[j].request = plan'.pending
  BY <1>1 DEF Approvals, NoStalePlan
<1>8. \A j, l \in DOMAIN (tools') :
         (tools')[j].request = (tools')[l].request => j = l \/ (tools')[j].request = 0
  BY <1>1 DEF Approvals, NoStalePlan
<1> QED
  BY <1>2, <1>3, <1>4, <1>5, <1>6, <1>7, <1>8 DEF Approvals, NoStalePlan

\* A switch under way belongs to no call but one that has left plan mode.
LEMMA SwitchElsewhere ==
    ASSUME Approvals, NEW k \in DOMAIN tools, tools[k].st # "left" PROVE switch.by # k
<1>1. k # 0
  BY DEF Approvals
<1> QED
  BY <1>1 DEF Approvals, NoSwitch

LEMMA DoneCall == \A size \in {0, 1} : Done(size) \in Calls /\ Done(size).st = "done"
                                       /\ Done(size).request = 0
BY DEF Done, Calls, None

LEMMA FinishToolKeeps ==
    ASSUME Approvals, NEW k \in DOMAIN tools, FinishTool(k) PROVE Approvals'
<1>1. PICK size \in Sizes : tools' = [tools EXCEPT ![k] = Done(size)]
  BY DEF FinishTool
<1>2. /\ plan' = plan /\ run' = run /\ switch' = switch
      /\ run.at = "batch" /\ tools[k].st = "queued"
  BY DEF FinishTool, Running
<1>3. switch.by # k
  BY <1>2, SwitchElsewhere
<1>4. Done(size) \in Calls /\ Done(size).request = 0 /\ size \in {0, 1}
  BY DoneCall, TurnAssumption
<1>5. Keeps(run', RunFields) /\ Keeps(plan', {"mode", "pending", "asked", "unsynced"})
  BY <1>2 DEF Approvals
<1> QED
  BY <1>1, <1>2, <1>3, <1>4, <1>5, CallMoves

LEMMA BeginApprovalKeeps ==
    ASSUME Approvals, NEW k \in DOMAIN tools, BeginApproval(k) PROVE Approvals'
<1>1. /\ run' = run /\ switch' = switch /\ run.at = "batch" /\ tools[k].st = "queued"
      /\ Keeps(run', RunFields)
  BY DEF BeginApproval, Running, Approvals
<1>2. switch.by # k
  BY <1>1, SwitchElsewhere
<1>3. CASE run.cancelled \/ plan.mode # "plan" \/ plan.pending # 0
  <2>1. plan' = plan /\ tools' = [tools EXCEPT ![k] = Done(1)]
    BY <1>3 DEF BeginApproval
  <2>2. Done(1) \in Calls /\ Done(1).request = 0
    BY DoneCall
  <2> QED
    BY <1>1, <1>2, <2>1, <2>2, CallMoves DEF Approvals
<1>4. CASE ~(run.cancelled \/ plan.mode # "plan" \/ plan.pending # 0)
  <2> DEFINE c == [Queued EXCEPT !.st = "waits", !.request = plan.asked + 1]
  <2>1. /\ plan' = [plan EXCEPT !.asked = @ + 1, !.pending = plan.asked + 1]
        /\ tools' = [tools EXCEPT ![k] = c] /\ plan.pending = 0
    BY <1>4 DEF BeginApproval
  <2>2. plan.asked \in Nat
    BY DEF Approvals
  <2>3. c \in Calls /\ c.st = "waits" /\ c.request = plan.asked + 1
    <3>1. Queued \in Calls
      BY DEF Queued, Done, None, Calls
    <3>2. plan.asked + 1 \in Nat
      BY <2>2
    <3>3. \A n \in Nat, q \in Calls : LET d == [q EXCEPT !.st = "waits", !.request = n]
                                      IN d \in Calls /\ d.st = "waits" /\ d.request = n
      BY DEF Calls
    <3> QED
      BY <3>1, <3>2, <3>3
  <2>4. /\ Keeps(plan', {"mode", "pending", "asked", "unsynced"})
        /\ plan'.asked = plan.asked + 1 /\ plan'.pending = plan.asked + 1
    BY <2>1 DEF Approvals, Keeps
  <2> HIDE DEF c
  <2>5. /\ tools' \in Seq(Calls) /\ DOMAIN (tools') = DOMAIN tools /\ (tools')[k] = c
        /\ \A j \in DOMAIN tools : j # k => (tools')[j] = tools[j]
    BY <2>1, <2>3 DEF Approvals
  <2>6. \A j \in DOMAIN tools : tools[j].request \in Nat /\ tools[j].request < plan.asked + 1
    <3>1. \A j \in DOMAIN tools : tools[j] \in Calls /\ tools[j].request <= plan.asked
      BY DEF Approvals
    <3>2. \A d \in Calls : d.request \in Nat
      BY DEF Calls
    <3> QED
      BY <2>2, <3>1, <3>2
  <2>7. \A j \in DOMAIN (tools') : (tools')[j].request <= plan'.asked
    BY <2>2, <2>3, <2>4, <2>5, <2>6
  <2>8. \A j \in DOMAIN (tools') : (tools')[j].st \in {"queued", "done"} => (tools')[j].request = 0
    BY <2>3, <2>5 DEF Approvals
  <2>9. switch' = NoSwitch \/ switch'.by = 0
          \/ (switch'.by \in DOMAIN (tools') /\ (tools')[switch'.by].st = "left")
    BY <1>1, <1>2, <2>5 DEF Approvals
  <2>10. \A j, l \in DOMAIN (tools') :
           (tools')[j].request = (tools')[l].request => j = l \/ (tools')[j].request = 0
    <3>1. \A j, l \in DOMAIN tools : j # k /\ l # k /\ tools[j].request = tools[l].request
             => j = l \/ tools[j].request = 0
      BY DEF Approvals, NoStalePlan
    <3>2. \A j \in DOMAIN tools : tools[j].request # plan.asked + 1
      BY <2>2, <2>6
    <3> QED
      BY <3>1, <3>2, <2>3, <2>5
  <2>11. plan'.pending \in Nat /\ plan'.asked \in Nat /\ plan'.pending <= plan'.asked
    BY <2>2, <2>4
  <2>12. plan'.pending # 0 => \E j \in DOMAIN (tools') :
           (tools')[j].st = "waits" /\ (tools')[j].request = plan'.pending
    BY <2>3, <2>4, <2>5
  <2> QED
    BY <1>1, <2>4, <2>5, <2>7, <2>8, <2>9, <2>10, <2>11, <2>12 DEF Approvals, NoStalePlan
<1> QED
  BY <1>3, <1>4


LEMMA DecidePlanKeeps ==
    ASSUME Approvals, NEW k \in DOMAIN tools, DecidePlan(k) PROVE Approvals'
<1>1. /\ switch' = switch /\ run.at = "batch" /\ tools[k].st = "waits"
      /\ plan' = Forget({tools[k].request})
  BY DEF DecidePlan, Running
<1>2. Keeps(run', RunFields) /\ run'.at = "batch"
  BY <1>1 DEF DecidePlan, Approvals, Keeps, RunFields
<1>3. switch.by # k
  BY <1>1, SwitchElsewhere
<1>4. /\ Keeps(plan', {"mode", "pending", "asked", "unsynced"}) /\ plan'.asked = plan.asked
      /\ plan'.pending \in {0, plan.pending}
      /\ plan'.pending # 0 => tools[k].request # plan.pending
  BY <1>1 DEF Forget, Approvals, Keeps
<1>5. PICK c \in {[tools[k] EXCEPT !.st = "leaves"], Done(1)} : tools' = [tools EXCEPT ![k] = c]
  BY DEF DecidePlan
<1>6. tools[k] \in Calls
  BY DEF Approvals
<1>7. /\ c \in Calls /\ c.request \in {0, tools[k].request}
      /\ (c.st \in {"queued", "done"} => c.request = 0)
  BY <1>5, <1>6, DoneCall DEF Calls
<1> QED
  BY <1>1, <1>2, <1>3, <1>4, <1>5, <1>7, CallMoves

LEMMA LeavePlanModeKeeps ==
    ASSUME Approvals, NEW k \in DOMAIN tools, LeavePlanMode(k) PROVE Approvals'
<1>1. /\ switch = NoSwitch /\ run.at = "batch" /\ tools[k].st = "leaves"
      /\ run' = run /\ plan' = plan
  BY DEF LeavePlanMode, Running
<1>2. /\ Keeps(run', RunFields) /\ run'.at = "batch"
      /\ Keeps(plan', {"mode", "pending", "asked", "unsynced"})
  BY <1>1 DEF Approvals
<1>3. CASE plan.mode = "default"
  <2>1. tools' = [tools EXCEPT ![k] = Done(1)] /\ switch' = NoSwitch
    BY <1>1, <1>3 DEF LeavePlanMode
  <2>2. Done(1) \in Calls /\ Done(1).request = 0
    BY DoneCall
  <2> QED
    BY <1>1, <1>2, <2>1, <2>2, CallMoves
<1>4. CASE plan.mode # "default"
  <2>1. /\ tools' = [tools EXCEPT ![k] = [tools[k] EXCEPT !.st = "left"]]
        /\ switch' = [mode |-> "default", by |-> k]
    BY <1>4 DEF LeavePlanMode, WriteSwitch
  <2>2. tools[k] \in Calls
    BY DEF Approvals
  <2>3. LET c == [tools[k] EXCEPT !.st = "left"] IN
        c \in Calls /\ c.st = "left" /\ c.request = tools[k].request
    BY <2>2 DEF Calls
  <2>4. switch'.by = k
    BY <2>1
  <2> QED
    BY <1>1, <1>2, <2>1, <2>3, <2>4, CallMoves
<1> QED
  BY <1>3, <1>4

LEMMA EndSwitchKeeps ==
    ASSUME Approvals, EndSwitch, run' = run,
           Keeps(plan', {"mode", "pending", "asked", "unsynced"}),
           plan'.asked = plan.asked, plan'.pending = plan.pending
    PROVE  Approvals'
<1>1. switch # NoSwitch /\ switch' = NoSwitch /\ Keeps(run', RunFields)
  BY DEF EndSwitch, Approvals
<1>2. CASE switch.by = 0
  <2>1. tools' = tools /\ (tools # <<>> => run'.at = "batch")
        /\ (run'.at = "calls" => run'.reply.calls \in Seq({"plan", "write"}))
    BY <1>2 DEF EndSwitch, Approvals
  <2> QED
    BY <1>1, <2>1, SameCalls
<1>3. CASE switch.by # 0
  <2>1. /\ switch.by \in DOMAIN tools /\ tools[switch.by].st = "left"
        /\ tools' = [tools EXCEPT ![switch.by] = Done(1)]
    BY <1>1, <1>3 DEF EndSwitch, Approvals
  <2>2. run'.at = "batch"
    BY <2>1 DEF Approvals
  <2>3. Done(1) \in Calls /\ Done(1).request = 0
    BY DoneCall
  <2> QED
    BY <1>1, <2>1, <2>2, <2>3, CallMoves
<1> QED
  BY <1>2, <1>3

LEMMA RespondKeeps ==
    ASSUME Approvals, RespondPlanApproval PROVE Approvals'
<1>1. PICK decision \in {"approve", "keep"} :
        tools' = [k \in DOMAIN tools |->
                    IF tools[k].request = plan.pending THEN [tools[k] EXCEPT !.answer = decision]
                    ELSE tools[k]]
  BY DEF RespondPlanApproval
<1>2. run' = run /\ switch' = switch /\ plan' = [plan EXCEPT !.pending = 0]
  BY DEF RespondPlanApproval
<1>3. /\ Keeps(plan', {"mode", "pending", "asked", "unsynced"})
      /\ plan'.pending = 0 /\ plan'.asked = plan.asked
  BY <1>2 DEF Approvals, Keeps
<1>4. \A c \in Calls : LET d == [c EXCEPT !.answer = decision] IN
                       d \in Calls /\ d.st = c.st /\ d.request = c.request
  BY DEF Calls
<1>5. tools \in Seq(Calls) /\ \A k \in DOMAIN tools : tools[k] \in Calls
  BY DEF Approvals
<1>6. /\ DOMAIN (tools') = DOMAIN tools
      /\ \A k \in DOMAIN tools : /\ (tools')[k] \in Calls /\ (tools')[k].st = tools[k].st
                                 /\ (tools')[k].request = tools[k].request
  BY <1>1, <1>4, <1>5
<1>7. tools' \in Seq(Calls) /\ (tools' # <<>> => tools # <<>>)
  <2>1. PICK n \in Nat : tools \in [1 .. n -> Calls]
    BY <1>5
  <2>2. tools' \in [1 .. n -> Calls]
    BY <1>1, <1>6, <2>1
  <2> QED
    BY <2>1, <2>2
<1> QED
  BY <1>2, <1>3, <1>6, <1>7, SMTT(30) DEF Approvals, NoStalePlan

LEMMA StartCallsKeeps ==
    ASSUME Approvals, StartCalls PROVE Approvals'
<1>1. PICK blocked \in SUBSET DOMAIN run.reply.calls :
        tools' = [k \in DOMAIN run.reply.calls |->
                    IF k \in blocked \/ Refused(run.reply.calls[k]) THEN Done(1) ELSE Queued]
  BY DEF StartCalls
<1>2. run.at = "calls" /\ plan' = plan /\ switch' = switch
  BY DEF StartCalls
<1>3. Keeps(run', RunFields) /\ run'.at = "batch"
  BY DEF StartCalls, Approvals, Keeps, RunFields
<1>4. Queued \in Calls /\ Queued.request = 0 /\ Done(1) \in Calls /\ Done(1).request = 0
  BY DEF Queued, Done, None, Calls
<1>5. tools = <<>> /\ run.reply.calls \in Seq({"plan", "write"})
  BY <1>2 DEF Approvals
<1>6. \A k \in DOMAIN (tools') : (tools')[k] \in Calls /\ (tools')[k].request = 0
  BY <1>1, <1>4
<1>7. tools' \in Seq(Calls)
  <2>1. PICK n \in Nat : run.reply.calls \in [1 .. n -> {"plan", "write"}]
    BY <1>5
  <2>2. tools' \in [1 .. n -> Calls]
    BY <1>1, <1>6, <2>1
  <2> QED
    BY <2>2
<1>8. DOMAIN tools = {} /\ plan.pending = 0
  BY <1>5 DEF Approvals, NoStalePlan
<1> QED
  BY <1>2, <1>3, <1>6, <1>7, <1>8 DEF Approvals, NoStalePlan

LEMMA StoreResultKeeps ==
    ASSUME Approvals, StoreResult PROVE Approvals'
<1>1. /\ run.at = "batch" /\ run' = run /\ plan' = plan /\ switch' = switch
      /\ tools' = Tail(tools) /\ tools # <<>>
      /\ \A k \in DOMAIN tools : tools[k].st = "done"
  BY DEF StoreResult, NoTools, Pending
<1>2. \A k \in DOMAIN tools : tools[k].request = 0
  BY <1>1 DEF Approvals
<1>3. plan.pending = 0 /\ (switch = NoSwitch \/ switch.by = 0)
  BY <1>1 DEF Approvals, NoStalePlan
<1>4. /\ tools' \in Seq(Calls)
      /\ \A k \in DOMAIN (tools') : k + 1 \in DOMAIN tools /\ (tools')[k] = tools[k + 1]
  BY <1>1 DEF Approvals
<1>5. \A k \in DOMAIN (tools') : (tools')[k].request = 0
  BY <1>2, <1>4
<1> QED
  BY <1>1, <1>3, <1>4, <1>5 DEF Approvals, NoStalePlan


LEMMA FreshRun ==
    Keeps(Fresh, RunFields) /\ Fresh.at = "idle"
BY DEF Keeps, Fresh, RunFields

LEMMA FailedRun ==
    ASSUME NEW r, NEW error, Keeps(r, RunFields)
    PROVE  Keeps(Failed(r, error), RunFields) /\ Failed(r, error).at = "settle"
BY DEF Keeps, Failed, RunFields

LEMMA PlacedRun ==
    ASSUME NEW r, NEW at, Keeps(r, RunFields)
    PROVE  Keeps([r EXCEPT !.at = at], RunFields) /\ [r EXCEPT !.at = at].at = at
BY DEF Keeps, RunFields

\* PerformCompaction keeps the Run a record and starts no calls.
LEMMA CompactionKeepsRun ==
    ASSUME NEW r, NEW e, NEW then, PerformCompaction(r, e, then), Keeps(r, RunFields)
    PROVE  Keeps(run', RunFields) /\ run'.at \notin {"calls", "batch"}
<1> DEFINE parts == Preparation(Compactable(e))
           some == TokensFrom(parts.summarized \o parts.prefix, 1) > 0
<1> HIDE DEF some
<1>1. run' \in {[r EXCEPT !.at = "compact"], Fresh, Failed(r, "error")}
  BY DEF PerformCompaction, some
<1>2. CASE run' = [r EXCEPT !.at = "compact"]
  <2>1. Keeps(run', RunFields) /\ run'.at = "compact"
    BY <1>2, PlacedRun, Zenon
  <2> QED
    BY <2>1
<1>3. CASE run' = Fresh
  BY <1>3, FreshRun
<1>4. CASE run' = Failed(r, "error")
  BY <1>4, FailedRun
<1> QED
  BY <1>1, <1>2, <1>3, <1>4

LEMMA ApprovalsStep ==
    ASSUME Approvals, Paid, [Next]_vars
    PROVE  Approvals'
<1> USE DEF Stay
<1> DEFINE Moved == /\ tools' = tools /\ plan' = plan /\ switch' = switch
                    /\ Keeps(run', RunFields) /\ (tools # <<>> => run'.at = "batch")
                    /\ (run'.at = "calls" => run'.reply.calls \in Seq({"plan", "write"}))
<1>0. ASSUME Moved PROVE Approvals'
  <2>1. Keeps(plan', {"mode", "pending", "asked", "unsynced"})
    BY <1>0 DEF Approvals
  <2> QED
    BY <1>0, <2>1, SameCalls
<1>1. CASE BeginTurn \/ InsertUserMessage \/ ReadHistory \/ ReadMode \/ CommitCompaction \/ CompactionFails
  <2>1. tools' = tools /\ plan' = plan /\ switch' = switch /\ run.at \notin {"batch", "calls"}
    BY <1>1 DEF BeginTurn, InsertUserMessage, ReadHistory, ReadMode, CommitCompaction, CompactionFails
  <2>2. Keeps(run, RunFields) /\ tools = <<>>
    BY <2>1 DEF Approvals
  <2>3. CASE BeginTurn \/ InsertUserMessage \/ ReadHistory \/ ReadMode
    <3>1. Keeps(run', RunFields) /\ run'.at # "calls"
      BY <2>2, <2>3 DEF BeginTurn, InsertUserMessage, ReadHistory, ReadMode, Failed, Keeps, RunFields
    <3> QED
      BY <1>0, <2>1, <2>2, <3>1
  <2>4. CASE CommitCompaction \/ CompactionFails
    <3>1. run' = Fresh \/ (\E error : run' = Failed(run, error))
             \/ (cut.then \in {"turn", "idle"} /\ run' = [run EXCEPT !.at = cut.then])
      BY <2>4 DEF CommitCompaction, CompactionFails, AfterCut, Paid
    <3>2. Keeps(run', RunFields) /\ run'.at # "calls"
      <4>1. CASE run' = Fresh
        BY <4>1, FreshRun
      <4>2. CASE \E error : run' = Failed(run, error)
        BY <2>2, <4>2, FailedRun
      <4>3. CASE cut.then \in {"turn", "idle"} /\ run' = [run EXCEPT !.at = cut.then]
        <5>1. Keeps(run', RunFields) /\ run'.at = cut.then
          BY <2>2, <4>3, PlacedRun, Zenon
        <5> QED
          BY <4>3, <5>1
      <4> QED
        BY <3>1, <4>1, <4>2, <4>3
    <3> QED
      BY <1>0, <2>1, <2>2, <3>2
  <2> QED
    BY <1>1, <2>3, <2>4
<1>2. CASE StartRun \/ CompactSession \/ RecoverOverflow \/ SettleRun
  <2>1. tools' = tools /\ plan' = plan /\ switch' = switch /\ run.at # "batch"
    BY <1>2 DEF StartRun, CompactSession, RecoverOverflow, SettleRun, TurnEnds
  <2>2. Keeps(run, RunFields) /\ tools = <<>>
    BY <2>1 DEF Approvals
  <2>3. PICK r \in {run, Fresh, [Fresh EXCEPT !.at = "turn", !.input = "initial"],
                    [Recorded EXCEPT !.recovered = TRUE]} :
          \/ run' = r /\ r \in {Fresh, [Fresh EXCEPT !.at = "turn", !.input = "initial"]}
          \/ \E e, then : PerformCompaction(r, e, then)
    BY <1>2 DEF StartRun, CompactSession, RecoverOverflow, SettleRun
  <2>4. Keeps(r, RunFields)
    BY <2>2, <2>3 DEF Fresh, Recorded, Keeps, RunFields
  <2>5. Keeps(run', RunFields) /\ run'.at # "calls"
    <3>1. CASE run' = r /\ r \in {Fresh, [Fresh EXCEPT !.at = "turn", !.input = "initial"]}
      <4>1. [Fresh EXCEPT !.at = "turn", !.input = "initial"].at = "turn"
        BY DEF Fresh
      <4> QED
        BY <2>4, <3>1, <4>1, FreshRun
    <3>2. CASE \E e, then : PerformCompaction(r, e, then)
      BY <2>4, <3>2, CompactionKeepsRun
    <3> QED
      BY <2>3, <3>1, <3>2
  <2> QED
    BY <1>0, <2>1, <2>2, <2>5
<1>3. CASE StreamAssistant
  <2>1. PICK a \in Answers :
          run' = [run EXCEPT !.at = IF Runnable(a) = <<>> THEN "next" ELSE "calls",
                    !.reply = SettleAssistant(a), !.tries = @ + 1, !.request = <<>>]
    BY <1>3 DEF StreamAssistant
  <2>2. tools' = tools /\ plan' = plan /\ switch' = switch /\ run.at = "stream"
    BY <1>3 DEF StreamAssistant
  <2>3. Keeps(run, RunFields) /\ tools = <<>>
    BY <2>2 DEF Approvals
  <2>4. Keeps(run', RunFields) /\ run'.reply = SettleAssistant(a)
    BY <2>1, <2>3 DEF Keeps, RunFields
  <2>5. run'.reply.calls = Runnable(a)
    BY <2>4 DEF SettleAssistant
  <2> QED
    BY <1>0, <2>2, <2>3, <2>4, <2>5, RunnableCalls
<1>4. CASE ObserveCancellation \/ Cancel
  <2>1. /\ tools' = tools /\ plan' = plan /\ switch' = switch
        /\ Keeps(run', RunFields) /\ run'.at = run.at
        /\ run.at = "calls" => run'.reply = run.reply
    BY <1>4 DEF ObserveCancellation, Cancel, Approvals, Keeps, RunFields
  <2> QED
    BY <1>0, <2>1 DEF Approvals
<1>5. CASE ResultsStored \/ TurnCancelled \/ ScheduleRetry \/ Backoff \/ RunFails \/ ContinueRun \/ FinishRun
  <2>1. tools' = tools /\ plan' = plan /\ switch' = switch /\ (run.at # "batch" \/ tools = <<>>)
    BY <1>5 DEF ResultsStored, TurnCancelled, ScheduleRetry, Backoff, RunFails, ContinueRun,
       FinishRun, TurnEnds, Succeeds, NoTools
  <2>2. Keeps(run, RunFields) /\ tools = <<>>
    BY <2>1 DEF Approvals
  <2>3. Keeps(run', RunFields) /\ run'.at # "calls"
    BY <1>5, <2>2 DEF ResultsStored, TurnCancelled, ScheduleRetry, Backoff, RunFails, ContinueRun,
       FinishRun, Answered, Recorded, Keeps, RunFields
  <2> QED
    BY <1>0, <2>1, <2>2, <2>3
<1>6. CASE RecordDiagnostic \/ \E shown \in BOOLEAN : SendExtensionMessage(shown)
  <2>1. tools' = tools /\ plan' = plan /\ switch' = switch /\ run' = run
    BY <1>6 DEF RecordDiagnostic, SendExtensionMessage
  <2> QED
    BY <1>0, <2>1 DEF Approvals
<1>7. CASE SetMode
  <2>1. PICK mode \in Modes : switch' = [mode |-> mode, by |-> 0]
    BY <1>7 DEF SetMode, WriteSwitch
  <2>2. tools' = tools /\ plan' = plan /\ run' = run /\ switch'.by = 0
    BY <1>7, <2>1 DEF SetMode
  <2>3. /\ Keeps(run', RunFields) /\ Keeps(plan', {"mode", "pending", "asked", "unsynced"})
        /\ (tools # <<>> => run'.at = "batch")
        /\ (run'.at = "calls" => run'.reply.calls \in Seq({"plan", "write"}))
    BY <2>2 DEF Approvals
  <2> QED
    BY <2>2, <2>3, SameCalls
<1>8. CASE ReplaceMode \/ SwitchFails
  <2>1. /\ EndSwitch /\ run' = run
        /\ Keeps(plan', {"mode", "pending", "asked", "unsynced"})
        /\ plan'.asked = plan.asked /\ plan'.pending = plan.pending
    BY <1>8 DEF ReplaceMode, SwitchFails, Approvals, Keeps
  <2> QED
    BY <2>1, EndSwitchKeeps
<1>9. CASE \E k \in DOMAIN tools : FinishTool(k) \/ BeginApproval(k) \/ DecidePlan(k) \/ LeavePlanMode(k)
  BY <1>9, FinishToolKeeps, BeginApprovalKeeps, DecidePlanKeeps, LeavePlanModeKeeps
<1>10. CASE RunBreaks \/ DropRun
  <2>1. PICK r \in {Fresh, Failed(run, "error")} : Interrupted(r)
    BY <1>10 DEF RunBreaks, DropRun
  <2>2. /\ run' = r /\ tools' = <<>> /\ plan' = Forget(Requests \ {0})
        /\ (switch' = NoSwitch \/ switch'.by = 0)
    BY <2>1 DEF Interrupted, NoTools
  <2>3. Keeps(run', RunFields) /\ run'.at # "calls"
    BY <2>1, <2>2, FreshRun, FailedRun DEF Approvals
  <2>4. plan.pending = 0 \/ plan.pending \in Requests \ {0}
    BY DEF Approvals, NoStalePlan, Requests
  <2>5. /\ Keeps(plan', {"mode", "pending", "asked", "unsynced"})
        /\ plan'.asked = plan.asked /\ plan'.pending = 0
    BY <2>2, <2>4 DEF Forget, Approvals, Keeps
  <2> QED
    BY <2>2, <2>3, <2>5, CallsGone
<1>11. CASE Reopen
  <2>1. /\ tools' = <<>> /\ switch' = NoSwitch /\ Keeps(run', RunFields) /\ run'.at # "calls"
        /\ Keeps(plan', {"mode", "pending", "asked", "unsynced"})
        /\ plan'.asked = plan.asked /\ plan'.pending = 0
    BY <1>11 DEF Reopen, NoTools, Fresh, Approvals, Keeps, RunFields
  <2> QED
    BY <2>1, CallsGone
<1>12. CASE RespondPlanApproval \/ StartCalls \/ StoreResult
  BY <1>12, RespondKeeps, StartCallsKeeps, StoreResultKeeps
<1>13. CASE UNCHANGED vars
  BY <1>0, <1>13 DEF vars, Approvals
<1> QED
  BY <1>1, <1>2, <1>3, <1>4, <1>5, <1>6, <1>7, <1>8, <1>9, <1>10, <1>11, <1>12, <1>13 DEF Next

\* A plan waits for the user only while the call that asked does, and no two calls
\* share an approval, whatever is answered, cancelled, switched, broken or dropped,
\* and in whichever order the calls of a batch go on.
THEOREM PlansAreNotStale == Spec => []NoStalePlan
<1>1. Init => Approvals
  BY DEF Init, Approvals, Keeps, Fresh, RunFields, NoTools, NoSwitch, NoStalePlan
<1>2. Approvals => NoStalePlan
  BY DEF Approvals
<1> QED
  BY <1>1, <1>2, ApprovalsStep, AlwaysPaid, PTL DEF Spec

=============================================================================
