--------------------------- MODULE BashExecution ----------------------------
(***************************************************************************)
(* One shell command (crates/tools/src/bash.rs), run for the bash tool     *)
(* (builtin/bash.rs) or for a user's "!" prompt                            *)
(* (kernel/src/runtime/command/user_bash.rs), from the pipes its output    *)
(* arrives on, through the bounded accumulator (builtin/output.rs), to the *)
(* result its caller reports and the file the model may read afterwards.   *)
(***************************************************************************)
EXTENDS ToolText

CONSTANTS
    Streams,    \* the pipes: stdout and stderr
    Pieces,     \* what one write of the shell may be: sequences of byte kinds
    Capacity,   \* OUTPUT_CHANNEL_CAPACITY
    ReadSize,   \* the reader's buffer
    None,
    MaxWritten, \* bound: no write starts once so many bytes were written
    MaxFaults   \* bound: failing writes, saves and event deliveries

ASSUME BashAssumption ==
    /\ Capacity \in Nat \ {0}
    /\ ReadSize \in Nat \ {0}
    /\ MaxWritten \in Nat
    /\ MaxFaults \in Nat

VARIABLES
    caller,      \* "tool"; "prompt" or "direct", and "user" once accepted
    pc,          \* where the executing future is
    cancelled,   \* the Session's cancellation token
    shell,       \* "unborn", "running", "exited" or "killed"
    background,  \* a descendant that holds the pipes: "none", "group", "detached"
    wrote,       \* per pipe, every byte written to it
    pipe,        \* per pipe, the bytes not read yet
    owed,        \* per pipe, how many bytes were written when the shell ended
    hand,        \* per reader, the chunk it is sending
    reader,      \* per reader: "idle", "reading" or "ended"
    channel,     \* chunks sent and not received
    chunks,      \* the chunks appended to the OutputAccumulator
    term,        \* the BashTermination, or "Refused": cancelled before the shell
    cut,         \* the grace period ended on a reader with a chunk in hand
    latest,      \* the published snapshot not yet forwarded, as the number of
                 \* chunks it covers, or None
    shown,       \* likewise, the live output the client was sent last
    result,      \* who gave the result: "none", "hook" or "shell"
    stored,      \* the saved message: "no", "written" or "synced"
    ended,       \* the MessageEnd event was delivered
    finished,    \* the outcomes reported by UserBashFinished
    page,        \* the offset the spool file is read at next, 0: not reading
    seen,        \* the lines read from the spool file so far
    faults

procVars == <<shell, background, wrote, pipe, owed>>
readVars == <<hand, reader, channel>>
callVars == <<caller, cancelled, faults>>
outVars == <<term, cut, latest, shown, result>>
saveVars == <<stored, ended, finished>>
pageVars == <<page, seen>>
vars == <<pc, procVars, readVars, chunks, callVars, outVars, saveVars, pageVars>>

IsUser == caller # "tool"

Init ==
    /\ caller \in {"tool", "prompt", "direct"}
    /\ pc = "start" /\ cancelled = FALSE /\ faults = MaxFaults
    /\ shell = "unborn" /\ background = "none"
    /\ wrote = [s \in Streams |-> <<>>] /\ pipe = wrote
    /\ owed = [s \in Streams |-> 0]
    /\ hand = wrote /\ reader = [s \in Streams |-> "idle"] /\ channel = <<>>
    /\ chunks = <<>>
    /\ term = None /\ cut = FALSE
    /\ latest = None /\ shown = None /\ result = "none"
    /\ stored = "no" /\ ended = FALSE /\ finished = <<>>
    /\ page = 0 /\ seen = <<>>

Fault == faults > 0 /\ faults' = faults - 1

(***************************************************************************)
(* The accumulator.                                                        *)
(***************************************************************************)
MaxRolling == 2 * MaxBytes

NewAccumulator ==
    [total |-> 0, completed |-> 0, current |-> 0, rolling |-> <<>>,
     boundary |-> TRUE, pending |-> <<>>, file |-> None]

TotalLines(a) == a.completed + (IF a.current > 0 THEN 1 ELSE 0)

IsTruncated(a) == a.total > MaxBytes \/ TotalLines(a) > MaxLines

NewLinesIn(data) == {i \in DOMAIN data : IsNewLine(data[i])}

CountData(a, data) ==
    LET last == IF NewLinesIn(data) = {} THEN 0 ELSE Max(NewLinesIn(data))
    IN  [a EXCEPT !.total = @ + Len(data),
                  !.completed = @ + Cardinality(NewLinesIn(data)),
                  !.current = (IF last = 0 THEN @ ELSE 0) + Len(data) - last]

\* Once the window is twice its size, it keeps the last MaxRolling bytes.
Roll(a, data) ==
    LET rolling == a.rolling \o data
        start == Len(rolling) - MaxRolling
    IN  IF Len(rolling) > 2 * MaxRolling
        THEN [a EXCEPT !.rolling = SubSeq(rolling, start + 1, Len(rolling)),
                       !.boundary = IsNewLine(rolling[start])]
        ELSE [a EXCEPT !.rolling = rolling]

FullOutputFileFromHere(a) ==              \* mutant
    IF a.file = None THEN [a EXCEPT !.file = <<>>, !.pending = <<>>] ELSE a

EnsureFullOutputFile(a) ==
    IF a.file = None THEN [a EXCEPT !.file = a.pending, !.pending = <<>>] ELSE a

Spool(a, data) ==
    LET held == [a EXCEPT !.pending = @ \o data]
    IN  CASE a.file # None -> [a EXCEPT !.file = @ \o data]
          [] a.file = None /\ IsTruncated(a) -> EnsureFullOutputFile(held)
          [] OTHER -> held

AppendData(a, data) == Spool(Roll(CountData(a, data), data), data)

\* The accumulator after the first n chunks.
Accumulated(n) ==
    LET A[k \in 0..n] == IF k = 0 THEN NewAccumulator
                         ELSE AppendData(A[k - 1], chunks[k])
    IN  A[n]

\* finish: the file is complete before the result names it.
Final == LET a == Accumulated(Len(chunks))
         IN  IF IsTruncated(a) THEN EnsureFullOutputFile(a) ELSE a

\* The visible tail: the window without the line its start cuts.
Snapshot(a) ==
    LET text == Decode(a.rolling)
        lines == {i \in DOMAIN text : text[i] = NewLine}
        visible == IF a.boundary \/ lines = {} THEN text
                   ELSE SubSeq(text, Min(lines) + 1, Len(text))
        cutText == TruncateTail(visible)
        by == CASE ~IsTruncated(a) -> "none"
                [] IsTruncated(a) /\ cutText.by # "none" -> cutText.by
                [] OTHER -> IF a.total > MaxBytes THEN "bytes" ELSE "lines"
    IN  [output |-> cutText.content, truncated |-> IsTruncated(a), by |-> by,
         totalLines |-> TotalLines(a), outputLines |-> cutText.outputLines,
         partial |-> cutText.partial, lastLine |-> a.current, file |-> a.file]

(***************************************************************************)
(* The shell and its descendants.                                          *)
(***************************************************************************)
Open == shell = "running" \/ background # "none"

WrittenBytes == Cardinality(UNION {{s} \X DOMAIN wrote[s] : s \in Streams})

Code(kind) == CASE kind = "char" -> 0 [] kind = "newline" -> 1 [] OTHER -> 2

Write(s, piece) ==
    LET data == [i \in DOMAIN piece |->
                    3 * (WrittenBytes + i) + Code(piece[i])]
    IN  /\ Open
        /\ wrote' = [wrote EXCEPT ![s] = @ \o data]
        /\ pipe' = [pipe EXCEPT ![s] = @ \o data]
        /\ UNCHANGED <<pc, shell, background, owed, readVars, chunks, callVars,
                       outVars, saveVars, pageVars>>

\* The shell starts a background process, in its group or in one of its own.
Fork(where) ==
    /\ shell = "running" /\ background = "none"
    /\ background' = where
    /\ UNCHANGED <<pc, shell, wrote, pipe, owed, readVars, chunks, callVars,
                   outVars, saveVars, pageVars>>

BackgroundEnds ==
    /\ background # "none"
    /\ background' = "none"
    /\ UNCHANGED <<pc, shell, wrote, pipe, owed, readVars, chunks, callVars,
                   outVars, saveVars, pageVars>>

Exit ==
    /\ shell = "running"
    /\ shell' = "exited"
    /\ owed' = [s \in Streams |-> Len(wrote[s])]
    /\ UNCHANGED <<pc, background, wrote, pipe, readVars, chunks, callVars,
                   outVars, saveVars, pageVars>>

Cancel ==
    /\ ~cancelled
    /\ cancelled' = TRUE
    /\ UNCHANGED <<pc, procVars, readVars, chunks, caller, faults, outVars,
                   saveVars, pageVars>>

(***************************************************************************)
(* The readers, one task per pipe.                                         *)
(***************************************************************************)
Read(s) ==
    LET n == Min({ReadSize, Len(pipe[s])})
    IN  /\ reader[s] = "reading" /\ hand[s] = <<>> /\ pipe[s] # <<>>
        /\ hand' = [hand EXCEPT ![s] = SubSeq(pipe[s], 1, n)]
        /\ pipe' = [pipe EXCEPT ![s] = SubSeq(@, n + 1, Len(@))]
        /\ UNCHANGED <<pc, shell, background, wrote, owed, reader, channel,
                       chunks, callVars, outVars, saveVars, pageVars>>

TrySend(s) ==                             \* mutant
    /\ hand[s] # <<>>
    /\ channel' = IF Len(channel) < Capacity THEN Append(channel, hand[s])
                  ELSE channel
    /\ hand' = [hand EXCEPT ![s] = <<>>]
    /\ UNCHANGED <<pc, procVars, reader, chunks, callVars, outVars, saveVars,
                   pageVars>>

Send(s) ==
    /\ hand[s] # <<>> /\ Len(channel) < Capacity
    /\ channel' = Append(channel, hand[s])
    /\ hand' = [hand EXCEPT ![s] = <<>>]
    /\ UNCHANGED <<pc, procVars, reader, chunks, callVars, outVars, saveVars,
                   pageVars>>

\* The read returns no bytes: nobody holds the other end.
ReaderEnds(s) ==
    /\ reader[s] = "reading" /\ hand[s] = <<>> /\ pipe[s] = <<>> /\ ~Open
    /\ reader' = [reader EXCEPT ![s] = "ended"]
    /\ UNCHANGED <<pc, procVars, hand, channel, chunks, callVars, outVars,
                   saveVars, pageVars>>

ReaderStep(s) == Read(s) \/ Send(s) \/ ReaderEnds(s)

ReadersEnded == \A s \in Streams : reader[s] = "ended"

(***************************************************************************)
(* BashExecutor::execute.                                                  *)
(***************************************************************************)
\* An error leaves the call: the dropped child is killed, its group is not,
\* and the reader tasks are aborted.
Leave ==
    /\ pc' = IF IsUser THEN "forwarded" ELSE "failed"
    /\ shell' = IF shell = "running" THEN "killed" ELSE shell
    /\ reader' = [s \in Streams |-> "ended"]
    /\ hand' = [s \in Streams |-> <<>>]
    /\ channel' = <<>>

\* A prompt cancelled while it was admitted reports nothing; otherwise a user's
\* command is accepted, and its start is announced.
Begin ==
    /\ pc = "start"
    /\ \/ /\ caller = "prompt" /\ cancelled
          /\ pc' = "rejected" /\ UNCHANGED faults
       \/ /\ caller = "direct" \/ ~cancelled
          /\ pc' = (IF IsUser THEN "hook" ELSE "spawn") /\ UNCHANGED faults
       \/ /\ IsUser /\ Fault                         \* UserBashStarted fails
          /\ pc' = "rejected"
       \/ /\ caller = "tool" /\ cancelled
          /\ pc' = "failed" /\ UNCHANGED faults
    /\ caller' = IF IsUser THEN "user" ELSE caller
    /\ UNCHANGED <<procVars, readVars, chunks, cancelled, outVars, saveVars,
                   pageVars>>

\* An extension answers in place of the shell.
HookAnswers ==
    /\ pc = "hook"
    /\ result' = "hook"
    /\ pc' = "save"
    /\ UNCHANGED <<procVars, readVars, chunks, callVars, term, cut, latest,
                   shown, saveVars, pageVars>>

HookPasses ==
    /\ pc = "hook"
    /\ pc' = "spawn"
    /\ UNCHANGED <<procVars, readVars, chunks, callVars, outVars, saveVars,
                   pageVars>>

Spawn ==
    /\ pc = "spawn" /\ ~cancelled
    /\ pc' = "loop"
    /\ shell' = "running"
    /\ reader' = [s \in Streams |-> "reading"]
    /\ UNCHANGED <<background, wrote, pipe, owed, hand, channel, chunks,
                   callVars, outVars, saveVars, pageVars>>

\* Cancelled, no working directory, or no process.
SpawnFails ==
    /\ pc = "spawn"
    /\ \/ cancelled /\ term' = "Refused" /\ UNCHANGED faults
       \/ Fault /\ UNCHANGED term
    /\ Leave
    /\ UNCHANGED <<background, wrote, pipe, owed, chunks, caller, cancelled, cut,
                   latest, shown, result, saveVars, pageVars>>

\* A user's command leaves the snapshot in the watch channel that Forward
\* empties; the tool's partial results are superseded by its final one.
Publish(n) == latest' = IF IsUser THEN n ELSE None

\* Publication is throttled by time: a chunk may or may not publish.
Receive ==
    /\ pc = "loop" /\ channel # <<>>
    /\ chunks' = Append(chunks, Head(channel))
    /\ channel' = Tail(channel)
    /\ Publish(Len(chunks) + 1) \/ UNCHANGED latest
    /\ UNCHANGED <<pc, procVars, hand, reader, callVars, term, cut, shown, result,
                   saveVars, pageVars>>

\* Spooling fails, in the loop, the drain or the last flush.
AppendFails ==
    /\ pc \in {"loop", "drain"} /\ Fault
    /\ channel # <<>> \/ (pc = "drain" /\ IsTruncated(Final))
    /\ Leave
    /\ UNCHANGED <<background, wrote, pipe, owed, chunks, caller, cancelled,
                   outVars, saveVars, pageVars>>

\* Cancellation and the tool's timeout kill the process group.
Stop(why) ==
    /\ pc = "loop"
    /\ why = "Aborted" => cancelled
    /\ why = "TimedOut" => caller = "tool"
    /\ term' = why /\ pc' = "reap"
    /\ shell' = IF shell = "running" THEN "killed" ELSE shell
    /\ background' = IF background = "group" THEN "none" ELSE background
    /\ owed' = IF shell = "running" THEN [s \in Streams |-> Len(wrote[s])] ELSE owed
    /\ UNCHANGED <<wrote, pipe, readVars, chunks, callVars, cut, latest, shown,
                   result, saveVars, pageVars>>

SeesExit ==
    /\ pc = "loop" /\ shell = "exited"
    /\ term' = "Exited" /\ pc' = "join"
    /\ UNCHANGED <<procVars, readVars, chunks, callVars, cut, latest, shown,
                   result, saveVars, pageVars>>

Reap ==
    /\ pc = "reap" /\ shell # "running"
    /\ pc' = "join"
    /\ UNCHANGED <<procVars, readVars, chunks, callVars, outVars, saveVars,
                   pageVars>>

JoinReaders ==
    /\ pc = "join" /\ ReadersEnded
    /\ pc' = "drain"
    /\ UNCHANGED <<procVars, readVars, chunks, callVars, outVars, saveVars,
                   pageVars>>

\* EXIT_STDIO_GRACE is long enough for every step a reader can take; what is
\* in the pipes and in the readers' hands when it ends is lost.
GraceWithoutTimer ==                      \* mutant
    /\ pc = "join" /\ ReadersEnded
    /\ pc' = "drain"
    /\ UNCHANGED <<procVars, readVars, chunks, callVars, outVars, saveVars,
                   pageVars>>

GraceEnds ==
    /\ pc = "join" /\ ~ReadersEnded
    /\ \A s \in Streams :
           /\ reader[s] = "reading" /\ hand[s] = <<>> => pipe[s] = <<>> /\ Open
           /\ hand[s] # <<>> => Len(channel) = Capacity
    /\ cut' = \E s \in Streams : hand[s] # <<>>
    /\ reader' = [s \in Streams |-> "ended"]
    /\ hand' = [s \in Streams |-> <<>>]
    /\ pc' = "drain"
    /\ UNCHANGED <<procVars, channel, chunks, callVars, term, latest, shown,
                   result, saveVars, pageVars>>

Drain ==
    /\ pc = "drain" /\ channel # <<>>
    /\ chunks' = Append(chunks, Head(channel))
    /\ channel' = Tail(channel)
    /\ UNCHANGED <<pc, procVars, hand, reader, callVars, outVars, saveVars,
                   pageVars>>

Finish ==
    /\ pc = "drain" /\ channel = <<>>
    /\ Publish(Len(chunks))
    /\ result' = "shell"
    /\ pc' = IF IsUser THEN "forwarded" ELSE "answered"
    /\ UNCHANGED <<procVars, readVars, chunks, callVars, term, cut, shown,
                   saveVars, pageVars>>

(***************************************************************************)
(* The user's command: live output, the saved message, the last event.     *)
(***************************************************************************)
\* Older snapshots are skipped; a failing delivery is only logged.
Forward ==
    /\ IsUser /\ pc \in {"loop", "reap", "join", "drain", "forwarded"}
    /\ latest # None
    /\ latest' = None
    /\ \/ shown' = latest /\ UNCHANGED faults
       \/ Fault /\ UNCHANGED shown
    /\ UNCHANGED <<pc, procVars, readVars, chunks, caller, cancelled, term, cut,
                   result, saveVars, pageVars>>

\* The forwarding loop ends once the executor is gone and nothing is unsent.
ForwardedWithoutLast ==                   \* mutant
    /\ pc = "forwarded"
    /\ pc' = IF result = "none" THEN "finish" ELSE "save"
    /\ UNCHANGED <<procVars, readVars, chunks, callVars, outVars, saveVars,
                   pageVars>>

Forwarded ==
    /\ pc = "forwarded" /\ latest = None
    /\ pc' = IF result = "none" THEN "finish" ELSE "save"
    /\ UNCHANGED <<procVars, readVars, chunks, callVars, outVars, saveVars,
                   pageVars>>

Save ==
    /\ pc = "save"
    /\ \/ stored' = "written" /\ pc' = "sync" /\ UNCHANGED faults
       \/ Fault /\ pc' = "finish" /\ UNCHANGED stored
    /\ UNCHANGED <<procVars, readVars, chunks, caller, cancelled, outVars, ended,
                   finished, pageVars>>

Sync ==
    /\ pc = "sync"
    /\ \/ stored' = "synced" /\ pc' = "announce" /\ UNCHANGED faults
       \/ Fault /\ pc' = "finish" /\ UNCHANGED stored
    /\ UNCHANGED <<procVars, readVars, chunks, caller, cancelled, outVars, ended,
                   finished, pageVars>>

Announce ==
    /\ pc = "announce"
    /\ \/ ended' = TRUE /\ UNCHANGED faults
       \/ Fault /\ UNCHANGED ended
    /\ pc' = "finish"
    /\ UNCHANGED <<procVars, readVars, chunks, caller, cancelled, outVars, stored,
                   finished, pageVars>>

\* UserBashFinished; when it cannot be delivered, the caller is given that error
\* in place of what the command came to.
Finished ==
    /\ pc = "finish"
    /\ \/ /\ finished' = Append(finished,
                [outcome |-> CASE ended /\ term = "Aborted" -> "cancelled"
                               [] ended /\ term # "Aborted" -> "succeeded"
                               [] ~ended /\ term = "Refused" -> "cancelled"
                               [] OTHER -> "failed",
                 emitted |-> ended])
          /\ pc' = "answered" /\ UNCHANGED faults
       \/ Fault /\ pc' = "unreported" /\ UNCHANGED finished
    /\ UNCHANGED <<procVars, readVars, chunks, caller, cancelled, outVars, stored,
                   ended, pageVars>>

(***************************************************************************)
(* The tool's footer: the lines it says are shown, out of how many.        *)
(***************************************************************************)
Footer(a) ==
    [start |-> TotalLines(a) - Snapshot(a).outputLines + 1, end |-> TotalLines(a),
     partial |-> Snapshot(a).partial]

(***************************************************************************)
(* The model reads the file a truncated result names, following the offset *)
(* each page ends with.                                                    *)
(***************************************************************************)
SpoolText == Decode(Final.file)

ReadPage(limit) ==
    LET p == Page(SpoolText, page, limit)
    IN  /\ pc = "answered" /\ result = "shell" /\ Final.file # None
        /\ page' = IF p.kind = "text" THEN p.next ELSE 0
        /\ seen' = IF p.kind = "text" THEN seen \o p.lines ELSE seen
        /\ pc' = CASE p.kind = "text" /\ p.next # 0 -> "answered"
                   [] p.kind = "text" /\ p.next = 0 -> "complete"
                   [] OTHER -> p.kind
        /\ UNCHANGED <<procVars, readVars, chunks, callVars, outVars, saveVars>>

(***************************************************************************)
(* The specification.                                                      *)
(***************************************************************************)
Execute ==
    \/ Begin \/ HookAnswers \/ HookPasses \/ Spawn \/ SpawnFails
    \/ Receive \/ Stop("Aborted") \/ SeesExit \/ Reap
    \/ JoinReaders \/ GraceEnds \/ Drain \/ Finish
    \/ Forward \/ Forwarded \/ Save \/ Sync \/ Announce \/ Finished

Processes ==
    \/ /\ WrittenBytes < MaxWritten
       /\ pc \in {"loop", "join"}
       /\ \E s \in Streams, piece \in Pieces : Write(s, piece)
    \/ \E where \in {"group", "detached"} : Fork(where)
    \/ BackgroundEnds \/ Exit
    \/ pc \in {"start", "hook", "spawn", "loop"} /\ Cancel

Next ==
    \/ Execute
    \/ AppendFails
    \/ Stop("TimedOut")
    \/ \E s \in Streams : ReaderStep(s)
    \/ Processes
    \/ \E limit \in {NoLimit, 1, 2} : ReadPage(limit)

Spec == Init /\ [][Next]_vars

\* The future is polled, the readers run, and the grace period is a timer.
Fairness ==
    /\ WF_vars(Execute)
    /\ \A s \in Streams : WF_vars(ReaderStep(s))

LiveSpec == Spec /\ Fairness

(***************************************************************************)
(* What the command's output must satisfy.                                 *)
(***************************************************************************)
Terminal ==
    {"rejected", "failed", "unreported", "answered", "complete", "exceeds", "beyond"}

\* The executor ran to its end.
Executed == result = "shell"

got == FlattenSeq(chunks)

Output == Snapshot(Final).output

LinesGot == CountedLines(Decode(got))

LastLines(lines, k) == SubSeq(lines, Len(lines) - k + 1, Len(lines))

\* What "truncated to last 2000 lines or 50KB" means, stated without the window:
\* the most complete lines from the end that fit, or else the most of the last.
TailOf(text, lines) ==
    LET counts == {k \in 0..Min({MaxLines, Len(lines)}) :
                      Size(Join(LastLines(lines, k))) <= MaxBytes}
    IN  CASE Fits(text) -> text
          [] ~Fits(text) /\ Max(counts) = 0 -> Utf8Suffix(Last(lines))
          [] OTHER -> Join(LastLines(lines, Max(counts)))

\* A finished last line that does not fit the rolling window leaves nothing
\* visible behind its newline: the snapshot is empty.
LastLineOutgrewWindow ==
    /\ got # <<>> /\ IsNewLine(Last(got))
    /\ Len(Last(LinesGot)) + 1 > MaxRolling

SameText(a, b) == a \in {b, Append(b, NewLine)}

\* However the output was cut into chunks and however often the rolling window
\* dropped its head, the caller is shown the tail of everything received, the
\* footer names the lines shown, and the result is marked as truncated, with the
\* complete output on disk, exactly when the bytes received crossed the limits
\* (one last line larger than the window excepted).  Text that was cut without
\* a mark and without a file is text the decoder widened past the limit: each
\* byte that is not UTF-8 becomes three.
OutputIsTail ==
    Executed /\ ~LastLineOutgrewWindow =>
        LET a == Final
            shot == Snapshot(a)
            text == Decode(got)
            lines == LinesGot
            crossed == Len(got) > MaxBytes \/ Len(lines) > MaxLines
            f == Footer(a)
        IN  /\ SameText(shot.output, TailOf(text, lines))
            /\ shot.truncated <=> crossed
            /\ a.file = (IF crossed THEN got ELSE None)
            /\ crossed /\ ~f.partial =>
                   SameText(shot.output, Join(SubSeq(lines, f.start, f.end)))
            /\ f.partial => IsSuffix(shot.output, lines[f.end])
            /\ ~crossed /\ shot.output # text => Replacement \in Range(text)

\* Bytes of one pipe are never reordered or repeated; and when a command is
\* answered, everything written before the shell ended was received, unless the
\* grace period ended on a reader that the full channel kept waiting.
NothingDropped ==
    \A s \in Streams :
        LET mine == Range(wrote[s])
            received == SelectSeq(got, LAMBDA b : b \in mine)
        IN  /\ IsPrefix(received, wrote[s])
            /\ Executed /\ ~cut => Len(received) >= owed[s]

\* Whatever fails, an accepted user command reports one outcome, unless the report
\* itself cannot be delivered.  It says "succeeded" only of a result it reports
\* as emitted, such a result is on disk, it says "cancelled" only when it was, and
\* unless a step failed the live output the client saw last is what was saved.
LiveMatchesStored ==
    IsUser /\ pc \in Terminal \ {"rejected"} =>
        /\ Len(finished) = (IF pc = "unreported" THEN 0 ELSE 1)
        /\ \A f \in Range(finished) :
              /\ f.outcome = "succeeded" => f.emitted
              /\ f.outcome = "cancelled" => cancelled
              /\ f.emitted => stored = "synced" /\ result # "none"
        /\ Executed /\ faults = MaxFaults =>
              shown # None /\ Snapshot(Accumulated(shown)).output = Output

\* Following the offsets the pages end with reads every line of the saved output
\* once and in order, whatever limits are asked for, and never runs past its end.
PagesCoverFile ==
    /\ pc # "beyond"
    /\ pc = "complete" => seen = Split(SpoolText)
    /\ page # 0 => seen = SubSeq(Split(SpoolText), 1, page - 1)

\* Once the shell has exited, the command was cancelled or its time is up, the
\* call returns, whoever still holds the pipes open.
Returns ==
    (shell = "exited" \/ cancelled \/ term = "TimedOut") ~> pc \in Terminal
=============================================================================
