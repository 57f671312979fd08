--------------------------- MODULE AgentContext ---------------------------
(***************************************************************************)
(* The model context of a Session: the messages a request is made of, the  *)
(* mode notes that wait for tool results, how both are rebuilt from the    *)
(* entries of the Store, and the cut a compaction makes.                   *)
(*                                                                         *)
(* A message's id is the position of its entry in the branch, and stands   *)
(* for its time too.  The calls of an assistant message are the kinds of   *)
(* tool it calls; a call is named by its index, which repeats in every     *)
(* batch.  A result may be empty.  The text of messages is left out.       *)
(***************************************************************************)
EXTENDS Naturals, Sequences, FiniteSetsExt, SequencesExt

CONSTANT KeepRecent  \* keep_recent_tokens of the compaction policy
ASSUME KeepAssumption == KeepRecent \in Nat

Modes == {"default", "plan"}
Stops == {"end", "tools", "length", "error", "refusal", "cancelled"}
Recoveries == {"none", "compact", "retry"}

User(n) == [t |-> "user", id |-> n]
Assistant(n, calls, stop, error, over) ==
    [t |-> "assistant", id |-> n, calls |-> calls, stop |-> stop, error |-> error, over |-> over]
Result(n, call, size) == [t |-> "result", id |-> n, call |-> call, size |-> size]
Extension(n, shown) == [t |-> "extension", id |-> n, shown |-> shown]
Summary(n) == [t |-> "summary", id |-> n]
Note(n, mode) == [t |-> "note", id |-> n, mode |-> mode]

IsAssistant(m) == m.t = "assistant"

\* estimated_tokens, in whole messages: a record kept from the model and an empty
\* result count for nothing.
EstimatedTokens(m) ==
    CASE m.t = "extension" -> IF m.shown THEN 1 ELSE 0
      [] m.t = "result" -> m.size
      [] OTHER -> 1

\* ModeNotes::awaiting_results: the last assistant message has a call without result
AwaitingResults(h) ==
    LET p == SelectLastInSeq(h, IsAssistant) IN
    p # 0 /\ \E c \in DOMAIN h[p].calls :
        ~\E i \in p + 1 .. Len(h) : h[i].t = "result" /\ h[i].call = c

\* A context is the history and the notes held back from it.
Place(ctx, note) ==
    IF AwaitingResults(ctx.history) THEN [ctx EXCEPT !.held = Append(@, note)]
    ELSE [ctx EXCEPT !.history = Append(@, note)]

Push(ctx, m) ==
    LET before == IF m.t = "result" THEN ctx.history ELSE ctx.history \o ctx.held
        pushed == Append(before, m) IN
    IF m.t # "result" THEN [history |-> pushed, held |-> <<>>]
    ELSE IF AwaitingResults(pushed) THEN [ctx EXCEPT !.history = pushed]
    ELSE [history |-> pushed \o ctx.held, held |-> <<>>]

\* The mode the model was last told; a context without notes means the default.
StatedMode(h) ==
    LET p == SelectLastInSeq(h, LAMBDA m : m.t = "note") IN
    IF p = 0 THEN "default" ELSE h[p].mode

\* Mutant: a summary that took the note with it does not restate the mode.
AfterCompactionSilent(h, mode, n) == [history |-> h, held |-> <<>>]

AfterCompaction(h, mode, n) ==
    LET ctx == [history |-> h, held |-> <<>>] IN
    IF h = <<>> \/ StatedMode(h) = mode THEN ctx ELSE Place(ctx, Note(n, mode))

(***************************************************************************)
(* The entries of the branch, and the context rebuilt from them.           *)
(***************************************************************************)
MessageEntry(m) == [kind |-> "message", message |-> m]
ModeEntry(mode) == [kind |-> "mode", mode |-> mode]
CompactionEntry(tail) == [kind |-> "compaction", tail |-> tail]

BranchMode(entries) ==
    LET p == SelectLastInSeq(entries, LAMBDA e : e.kind = "mode") IN
    IF p = 0 THEN "default" ELSE entries[p].mode

HistoryFromStore(entries) ==
    LET Add(ctx, n) ==
        LET e == entries[n] IN
        CASE e.kind = "message" -> Push(ctx, e.message)
          [] e.kind = "mode" -> Place(ctx, Note(n, e.mode))
          [] e.kind = "compaction" ->
               AfterCompaction(<<Summary(n)>> \o e.tail, BranchMode(SubSeq(entries, 1, n)), n)
    IN FoldLeft(Add, [history |-> <<>>, held |-> <<>>], [n \in DOMAIN entries |-> n])

(***************************************************************************)
(* Requests.                                                               *)
(***************************************************************************)
\* Failed attempts stay in the Store and leave the request.
Active(h) == SelectSeq(h, LAMBDA m : ~(IsAssistant(m) /\ m.error))

\* ProviderMessage::convert leaves out what the model may not see and every result
\* whose call is not in front of it.
Converted(h) ==
    LET Seen(i) ==
          LET m == h[i] IN
          CASE m.t = "extension" -> m.shown
            [] m.t = "result" ->
                 \E j \in 1 .. i - 1 : IsAssistant(h[j]) /\ m.call \in DOMAIN h[j].calls
            [] OTHER -> TRUE
    IN [k \in DOMAIN SelectSeq([i \in DOMAIN h |-> i], Seen) |->
           h[SelectSeq([i \in DOMAIN h |-> i], Seen)[k]]]

(***************************************************************************)
(* Compaction.                                                             *)
(***************************************************************************)
\* pre_prompt_compaction looks at the newest assistant message that is younger than
\* the last summary.
LatestAssistant(h) ==
    LET s == SelectLastInSeq(h, LAMBDA m : m.t = "summary") IN
    SelectLastInSeq(h, LAMBDA m : IsAssistant(m) /\ (s = 0 \/ m.id > h[s].id))

\* The tokens of a history from position i on.
TokensFrom(h, i) == FoldLeft(LAMBDA sum, m : sum + EstimatedTokens(m), 0, SubSeq(h, i, Len(h)))

StartsTurn(m) == m.t = "user"
CutPoint(m) == m.t \in {"user", "assistant", "note"} \/ (m.t = "extension" /\ m.shown)

\* CompactionPreparation::from_history: what is summarized, with the prefix of a
\* split Turn, and the tail that is kept word for word.
FirstKept(h) ==
    LET cuts == {i \in DOMAIN h : CutPoint(h[i])}
        first == IF cuts = {} THEN 1 ELSE Min(cuts)
        full == {i \in DOMAIN h : TokensFrom(h, i) >= KeepRecent}
        after == {c \in cuts : c >= Max(full)}
    IN IF KeepRecent = 0 THEN Len(h) + 1
       ELSE IF full = {} \/ after = {} THEN first
       ELSE Min(after)

\* Mutant: a split Turn's first part is neither kept nor summarized.
PreparationNoPrefix(history) ==
    LET boundary == SelectLastInSeq(history, LAMBDA m : m.t = "summary")
        h == SubSeq(history, boundary + 1, Len(history))
        kept == FirstKept(h)
        starts == {i \in 1 .. kept : kept <= Len(h) /\ StartsTurn(h[i])}
        split == IF kept <= Len(h) /\ ~StartsTurn(h[kept]) /\ starts # {}
                 THEN Max(starts) ELSE kept
    IN [summarized |-> SubSeq(h, 1, split - 1), prefix |-> <<>>,
        tail |-> SelectSeq(SubSeq(h, kept, Len(h)), LAMBDA m : EstimatedTokens(m) > 0)]

Preparation(history) ==
    LET boundary == SelectLastInSeq(history, LAMBDA m : m.t = "summary")
        h == SubSeq(history, boundary + 1, Len(history))
        kept == FirstKept(h)
        starts == {i \in 1 .. kept : kept <= Len(h) /\ StartsTurn(h[i])}
        split == IF kept <= Len(h) /\ ~StartsTurn(h[kept]) /\ starts # {}
                 THEN Max(starts) ELSE kept
    IN [summarized |-> SubSeq(h, 1, split - 1),
        prefix |-> SubSeq(h, split, kept - 1),
        tail |-> SelectSeq(SubSeq(h, kept, Len(h)), LAMBDA m : EstimatedTokens(m) > 0)]
=============================================================================
