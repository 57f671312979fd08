------------------------------ MODULE ToolText ------------------------------
(***************************************************************************)
(* The text limits the tools share (crates/tools/src/truncation.rs) and    *)
(* the paging of the read tool (builtin/read.rs).                          *)
(*                                                                         *)
(* A raw byte carries its identity k: 3k is a character, 3k + 1 a newline  *)
(* and 3k + 2 a byte that is not UTF-8.  Decoded text is a sequence of     *)
(* characters: k, NewLine, or the Replacement character, which is three    *)
(* bytes wide.  Valid characters are one byte wide here.                   *)
(***************************************************************************)
EXTENDS Integers, Sequences, SequencesExt, FiniteSetsExt

CONSTANTS
    MaxLines,   \* DEFAULT_MAX_LINES
    MaxBytes    \* DEFAULT_MAX_BYTES

ASSUME LimitsAssumption ==
    /\ MaxLines \in Nat \ {0}
    /\ MaxBytes \in Nat \ {0}

NewLine == 0
Replacement == -1

IsNewLine(byte) == byte % 3 = 1

\* String::from_utf8_lossy.
Decode(raw) ==
    [i \in DOMAIN raw |->
        CASE raw[i] % 3 = 0 -> raw[i] \div 3
          [] raw[i] % 3 = 1 -> NewLine
          [] OTHER -> Replacement]

Size(text) ==
    Len(text) + 2 * Cardinality({i \in DOMAIN text : text[i] = Replacement})

\* str::split('\n').
Split(text) ==
    LET breaks == {i \in DOMAIN text : text[i] = NewLine}
        At(n) == CASE n = 0 -> 0
                   [] n > Cardinality(breaks) -> Len(text) + 1
                   [] OTHER -> CHOOSE i \in breaks :
                                  Cardinality({j \in breaks : j <= i}) = n
    IN  [n \in 1..(Cardinality(breaks) + 1) |->
            SubSeq(text, At(n - 1) + 1, At(n) - 1)]

\* A trailing newline adds no empty line.
CountedLines(text) ==
    CASE text = <<>> -> <<>>
      [] text # <<>> /\ Last(text) = NewLine -> Front(Split(text))
      [] OTHER -> Split(text)

\* [T]::join("\n").
Join(lines) ==
    LET J[n \in 0..Len(lines)] ==
            CASE n = 0 -> <<>>
              [] n = 1 -> lines[1]
              [] OTHER -> Append(J[n - 1], NewLine) \o lines[n]
    IN  J[Len(lines)]

\* The largest suffix of a line that fits the byte limit.
Utf8Suffix(line) ==
    LET fits == {k \in 1..(Len(line) + 1) :
                    Size(SubSeq(line, k, Len(line))) <= MaxBytes}
    IN  SubSeq(line, Min(fits), Len(line))

(***************************************************************************)
(* The loop both truncations run: take lines, in the order given, while    *)
(* they fit the byte limit.                                                *)
(***************************************************************************)
Selected(lines) ==
    LET T[n \in 0..Len(lines)] ==
            IF n = 0 THEN [lines |-> <<>>, bytes |-> 0, full |-> FALSE]
            ELSE LET acc == T[n - 1]
                     bytes == acc.bytes + Size(lines[n])
                                  + (IF acc.lines = <<>> THEN 0 ELSE 1)
                 IN  CASE acc.full -> acc
                       [] ~acc.full /\ bytes > MaxBytes -> [acc EXCEPT !.full = TRUE]
                       [] OTHER -> [acc EXCEPT !.lines = Append(@, lines[n]),
                                               !.bytes = bytes]
    IN  T[Min({MaxLines, Len(lines)})]

Whole(text) ==
    [content |-> text, truncated |-> FALSE, by |-> "none",
     outputLines |-> Len(CountedLines(text)), partial |-> FALSE,
     firstExceeds |-> FALSE]

Fits(text) ==
    Len(CountedLines(text)) <= MaxLines /\ Size(text) <= MaxBytes

Limit(count, full) == IF count < MaxLines /\ full THEN "bytes" ELSE "lines"

TruncateHead(text) ==
    LET lines == CountedLines(text)
        taken == Selected(lines)
        cut(content, count, by, exceeds) ==
            [content |-> content, truncated |-> TRUE, by |-> by,
             outputLines |-> count, partial |-> FALSE, firstExceeds |-> exceeds]
    IN  CASE Fits(text) -> Whole(text)
          [] ~Fits(text) /\ Size(Head(lines)) > MaxBytes ->
                cut(<<>>, 0, "bytes", TRUE)
          [] OTHER -> cut(Join(taken.lines), Len(taken.lines),
                          Limit(Len(taken.lines), taken.full), FALSE)

TruncateTail(text) ==
    LET lines == CountedLines(text)
        taken == Selected(Reverse(lines))
        partial == taken.full /\ taken.lines = <<>>
        shown == IF partial THEN <<Utf8Suffix(Last(lines))>>
                 ELSE Reverse(taken.lines)
    IN  IF Fits(text) THEN Whole(text)
        ELSE [content |-> Join(shown), truncated |-> TRUE,
              by |-> Limit(Len(shown), taken.full),
              outputLines |-> Len(shown), partial |-> partial,
              firstExceeds |-> FALSE]

(***************************************************************************)
(* The read tool.  A page starts at the 1-based offset and covers at most  *)
(* limit lines (NoLimit: no limit argument); next is the offset its last   *)
(* line tells the caller to continue with, 0 when it names none.           *)
(***************************************************************************)
NoLimit == -1

StartLineUnshifted(offset) == offset      \* mutant

StartLine(offset) == IF offset <= 1 THEN 0 ELSE offset - 1

LineLimit(limit, start, total) ==
    IF limit = NoLimit THEN total ELSE Min({start + limit, total})

Page(text, offset, limit) ==
    LET lines == Split(text)
        total == Len(lines)
        start == StartLine(offset)
        end == LineLimit(limit, start, total)
        cut == TruncateHead(Join(SubSeq(lines, start + 1, end)))
        page(kind, shown, next) == [kind |-> kind, lines |-> shown, next |-> next]
        first(n) == SubSeq(lines, start + 1, start + n)
    IN  CASE start >= total -> page("beyond", <<>>, 0)
          [] start < total /\ cut.firstExceeds -> page("exceeds", <<>>, 0)
          [] start < total /\ ~cut.firstExceeds /\ cut.truncated ->
                page("text", first(cut.outputLines), start + cut.outputLines + 1)
          [] start < total /\ ~cut.truncated /\ limit # NoLimit /\ end < total ->
                page("text", first(end - start), end + 1)
          [] OTHER -> page("text", first(end - start), 0)
=============================================================================
