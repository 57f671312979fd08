----------------------------- MODULE DurableLog -----------------------------
(***************************************************************************)
(* What a Session's log promises to the code above it.  While it is open   *)
(* mutations are only ever appended, in order.  Closing it, or a crash,    *)
(* loses nothing but a suffix that was never synced, and nothing at all of *)
(* a log that is at rest: every mutation synced and no bytes behind them.  *)
(* Bytes of a mutation that was never completed do not keep it from being  *)
(* opened again, with one exception: when they stop inside a character     *)
(* there is no text to read, and the log stays closed.                     *)
(***************************************************************************)
EXTENDS Naturals, Sequences

VARIABLES
    log,     \* the complete mutations
    synced,  \* how many of them are known to be on disk
    open,    \* somebody holds the log
    rest     \* what is behind them: none, part of a mutation, or an unreadable part

logVars == <<log, synced, open, rest>>

Prefix(s, t) == Len(s) <= Len(t) /\ SubSeq(t, 1, Len(s)) = s

AtRest == rest = "none" /\ synced = Len(log)

Init == log = <<>> /\ synced = 0 /\ open = TRUE /\ rest = "none"

\* Mutations are appended, and any number of them may be synced; a log that nobody
\* holds can be appended to only while it can be opened.
Extend ==
    /\ open' = open
    /\ open \/ rest # "unreadable"
    /\ Prefix(log, log')
    /\ synced' \in synced..Len(log')

\* The log is closed, or the process or the machine that held it goes down.
Stop ==
    /\ open' = FALSE
    /\ Prefix(log, log') \/ Prefix(log', log)
    /\ synced' \in synced..Len(log')
    /\ AtRest => log' = log /\ rest' = "none"

\* It is opened again, with everything that was there.
Reopen ==
    /\ open = FALSE /\ open' = TRUE
    /\ rest # "unreadable" /\ rest' = "none"
    /\ log' = log /\ synced' = synced

Next == Extend \/ Stop \/ Reopen

Spec == Init /\ [][Next]_logVars
=============================================================================
