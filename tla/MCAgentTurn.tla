---------------------------- MODULE MCAgentTurn ----------------------------
(***************************************************************************)
(* Small instances of AgentTurn for TLC.                                   *)
(***************************************************************************)
EXTENDS AgentTurn

PlansOrWrite == {<<"plan", "plan">>, <<"write">>}
\* A batch, an answer, an overflow after a batch, and a failure that is retried and a
\* cancellation, each with a call that is never run.
EveryKind ==
    {Attempt(calls, "tools", "none", "none") : calls \in Batches}
    \cup {Attempt(<<>>, "end", "none", "none"),
          Attempt(<<"write">>, "length", "none", "retry"),
          Attempt(<<"write">>, "error", "retry", "none"),
          Attempt(<<"write">>, "cancelled", "none", "none")}
=============================================================================
