--------------------------- MODULE MCSessionHost ---------------------------
(***************************************************************************)
(* Small instances of SessionHost for TLC.                                 *)
(***************************************************************************)
EXTENDS SessionHost, TLC

\* No operation tells two callers, two reporters or two children apart.
Callers == Permutations(Tasks) \cup Permutations(Reporters) \cup Permutations(Children)
=============================================================================
