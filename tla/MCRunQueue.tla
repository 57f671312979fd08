----------------------------- MODULE MCRunQueue -----------------------------
(***************************************************************************)
(* Small instances of RunQueue for TLC.                                    *)
(***************************************************************************)
EXTENDS RunQueue, TLC

\* No operation tells two inputs of the same kind apart.
Inputs == Permutations(Prompts) \cup Permutations(Submissions)
             \cup Permutations(Messages)
=============================================================================
