--------------------------- MODULE MCSessionStore ---------------------------
(***************************************************************************)
(* Small instances of SessionStore for TLC.                                *)
(***************************************************************************)
EXTENDS SessionStore, TLC

\* No operation tells one entry identifier from another.
Symmetry == Permutations(Entries)
=============================================================================
