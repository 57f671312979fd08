---------------------------- MODULE OrderedLists ----------------------------
(***************************************************************************)
(* The few facts about lists that the queue models need: what a list       *)
(* holds, and a list of given elements in a given order.  The order is     *)
(* stated declaratively, so that proofs need no induction.                 *)
(***************************************************************************)
EXTENDS Naturals, Sequences, FiniteSets

In(s) == {s[k] : k \in 1..Len(s)}

\* Every sequence that lists the elements of S once, by increasing pos; there
\* is exactly one when pos is injective on the finite set S.
Ordered(S, pos) ==
    {s \in [1..Cardinality(S) -> S] :
        /\ \A i \in S : \E k \in 1..Cardinality(S) : s[k] = i
        /\ \A j, k \in 1..Cardinality(S) : j < k => pos[s[j]] < pos[s[k]]}

\* What is left of a lane (no duplicates) once the items of S are removed.
Keep(s, S) ==
    Ordered(In(s) \ S, [i \in In(s) |-> CHOOSE k \in 1..Len(s) : s[k] = i])

\* No element occurs twice.
NoDup(s) == \A j, k \in 1..Len(s) : s[j] = s[k] => j = k
=============================================================================
