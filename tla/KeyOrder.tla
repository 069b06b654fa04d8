------------------------------- MODULE KeyOrder -------------------------------
(***************************************************************************)
(* Order: of keys, integers that stand for items in the order they are     *)
(* sorted by, and of the positions of a sequence.                          *)
(***************************************************************************)
EXTENDS Integers, Sequences, FiniteSets

\* The one sequence of the members of S in ascending order, as a set.
InOrder(S) ==
    {f \in [1..Cardinality(S) -> S] :
        /\ \A i, j \in DOMAIN f : i < j => f[i] < f[j]
        /\ \A k \in S : \E i \in DOMAIN f : f[i] = k}

\* That sequence, and the members of s at some positions, in their order.
Sorted(S) == CHOOSE f \in InOrder(S) : TRUE
At(s, positions) == LET at == Sorted(positions) IN [k \in DOMAIN at |-> s[at[k]]]
===============================================================================
