------------------------------ MODULE Ordering ------------------------------
(***************************************************************************)
(* What the code gets from sorted and from a list comprehension.  An order *)
(* is a set of pairs, and both are defined by places and not by a search   *)
(* among permutations, so that they can be proved about as well as run.    *)
(***************************************************************************)
EXTENDS Integers, Sequences, FiniteSets

\* The members of S in ascending order: k - 1 of them come before the k-th.
Enumerated(S, before) ==
    [k \in 1..Cardinality(S) |->
        CHOOSE x \in S : Cardinality({y \in S : <<y, x>> \in before}) = k - 1]

Ascending(I) == {p \in I \X I : p[1] < p[2]}

\* The places of a sequence in the order of their keys, equal ones as they are.
SortedPlaces(key) ==
    LET I == DOMAIN key
        before(i, j) == key[i] < key[j] \/ (key[i] = key[j] /\ i < j)
    IN  Enumerated(I, {p \in I \X I : before(p[1], p[2])})

SortedBy(seq, key) == [k \in DOMAIN seq |-> seq[SortedPlaces(key)[k]]]

\* What is left of a sequence at the given places.
Subsequence(seq, I) ==
    LET place == Enumerated(I, Ascending(I))
    IN  [k \in 1..Cardinality(I) |-> seq[place[k]]]

=============================================================================
