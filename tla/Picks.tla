------------------------------- MODULE Picks -------------------------------
(* Picking from sets and lists: what Python's sorted and comprehensions do. *)
EXTENDS Integers, FiniteSets, Sequences, SequencesExt

\* sorted, of distinct things no two of which tie: each has its place by how many precede it.
Sorted(S, Before(_, _)) ==
    [n \in 1 .. Cardinality(S) |->
        CHOOSE x \in S : Cardinality({y \in S : Before(y, x)}) = n - 1]

\* [x for x in s if x in S]
Within(s, S) == FoldLeft(LAMBDA kept, x : IF x \in S THEN Append(kept, x) ELSE kept, <<>>, s)
=============================================================================
