------------------------------ MODULE Slices ------------------------------
(***************************************************************************)
(* The loops over slices that the code writes out wherever it needs them.  *)
(***************************************************************************)
EXTENDS Integers, Sequences, SequencesExt

\* The elements of s that are in S, in their order.
Those(s, S) == FoldLeft(LAMBDA kept, x : IF x \in S THEN Append(kept, x) ELSE kept, <<>>, s)

\* The slices in ss, one after the other.
Flattened(ss) == FoldLeft(LAMBDA out, x : out \o x, <<>>, ss)

SumOf(s) == FoldLeft(LAMBDA a, b : a + b, 0, s)

\* Before the first element of a lower rank, that is behind those of its own.
Inserted(out, x, rank) ==
    LET lower == {i \in DOMAIN out : rank[out[i]] < rank[x]}
    IN  InsertAt(out, IF lower = {} THEN Len(out) + 1 ELSE Min(lower), x)

\* A stable sort, the highest rank first; rank is a function on the elements.
StableSort(s, rank) == FoldLeft(LAMBDA out, x : Inserted(out, x, rank), <<>>, s)
=============================================================================
