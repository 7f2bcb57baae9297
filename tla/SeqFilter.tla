------------------------------ MODULE SeqFilter ------------------------------
(***************************************************************************)
(* The subsequence of the elements of a sequence that pass a test, in     *)
(* their order: what SelectSeq of the standard Sequences module computes, *)
(* written by counting instead of by recursion so that proofs can unfold  *)
(* it.  MC_Retriever checks it against SelectSeq.                          *)
(***************************************************************************)
EXTENDS Integers, Sequences, FiniteSets

\* How many of the indices in I are at most i.
Rank(I, i) == Cardinality(I \cap 1..i)

\* The index of I whose rank in I is k: the k-th smallest.
KeptAt(I, k) == CHOOSE i \in I : Rank(I, i) = k

\* The elements of s at the indices in I, in increasing order of index.
Keep(s, I) == [k \in 1..Cardinality(I) |-> s[KeptAt(I, k)]]

\* The elements of s that pass Test, in their order in s.
FilterSeq(s, Test(_)) == Keep(s, {i \in 1..Len(s) : Test(s[i])})

=============================================================================
