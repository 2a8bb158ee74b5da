----------------------------- MODULE Subsequences -----------------------------
EXTENDS Naturals, Sequences, FiniteSets

(* The elements of s at the positions I, in their order: SelectSeq with    *)
(* the positions given instead of a test, so that proofs can expand it.    *)
Subsequence(s, I) ==
  [k \in 1 .. Cardinality(I) |->
     s[CHOOSE i \in I : Cardinality({j \in I : j <= i}) = k]]
=============================================================================
