---------------------------- MODULE Subsequences ----------------------------
(***************************************************************************)
(* The elements of a sequence at some of its positions. What the library's *)
(* SelectSeq computes recursively is said here of each position, so that   *)
(* it can be reasoned about.                                               *)
(***************************************************************************)
EXTENDS Integers, Sequences, FiniteSets

\* How many members of I are no greater than i.
RankIn(I, i) == Cardinality({j \in I : j <= i})

\* The k-th smallest member of I.
Nth(I, k) == CHOOSE i \in I : RankIn(I, i) = k

\* The elements of s at the positions I, in their order.
Pick(s, I) == [k \in 1..Cardinality(I) |-> s[Nth(I, k)]]
=============================================================================
