------------------------------ MODULE MCDrafts ------------------------------
(* Instances of Drafts: drafts, keys and calls are interchangeable. *)
EXTENDS Drafts, TLC

Symmetry == Permutations(Draft) \cup Permutations(SymKey) \cup Permutations(Caller)
=============================================================================
