--------------------------- MODULE MCSubscriptions ---------------------------
(* Small instances of Subscriptions. *)
EXTENDS Subscriptions, TLC

MCSymmetry == Permutations(Subscriber) \cup Permutations(Caller) \cup Permutations(Stream)
=============================================================================
