-------------------------- MODULE MCBrowserBodyCache --------------------------
(* A small instance of BrowserBodyCache: two bodies that do not fit together in the
   smaller limit, one of a sudo and one of an address. *)
EXTENDS BrowserBodyCache

CONSTANTS m1, m2

MCBytes == [S \in SUBSET Message |->
  (IF m1 \in S THEN 1 ELSE 0) + (IF m2 \in S THEN 2 ELSE 0)]
MCFlush == {<<{m1}, {m2}>>}

MCPages == Permutations(Page)
=============================================================================
