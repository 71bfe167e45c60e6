---------------------------- MODULE MCBodyCache ----------------------------
(* Small instances of BodyCache: a small inline body and two bodies with   *)
(* blob files, two email addresses, one message of no sudo.                *)
EXTENDS BodyCache, Functions, TLC

CONSTANTS m1, m2, m3, s1, a1, a2

MCSize == (m1 :> 1) @@ (m2 :> 2) @@ (m3 :> 2)
MCBytes == [S \in SUBSET Message |-> SumFunctionOnSet(MCSize, S)]
MCSudoOf == [m \in Message |-> IF m = m1 THEN None ELSE s1]
MCAddressOf == [m \in Message |-> IF m = m3 THEN a2 ELSE a1]
MCProcs == Permutations(Proc)
=============================================================================
