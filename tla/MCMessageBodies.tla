--------------------------- MODULE MCMessageBodies ---------------------------
(* Small instances of MessageBodies: one or two messages of one address,   *)
(* whose bodies have blob files, and an address that owns none of them.     *)
EXTENDS MessageBodies, Functions, TLC

CONSTANTS m1, a1

MCSize == [m \in Message |-> IF m = m1 THEN 2 ELSE 1]
MCBytes == [S \in SUBSET Message |-> SumFunctionOnSet(MCSize, S)]
MCSudoOf == [m \in Message |-> None]
MCAddressOf == [m \in Message |-> a1]
MCProcs == Permutations(Proc)
=============================================================================
