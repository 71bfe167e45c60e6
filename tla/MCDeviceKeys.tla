---- MODULE MCDeviceKeys ----
(* DeviceKeys on a small set of calls. *)
EXTENDS DeviceKeys, TLC

MCSymmetry == Permutations(Call)

\* What a call was about is read by no step once it has ended, and by no property
\* unless it ended in Failed (typing apart): it tells no two states apart.
MCView ==
  LET seen == [p \in Call |->
        IF call[p].at = "done" /\ call[p].result # "Failed" THEN "done" ELSE call[p]]
  IN  <<singleton, password, keys, owner, queue, seen, erased, faults>>
====
