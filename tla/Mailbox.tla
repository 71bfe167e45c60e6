-------------------------------- MODULE Mailbox --------------------------------
(***************************************************************************)
(* What reading a message with its body promises, whether or not a cache   *)
(* stands before the service (getEmailMessageWithBody). The body is served *)
(* if the message was there when the read began, belongs to the address    *)
(* that was named, and can be decoded on this device. Nothing is found     *)
(* only if the message is gone by the end or belongs to another address.   *)
(* A read throws if a request of its own was rejected, if the body cannot  *)
(* be decoded here, and for no other reason before a disk, a database or   *)
(* the process has failed ("a cache failure must never prevent message     *)
(* retrieval": what is left of it where files may have been cut short).    *)
(***************************************************************************)
EXTENDS Integers

CONSTANTS Message, Address, AddressOf, Proc, None

VARIABLES
  exists,   \* messages of the mailbox
  readable, \* messages whose body this device can decode
  reading,  \* the read each activity is in, or NoRead
  result,   \* what its last read came to, until the next begins
  failures  \* failures of the disk and of the process, so far

vars == <<exists, readable, reading, result, failures>>

NoRead == [msg |-> None, address |-> None, late |-> FALSE]
NoResult == [msg |-> None, body |-> "none", late |-> FALSE]

Init ==
  /\ exists = Message
  /\ readable = Message
  /\ reading = [p \in Proc |-> NoRead]
  /\ result = [p \in Proc |-> NoResult]
  /\ failures = 0

\* late: the message was already gone when the read began.
Begin(p, m, a) ==
  /\ reading[p] = NoRead
  /\ reading' = [reading EXCEPT ![p] = [msg |-> m, address |-> a, late |-> m \notin exists]]
  /\ result' = [result EXCEPT ![p] = NoResult]
  /\ UNCHANGED <<exists, readable, failures>>

\* The read of p ends.
Resolve(p, body) ==
  /\ reading' = [reading EXCEPT ![p] = NoRead]
  /\ result' = [result EXCEPT ![p] =
       [msg |-> reading[p].msg, body |-> body, late |-> reading[p].late]]
  /\ UNCHANGED <<exists, readable, failures>>

\* The message is the address's, and was there when the read began.
Serve(p) ==
  /\ reading[p] # NoRead
  /\ ~reading[p].late
  /\ AddressOf[reading[p].msg] = reading[p].address
  /\ reading[p].msg \in readable
  /\ Resolve(p, "served")

\* The message is not there any more, or it is not the address's.
FindNothing(p) ==
  /\ reading[p] # NoRead
  /\ reading[p].msg \notin exists \/ AddressOf[reading[p].msg] # reading[p].address
  /\ Resolve(p, "undefined")

\* A request of the read is rejected.
Reject(p) ==
  /\ reading[p] # NoRead
  /\ Resolve(p, "rejected")

\* A body that is no use here: its key is not on the device.
Undecodable(p) ==
  /\ reading[p] # NoRead
  /\ ~reading[p].late
  /\ AddressOf[reading[p].msg] = reading[p].address
  /\ reading[p].msg \notin readable
  /\ Resolve(p, "unreadable")

\* A body cut short, but never as long as nothing has failed.
Fail(p) ==
  /\ reading[p] # NoRead
  /\ failures > 0
  /\ Resolve(p, "cut")

\* Messages are deleted, here or elsewhere, or go with their address.
Delete ==
  /\ exists' \in SUBSET exists
  /\ UNCHANGED <<readable, reading, result, failures>>

\* Keys come to the device, or leave it.
KeysChange ==
  /\ readable' \in SUBSET Message
  /\ UNCHANGED <<exists, reading, result, failures>>

\* A call fails, which ends no read, or the process dies with its reads.
Failure ==
  /\ failures' > failures
  /\ \/ UNCHANGED reading
     \/ reading' = [p \in Proc |-> NoRead]
  /\ UNCHANGED <<exists, readable, result>>

Next ==
  \/ \E p \in Proc :
       \/ \E m \in Message, a \in Address : Begin(p, m, a)
       \/ Serve(p) \/ FindNothing(p)
       \/ Reject(p) \/ Undecodable(p) \/ Fail(p)
  \/ Delete
  \/ KeysChange
  \/ Failure

Spec == Init /\ [][Next]_vars
=============================================================================
