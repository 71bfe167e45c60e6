-------------------------- MODULE SubscriptionsProofs --------------------------
(* Theorems about Subscriptions, for any number of subscribers, of calls of *)
(* subscribeToEmailMessages that overlap, of streams, rejections and throws. *)
EXTENDS Subscriptions, TLAPS

(***************************************************************************)
(* What a call in flight carries.                                          *)
(***************************************************************************)
LEMMA CallFields ==
  ASSUME TypeOK, NEW c \in Caller
  PROVE  /\ call[c] \in Call
         /\ call[c] # NoCall <=> call[c].at \in {"subject", "stream"}
         /\ call[c] # NoCall => call[c].sub \in Subscriber
         /\ call[c].at = "stream" =>
              /\ call[c].kind \in Kind
              /\ call[c] = Awaiting(call[c].sub, call[c].kind)
  BY DEF TypeOK, Call, NoCall, Asking, Awaiting

(***************************************************************************)
(* How far a call gets: through the managers from k on that have a watcher, *)
(* and into the first that has none.                                       *)
(***************************************************************************)
LEMMA EnterReaches ==
  ASSUME TypeOK, NEW c \in Caller, NEW s \in Subscriber, NEW k \in 1..4,
         Enter(c, s, k)
  PROVE  /\ subscribers' \in [Kind -> SUBSET Subscriber]
         /\ \A j \in Kind : /\ subscribers[j] \subseteq subscribers'[j]
                            /\ subscribers'[j] \subseteq subscribers[j] \cup {s}
         /\ \/ /\ call' = [call EXCEPT ![c] = NoCall]
               /\ \A j \in k..3 : watcher[j] /\ s \in subscribers'[j]
            \/ \E j \in k..3 :
                 /\ call' = [call EXCEPT ![c] = Awaiting(s, j)]
                 /\ ~watcher[j]
                 /\ \A i \in k..(j - 1) : watcher[i]
                 /\ \A i \in k..j : s \in subscribers'[i]
<1> DEFINE stop == {j \in k..3 : ~watcher[j] /\ \A i \in k..(j - 1) : watcher[i]}
           entered == {j \in k..3 : \A i \in k..(j - 1) : watcher[i]}
<1>1. /\ subscribers' = [j \in Kind |->
            IF j \in entered THEN subscribers[j] \cup {s} ELSE subscribers[j]]
      /\ IF stop = {}
           THEN call' = [call EXCEPT ![c] = NoCall]
           ELSE \E j \in stop : call' = [call EXCEPT ![c] = Awaiting(s, j)]
  BY DEF Enter
<1>2. /\ subscribers' \in [Kind -> SUBSET Subscriber]
      /\ \A j \in Kind : /\ subscribers[j] \subseteq subscribers'[j]
                         /\ subscribers'[j] \subseteq subscribers[j] \cup {s}
  BY <1>1 DEF TypeOK
<1>3. CASE stop = {}
  <2>1. /\ 1 \in k..3 => watcher[1]
        /\ 2 \in k..3 => watcher[2]
        /\ 3 \in k..3 => watcher[3]
    <3>1. 1 \in k..3 => watcher[1]
      BY <1>3
    <3>2. 2 \in k..3 => watcher[2]
      BY <1>3, <3>1
    <3>3. 3 \in k..3 => watcher[3]
      BY <1>3, <3>1, <3>2
    <3> QED
      BY <3>1, <3>2, <3>3
  <2>2. \A j \in k..3 : watcher[j]
    BY <2>1
  <2>3. \A j \in k..3 : s \in subscribers'[j]
    BY <1>1, <2>2 DEF Kind
  <2> QED
    BY <1>1, <1>2, <1>3, <2>2, <2>3
<1>4. CASE stop # {}
  <2>1. PICK j \in stop : call' = [call EXCEPT ![c] = Awaiting(s, j)]
    BY <1>1, <1>4
  <2>2. \A i \in k..j : i \in entered
    BY <2>1
  <2>3. \A i \in k..j : s \in subscribers'[i]
    BY <1>1, <2>1, <2>2 DEF Kind
  <2> QED
    BY <1>2, <2>1, <2>3
<1> QED
  BY <1>3, <1>4

(***************************************************************************)
(* A notice to some of S, or to all of them.                               *)
(***************************************************************************)
LEMMA Notices ==
  ASSUME TypeOK, NEW S, NEW state \in {"connected", "disconnected"},
         Tell(S, state) \/ TellThrows(S, state)
  PROVE  /\ notice' \in [Subscriber -> {"none", "connected", "disconnected"}]
         /\ faults' \in 0..MaxFaults
  BY FaultAssumption DEF Tell, TellThrows, Notify, TypeOK

(***************************************************************************)
(* What the arrival of a stream does, whether or not a callback throws.    *)
(***************************************************************************)
LEMMA Watched ==
  ASSUME TypeOK, NEW c \in Caller, Watches(c)
  PROVE  /\ call[c].sub \in Subscriber /\ call[c].kind \in Kind
         /\ call[c] # NoCall /\ call[c].at = "stream"
         /\ call[c].kind + 1 \in 1..4
         /\ \E n \in Stream \ open[call[c].kind] :
              /\ watcher' = [watcher EXCEPT ![call[c].kind] = TRUE]
              /\ subscription' = [subscription EXCEPT ![call[c].kind] = n]
              /\ open' = [open EXCEPT ![call[c].kind] = @ \cup {n}]
<1>1. call[c].at = "stream"
  BY DEF Watches
<1>2. call[c].sub \in Subscriber /\ call[c].kind \in Kind /\ call[c] # NoCall
  BY <1>1, CallFields
<1>3. call[c].kind + 1 \in 1..4
  BY <1>2 DEF Kind
<1> QED
  BY <1>1, <1>2, <1>3 DEF Watches

-----------------------------------------------------------------------------

(***************************************************************************)
(* TypeOK is preserved, action by action.                                  *)
(***************************************************************************)
LEMMA TypeOKStep ==
  ASSUME TypeOK, [Next]_vars
  PROVE  TypeOK'
<1> USE FaultAssumption
<1>1. ASSUME NEW c \in Caller, NEW s \in Subscriber, Subscribe(c, s)
      PROVE  TypeOK'
  <2>1. Asking(s) \in Call
    BY DEF Call
  <2> QED
    BY <1>1, <2>1 DEF Subscribe, Silently, TypeOK, managers
<1>2. ASSUME NEW c \in Caller, NEW s \in Subscriber, NEW k \in 1..4, Enter(c, s, k)
      PROVE  call' \in [Caller -> Call] /\ subscribers' \in [Kind -> SUBSET Subscriber]
  <2>1. NoCall \in Call /\ \A j \in k..3 : Awaiting(s, j) \in Call
    BY DEF Call, Kind
  <2> QED
    BY <1>2, <2>1, EnterReaches DEF TypeOK
<1>3. ASSUME NEW c \in Caller, Enters(c)
      PROVE  TypeOK'
  <2>1. call[c].sub \in Subscriber
    BY <1>3, CallFields DEF Enters
  <2> QED
    BY <1>2, <1>3, <2>1 DEF Enters, Silently, TypeOK, history
<1>w. ASSUME NEW c \in Caller, Watches(c)
      PROVE  /\ watcher' \in [Kind -> BOOLEAN]
             /\ subscription' \in [Kind -> Stream \cup {None}]
             /\ open' \in [Kind -> SUBSET Stream]
  <2>1. PICK n \in Stream \ open[call[c].kind] :
          /\ watcher' = [watcher EXCEPT ![call[c].kind] = TRUE]
          /\ subscription' = [subscription EXCEPT ![call[c].kind] = n]
          /\ open' = [open EXCEPT ![call[c].kind] = @ \cup {n}]
    BY <1>w, Watched
  <2> QED
    BY <1>w, <2>1, Watched DEF TypeOK
<1>4. ASSUME NEW c \in Caller, StreamArrives(c)
      PROVE  TypeOK'
  <2>1. Watches(c)
    BY <1>4 DEF StreamArrives
  <2>2. call' \in [Caller -> Call] /\ subscribers' \in [Kind -> SUBSET Subscriber]
    BY <1>2, <1>4, <2>1, Watched DEF StreamArrives
  <2> QED
    BY <1>4, <1>w, <2>1, <2>2, Notices DEF StreamArrives, TypeOK
<1>a. ASSUME NEW c \in Caller, ArrivalThrows(c)
      PROVE  TypeOK'
  <2>1. NoCall \in Call
    BY DEF Call
  <2> QED
    BY <1>a, <1>w, <2>1, Notices DEF ArrivalThrows, TypeOK
<1>5. ASSUME NEW c \in Caller, Rejected(c)
      PROVE  TypeOK'
  <2>1. NoCall \in Call
    BY DEF Call
  <2> QED
    BY <1>5, <2>1 DEF Rejected, Silently, TypeOK, managers
<1>6. ASSUME NEW s \in Subscriber, Unsubscribe(s)
      PROVE  TypeOK'
  BY <1>6 DEF Unsubscribe, Reset, Silently, InFlight, TypeOK
<1>7. ASSUME NEW k \in Kind, NEW n \in Stream, StreamEnds(k, n)
      PROVE  TypeOK'
  BY <1>7, Notices DEF StreamEnds, TypeOK
<1>8. CASE UNCHANGED vars
  BY <1>8 DEF vars, managers, history, TypeOK
<1> QED
  BY <1>1, <1>3, <1>4, <1>5, <1>6, <1>7, <1>8, <1>a DEF Next

LEMMA InitTyped == Init => TypeOK
<1>1. NoCall \in Call
  BY DEF Call
<1>2. ASSUME Init PROVE faults \in 0..MaxFaults
  BY <1>2, FaultAssumption DEF Init
<1> QED
  BY <1>1, <1>2 DEF Init, TypeOK

\* The managers, the calls and what is noted of them stay of their types.
THEOREM TypeCorrect == Spec => []TypeOK
  BY InitTyped, TypeOKStep, PTL DEF Spec

-----------------------------------------------------------------------------
(* The inductive invariant of the managers *)

\* While calls have not overlapped there is one at most, and it awaits a stream
\* of a manager that watches none.
OneCall ==
  ~overlapped =>
    /\ \A c, d \in Caller : call[c] # NoCall /\ call[d] # NoCall => c = d
    /\ \A c \in Caller : call[c].at = "stream" => ~watcher[call[c].kind]

\* It awaits the stream for its own subscriber, unless that has unsubscribed.
AwaitsForSomebody ==
  ~overlapped /\ ~crossed =>
    \A c \in Caller :
      call[c].at = "stream" => call[c].sub \in subscribers[call[c].kind]

\* The managers up to k tell s, who is one of the told, and watch a stream.
Serves(told, watched, s, k) == \A j \in 1..k : s \in told[j] /\ watched[j]

ServedUpTo(s, k) == Serves(subscribers, watcher, s, k)
ServedNext(s, k) == Serves(subscribers', watcher', s, k)

\* A call of s will see to what is left: it has the managers behind it served,
\* and has entered the one it waits at.
OnItsWay(s) ==
  \E c \in Caller :
    /\ call[c] # NoCall
    /\ call[c].sub = s
    /\ call[c].at = "stream" =>
         ServedUpTo(s, call[c].kind - 1) /\ s \in subscribers[call[c].kind]

IntactIsServed == \A s \in intact : ServedUpTo(s, 3) \/ OnItsWay(s)

IInv ==
  /\ WatcherIsLive
  /\ NoStreamLeaks /\ OneCall
  /\ NoIdleStream /\ AwaitsForSomebody
  /\ IntactIsServed

(***************************************************************************)
(* What each way on does, as far as the invariant is concerned.            *)
(***************************************************************************)
LEMMA ArrivalEffect ==
  ASSUME TypeOK, NEW c \in Caller, StreamArrives(c)
  PROVE  /\ Watches(c)
         /\ Enter(c, call[c].sub, call[c].kind + 1)
         /\ UNCHANGED <<overlapped, intact, crossed>>
  BY DEF StreamArrives

LEMMA ThrowEffect ==
  ASSUME TypeOK, NEW c \in Caller, ArrivalThrows(c)
  PROVE  /\ Watches(c)
         /\ \A d \in Caller : call'[d] = IF d = c THEN NoCall ELSE call[d]
         /\ intact' = intact \ {call[c].sub}
         /\ UNCHANGED <<subscribers, overlapped, crossed>>
  BY DEF ArrivalThrows, TypeOK

LEMMA EntryEffect ==
  ASSUME TypeOK, NEW c \in Caller, Enters(c)
  PROVE  /\ call[c].sub \in Subscriber /\ call[c] # NoCall /\ call[c].at = "subject"
         /\ Enter(c, call[c].sub, 1)
         /\ UNCHANGED <<watcher, subscription, open, overlapped, intact, crossed>>
  BY CallFields DEF Enters, history

LEMMA WatcherIsLiveStep ==
  ASSUME TypeOK, WatcherIsLive, [Next]_vars
  PROVE  WatcherIsLive'
<1> USE StreamAssumption
<1>1. ASSUME NEW c \in Caller, NEW s \in Subscriber, Subscribe(c, s)
      PROVE  WatcherIsLive'
  BY <1>1 DEF Subscribe, managers, WatcherIsLive
<1>2. ASSUME NEW c \in Caller, Enters(c)
      PROVE  WatcherIsLive'
  BY <1>2, EntryEffect DEF WatcherIsLive
<1>3. ASSUME NEW c \in Caller, StreamArrives(c)
      PROVE  WatcherIsLive'
  BY <1>3, ArrivalEffect, Watched DEF WatcherIsLive, TypeOK
<1>a. ASSUME NEW c \in Caller, ArrivalThrows(c)
      PROVE  WatcherIsLive'
  BY <1>a, ThrowEffect, Watched DEF WatcherIsLive, TypeOK
<1>4. ASSUME NEW c \in Caller, Rejected(c)
      PROVE  WatcherIsLive'
  BY <1>4 DEF Rejected, managers, WatcherIsLive
<1>5. ASSUME NEW s \in Subscriber, Unsubscribe(s)
      PROVE  WatcherIsLive'
  BY <1>5 DEF Unsubscribe, Reset, WatcherIsLive, TypeOK
<1>6. ASSUME NEW k \in Kind, NEW n \in Stream, StreamEnds(k, n)
      PROVE  WatcherIsLive'
  BY <1>6 DEF StreamEnds, WatcherIsLive, TypeOK
<1>7. CASE UNCHANGED vars
  BY <1>7 DEF vars, managers, WatcherIsLive
<1> QED
  BY <1>1, <1>2, <1>3, <1>4, <1>5, <1>6, <1>7, <1>a DEF Next

(***************************************************************************)
(* A call in flight is the only one, or some call has overlapped another.  *)
(***************************************************************************)
LEMMA OneCallStep ==
  ASSUME TypeOK, WatcherIsLive, OneCall, [Next]_vars
  PROVE  OneCall'
<1> USE DEF OneCall
<1>n. /\ NoCall.at # "stream"
      /\ \A s : Asking(s).at # "stream"
      /\ \A s, k : Awaiting(s, k).at = "stream" /\ Awaiting(s, k).kind = k
  BY DEF NoCall, Asking, Awaiting
<1>e. ASSUME NEW c \in Caller, NEW s \in Subscriber, NEW k \in 1..4, Enter(c, s, k),
             call[c] # NoCall, ~overlapped, UNCHANGED overlapped,
             \A j \in Kind : watcher'[j] = watcher[j] \/ j < k
      PROVE  OneCall'
  <2>1. \A d \in Caller : d # c => call[d] = NoCall
    BY <1>e
  <2>2. CASE call' = [call EXCEPT ![c] = NoCall]
    BY <2>1, <2>2, <1>n DEF TypeOK
  <2>3. ASSUME NEW j \in k..3, call' = [call EXCEPT ![c] = Awaiting(s, j)], ~watcher[j]
        PROVE  OneCall'
    <3>1. j \in Kind /\ watcher'[j] = watcher[j]
      BY <1>e DEF Kind
    <3>2. \A d \in Caller : call'[d] = IF d = c THEN Awaiting(s, j) ELSE NoCall
      BY <2>1, <2>3 DEF TypeOK
    <3>3. \A d \in Caller : call'[d].at = "stream" => call'[d].kind = j
      BY <3>1, <3>2, <1>n
    <3>4. \A d \in Caller : call'[d] # NoCall => d = c
      BY <3>2
    <3> QED
      BY <2>3, <3>1, <3>3, <3>4
  <2> QED
    BY <1>e, <2>2, <2>3, EnterReaches
<1>1. ASSUME NEW c \in Caller, NEW s \in Subscriber, Subscribe(c, s)
      PROVE  OneCall'
  <2> SUFFICES ASSUME ~overlapped'
               PROVE  /\ \A d, e \in Caller : call'[d] # NoCall /\ call'[e] # NoCall => d = e
                      /\ \A d \in Caller : call'[d].at = "stream" => ~watcher'[call'[d].kind]
    OBVIOUS
  <2>1. \A d \in Caller : call[d] = NoCall
    BY <1>1 DEF Subscribe
  <2>2. \A d \in Caller : call'[d] = IF d = c THEN Asking(s) ELSE NoCall
    BY <1>1, <2>1 DEF Subscribe, TypeOK
  <2> QED
    BY <2>2, <1>n
<1>2. ASSUME NEW c \in Caller, Enters(c)
      PROVE  OneCall'
  BY <1>2, <1>e, EntryEffect
<1>3. ASSUME NEW c \in Caller, StreamArrives(c)
      PROVE  OneCall'
  <2>1. \A j \in Kind : watcher'[j] = watcher[j] \/ j < call[c].kind + 1
    BY <1>3, ArrivalEffect, Watched DEF TypeOK, Kind
  <2> QED
    BY <1>3, <1>e, <2>1, ArrivalEffect, Watched
<1>a. ASSUME NEW c \in Caller, ArrivalThrows(c)
      PROVE  OneCall'
  <2> SUFFICES ASSUME ~overlapped'
               PROVE  /\ \A d, e \in Caller : call'[d] # NoCall /\ call'[e] # NoCall => d = e
                      /\ \A d \in Caller : call'[d].at = "stream" => ~watcher'[call'[d].kind]
    OBVIOUS
  <2>1. ~overlapped /\ call[c] # NoCall
    BY <1>a, ThrowEffect, Watched
  <2>2. \A d \in Caller : call'[d] = NoCall
    BY <1>a, <2>1, ThrowEffect
  <2> QED
    BY <2>2, <1>n
<1>4. ASSUME NEW c \in Caller, Rejected(c)
      PROVE  OneCall'
  <2>1. \A d \in Caller : call'[d] = NoCall \/ call'[d] = call[d]
    BY <1>4 DEF Rejected, TypeOK
  <2> QED
    BY <1>4, <2>1, <1>n DEF Rejected, managers
<1>5. ASSUME NEW s \in Subscriber, Unsubscribe(s)
      PROVE  OneCall'
  <2>1. \A j \in Kind : watcher'[j] => watcher[j]
    BY <1>5 DEF Unsubscribe, Reset, TypeOK
  <2>2. UNCHANGED <<call, overlapped>>
    BY <1>5 DEF Unsubscribe
  <2> QED
    BY <2>1, <2>2, CallFields
<1>6. ASSUME NEW k \in Kind, NEW n \in Stream, StreamEnds(k, n)
      PROVE  OneCall'
  <2>1. \A j \in Kind : watcher'[j] => watcher[j]
    BY <1>6 DEF StreamEnds, TypeOK
  <2>2. UNCHANGED <<call, overlapped>>
    BY <1>6 DEF StreamEnds
  <2> QED
    BY <2>1, <2>2, CallFields
<1>7. CASE UNCHANGED vars
  BY <1>7 DEF vars, managers, history
<1> QED
  BY <1>1, <1>2, <1>3, <1>4, <1>5, <1>6, <1>7, <1>a DEF Next

(***************************************************************************)
(* Without a watcher, no stream is open.                                   *)
(***************************************************************************)
LEMMA UnwatchedIsClosed ==
  ASSUME TypeOK, WatcherIsLive, NoStreamLeaks, ~overlapped,
         NEW k \in Kind, ~watcher[k]
  PROVE  open[k] = {}
  BY StreamAssumption DEF TypeOK, WatcherIsLive, NoStreamLeaks

LEMMA NoStreamLeaksStep ==
  ASSUME TypeOK, WatcherIsLive, NoStreamLeaks, OneCall, [Next]_vars
  PROVE  NoStreamLeaks'
<1>1. ASSUME NEW c \in Caller, NEW s \in Subscriber, Subscribe(c, s)
      PROVE  NoStreamLeaks'
  BY <1>1 DEF Subscribe, managers, NoStreamLeaks
<1>2. ASSUME NEW c \in Caller, Enters(c)
      PROVE  NoStreamLeaks'
  BY <1>2, EntryEffect DEF NoStreamLeaks
<1>3. ASSUME NEW c \in Caller, StreamArrives(c)
      PROVE  NoStreamLeaks'
  <2>1. ~overlapped => open[call[c].kind] = {}
    BY <1>3, ArrivalEffect, Watched, UnwatchedIsClosed DEF OneCall
  <2> QED
    BY <1>3, <2>1, ArrivalEffect, Watched DEF NoStreamLeaks, TypeOK
<1>a. ASSUME NEW c \in Caller, ArrivalThrows(c)
      PROVE  NoStreamLeaks'
  <2>1. ~overlapped => open[call[c].kind] = {}
    BY <1>a, ThrowEffect, Watched, UnwatchedIsClosed DEF OneCall
  <2> QED
    BY <1>a, <2>1, ThrowEffect, Watched DEF NoStreamLeaks, TypeOK
<1>4. ASSUME NEW c \in Caller, Rejected(c)
      PROVE  NoStreamLeaks'
  BY <1>4 DEF Rejected, managers, NoStreamLeaks
<1>5. ASSUME NEW s \in Subscriber, Unsubscribe(s)
      PROVE  NoStreamLeaks'
  BY <1>5 DEF Unsubscribe, Reset, NoStreamLeaks, TypeOK
<1>6. ASSUME NEW k \in Kind, NEW n \in Stream, StreamEnds(k, n)
      PROVE  NoStreamLeaks'
  BY <1>6 DEF StreamEnds, NoStreamLeaks, TypeOK
<1>7. CASE UNCHANGED vars
  BY <1>7 DEF vars, managers, history, NoStreamLeaks
<1> QED
  BY <1>1, <1>2, <1>3, <1>4, <1>5, <1>6, <1>7, <1>a DEF Next

LEMMA AwaitsForSomebodyStep ==
  ASSUME TypeOK, WatcherIsLive, NoStreamLeaks, OneCall, AwaitsForSomebody, [Next]_vars
  PROVE  AwaitsForSomebody'
<1> USE DEF AwaitsForSomebody
<1>n. /\ NoCall.at # "stream"
      /\ \A s : Asking(s).at # "stream"
      /\ \A s, k : /\ Awaiting(s, k).at = "stream"
                   /\ Awaiting(s, k).kind = k /\ Awaiting(s, k).sub = s
  BY DEF NoCall, Asking, Awaiting
<1>e. ASSUME NEW c \in Caller, NEW s \in Subscriber, NEW k \in 1..4, Enter(c, s, k),
             UNCHANGED <<overlapped, crossed>>
      PROVE  AwaitsForSomebody'
  <2> SUFFICES ASSUME ~overlapped', ~crossed', NEW d \in Caller, call'[d].at = "stream"
               PROVE  call'[d].sub \in subscribers'[call'[d].kind]
    OBVIOUS
  <2>1. CASE d # c
    <3>1. call'[d] = call[d]
      BY <1>e, <2>1, EnterReaches DEF TypeOK
    <3> QED
      BY <1>e, <3>1, EnterReaches, CallFields
  <2>2. CASE d = c
    <3>1. call' # [call EXCEPT ![c] = NoCall]
      BY <2>2, <1>n DEF TypeOK
    <3>2. PICK j \in k..3 : /\ call' = [call EXCEPT ![c] = Awaiting(s, j)]
                            /\ \A i \in k..j : s \in subscribers'[i]
      BY <1>e, <3>1, EnterReaches
    <3>3. call'[d] = Awaiting(s, j)
      BY <2>2, <3>2 DEF TypeOK
    <3> QED
      BY <3>2, <3>3, <1>n
  <2> QED
    BY <2>1, <2>2
<1>1. ASSUME NEW c \in Caller, NEW s \in Subscriber, Subscribe(c, s)
      PROVE  AwaitsForSomebody'
  <2>1. \A d \in Caller : call'[d] = Asking(s) \/ call'[d] = call[d]
    BY <1>1 DEF Subscribe, TypeOK
  <2>2. overlapped => overlapped'
    BY <1>1 DEF Subscribe
  <2> QED
    BY <1>1, <1>n, <2>1, <2>2 DEF Subscribe, managers
<1>2. ASSUME NEW c \in Caller, Enters(c)
      PROVE  AwaitsForSomebody'
  BY <1>2, <1>e, EntryEffect
<1>3. ASSUME NEW c \in Caller, StreamArrives(c)
      PROVE  AwaitsForSomebody'
  BY <1>3, <1>e, ArrivalEffect, Watched
<1>a. ASSUME NEW c \in Caller, ArrivalThrows(c)
      PROVE  AwaitsForSomebody'
  BY <1>a, <1>n, ThrowEffect
<1>4. ASSUME NEW c \in Caller, Rejected(c)
      PROVE  AwaitsForSomebody'
  <2>1. \A d \in Caller : call'[d] = NoCall \/ call'[d] = call[d]
    BY <1>4 DEF Rejected, TypeOK
  <2> QED
    BY <1>4, <2>1, <1>n DEF Rejected, managers
<1>5. ASSUME NEW s \in Subscriber, Unsubscribe(s)
      PROVE  AwaitsForSomebody'
  <2> SUFFICES ASSUME ~overlapped', ~crossed', NEW d \in Caller, call'[d].at = "stream"
               PROVE  call'[d].sub \in subscribers'[call'[d].kind]
    OBVIOUS
  <2>1. call'[d] = call[d] /\ ~overlapped /\ ~crossed /\ ~InFlight(s)
    BY <1>5 DEF Unsubscribe
  <2>2. call[d].sub # s /\ call[d].kind \in Kind
    BY <2>1, CallFields DEF InFlight
  <2> QED
    BY <1>5, <2>1, <2>2 DEF Unsubscribe, TypeOK
<1>6. ASSUME NEW k \in Kind, NEW n \in Stream, StreamEnds(k, n)
      PROVE  AwaitsForSomebody'
  <2> SUFFICES ASSUME ~overlapped', ~crossed', NEW d \in Caller, call'[d].at = "stream"
               PROVE  call'[d].sub \in subscribers'[call'[d].kind]
    OBVIOUS
  <2>1. call'[d] = call[d] /\ ~overlapped /\ ~crossed /\ n \in open[k]
    BY <1>6 DEF StreamEnds
  <2>2. call[d].kind \in Kind /\ ~watcher[call[d].kind]
    BY <2>1, CallFields DEF OneCall
  <2>3. call[d].kind # k
    BY <2>1, <2>2, UnwatchedIsClosed
  <2> QED
    BY <1>6, <2>1, <2>2, <2>3 DEF StreamEnds, TypeOK
<1>7. CASE UNCHANGED vars
  BY <1>7 DEF vars, managers, history
<1> QED
  BY <1>1, <1>2, <1>3, <1>4, <1>5, <1>6, <1>7, <1>a DEF Next

LEMMA NoIdleStreamStep ==
  ASSUME TypeOK, WatcherIsLive, NoStreamLeaks, AwaitsForSomebody, NoIdleStream,
         [Next]_vars
  PROVE  NoIdleStream'
<1> USE DEF NoIdleStream
<1>1. ASSUME NEW c \in Caller, NEW s \in Subscriber, Subscribe(c, s)
      PROVE  NoIdleStream'
  BY <1>1 DEF Subscribe, managers
<1>2. ASSUME NEW c \in Caller, Enters(c)
      PROVE  NoIdleStream'
  <2>1. \A k \in Kind : subscribers[k] \subseteq subscribers'[k]
    BY <1>2, EntryEffect, EnterReaches
  <2> QED
    BY <1>2, <2>1, EntryEffect
<1>3. ASSUME NEW c \in Caller, StreamArrives(c)
      PROVE  NoIdleStream'
  <2>1. \A k \in Kind : subscribers[k] \subseteq subscribers'[k]
    BY <1>3, ArrivalEffect, Watched, EnterReaches
  <2>2. ~overlapped /\ ~crossed => subscribers[call[c].kind] # {}
    BY <1>3, ArrivalEffect, Watched DEF AwaitsForSomebody
  <2>3. \A k \in Kind : k # call[c].kind => open'[k] = open[k]
    BY <1>3, ArrivalEffect, Watched DEF TypeOK
  <2> QED
    BY <1>3, <2>1, <2>2, <2>3, ArrivalEffect, Watched
<1>a. ASSUME NEW c \in Caller, ArrivalThrows(c)
      PROVE  NoIdleStream'
  <2>1. ~overlapped /\ ~crossed => subscribers[call[c].kind] # {}
    BY <1>a, ThrowEffect, Watched DEF AwaitsForSomebody
  <2>2. \A k \in Kind : k # call[c].kind => open'[k] = open[k]
    BY <1>a, ThrowEffect, Watched DEF TypeOK
  <2> QED
    BY <1>a, <2>1, <2>2, ThrowEffect, Watched
<1>4. ASSUME NEW c \in Caller, Rejected(c)
      PROVE  NoIdleStream'
  BY <1>4 DEF Rejected, managers
<1>5. ASSUME NEW s \in Subscriber, Unsubscribe(s)
      PROVE  NoIdleStream'
  <2> SUFFICES ASSUME ~overlapped', ~crossed', NEW k \in Kind, open'[k] # {}
               PROVE  subscribers'[k] # {}
    OBVIOUS
  <2>1. ~overlapped /\ ~crossed /\ subscribers'[k] = subscribers[k] \ {s}
    BY <1>5 DEF Unsubscribe
  <2>2. CASE subscribers[k] \subseteq {s}
    BY <1>5, <2>1, <2>2 DEF Unsubscribe, Reset, NoStreamLeaks
  <2>3. CASE ~(subscribers[k] \subseteq {s})
    BY <2>1, <2>3
  <2> QED
    BY <2>2, <2>3
<1>6. ASSUME NEW k \in Kind, NEW n \in Stream, StreamEnds(k, n)
      PROVE  NoIdleStream'
  <2>1. ~overlapped' => open'[k] = {}
    BY <1>6 DEF StreamEnds, NoStreamLeaks, TypeOK
  <2>2. \A j \in Kind : j # k => UNCHANGED <<open[j], subscribers[j]>>
    BY <1>6 DEF StreamEnds, TypeOK
  <2> QED
    BY <1>6, <2>1, <2>2 DEF StreamEnds
<1>7. CASE UNCHANGED vars
  BY <1>7 DEF vars, managers, history
<1> QED
  BY <1>1, <1>2, <1>3, <1>4, <1>5, <1>6, <1>7, <1>a DEF Next

(***************************************************************************)
(* Who is intact is in every manager, or has a call that leads there: the  *)
(* call that goes on keeps the subscribers of others where they are.       *)
(***************************************************************************)
LEMMA OthersOnTheirWay ==
  ASSUME TypeOK, NEW c \in Caller, NEW s \in Subscriber, NEW t \in Subscriber,
         \A j \in Kind : /\ subscribers[j] \subseteq subscribers'[j]
                         /\ watcher[j] => watcher'[j],
         \A d \in Caller : d # c => call'[d] = call[d],
         s # t \/ call[c] = NoCall \/ call[c].sub # t,
         call[c] = NoCall \/ call[c].sub = s,
         ServedUpTo(t, 3) \/ OnItsWay(t)
  PROVE  (ServedUpTo(t, 3) \/ OnItsWay(t))'
<1>1. \A k \in 0..3 : ServedUpTo(t, k) => ServedNext(t, k)
  BY DEF ServedUpTo, ServedNext, Serves, Kind
<1>2. CASE ServedUpTo(t, 3)
  BY <1>1, <1>2 DEF ServedUpTo, ServedNext
<1>3. CASE OnItsWay(t)
  <2>1. PICK d \in Caller :
          /\ call[d] # NoCall /\ call[d].sub = t
          /\ call[d].at = "stream" =>
               ServedUpTo(t, call[d].kind - 1) /\ t \in subscribers[call[d].kind]
    BY <1>3 DEF OnItsWay
  <2>2. call'[d] = call[d]
    BY <2>1
  <2>3. call[d].at = "stream" => call[d].kind \in Kind /\ call[d].kind - 1 \in 0..3
    BY CallFields DEF Kind
  <2>4. call'[d].at = "stream" =>
          ServedNext(t, call'[d].kind - 1) /\ t \in subscribers'[call'[d].kind]
    BY <1>1, <2>1, <2>2, <2>3
  <2> QED
    BY <2>1, <2>2, <2>4 DEF OnItsWay, ServedNext, ServedUpTo
<1> QED
  BY <1>2, <1>3

\* A call that has the managers below k served, and enters k and those after it.
LEMMA EntryServes ==
  ASSUME TypeOK, NEW c \in Caller, NEW s \in Subscriber, NEW k \in 1..4,
         Enter(c, s, k),
         \A j \in Kind : watcher[j] => watcher'[j],
         ServedNext(s, k - 1)
  PROVE  (ServedUpTo(s, 3) \/ OnItsWay(s))'
<1>1. CASE \A j \in k..3 : watcher[j] /\ s \in subscribers'[j]
  BY <1>1 DEF ServedUpTo, ServedNext, Serves, Kind
<1>2. ASSUME NEW j \in k..3,
             call' = [call EXCEPT ![c] = Awaiting(s, j)],
             \A i \in k..(j - 1) : watcher[i],
             \A i \in k..j : s \in subscribers'[i]
      PROVE  OnItsWay(s)'
  <2>1. call'[c] = Awaiting(s, j)
    BY <1>2 DEF TypeOK
  <2>2. /\ Awaiting(s, j) # NoCall /\ Awaiting(s, j).sub = s
        /\ Awaiting(s, j).kind = j
    BY DEF Awaiting, NoCall
  <2>3. ServedNext(s, j - 1) /\ s \in subscribers'[j]
    BY <1>2 DEF ServedUpTo, ServedNext, Serves, Kind
  <2> QED
    BY <2>1, <2>2, <2>3 DEF OnItsWay, ServedUpTo, ServedNext, Serves
<1> QED
  BY <1>1, <1>2, EnterReaches

LEMMA IntactIsServedStep ==
  ASSUME TypeOK, IntactIsServed, [Next]_vars
  PROVE  IntactIsServed'
<1> USE DEF IntactIsServed
<1>t. intact \subseteq Subscriber
  BY DEF TypeOK
<1>1. ASSUME NEW c \in Caller, NEW s \in Subscriber, Subscribe(c, s)
      PROVE  IntactIsServed'
  <2> SUFFICES ASSUME NEW t \in intact'
               PROVE  (ServedUpTo(t, 3) \/ OnItsWay(t))'
    OBVIOUS
  <2>1. CASE t = s
    <3>1. call'[c] = Asking(s)
      BY <1>1 DEF Subscribe, TypeOK
    <3>2. Asking(s) # NoCall /\ Asking(s).sub = s /\ Asking(s).at # "stream"
      BY DEF Asking, NoCall
    <3> QED
      BY <2>1, <3>1, <3>2 DEF OnItsWay
  <2>2. CASE t # s
    <3>1. t \in intact /\ t \in Subscriber /\ call[c] = NoCall
      BY <1>1, <1>t, <2>2 DEF Subscribe
    <3>2. \A d \in Caller : d # c => call'[d] = call[d]
      BY <1>1 DEF Subscribe, TypeOK
    <3> QED
      BY <1>1, <3>1, <3>2, OthersOnTheirWay DEF Subscribe, managers
  <2> QED
    BY <2>1, <2>2
<1>2. ASSUME NEW c \in Caller, NEW s \in Subscriber, NEW k \in 1..4, Enter(c, s, k),
             call[c] # NoCall, call[c].sub = s,
             \A j \in Kind : watcher[j] => watcher'[j],
             s \in intact => ServedNext(s, k - 1) \/ ServedUpTo(s, 3) \/ \E d \in Caller :
               /\ d # c /\ call[d] # NoCall /\ call[d].sub = s
               /\ call[d].at = "stream" =>
                    ServedUpTo(s, call[d].kind - 1) /\ s \in subscribers[call[d].kind],
             UNCHANGED intact
      PROVE  IntactIsServed'
  <2> SUFFICES ASSUME NEW t \in intact
               PROVE  (ServedUpTo(t, 3) \/ OnItsWay(t))'
    BY <1>2
  <2>1. /\ \A j \in Kind : subscribers[j] \subseteq subscribers'[j]
        /\ \A d \in Caller : d # c => call'[d] = call[d]
    BY <1>2, EnterReaches DEF TypeOK
  <2>2. CASE t # s
    BY <1>2, <1>t, <2>1, <2>2, OthersOnTheirWay
  <2>3. CASE t = s
    <3>1. CASE ServedNext(s, k - 1)
      BY <1>2, <2>3, <3>1, EntryServes
    <3>2. CASE ServedUpTo(s, 3)
      BY <1>2, <2>1, <2>3, <3>2 DEF ServedUpTo, ServedNext, Serves, Kind
    <3>3. ASSUME NEW d \in Caller, d # c, call[d] # NoCall, call[d].sub = s,
                 call[d].at = "stream" =>
                   ServedUpTo(s, call[d].kind - 1) /\ s \in subscribers[call[d].kind]
          PROVE  OnItsWay(s)'
      <4>1. call'[d] = call[d]
        BY <2>1, <3>3
      <4>2. call[d].at = "stream" => call[d].kind \in Kind
        BY CallFields
      <4>3. call[d].at = "stream" =>
              ServedNext(s, call[d].kind - 1) /\ s \in subscribers'[call[d].kind]
        BY <1>2, <2>1, <3>3, <4>2 DEF ServedUpTo, ServedNext, Serves, Kind
      <4> QED
        BY <3>3, <4>1, <4>3 DEF OnItsWay, ServedUpTo, ServedNext, Serves
    <3> QED
      BY <1>2, <2>3, <3>1, <3>2, <3>3
  <2> QED
    BY <2>2, <2>3
<1>3. ASSUME NEW c \in Caller, Enters(c)
      PROVE  IntactIsServed'
  <2>1. ServedNext(call[c].sub, 1 - 1)
    BY DEF ServedUpTo, ServedNext, Serves
  <2> QED
    BY <1>2, <1>3, <2>1, EntryEffect
<1>4. ASSUME NEW c \in Caller, StreamArrives(c)
      PROVE  IntactIsServed'
  <2> DEFINE s == call[c].sub
             k == call[c].kind
  <2>1. /\ s \in Subscriber /\ k \in Kind /\ call[c] # NoCall /\ call[c].at = "stream"
        /\ k + 1 \in 1..4 /\ Enter(c, s, k + 1)
        /\ watcher' = [watcher EXCEPT ![k] = TRUE] /\ UNCHANGED intact
    BY <1>4, ArrivalEffect, Watched
  <2>2. \A j \in Kind : /\ watcher[j] => watcher'[j]
                        /\ subscribers[j] \subseteq subscribers'[j]
    BY <2>1, EnterReaches DEF TypeOK
  <2>3. ASSUME ServedUpTo(s, k - 1), s \in subscribers[k]
        PROVE  ServedNext(s, (k + 1) - 1)
    BY <2>1, <2>2, <2>3 DEF ServedUpTo, ServedNext, Serves, Kind, TypeOK
  <2>4. s \in intact => ServedNext(s, (k + 1) - 1) \/ ServedUpTo(s, 3) \/ \E d \in Caller :
               /\ d # c /\ call[d] # NoCall /\ call[d].sub = s
               /\ call[d].at = "stream" =>
                    ServedUpTo(s, call[d].kind - 1) /\ s \in subscribers[call[d].kind]
    BY <2>1, <2>3 DEF OnItsWay
  <2> QED
    BY <1>2, <2>1, <2>2, <2>4
<1>a. ASSUME NEW c \in Caller, ArrivalThrows(c)
      PROVE  IntactIsServed'
  <2> SUFFICES ASSUME NEW t \in intact'
               PROVE  (ServedUpTo(t, 3) \/ OnItsWay(t))'
    OBVIOUS
  <2>1. /\ t \in intact /\ t \in Subscriber /\ t # call[c].sub
        /\ call[c].sub \in Subscriber
    BY <1>a, <1>t, ThrowEffect, Watched
  <2>2. \A d \in Caller : d # c => call'[d] = call[d]
    BY <1>a, ThrowEffect
  <2>3. \A j \in Kind : /\ subscribers[j] \subseteq subscribers'[j]
                        /\ watcher[j] => watcher'[j]
    BY <1>a, ThrowEffect, Watched DEF TypeOK
  <2> QED
    BY <2>1, <2>2, <2>3, OthersOnTheirWay
<1>5. ASSUME NEW c \in Caller, Rejected(c)
      PROVE  IntactIsServed'
  <2> SUFFICES ASSUME NEW t \in intact'
               PROVE  (ServedUpTo(t, 3) \/ OnItsWay(t))'
    OBVIOUS
  <2>1. t \in intact /\ t \in Subscriber /\ t # call[c].sub /\ call[c].sub \in Subscriber
    BY <1>5, <1>t, CallFields DEF Rejected
  <2>2. \A d \in Caller : d # c => call'[d] = call[d]
    BY <1>5 DEF Rejected, TypeOK
  <2> QED
    BY <1>5, <2>1, <2>2, OthersOnTheirWay DEF Rejected, managers
<1>6. ASSUME NEW s \in Subscriber, Unsubscribe(s)
      PROVE  IntactIsServed'
  <2> SUFFICES ASSUME NEW t \in intact'
               PROVE  (ServedUpTo(t, 3) \/ OnItsWay(t))'
    OBVIOUS
  <2>1. t \in intact /\ t # s /\ call' = call
    BY <1>6 DEF Unsubscribe
  <2>2. \A j \in Kind : t \in subscribers[j] =>
                          t \in subscribers'[j] /\ watcher'[j] = watcher[j]
    BY <1>6, <2>1 DEF Unsubscribe, Reset
  <2>3. \A j \in 0..3 : ServedUpTo(t, j) => ServedNext(t, j)
    BY <2>2 DEF ServedUpTo, ServedNext, Serves, Kind
  <2>4. \A d \in Caller : call[d].at = "stream" =>
                            call[d].kind \in Kind /\ call[d].kind - 1 \in 0..3
    BY CallFields DEF Kind
  <2> QED
    BY <2>1, <2>2, <2>3, <2>4 DEF OnItsWay, ServedUpTo, ServedNext, Serves
<1>7. ASSUME NEW k \in Kind, NEW n \in Stream, StreamEnds(k, n)
      PROVE  IntactIsServed'
  <2> SUFFICES ASSUME NEW t \in intact'
               PROVE  (ServedUpTo(t, 3) \/ OnItsWay(t))'
    OBVIOUS
  <2>1. t \in intact /\ t \notin subscribers[k] /\ call' = call
    BY <1>7 DEF StreamEnds
  <2>2. \A j \in Kind : t \in subscribers[j] =>
                          t \in subscribers'[j] /\ watcher'[j] = watcher[j]
    BY <1>7, <2>1 DEF StreamEnds, TypeOK
  <2>3. \A j \in 0..3 : ServedUpTo(t, j) => ServedNext(t, j)
    BY <2>2 DEF ServedUpTo, ServedNext, Serves, Kind
  <2>4. \A d \in Caller : call[d].at = "stream" =>
                            call[d].kind \in Kind /\ call[d].kind - 1 \in 0..3
    BY CallFields DEF Kind
  <2> QED
    BY <2>1, <2>2, <2>3, <2>4 DEF OnItsWay, ServedUpTo, ServedNext, Serves
<1>8. CASE UNCHANGED vars
  BY <1>8 DEF vars, managers, history, ServedUpTo, ServedNext, Serves, OnItsWay
<1> QED
  BY <1>1, <1>3, <1>4, <1>5, <1>6, <1>7, <1>8, <1>a DEF Next

(***************************************************************************)
(* When no call of an intact subscriber is left, it is served.             *)
(***************************************************************************)
LEMMA IntactImpliesServed == TypeOK /\ IntactIsServed => ResolvedIsServed
  BY DEF IntactIsServed, ResolvedIsServed, OnItsWay, InFlight, ServedUpTo, ServedNext, Serves, Kind

LEMMA InvariantsHold == Spec => [](TypeOK /\ IInv)
<1>1. Init => TypeOK /\ IInv
  <2>1. NoCall.at # "stream"
    BY DEF NoCall
  <2>2. Init => WatcherIsLive /\ NoStreamLeaks /\ NoIdleStream /\ IntactIsServed
    BY DEF Init, WatcherIsLive, NoStreamLeaks, NoIdleStream, IntactIsServed
  <2>3. Init => OneCall /\ AwaitsForSomebody
    BY <2>1 DEF Init, OneCall, AwaitsForSomebody
  <2>4. Init => TypeOK
    BY InitTyped
  <2> QED
    BY <2>2, <2>3, <2>4 DEF IInv
<1>2. TypeOK /\ IInv /\ [Next]_vars => (TypeOK /\ IInv)'
  BY TypeOKStep, WatcherIsLiveStep, OneCallStep, NoStreamLeaksStep,
     AwaitsForSomebodyStep, NoIdleStreamStep, IntactIsServedStep DEF IInv
<1> QED
  BY <1>1, <1>2, PTL DEF Spec

\* A manager's watcher, where subscribeToEmailMessages finds one and asks for no
\* stream, stands for a stream that is open, however calls overlap.
THEOREM WatcherAlwaysLive == Spec => []WatcherIsLive
<1>1. IInv => WatcherIsLive
  BY DEF IInv
<1> QED
  BY <1>1, InvariantsHold, PTL

\* Without overlapping calls, every open stream is one its manager can close.
THEOREM NoStreamEverLeaks == Spec => []NoStreamLeaks
<1>1. IInv => NoStreamLeaks
  BY DEF IInv
<1> QED
  BY <1>1, InvariantsHold, PTL

\* Without overlapping calls and ids unsubscribed in flight, no stream is open
\* for nobody.
THEOREM NoStreamIsIdle == Spec => []NoIdleStream
<1>1. IInv => NoIdleStream
  BY DEF IInv
<1> QED
  BY <1>1, InvariantsHold, PTL

\* Whoever subscribed, and was dropped by no disconnect since, hears of all three
\* kinds of event once the calls have resolved.
THEOREM ResolvedAlwaysServed == Spec => []ResolvedIsServed
<1>1. TypeOK /\ IInv => ResolvedIsServed
  BY IntactImpliesServed DEF IInv
<1> QED
  BY <1>1, InvariantsHold, PTL

\* A subscriber leaves a manager by its own unsubscribe or with notice of a
\* disconnect, never because of another's calls: the only ones dropped untold
\* are those after a callback that threw at the notice of the same disconnect.
THEOREM NoLossIsSilent == Spec => NoSilentLoss
<1> DEFINE Noticed(s, k) ==
             \/ Unsubscribe(s)
             \/ notice'[s] = "disconnected"
             \/ /\ faults' # faults
                /\ \E t \in subscribers[k] \ {s} : notice'[t] = "disconnected"
           Noted == \A s \in Subscriber, k \in Kind :
                      s \in subscribers[k] /\ s \notin subscribers'[k] => Noticed(s, k)
<1>1. ASSUME TypeOK, [Next]_vars
      PROVE  Noted
  <2> HIDE DEF Noticed
  <2>1. ASSUME NEW c \in Caller, NEW s \in Subscriber,
               Subscribe(c, s) \/ Rejected(c)
        PROVE  Noted
    BY <2>1 DEF Subscribe, Rejected, managers
  <2>2. ASSUME NEW c \in Caller, Enters(c)
        PROVE  Noted
    BY <1>1, <2>2, EntryEffect, EnterReaches
  <2>3. ASSUME NEW c \in Caller, StreamArrives(c)
        PROVE  Noted
    BY <1>1, <2>3, ArrivalEffect, Watched, EnterReaches
  <2>a. ASSUME NEW c \in Caller, ArrivalThrows(c)
        PROVE  Noted
    BY <1>1, <2>a, ThrowEffect
  <2>4. ASSUME NEW s \in Subscriber, Unsubscribe(s)
        PROVE  Noted
    <3>1. \A t \in Subscriber, k \in Kind :
            t \in subscribers[k] /\ t \notin subscribers'[k] => t = s
      BY <2>4 DEF Unsubscribe
    <3> QED
      BY <2>4, <3>1 DEF Noticed
  <2>5. ASSUME NEW k \in Kind, NEW n \in Stream, StreamEnds(k, n)
        PROVE  Noted
    <3> SUFFICES ASSUME NEW s \in Subscriber, NEW j \in Kind,
                        s \in subscribers[j], s \notin subscribers'[j]
                 PROVE  Noticed(s, j)
      OBVIOUS
    <3>1. j = k
      BY <1>1, <2>5 DEF StreamEnds, TypeOK
    <3>2. CASE Tell(subscribers[k], "disconnected")
      BY <3>1, <3>2 DEF Tell, Notify, Noticed
    <3>3. CASE TellThrows(subscribers[k], "disconnected")
      <4>1. PICK T \in (SUBSET subscribers[k]) \ {{}} : Notify(T, "disconnected")
        BY <3>3 DEF TellThrows
      <4>2. PICK t \in T : t \in Subscriber
        BY <1>1, <4>1 DEF TypeOK
      <4>3. notice'[t] = "disconnected" /\ t \in subscribers[k]
        BY <4>1, <4>2 DEF Notify
      <4>4. faults' # faults
        BY <1>1, <3>3 DEF TellThrows, TypeOK
      <4> QED
        BY <3>1, <4>3, <4>4 DEF Noticed
    <3> QED
      BY <2>5, <3>2, <3>3 DEF StreamEnds
  <2>6. CASE UNCHANGED vars
    BY <2>6 DEF vars, managers
  <2> QED
    BY <1>1, <2>1, <2>2, <2>3, <2>a, <2>4, <2>5, <2>6 DEF Next
<1>2. TypeOK /\ [Next]_vars => [Noted]_vars
  BY <1>1
<1> QED
  BY <1>2, TypeCorrect, PTL DEF Spec, NoSilentLoss
=============================================================================
