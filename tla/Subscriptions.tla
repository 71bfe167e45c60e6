---------------------------- MODULE Subscriptions ----------------------------
(***************************************************************************)
(* Subscriptions to email message events: three SubscriptionManagers of    *)
(* DefaultEmailMessageService, one for each kind of event, each with the   *)
(* subscribers it tells and one upstream stream it watches.                *)
(*                                                                         *)
(* subscribeToEmailMessages enters the managers in order and awaits a      *)
(* stream where a manager has none; everything between two awaits is one   *)
(* step, and other calls, events and disconnects run in the gaps. A          *)
(* subscriber is told of connects and disconnects by a callback of its own, *)
(* which may throw; one that has no such callback has nothing to be told,  *)
(* and its notice stands for one it would have had.                        *)
(***************************************************************************)
EXTENDS Integers, FiniteSets

CONSTANTS
  Subscriber,  \* subscription ids
  Caller,      \* calls of subscribeToEmailMessages that may run at once
  Stream,      \* upstream subscriptions of one kind that may be open at once
  None,
  MaxFaults    \* bound: requests that are rejected, callbacks that throw

ASSUME StreamAssumption == None \notin Stream

ASSUME FaultAssumption == MaxFaults \in Nat

\* The managers in the order subscribeToEmailMessages enters them: created,
\* deleted, updated.
Kind == 1..3
Deleted == 2

VARIABLES
  subscribers,   \* who each manager tells
  watcher,       \* whether _watcher is set
  subscription,  \* _subscription, the stream the manager can close
  open,          \* the streams that are open upstream
  call,          \* where each call of subscribeToEmailMessages is
  notice,        \* the connection state that the last step told each subscriber
  overlapped,    \* history: two calls were in flight at once
  intact,        \* history: subscribed, and since then neither dropped by a
                 \* disconnect, nor unsubscribed, nor rejected
  crossed,       \* history: unsubscribed while a call of the same id was in flight
  faults

managers == <<subscribers, watcher, subscription, open>>
history == <<overlapped, intact, crossed>>
vars == <<managers, call, notice, history, faults>>

NoCall == [at |-> "none"]
Asking(s) == [at |-> "subject", sub |-> s]
Awaiting(s, k) == [at |-> "stream", sub |-> s, kind |-> k]

Call ==
  {NoCall} \cup {Asking(s) : s \in Subscriber}
    \cup {Awaiting(s, k) : s \in Subscriber, k \in Kind}

Init ==
  /\ subscribers = [k \in Kind |-> {}]
  /\ watcher = [k \in Kind |-> FALSE]
  /\ subscription = [k \in Kind |-> None]
  /\ open = [k \in Kind |-> {}]
  /\ call = [c \in Caller |-> NoCall]
  /\ notice = [s \in Subscriber |-> "none"]
  /\ overlapped = FALSE
  /\ intact = {}
  /\ crossed = FALSE
  /\ faults = 0

InFlight(s) == \E c \in Caller : call[c] # NoCall /\ call[c].sub = s

-----------------------------------------------------------------------------
(* SubscriptionManager *)

\* Variant: the stream is left open.
ResetKeepingStream(K) ==
  /\ subscription' = [k \in Kind |-> IF k \in K THEN None ELSE subscription[k]]
  /\ watcher' = [k \in Kind |-> IF k \in K THEN FALSE ELSE watcher[k]]
  /\ UNCHANGED open

\* Variant: the watcher stays.
ResetKeepingWatcher(K) ==
  /\ subscription' = [k \in Kind |-> IF k \in K THEN None ELSE subscription[k]]
  /\ open' = [k \in Kind |-> IF k \in K THEN open[k] \ {subscription[k]} ELSE open[k]]
  /\ UNCHANGED watcher

\* reset() of the managers K, subscribers apart: the current stream is closed.
Reset(K) ==
  /\ subscription' = [k \in Kind |-> IF k \in K THEN None ELSE subscription[k]]
  /\ watcher' = [k \in Kind |-> IF k \in K THEN FALSE ELSE watcher[k]]
  /\ open' = [k \in Kind |-> IF k \in K THEN open[k] \ {subscription[k]} ELSE open[k]]

Notify(T, state) == notice' = [s \in Subscriber |-> IF s \in T THEN state ELSE "none"]

Silently == notice' = [s \in Subscriber |-> "none"]

\* Every subscriber of S is told the connection state.
Tell(S, state) ==
  /\ Notify(S, state)
  /\ UNCHANGED faults

\* They are told one after another, up to one whose callback throws.
TellThrows(S, state) ==
  /\ faults < MaxFaults
  /\ faults' = faults + 1
  /\ \E T \in (SUBSET S) \ {{}} : Notify(T, state)

-----------------------------------------------------------------------------
(* subscribeToEmailMessages *)

\* The use case asks for the subject of the signed-in user first.
Subscribe(c, s) ==
  /\ call[c] = NoCall
  /\ call' = [call EXCEPT ![c] = Asking(s)]
  /\ overlapped' = (overlapped \/ \E d \in Caller : call[d] # NoCall)
  /\ intact' = intact \cup {s}
  /\ Silently
  /\ UNCHANGED <<managers, crossed, faults>>

\* Variant: a manager that has a watcher is skipped.
EnterUnwatched(c, s, k) ==
  LET stop == {j \in k..3 : ~watcher[j] /\ \A i \in k..(j - 1) : watcher[i]} IN
  /\ subscribers' = [j \in Kind |->
       IF j \in stop THEN subscribers[j] \cup {s} ELSE subscribers[j]]
  /\ IF stop = {}
       THEN call' = [call EXCEPT ![c] = NoCall]
       ELSE \E j \in stop : call' = [call EXCEPT ![c] = Awaiting(s, j)]

\* From manager k on: the subscriber is added to every manager up to the
\* first that has no watcher, whose stream is then awaited.
Enter(c, s, k) ==
  LET stop == {j \in k..3 : ~watcher[j] /\ \A i \in k..(j - 1) : watcher[i]}
      entered == {j \in k..3 : \A i \in k..(j - 1) : watcher[i]} IN
  /\ subscribers' = [j \in Kind |->
       IF j \in entered THEN subscribers[j] \cup {s} ELSE subscribers[j]]
  /\ IF stop = {}
       THEN call' = [call EXCEPT ![c] = NoCall]
       ELSE \E j \in stop : call' = [call EXCEPT ![c] = Awaiting(s, j)]

Enters(c) ==
  /\ call[c].at = "subject"
  /\ Enter(c, call[c].sub, 1)
  /\ Silently
  /\ UNCHANGED <<watcher, subscription, open, history, faults>>

\* The stream that c awaits becomes the current one of its manager.
Watches(c) ==
  LET k == call[c].kind IN
  /\ call[c].at = "stream"
  /\ \E n \in Stream \ open[k] :
       /\ watcher' = [watcher EXCEPT ![k] = TRUE]
       /\ subscription' = [subscription EXCEPT ![k] = n]
       /\ open' = [open EXCEPT ![k] = @ \cup {n}]

\* The stream arrives: watcher and subscription are replaced, whoever
\* subscribes now is told, and the call goes on to the next manager.
StreamArrives(c) ==
  /\ Watches(c)
  /\ Tell(subscribers[call[c].kind], "connected")
  /\ Enter(c, call[c].sub, call[c].kind + 1)
  /\ UNCHANGED <<overlapped, intact, crossed>>

\* The stream arrives and a callback throws, its own or another's: the stream
\* stays, the call throws.
ArrivalThrows(c) ==
  /\ Watches(c)
  /\ TellThrows(subscribers[call[c].kind], "connected")
  /\ call' = [call EXCEPT ![c] = NoCall]
  /\ intact' = intact \ {call[c].sub}
  /\ UNCHANGED <<subscribers, overlapped, crossed>>

\* The subject or the stream cannot be had: the call throws and leaves its
\* subscriber in the managers it has entered.
Rejected(c) ==
  /\ call[c] # NoCall
  /\ faults < MaxFaults
  /\ faults' = faults + 1
  /\ call' = [call EXCEPT ![c] = NoCall]
  /\ intact' = intact \ {call[c].sub}
  /\ Silently
  /\ UNCHANGED <<managers, overlapped, crossed>>

-----------------------------------------------------------------------------
(* unsubscribeFromEmailMessages, synchronous over the three managers *)

\* Variant: whether anybody is left is asked before the subscriber goes.
UnsubscribeLate(s) ==
  /\ subscribers' = [k \in Kind |-> subscribers[k] \ {s}]
  /\ Reset({k \in Kind : subscribers[k] = {}})
  /\ intact' = intact \ {s}
  /\ crossed' = (crossed \/ InFlight(s))
  /\ Silently
  /\ UNCHANGED <<call, overlapped, faults>>

Unsubscribe(s) ==
  /\ subscribers' = [k \in Kind |-> subscribers[k] \ {s}]
  /\ Reset({k \in Kind : subscribers[k] \subseteq {s}})
  /\ intact' = intact \ {s}
  /\ crossed' = (crossed \/ InFlight(s))
  /\ Silently
  /\ UNCHANGED <<call, overlapped, faults>>

-----------------------------------------------------------------------------
(* Disconnects *)

\* Variant: the subscribers are collected after they have been dropped.
StreamEndsUntold(k, n) ==
  /\ n \in open[k]
  /\ subscribers' = [subscribers EXCEPT ![k] = {}]
  /\ subscription' = [subscription EXCEPT ![k] = None]
  /\ watcher' = [watcher EXCEPT ![k] = FALSE]
  /\ open' = [open EXCEPT ![k] = @ \ {n, subscription[k]}]
  /\ Tell({}, "disconnected") \/ TellThrows({}, "disconnected")
  /\ intact' = intact \ subscribers[k]
  /\ UNCHANGED <<call, overlapped, crossed>>

\* Variant: the raw state of the stream is passed on.
StreamEndsClosed(k, n) ==
  /\ n \in open[k]
  /\ subscribers' = [subscribers EXCEPT ![k] = {}]
  /\ subscription' = [subscription EXCEPT ![k] = None]
  /\ watcher' = [watcher EXCEPT ![k] = FALSE]
  /\ open' = [open EXCEPT ![k] = @ \ {n, subscription[k]}]
  /\ Tell(subscribers[k], "closed") \/ TellThrows(subscribers[k], "closed")
  /\ intact' = intact \ subscribers[k]
  /\ UNCHANGED <<call, overlapped, crossed>>

\* A stream completes or fails, be it the current one of its manager or an
\* earlier one: the manager drops its subscribers and its current stream, and
\* then tells those it has dropped, as far as their callbacks return.
StreamEnds(k, n) ==
  /\ n \in open[k]
  /\ subscribers' = [subscribers EXCEPT ![k] = {}]
  /\ subscription' = [subscription EXCEPT ![k] = None]
  /\ watcher' = [watcher EXCEPT ![k] = FALSE]
  /\ open' = [open EXCEPT ![k] = @ \ {n, subscription[k]}]
  /\ \/ Tell(subscribers[k], "disconnected")
     \/ TellThrows(subscribers[k], "disconnected")
  /\ intact' = intact \ subscribers[k]
  /\ UNCHANGED <<call, overlapped, crossed>>

-----------------------------------------------------------------------------

Next ==
  \/ \E c \in Caller :
       \/ \E s \in Subscriber : Subscribe(c, s)
       \/ Enters(c)
       \/ StreamArrives(c)
       \/ ArrivalThrows(c)
       \/ Rejected(c)
  \/ \E s \in Subscriber : Unsubscribe(s)
  \/ \E k \in Kind, n \in Stream : StreamEnds(k, n)

Spec == Init /\ [][Next]_vars

-----------------------------------------------------------------------------
(* Properties *)

TypeOK ==
  /\ subscribers \in [Kind -> SUBSET Subscriber]
  /\ watcher \in [Kind -> BOOLEAN]
  /\ subscription \in [Kind -> Stream \cup {None}]
  /\ open \in [Kind -> SUBSET Stream]
  /\ call \in [Caller -> Call]
  /\ notice \in [Subscriber -> {"none", "connected", "disconnected"}]
  /\ overlapped \in BOOLEAN
  /\ intact \in SUBSET Subscriber
  /\ crossed \in BOOLEAN
  /\ faults \in 0..MaxFaults

\* A manager that has a watcher watches an open stream: a later subscriber
\* that finds the watcher need not ask for a stream. Holds through overlapping
\* calls, and through the end of a stream the manager no longer knows.
WatcherIsLive ==
  \A k \in Kind :
    /\ watcher[k] <=> subscription[k] # None
    /\ watcher[k] => subscription[k] \in open[k]

\* While calls of subscribeToEmailMessages do not overlap, the manager can
\* close every stream that is open: no stream is left behind by an
\* unsubscribe, a disconnect or a rejection during an await.
NoStreamLeaks ==
  ~overlapped => \A k \in Kind : open[k] \subseteq {subscription[k]}

\* A stream is open only for somebody: whoever unsubscribes last closes it, and
\* so does whatever disconnects them, but for calls that overlap, and for an id
\* unsubscribed while its own call awaits a stream, which then opens for nobody.
NoIdleStream ==
  ~overlapped /\ ~crossed => \A k \in Kind : open[k] # {} => subscribers[k] # {}

\* However calls overlap and whatever streams end, a subscriber whose calls
\* have all resolved, and that no disconnect has dropped since, is in every
\* manager, and every manager watches a stream.
ResolvedIsServed ==
  \A s \in intact : ~InFlight(s) => \A k \in Kind : s \in subscribers[k] /\ watcher[k]

\* A subscriber leaves a manager only by its own unsubscribe or with notice of
\* a disconnect, but for one disconnect: that of which another subscriber of
\* the manager was told and threw, which leaves those after it dropped untold.
NoSilentLoss ==
  [][\A s \in Subscriber, k \in Kind :
       s \in subscribers[k] /\ s \notin subscribers'[k]
         => \/ Unsubscribe(s)
            \/ notice'[s] = "disconnected"
            \/ /\ faults' # faults
               /\ \E t \in subscribers[k] \ {s} : notice'[t] = "disconnected"]_vars
=============================================================================
