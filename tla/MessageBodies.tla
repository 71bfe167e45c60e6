---------------------------- MODULE MessageBodies ----------------------------
(***************************************************************************)
(* Message bodies as the client serves them: getEmailMessageWithBody reads *)
(* through the BodyCache, while deleteEmailMessages, deprovisioning, the   *)
(* deleted-message subscription and reset() purge it. The email service    *)
(* and S3 are external: they are modelled by what the client sees of them. *)
(* An activity p is one call of the client with the cache operation it     *)
(* leaves running behind it (`void cache.put`, `void Promise.all(...)`).   *)
(* The clock stands still: rows of one millisecond are evicted in any      *)
(* order, so every order is covered.                                       *)
(***************************************************************************)
EXTENDS BodyCache

VARIABLES
  exists,  \* messages the email service still has
  events,  \* deletions published to this client and not yet handled
  task,    \* where each client call is
  result,  \* what the last read of each activity came to, until it begins another
  purged,  \* history: purged after the deletion, with no read in flight
  readable \* messages whose body this device can decode: it has the keys

service == <<exists, events, task, result, purged, readable>>
allVars == <<vars, service>>

NoTask == [at |-> "none"]
NoResult == [msg |-> None, body |-> "none", late |-> FALSE]

\* late: the message was already deleted when the read began.
Read == [at : {"lookup", "cache", "download"}, msg : Message,
         address : Address, late : BOOLEAN]

Task ==
  {NoTask} \cup Read
    \cup [at : {"delete", "deleted"}, msg : Message]
    \cup [at : {"deprovision", "deprovisioned"}, address : Address]

\* A read resolves to the body or to undefined, or it throws: a request of its own
\* was rejected, the body cannot be decoded here, or the cache held it cut short.
Outcome == {"served", "undefined", "rejected", "unreadable", "cut"}

Result == {NoResult} \cup [msg : Message, body : Outcome, late : BOOLEAN]

ServiceTypeOK ==
  /\ TypeOK
  /\ exists \in SUBSET Message
  /\ events \in SUBSET Message
  /\ task \in [Proc -> Task]
  /\ result \in [Proc -> Result]
  /\ purged \in SUBSET Message
  /\ readable \in SUBSET Message

ServiceInit ==
  /\ Init
  /\ exists = Message
  /\ events = {}
  /\ task = [p \in Proc |-> NoTask]
  /\ result = [p \in Proc |-> NoResult]
  /\ purged = {}
  /\ readable = Message

Free(p) == task[p] = NoTask /\ op[p] = Idle

Begin(p, next) == Free(p) /\ task' = [task EXCEPT ![p] = next]
Advance(p, next) == task' = [task EXCEPT ![p] = next]

Resolve(p, body) ==
  /\ Advance(p, NoTask)
  /\ result' = [result EXCEPT ![p] =
       [msg |-> task[p].msg, body |-> body, late |-> task[p].late]]

cache == <<adapter, limit, savedLimit, store, now, faults, crashes>>

-----------------------------------------------------------------------------
(* getEmailMessageWithBody *)

ReadMessage(p, m, a) ==
  /\ Begin(p, [at |-> "lookup", msg |-> m, address |-> a, late |-> m \notin exists])
  /\ result' = [result EXCEPT ![p] = NoResult]
  /\ UNCHANGED <<vars, exists, events, purged, readable>>

\* The message is gone, or belongs to another address.
LookupUnknown(p) ==
  /\ task[p].at = "lookup"
  /\ task[p].msg \notin exists \/ AddressOf[task[p].msg] # task[p].address
  /\ Resolve(p, "undefined")
  /\ UNCHANGED <<vars, exists, events, purged, readable>>

\* The request for the metadata is rejected, and the read throws.
LookupRejected(p) ==
  /\ task[p].at = "lookup"
  /\ Resolve(p, "rejected")
  /\ UNCHANGED <<vars, exists, events, purged, readable>>

\* Variant: the cache is asked before the service is.
LookupCacheFirst(p) ==
  /\ task[p].at = "lookup"
  /\ Advance(p, [task[p] EXCEPT !.at = "cache"])
  /\ Goto(p, [at |-> "get", msg |-> task[p].msg])
  /\ UNCHANGED <<cache, exists, events, result, purged, readable>>

\* The service answers with the metadata; the cache is asked for the body.
LookupFound(p) ==
  /\ task[p].at = "lookup"
  /\ task[p].msg \in exists
  /\ AddressOf[task[p].msg] = task[p].address
  /\ Advance(p, [task[p] EXCEPT !.at = "cache"])
  /\ Goto(p, [at |-> "get", msg |-> task[p].msg])
  /\ UNCHANGED <<cache, exists, events, result, purged, readable>>

\* Variant: what the cache returned is handed on undecoded.
CacheHitUndecoded(p) ==
  /\ task[p].at = "cache"
  /\ op[p].at = "returned"
  /\ op[p].body # "absent"
  /\ Resolve(p, op[p].body)
  /\ Finish(p)
  /\ UNCHANGED <<cache, exists, events, purged, readable>>

\* What decoding a body comes to, whole or cut short. Unsealing looks for the key
\* some awaits later; a key that goes meanwhile might as well have gone before.
Decoded(m, body) ==
  CASE m \notin readable -> "unreadable"
    [] m \in readable /\ body = "whole" -> "served"
    [] OTHER -> "cut"

CacheHit(p) ==
  /\ task[p].at = "cache"
  /\ op[p].at = "returned"
  /\ op[p].body # "absent"
  /\ Resolve(p, Decoded(task[p].msg, op[p].body))
  /\ Finish(p)
  /\ UNCHANGED <<cache, exists, events, purged, readable>>

\* Variant: a miss asks the cache again.
CacheMissRetries(p) ==
  /\ task[p].at = "cache"
  /\ op[p].at = "returned"
  /\ op[p].body = "absent"
  /\ Goto(p, [at |-> "get", msg |-> task[p].msg])
  /\ UNCHANGED <<cache, task, exists, events, result, purged, readable>>

CacheMiss(p) ==
  /\ task[p].at = "cache"
  /\ op[p].at = "returned"
  /\ op[p].body = "absent"
  /\ Advance(p, [task[p] EXCEPT !.at = "download"])
  /\ Finish(p)
  /\ UNCHANGED <<cache, exists, events, result, purged, readable>>

\* The object arrives. The put is not awaited, nor does it wait for the decoding: a
\* body that cannot be decoded is cached as well. An object may outlive its message
\* for a while.
Downloaded(p) ==
  /\ task[p].at = "download"
  /\ Resolve(p, Decoded(task[p].msg, "whole"))
  /\ Goto(p, [at |-> "put", msg |-> task[p].msg])
  /\ UNCHANGED <<cache, exists, events, purged, readable>>

\* S3 fails in any other way than by missing the key, or gives no body.
DownloadRejected(p) ==
  /\ task[p].at = "download"
  /\ Resolve(p, "rejected")
  /\ UNCHANGED <<vars, exists, events, purged, readable>>

\* S3 has no such key any more.
DownloadMissing(p) ==
  /\ task[p].at = "download"
  /\ task[p].msg \notin exists
  /\ Resolve(p, "undefined")
  /\ UNCHANGED <<vars, exists, events, purged, readable>>

-----------------------------------------------------------------------------
(* Deletions *)

DeleteMessages(p, m) ==
  /\ Begin(p, [at |-> "delete", msg |-> m])
  /\ UNCHANGED <<vars, exists, events, result, purged, readable>>

\* The service deletes the message, and tells every subscribed client.
ServiceDeletes(p) ==
  LET m == task[p].msg IN
  /\ task[p].at = "delete"
  /\ exists' = exists \ {m}
  /\ events' = events \cup ({m} \cap exists)
  /\ Advance(p, [at |-> "deleted", msg |-> m])
  /\ UNCHANGED <<vars, result, purged, readable>>

\* The message is among the failure ids: nothing is purged.
DeleteRefused(p) ==
  /\ task[p].at = "delete"
  /\ Advance(p, NoTask)
  /\ UNCHANGED <<vars, exists, events, result, purged, readable>>

\* The use case purges the successful ids without waiting.
DeleteAnswered(p) ==
  /\ task[p].at = "deleted"
  /\ Advance(p, NoTask)
  /\ Goto(p, [at |-> "delete", msg |-> task[p].msg])
  /\ UNCHANGED <<cache, exists, events, result, purged, readable>>

Deprovision(p, a) ==
  /\ Begin(p, [at |-> "deprovision", address |-> a])
  /\ UNCHANGED <<vars, exists, events, result, purged, readable>>

\* Deprovisioning an address ends the life of its messages.
ServiceDeprovisions(p) ==
  /\ task[p].at = "deprovision"
  /\ exists' = {m \in exists : AddressOf[m] # task[p].address}
  /\ Advance(p, [at |-> "deprovisioned", address |-> task[p].address])
  /\ UNCHANGED <<vars, events, result, purged, readable>>

\* The key pairs of the address go, unless its pair is shared (DeviceKeys has both);
\* then its bodies are purged.
DeprovisionAnswered(p) ==
  /\ task[p].at = "deprovisioned"
  /\ Advance(p, NoTask)
  /\ readable' \in {readable, {m \in readable : AddressOf[m] # task[p].address}}
  /\ Goto(p, [at |-> "flush",
              input |-> [sudo |-> None, address |-> task[p].address]])
  /\ UNCHANGED <<cache, exists, events, result, purged>>

\* The request is carried out and its answer lost: the call throws.
AnswerLost(p) ==
  /\ task[p].at \in {"deleted", "deprovisioned"}
  /\ Advance(p, NoTask)
  /\ UNCHANGED <<vars, exists, events, result, purged, readable>>

\* Another client of the owner deletes a message.
DeletedElsewhere(m) ==
  /\ m \in exists
  /\ exists' = exists \ {m}
  /\ events' = events \cup {m}
  /\ UNCHANGED <<vars, task, result, purged, readable>>

\* onEmailMessageDeleted: unsealed, handed to the subscribers, then purged.
DeletionEvent(p, m) ==
  /\ Free(p)
  /\ m \in events
  /\ events' = events \ {m}
  /\ Goto(p, [at |-> "delete", msg |-> m])
  /\ UNCHANGED <<cache, exists, task, result, purged, readable>>

\* No stream is open, the key lookup throws, or a subscriber throws first.
DeletionEventLost(m) ==
  /\ m \in events
  /\ events' = events \ {m}
  /\ UNCHANGED <<vars, exists, task, result, purged, readable>>

-----------------------------------------------------------------------------
(* The cache and the keys *)

\* flushMessageBodyCache and setCacheSizeLimit go straight to the cache.
UserCall(p) ==
  /\ task[p] = NoTask
  /\ \E call \in Calls : call.at \in {"flush", "setLimit"} /\ Call(p, call)
  /\ UNCHANGED service

\* reset() removes every key, and then flushes the cache.
Reset(p) ==
  /\ task[p] = NoTask
  /\ Call(p, [at |-> "flushAll"])
  /\ readable' = {}
  /\ UNCHANGED <<exists, events, task, result, purged>>

\* Keys come with importKeys, or with a device that has them; they go when reset()
\* or a deprovisioning fails half way, before it comes to the cache.
KeysChange ==
  /\ readable' \in SUBSET Message
  /\ UNCHANGED <<vars, exists, events, task, result, purged>>

\* A read that has its metadata will still cache what it downloads.
InFlight(m) ==
  \E p \in Proc :
    \/ task[p].at \in {"cache", "download"} /\ task[p].msg = m
    \/ op[p].at \in {"put", "store"} /\ op[p].msg = m

PurgeScope(p) ==
  CASE op[p].at = "delete" /\ IsCacheActive -> {op[p].msg}
    [] op[p].at = "flush" /\ IsCacheActive /\ op[p].input.sudo = None ->
         {m \in Message : AddressOf[m] = op[p].input.address}
    [] op[p].at = "flushAll" /\ IsCacheActive -> Message
    [] OTHER -> {}

CacheBlock(p) ==
  /\ Block(p)
  /\ purged' = purged \cup {m \in PurgeScope(p) \ exists : ~InFlight(m)}
  /\ UNCHANGED <<exists, events, task, result, readable>>

CacheFailure(p) ==
  /\ SetLimitFails(p) \/ BlockFails(p)
  /\ UNCHANGED service

StartCache == (Initialise \/ InitialiseFails) /\ UNCHANGED service

\* The process dies with its calls; the service and what it did remain.
ClientCrash ==
  /\ Crash
  /\ task' = [p \in Proc |-> NoTask]
  /\ events' = {}
  /\ UNCHANGED <<exists, result, purged, readable>>

-----------------------------------------------------------------------------

ReadStep(p) ==
  \/ LookupUnknown(p) \/ LookupFound(p) \/ LookupRejected(p)
  \/ CacheHit(p) \/ CacheMiss(p)
  \/ Downloaded(p) \/ DownloadMissing(p) \/ DownloadRejected(p)

DeleteStep(p) ==
  \/ ServiceDeletes(p) \/ DeleteRefused(p) \/ DeleteAnswered(p)
  \/ ServiceDeprovisions(p) \/ DeprovisionAnswered(p) \/ AnswerLost(p)

Begins(p) ==
  \/ \E m \in Message, a \in Address : ReadMessage(p, m, a)
  \/ \E m \in Message : DeleteMessages(p, m) \/ DeletionEvent(p, m)
  \/ \E a \in Address : Deprovision(p, a)
  \/ UserCall(p) \/ Reset(p)

ServiceNext ==
  \/ \E p \in Proc :
       Begins(p) \/ ReadStep(p) \/ DeleteStep(p) \/ CacheBlock(p) \/ CacheFailure(p)
  \/ \E m \in Message : DeletedElsewhere(m) \/ DeletionEventLost(m)
  \/ KeysChange
  \/ StartCache
  \/ ClientCrash

ServiceSpec == ServiceInit /\ [][ServiceNext]_allVars

\* Requests are answered, and the event loop runs what is queued.
ServiceFairness ==
  /\ WF_allVars(StartCache)
  /\ \A p \in Proc : WF_allVars(ReadStep(p)) /\ WF_allVars(CacheBlock(p))

FairServiceSpec == ServiceSpec /\ ServiceFairness

-----------------------------------------------------------------------------
(* Properties *)

\* A read that begins after the deletion of its message never serves a body,
\* however stale the cache: the metadata is looked up first.
LateReadsServeNothing ==
  \A p \in Proc : result[p].body = "served" => ~result[p].late

\* The cache never shows in what reads come to: with any number of calls under way,
\* failures, restarts, deletions and key losses, reads end as those of a mailbox that
\* knows no cache. A read throws when a request of its own is rejected, when this
\* device cannot decode the body, and for no other reason until a cache call or the
\* process has failed; one that throws for want of a key could not have been served.
Uncached == INSTANCE Mailbox WITH
  reading <- [p \in Proc |->
    IF task[p].at \in {"lookup", "cache", "download"}
    THEN [msg |-> task[p].msg, address |-> task[p].address, late |-> task[p].late]
    ELSE [msg |-> None, address |-> None, late |-> FALSE]],
  failures <- faults + crashes

CacheIsTransparent == Uncached!Spec

\* A body purged after its deletion, while no read of it was in flight,
\* never returns to the cache: not through put, restart or a failed block.
PurgedStaysGone == purged \cap rows = {}

\* emailMessageBodyCache.ts: "a cache failure must never prevent message
\* retrieval".
CacheNeverBreaksRetrieval == \A p \in Proc : result[p].body # "cut"

\* With one call at a time, no single failing file or SQL call and no single
\* crash makes a later read of the body fail: putEntry writes the file before
\* the row, and getEntry drops a row whose file is gone.
OneFailureTolerated == faults + crashes <= 1 => CacheNeverBreaksRetrieval

\* Every read comes to a result, through misses, stale rows, failing cache
\* calls and deletions of the message on the way.
ReadsEnd ==
  \A p \in Proc : task[p].at \in {"lookup", "cache", "download"} ~> task[p] = NoTask
=============================================================================
