------------------------------ MODULE BodyCache ------------------------------
(***************************************************************************)
(* The local cache of sealed message bodies, as a Node process runs it:    *)
(* LazyEmailMessageBodyCache in front of DefaultEmailMessageBodyCache over  *)
(* BetterSqlite3Adapter.                                                   *)
(*                                                                         *)
(* JavaScript runs one task at a time and gives way only at an `await`.    *)
(* Every adapter call is synchronous inside, so a cache operation is a      *)
(* sequence of atomic blocks that ends at each await; op[p] says which     *)
(* block activity p runs next, and any number of activities interleave.     *)
(* A crash of the process may fall inside a block, and any file or SQL     *)
(* call may fail: Tear gives what is then left on disk.                    *)
(***************************************************************************)
EXTENDS Integers, FiniteSets

CONSTANTS
  Message,       \* identifiers of messages whose bodies may be cached
  Proc,          \* activities that may be in a cache operation at once
  Sudo, Address, \* owners that a flush may name
  SudoOf,        \* the sudo stored in the row of a message, or None
  AddressOf,     \* the email address stored in the row of a message
  Bytes,         \* size_bytes summed over a set of messages
  Threshold,     \* largeMessageThresholdBytes
  Limit,         \* the cache size limits callers may set
  InitialLimit,  \* initialCacheSizeLimitBytes
  None,          \* undefined
  MaxTime,       \* bound: readings of Date.now()
  MaxFaults,     \* bound: file or SQL calls that fail
  MaxCrashes     \* bound: crashes of the process

ASSUME ProcAssumption == IsFiniteSet(Proc) /\ Proc # {}

ASSUME OwnerAssumption ==
  /\ None \notin Sudo \cup Address \cup Limit
  /\ SudoOf \in [Message -> Sudo \cup {None}]
  /\ AddressOf \in [Message -> Address]

\* Bytes is the sum of the sizes of its members: SELECT SUM(size_bytes).
ASSUME BytesAssumption ==
  /\ Bytes \in [SUBSET Message -> Nat]
  /\ Bytes[{}] = 0
  /\ \A S, T \in SUBSET Message :
       S \cap T = {} => Bytes[S \cup T] = Bytes[S] + Bytes[T]

ASSUME LimitAssumption ==
  /\ Limit \subseteq Nat
  /\ InitialLimit \in Limit
  /\ Threshold \in Nat

ASSUME BoundAssumption == {MaxTime, MaxFaults, MaxCrashes} \subseteq Nat

VARIABLES
  adapter,     \* "starting" until cachePromise settles, then "up" or "failed"
  limit,       \* cacheSizeLimitBytes, the copy in memory
  savedLimit,  \* the value in the settings table, None before the first
  rows,        \* messages with a row in the cache table
  accessedAt,  \* last_accessed_at of each row, 0 where there is none
  blob,        \* blobs/<id>.blob: absent, cut short, or complete
  op,          \* what each activity does next
  now,         \* Date.now()
  faults,      \* how many calls have failed
  crashes      \* how often the process has died

store == <<rows, accessedAt, blob>>
vars == <<adapter, limit, savedLimit, store, op, now, faults, crashes>>

-----------------------------------------------------------------------------

Size(m) == Bytes[{m}]

\* A body above the threshold is kept in a file of its own, not in the row.
Large(m) == Size(m) > Threshold

Blob == {"absent", "partial", "whole"}

Idle == [at |-> "idle"]

\* What a get resolves to: a body read whole or cut short, or undefined.
Returned(m, body) == [at |-> "returned", msg |-> m, body |-> body]

\* An input that names neither owner is rejected before anything happens.
FlushInput ==
  {input \in [sudo : Sudo \cup {None}, address : Address \cup {None}] :
     input.sudo # None \/ input.address # None}

Op ==
  {Idle}
    \cup [at : {"get", "put", "store", "delete"}, msg : Message]
    \cup [at : {"returned"}, msg : Message, body : Blob]
    \cup [at : {"flush", "flushAddress"}, input : FlushInput]
    \cup [at : {"flushAll"}]
    \cup [at : {"setLimit", "shrink"}, bytes : Limit]

\* Every public operation, as the cache is called: LazyEmailMessageBodyCache
\* awaits cachePromise before it delegates, so each starts in a later task.
Calls ==
  [at : {"get", "put", "delete"}, msg : Message]
    \cup [at : {"flush"}, input : FlushInput]
    \cup [at : {"flushAll"}]
    \cup [at : {"setLimit"}, bytes : Limit]

IsCacheActive == adapter = "up" /\ limit > 0

WithoutBlobs(S) == [m \in Message |-> IF m \in S THEN "absent" ELSE blob[m]]

\* Files of the given rows are unlinked one at a time.
PartlyUnlinked(S) == {WithoutBlobs(T) : T \in SUBSET {m \in S : Large(m)}}

Owned(input) == {m \in rows : SudoOf[m] # None /\ SudoOf[m] = input.sudo}
Addressed(input) == {m \in rows : AddressOf[m] = input.address}

\* What the first block of flush removes.
Flushed(input) == IF input.sudo # None THEN Owned(input) ELSE Addressed(input)

\* Variant: the loop stops one row late, when the limit is undercut.
KeptBelow(incoming, max) ==
  {K \in SUBSET rows :
     LET victims == rows \ K IN
     /\ K = {} \/ Bytes[K] + incoming < max
     /\ \A v \in victims, k \in K : accessedAt[v] <= accessedAt[k]
     /\ victims # {} =>
          \E last \in victims :
            /\ \A v \in victims : accessedAt[v] <= accessedAt[last]
            /\ Bytes[K \cup {last}] + incoming >= max}

\* What evictLRU may leave: it deletes the row with the oldest access until
\* the rest and the incoming bytes fit or no row is left; rows of the same
\* millisecond go in any order.
Kept(incoming, max) ==
  {K \in SUBSET rows :
     LET victims == rows \ K IN
     /\ K = {} \/ Bytes[K] + incoming <= max
     /\ \A v \in victims, k \in K : accessedAt[v] <= accessedAt[k]
     /\ victims # {} =>
          \E last \in victims :
            /\ \A v \in victims : accessedAt[v] <= accessedAt[last]
            /\ Bytes[K \cup {last}] + incoming > max}

-----------------------------------------------------------------------------

Init ==
  /\ adapter = "starting"
  /\ limit = InitialLimit
  /\ savedLimit = None
  /\ rows = {}
  /\ accessedAt = [m \in Message |-> 0]
  /\ blob = [m \in Message |-> "absent"]
  /\ op = [p \in Proc |-> Idle]
  /\ now = 0
  /\ faults = 0
  /\ crashes = 0

Goto(p, next) == op' = [op EXCEPT ![p] = next]
Finish(p) == Goto(p, Idle)

Fault == faults < MaxFaults /\ faults' = faults + 1

\* Rows are deleted and the files they name unlinked. A failing unlink is
\* ignored and leaves its file behind.
Remove(S) ==
  /\ rows' = rows \ S
  /\ accessedAt' = [m \in Message |-> IF m \in S THEN 0 ELSE accessedAt[m]]
  /\ \/ blob' = WithoutBlobs({m \in S : Large(m)}) /\ UNCHANGED faults
     \/ blob' \in PartlyUnlinked(S) /\ Fault

-----------------------------------------------------------------------------
(* Start-up *)

\* Variant: a missing settings row is read as a limit.
InitialiseUnset ==
  /\ adapter = "starting"
  /\ adapter' = "up"
  /\ limit' = savedLimit
  /\ UNCHANGED <<savedLimit, store, op, now, faults, crashes>>

\* Variant: the settings row is read but does not reach memory.
InitialiseDefault ==
  /\ adapter = "starting"
  /\ adapter' = "up"
  /\ savedLimit' = IF savedLimit = None THEN limit ELSE savedLimit
  /\ UNCHANGED <<limit, store, op, now, faults, crashes>>

\* initAdapter: the persisted limit wins over the default, which is saved
\* when there is none.
Initialise ==
  /\ adapter = "starting"
  /\ adapter' = "up"
  /\ limit' = IF savedLimit = None THEN limit ELSE savedLimit
  /\ savedLimit' = limit'
  /\ UNCHANGED <<store, op, now, faults, crashes>>

\* The adapter cannot be created: every later operation is a no-op.
InitialiseFails ==
  /\ adapter = "starting"
  /\ adapter' = "failed"
  /\ Fault
  /\ UNCHANGED <<limit, savedLimit, store, op, now, crashes>>

-----------------------------------------------------------------------------
(* Calls and their blocks *)

Call(p, call) ==
  /\ op[p] = Idle
  /\ Goto(p, call)
  /\ UNCHANGED <<adapter, limit, savedLimit, store, now, faults, crashes>>

\* Variant: a put waits for a cache that is disabled or failed to start.
InactiveUnlessPut(p) ==
  /\ op[p].at \in {"get", "delete", "flush", "flushAll"}
  /\ adapter # "starting"
  /\ ~IsCacheActive
  /\ Goto(p, IF op[p].at = "get" THEN Returned(op[p].msg, "absent") ELSE Idle)
  /\ UNCHANGED <<adapter, limit, savedLimit, store, now, faults, crashes>>

\* An operation that finds the cache inactive returns at once.
Inactive(p) ==
  /\ op[p].at \in {"get", "put", "delete", "flush", "flushAll"}
  /\ adapter # "starting"
  /\ ~IsCacheActive
  /\ Goto(p, IF op[p].at = "get" THEN Returned(op[p].msg, "absent") ELSE Idle)
  /\ UNCHANGED <<adapter, limit, savedLimit, store, now, faults, crashes>>

\* getEntry finds no row.
GetMiss(p) ==
  /\ op[p].at = "get"
  /\ IsCacheActive
  /\ op[p].msg \notin rows
  /\ Goto(p, Returned(op[p].msg, "absent"))
  /\ UNCHANGED <<adapter, limit, savedLimit, store, now, faults, crashes>>

\* getEntry finds the content, inline or in the file, and stamps the row.
GetHit(p) ==
  LET m == op[p].msg IN
  /\ op[p].at = "get"
  /\ IsCacheActive
  /\ m \in rows
  /\ Large(m) => blob[m] # "absent"
  /\ accessedAt' = [accessedAt EXCEPT ![m] = now]
  /\ Goto(p, Returned(m, IF Large(m) THEN blob[m] ELSE "whole"))
  /\ UNCHANGED <<adapter, limit, savedLimit, rows, blob, now, faults, crashes>>

\* getEntry cannot read the file of the row, and deletes the row.
GetStale(p) ==
  LET m == op[p].msg IN
  /\ op[p].at = "get"
  /\ IsCacheActive
  /\ m \in rows /\ Large(m)
  /\ \/ blob[m] = "absent" /\ UNCHANGED faults
     \/ Fault
  /\ rows' = rows \ {m}
  /\ accessedAt' = [accessedAt EXCEPT ![m] = 0]
  /\ Goto(p, Returned(m, "absent"))
  /\ UNCHANGED <<adapter, limit, savedLimit, blob, now, crashes>>

\* The caller's continuation takes the result of its get.
TakeResult(p) ==
  /\ op[p].at = "returned"
  /\ Finish(p)
  /\ UNCHANGED <<adapter, limit, savedLimit, store, now, faults, crashes>>

\* put: a body above the limit is never cached.
PutOversize(p) ==
  /\ op[p].at = "put"
  /\ IsCacheActive
  /\ Size(op[p].msg) > limit
  /\ Finish(p)
  /\ UNCHANGED <<adapter, limit, savedLimit, store, now, faults, crashes>>

\* Variant: the eviction does not count the incoming body.
PutEvictWithoutIncoming(p) ==
  LET m == op[p].msg IN
  /\ op[p].at = "put"
  /\ IsCacheActive
  /\ Size(m) <= limit
  /\ \E K \in Kept(0, limit) : Remove(rows \ K)
  /\ Goto(p, [at |-> "store", msg |-> m])
  /\ UNCHANGED <<adapter, limit, savedLimit, now, crashes>>

\* put, up to its first await: room is made under the limit of this moment.
PutEvict(p) ==
  LET m == op[p].msg IN
  /\ op[p].at = "put"
  /\ IsCacheActive
  /\ Size(m) <= limit
  /\ \E K \in Kept(Size(m), limit) : Remove(rows \ K)
  /\ Goto(p, [at |-> "store", msg |-> m])
  /\ UNCHANGED <<adapter, limit, savedLimit, now, crashes>>

\* put, after the await: putEntry. Nothing is checked again.
PutStore(p) ==
  LET m == op[p].msg IN
  /\ op[p].at = "store"
  /\ rows' = rows \cup {m}
  /\ accessedAt' = [accessedAt EXCEPT ![m] = now]
  /\ blob' = IF Large(m) THEN [blob EXCEPT ![m] = "whole"] ELSE blob
  /\ Finish(p)
  /\ UNCHANGED <<adapter, limit, savedLimit, now, faults, crashes>>

\* Variant: the row goes and its file stays.
DeleteRowOnly(p) ==
  /\ op[p].at = "delete"
  /\ IsCacheActive
  /\ rows' = rows \ {op[p].msg}
  /\ accessedAt' = [accessedAt EXCEPT ![op[p].msg] = 0]
  /\ Finish(p)
  /\ UNCHANGED <<adapter, limit, savedLimit, blob, now, faults, crashes>>

\* Variant: the file goes and the row stays.
DeleteFileOnly(p) ==
  /\ op[p].at = "delete"
  /\ IsCacheActive
  /\ blob' = WithoutBlobs({op[p].msg})
  /\ Finish(p)
  /\ UNCHANGED <<adapter, limit, savedLimit, rows, accessedAt, now, faults, crashes>>

DeleteMessage(p) ==
  /\ op[p].at = "delete"
  /\ IsCacheActive
  /\ Remove(rows \cap {op[p].msg})
  /\ Finish(p)
  /\ UNCHANGED <<adapter, limit, savedLimit, now, crashes>>

\* flush, first block: by sudo when there is one, otherwise by address.
Flush(p) ==
  LET input == op[p].input IN
  /\ op[p].at = "flush"
  /\ IsCacheActive
  /\ Remove(Flushed(input))
  /\ IF input.sudo # None /\ input.address # None
       THEN Goto(p, [at |-> "flushAddress", input |-> input])
       ELSE Finish(p)
  /\ UNCHANGED <<adapter, limit, savedLimit, now, crashes>>

\* flush, second block: the activity check is not repeated.
FlushAddress(p) ==
  /\ op[p].at = "flushAddress"
  /\ Remove(Addressed(op[p].input))
  /\ Finish(p)
  /\ UNCHANGED <<adapter, limit, savedLimit, now, crashes>>

\* adapter.flushAll: every file of the directory goes, whether a row names
\* it or not; the first unlink that fails ends the unlinking, not the delete.
ClearAll ==
  /\ rows' = {}
  /\ accessedAt' = [m \in Message |-> 0]
  /\ \/ blob' = WithoutBlobs(Message) /\ UNCHANGED faults
     \/ blob' \in PartlyUnlinked(Message) /\ Fault

FlushAll(p) ==
  /\ op[p].at = "flushAll"
  /\ IsCacheActive
  /\ ClearAll
  /\ Finish(p)
  /\ UNCHANGED <<adapter, limit, savedLimit, now, crashes>>

\* setCacheSizeLimit, up to its first await: memory, then the settings row.
SetLimit(p) ==
  /\ op[p].at = "setLimit"
  /\ adapter # "starting"
  /\ limit' = op[p].bytes
  /\ IF adapter = "up"
       THEN /\ savedLimit' = op[p].bytes
            /\ Goto(p, [at |-> "shrink", bytes |-> op[p].bytes])
       ELSE UNCHANGED savedLimit /\ Finish(p)
  /\ UNCHANGED <<adapter, store, now, faults, crashes>>

\* The settings row cannot be written; the error is swallowed.
SetLimitFails(p) ==
  /\ op[p].at = "setLimit"
  /\ adapter = "up"
  /\ limit' = op[p].bytes
  /\ Finish(p)
  /\ Fault
  /\ UNCHANGED <<adapter, savedLimit, store, now, crashes>>

\* setCacheSizeLimit, after the await: down to the bytes it was called with.
Shrink(p) ==
  LET bytes == op[p].bytes IN
  /\ op[p].at = "shrink"
  /\ \/ bytes = 0 /\ ClearAll
     \/ bytes > 0 /\ \E K \in Kept(0, bytes) : Remove(rows \ K)
  /\ Finish(p)
  /\ UNCHANGED <<adapter, limit, savedLimit, now, crashes>>

-----------------------------------------------------------------------------
(* Failures *)

\* What p's next block may leave on disk when it is cut short: it changes
\* files first and rows last, in one statement or one transaction.
Tear(p) ==
  \/ UNCHANGED blob
  \/ /\ op[p].at = "put" /\ IsCacheActive /\ Size(op[p].msg) <= limit
     /\ \E K \in Kept(Size(op[p].msg), limit) : blob' \in PartlyUnlinked(rows \ K)
  \/ /\ op[p].at = "store" /\ Large(op[p].msg)
     /\ \E b \in {"partial", "whole"} : blob' = [blob EXCEPT ![op[p].msg] = b]
  \/ /\ op[p].at = "delete" /\ IsCacheActive
     /\ blob' \in PartlyUnlinked(rows \cap {op[p].msg})
  \/ /\ op[p].at = "flush" /\ IsCacheActive
     /\ blob' \in PartlyUnlinked(Flushed(op[p].input))
  \/ /\ op[p].at = "flushAddress"
     /\ blob' \in PartlyUnlinked(Addressed(op[p].input))
  \/ /\ op[p].at = "flushAll" /\ IsCacheActive
     /\ blob' \in PartlyUnlinked(Message)
  \/ /\ op[p].at = "shrink" /\ op[p].bytes = 0
     /\ blob' \in PartlyUnlinked(Message)
  \/ /\ op[p].at = "shrink" /\ op[p].bytes > 0
     /\ \E K \in Kept(0, op[p].bytes) : blob' \in PartlyUnlinked(rows \ K)

\* Variant: putEntry inserts the row before it writes the file.
BlockFailsAfterRow(p) ==
  /\ op[p].at \in {"get", "put", "delete", "flush", "flushAll"} => IsCacheActive
  /\ op[p].at = "put" => Size(op[p].msg) <= limit
  /\ op[p].at \notin {"idle", "returned", "setLimit"}
  /\ Goto(p, IF op[p].at = "get" THEN Returned(op[p].msg, "absent") ELSE Idle)
  /\ Tear(p)
  /\ Fault
  /\ rows' = IF op[p].at = "store" THEN rows \cup {op[p].msg} ELSE rows
  /\ UNCHANGED <<adapter, limit, savedLimit, accessedAt, now, crashes>>

\* A file or SQL call throws; the operation logs the error and resolves.
BlockFails(p) ==
  /\ op[p].at \in {"get", "put", "delete", "flush", "flushAll"} => IsCacheActive
  /\ op[p].at = "put" => Size(op[p].msg) <= limit
  /\ op[p].at \notin {"idle", "returned", "setLimit"}
  /\ Goto(p, IF op[p].at = "get" THEN Returned(op[p].msg, "absent") ELSE Idle)
  /\ Tear(p)
  /\ Fault
  /\ UNCHANGED <<adapter, limit, savedLimit, rows, accessedAt, now, crashes>>

\* The process dies, between blocks or inside one, and is started again.
Crash ==
  /\ crashes < MaxCrashes
  /\ crashes' = crashes + 1
  /\ UNCHANGED blob \/ \E p \in Proc : Tear(p)
  /\ adapter' = "starting"
  /\ limit' = InitialLimit
  /\ op' = [p \in Proc |-> Idle]
  /\ UNCHANGED <<savedLimit, rows, accessedAt, now, faults>>

Tick ==
  /\ now < MaxTime
  /\ now' = now + 1
  /\ UNCHANGED <<adapter, limit, savedLimit, store, op, faults, crashes>>

-----------------------------------------------------------------------------

Block(p) ==
  \/ Inactive(p)
  \/ GetMiss(p) \/ GetHit(p) \/ GetStale(p)
  \/ PutOversize(p) \/ PutEvict(p) \/ PutStore(p)
  \/ DeleteMessage(p)
  \/ Flush(p) \/ FlushAddress(p) \/ FlushAll(p)
  \/ SetLimit(p) \/ Shrink(p)

CacheStep ==
  \/ Initialise
  \/ InitialiseFails
  \/ \E p \in Proc : Block(p) \/ SetLimitFails(p) \/ BlockFails(p)

Next ==
  \/ CacheStep
  \/ \E p \in Proc : TakeResult(p) \/ \E call \in Calls : Call(p, call)
  \/ Crash
  \/ Tick

Spec == Init /\ [][Next]_vars

-----------------------------------------------------------------------------
(* Properties *)

TypeOK ==
  /\ adapter \in {"starting", "up", "failed"}
  /\ limit \in Limit
  /\ savedLimit \in Limit \cup {None}
  /\ rows \in SUBSET Message
  /\ accessedAt \in [Message -> 0..MaxTime]
  /\ blob \in [Message -> Blob]
  /\ op \in [Proc -> Op]
  /\ now \in 0..MaxTime
  /\ faults \in 0..MaxFaults
  /\ crashes \in 0..MaxCrashes

\* Bodies of the puts that have made room and not yet stored.
Pending == {op[p].msg : p \in {q \in Proc : op[q].at = "store"}}

\* However puts, flushes and limit changes interleave, fail or die, the rows
\* and the bodies about to join them never exceed some limit callers may set
\* by more than one body for every further activity: each put of
\* DefaultEmailMessageBodyCache makes room for itself alone.
OverrunBounded ==
  \E max \in Limit, S \in SUBSET Message :
    /\ Cardinality(S) < Cardinality(Proc)
    /\ Bytes[rows \cup Pending] <= max + Bytes[S]

\* While nothing has failed, the blobs directory of BetterSqlite3Adapter
\* holds a complete file for every large row, and no other file.
BlobsMatchRows ==
  faults = 0 /\ crashes = 0 =>
    \A m \in Message : blob[m] = IF m \in rows /\ Large(m) THEN "whole" ELSE "absent"

\* Crashes and restarts keep the limit in memory and the settings row equal,
\* unless a write of the settings row failed.
LimitInSync == adapter = "up" /\ faults = 0 => limit = savedLimit

AtRest == adapter = "up" /\ \A p \in Proc : op[p].at \in {"idle", "returned"}

\* emailMessageBodyCache.ts, put: room is made "to ensure the total cached
\* size does not exceed the limit".
TotalWithinLimit == AtRest => Bytes[rows] <= limit

\* With one operation at a time, and nothing failing, the cache is the store
\* that emailMessageBodyCache.ts documents.
Promise == INSTANCE BoundedStore WITH
  entries <- rows,
  shrinking <- \E p \in Proc : op[p].at = "shrink"

KeepsPromise == Promise!Spec

\* evictLRU, as the loop it is: victim is what it deletes, one row after another,
\* each with the oldest access of those left; of one millisecond, any.
Left(victim, i) == rows \ {victim[j] : j \in 1..i}

Evicts(victim, n, incoming, max) ==
  /\ \A i \in 1..n :
       /\ Bytes[Left(victim, i - 1)] + incoming > max
       /\ victim[i] \in Left(victim, i - 1)
       /\ \A m \in Left(victim, i - 1) : accessedAt[victim[i]] <= accessedAt[m]
  /\ Left(victim, n) = {} \/ Bytes[Left(victim, n)] + incoming <= max

EvictLoop(incoming, max) ==
  {K \in SUBSET rows :
     \E n \in 0..Cardinality(rows) : \E victim \in [1..n -> rows] :
       Left(victim, n) = K /\ Evicts(victim, n, incoming, max)}

\* evictLRU leaves what its loop leaves: the fewest rows go, the least
\* recently accessed first, for every size that put and setCacheSizeLimit
\* ask for.
EvictsLeastRecent ==
  \A incoming \in {0} \cup {Size(m) : m \in Message}, max \in Limit :
    Kept(incoming, max) = EvictLoop(incoming, max)

\* Every cache operation ends: no error, eviction loop or early return of
\* DefaultEmailMessageBodyCache leaves its caller waiting.
OperationsEnd ==
  \A p \in Proc :
    op[p].at \notin {"idle", "returned"} ~> op[p].at \in {"idle", "returned"}
=============================================================================
