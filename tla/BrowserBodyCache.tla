--------------------------- MODULE BrowserBodyCache ---------------------------
(***************************************************************************)
(* The cache of sealed bodies in a browser: DefaultEmailMessageBodyCache   *)
(* over SqlJsAdapter, a database in the memory of a page that is exported  *)
(* whole to IndexedDB after every change and read back once, when a page   *)
(* opens.                                                                  *)
(*                                                                         *)
(* All pages of an origin share that one image. A page runs one operation  *)
(* that changes the cache at a time, and lookups beside it; what more      *)
(* concurrency does to limits and rows is in BodyCache. Accesses are at    *)
(* distinct times: rows are a sequence, the least recent first.            *)
(***************************************************************************)
EXTENDS Integers, Sequences, FiniteSets, SequencesExt, Subsequences

CONSTANTS
  Page,          \* pages of the origin that run the SDK
  Message,       \* identifiers of messages whose bodies may be cached
  Bytes,         \* size_bytes summed over a set of messages
  Flush,         \* what flushes remove: the messages of a sudo, or of an address, or
                 \* of the one after the other
  Limit,         \* the cache size limits callers may set
  InitialLimit,  \* initialCacheSizeLimitBytes
  None,
  MaxSaves,      \* bound: exports of a page under way
  MaxFaults      \* bound: loads and saves that fail

ASSUME BytesAssumption ==
  /\ Bytes \in [SUBSET Message -> Nat]
  /\ Bytes[{}] = 0
  /\ \A S, T \in SUBSET Message :
       S \cap T = {} => Bytes[S \cup T] = Bytes[S] + Bytes[T]
  /\ \A sets \in Flush : sets \in Seq(SUBSET Message) /\ sets # <<>>

ASSUME LimitAssumption ==
  /\ Limit \subseteq Nat /\ InitialLimit \in Limit /\ None \notin Limit
  /\ MaxSaves \in Nat \ {0} /\ MaxFaults \in Nat

VARIABLES
  page,    \* the memory of each page
  image,   \* what IndexedDB holds under INDEXEDDB_KEY
  gone,    \* history: bodies whose purge has resolved, and not put since, kept
           \* until two pages are open
  stale,   \* history: a change of the last page to make one is not in the image
  shared,  \* history: two pages were open at once
  faults

vars == <<page, image, gone, stale, shared, faults>>

\* rows and settings are the database, limit is cacheSizeLimitBytes; saves are
\* the exports on their way, and the operation waits for that many of them.
Closed ==
  [op |-> [at |-> "closed"], rows |-> <<>>, settings |-> None, limit |-> InitialLimit,
   disabled |-> FALSE, saves |-> <<>>, waits |-> 0]

Idle == [at |-> "idle"]
NoImage == [rows |-> <<>>, settings |-> None]

Init ==
  /\ page = [p \in Page |-> Closed]
  /\ image = NoImage
  /\ gone = {} /\ stale = FALSE /\ shared = FALSE
  /\ faults = 0

Open(p) == page[p].op.at # "closed"
Up(p) == page[p].op.at \notin {"closed", "initialise"}

\* The operation of a page may go on when what it has awaited is settled.
Resumes(p, at) == page[p].op.at = at /\ page[p].waits = 0

\* A change of one page; one that cannot be saved any more leaves the image behind.
Becomes(p, s) ==
  /\ page' = [page EXCEPT ![p] = s]
  /\ stale' = (stale \/ s.disabled)

Fault == faults < MaxFaults /\ faults' = faults + 1

-----------------------------------------------------------------------------
(* SqlJsAdapter *)

\* persist: the database is exported as it is now, unless that has failed before.
Persist(s) ==
  IF s.disabled THEN s
  ELSE [s EXCEPT !.saves = Append(@, [rows |-> s.rows, settings |-> s.settings]),
                 !.waits = Len(s.saves) + 1]

Without(rows, S) == Pick(rows, {i \in DOMAIN rows : rows[i] \notin S})

Touch(rows, m) == Append(Without(rows, {m}), m)

\* Variant: the deletion is not saved.
DeleteUnsaved(s, S) == [s EXCEPT !.rows = Without(@, S)]

\* deleteEntry, flushBySudoId, flushByEmailAddressId, flushAll
Delete(s, S) == Persist([s EXCEPT !.rows = Without(@, S)])

\* Variant: the size of the incoming body is not counted.
EvictForOld(s, incoming) ==
  LET rest(k) == SubSeq(s.rows, k + 1, Len(s.rows))
      fits == {k \in 0..Len(s.rows) : rest(k) = <<>> \/ Bytes[ToSet(rest(k))] <= s.limit}
  IN Persist([s EXCEPT !.rows = rest(Min(fits))])

\* evictLRU: rows go from the front until the rest fits.
Evict(s, incoming) ==
  LET rest(k) == SubSeq(s.rows, k + 1, Len(s.rows))
      fits == {k \in 0..Len(s.rows) :
                 rest(k) = <<>> \/ Bytes[ToSet(rest(k))] + incoming <= s.limit}
  IN Persist([s EXCEPT !.rows = rest(Min(fits))])

-----------------------------------------------------------------------------
(* A page opens and closes *)

\* create and initialize: the image is read, or a failed read leaves an empty
\* database; that is saved at once.
OpenPage(p) ==
  /\ ~Open(p)
  /\ \E loaded \in {image, NoImage} :
       /\ IF loaded = image THEN UNCHANGED faults ELSE Fault
       /\ page' = [page EXCEPT ![p] =
            Persist([Closed EXCEPT !.op = [at |-> "initialise"],
              !.rows = loaded.rows, !.settings = loaded.settings])]
  /\ shared' = (shared \/ \E q \in Page : Open(q))
  /\ gone' = IF stale \/ shared' THEN {} ELSE gone
  /\ stale' = FALSE
  /\ UNCHANGED image

\* The persisted limit wins over the default, which is saved when there is none.
Initialise(p) ==
  /\ Resumes(p, "initialise")
  /\ LET s == [page[p] EXCEPT !.op = Idle] IN
       Becomes(p, IF s.settings = None
                  THEN Persist([s EXCEPT !.settings = s.limit])
                  ELSE [s EXCEPT !.limit = s.settings])
  /\ UNCHANGED <<image, gone, shared, faults>>

\* The page is closed or dies; of its exports, the first few still arrive.
ClosePage(p) ==
  /\ Open(p)
  /\ \E n \in 0..Len(page[p].saves) :
       image' = IF n = 0 THEN image ELSE page[p].saves[n]
  /\ page' = [page EXCEPT ![p] = Closed]
  /\ UNCHANGED <<gone, stale, shared, faults>>

-----------------------------------------------------------------------------
(* DefaultEmailMessageBodyCache *)

\* A lookup that hits makes its row the most recent.
Get(p, m) ==
  LET s == page[p] IN
  /\ Up(p) /\ s.limit > 0
  /\ m \in ToSet(s.rows)
  /\ Len(s.saves) < MaxSaves
  /\ Becomes(p, [Persist([s EXCEPT !.rows = Touch(@, m)]) EXCEPT !.waits = s.waits])
  /\ UNCHANGED <<image, gone, shared, faults>>

\* put makes room, and stores when that is saved.
Put(p, m) ==
  /\ Resumes(p, "idle")
  /\ page[p].limit > 0 /\ Bytes[{m}] <= page[p].limit
  /\ Becomes(p, Evict([page[p] EXCEPT !.op = [at |-> "store", msg |-> m]], Bytes[{m}]))
  /\ UNCHANGED <<image, gone, shared, faults>>

PutEntry(p) ==
  LET m == page[p].op.msg IN
  /\ Resumes(p, "store")
  /\ Becomes(p, Persist([page[p] EXCEPT !.op = Idle, !.rows = Touch(@, m)]))
  /\ gone' = gone \ {m}
  /\ UNCHANGED <<image, shared, faults>>

\* deleteMessage, flush by sudo, then by address, and flushAll: one deletion
\* after another.
Purge(p, sets) ==
  /\ Resumes(p, "idle")
  /\ page[p].limit > 0
  /\ Becomes(p, Delete([page[p] EXCEPT !.op =
       [at |-> "purge", left |-> Tail(sets), purged |-> UNION ToSet(sets)]], Head(sets)))
  /\ UNCHANGED <<image, gone, shared, faults>>

PurgeGoesOn(p) ==
  LET op == page[p].op IN
  /\ Resumes(p, "purge")
  /\ IF op.left # <<>>
     THEN /\ Becomes(p, Delete([page[p] EXCEPT !.op.left = Tail(@)], Head(op.left)))
          /\ UNCHANGED gone
     ELSE /\ Becomes(p, [page[p] EXCEPT !.op = Idle])
          /\ gone' = IF shared THEN {} ELSE gone \cup op.purged
  /\ UNCHANGED <<image, shared, faults>>

\* setCacheSizeLimit: a limit of 0 empties the cache.
SetLimit(p, bytes) ==
  /\ Resumes(p, "idle")
  /\ Becomes(p, Persist([page[p] EXCEPT !.op = [at |-> "shrink"],
       !.limit = bytes, !.settings = bytes]))
  /\ UNCHANGED <<image, gone, shared, faults>>

Shrink(p) ==
  LET all == page[p].limit = 0
      s == [page[p] EXCEPT !.op =
              [at |-> "purge", left |-> <<>>, purged |-> IF all THEN Message ELSE {}]]
  IN
  /\ Resumes(p, "shrink")
  /\ Becomes(p, IF all THEN Delete(s, Message) ELSE Evict(s, 0))
  /\ UNCHANGED <<image, gone, shared, faults>>

-----------------------------------------------------------------------------
(* IndexedDB: the requests of a page are served in the order they were made *)

Settled(s) ==
  [s EXCEPT !.saves = Tail(@), !.waits = IF @ = 0 THEN 0 ELSE @ - 1]

Saved(p) ==
  LET s == page[p] IN
  /\ s.saves # <<>>
  /\ image' = Head(s.saves)
  /\ page' = [page EXCEPT ![p] = Settled(s)]
  /\ stale' = s.disabled
  /\ UNCHANGED <<gone, shared, faults>>

\* A save is rejected, and no other is tried; or its request succeeds and the
\* transaction is aborted, which saveToIndexedDB does not wait for.
NotSaved(p) ==
  /\ page[p].saves # <<>>
  /\ Fault
  /\ \E rejected \in BOOLEAN :
       page' = [page EXCEPT ![p] =
         [Settled(page[p]) EXCEPT !.disabled = @ \/ rejected]]
  /\ stale' = TRUE
  /\ UNCHANGED <<image, gone, shared>>

Purges == {<<{m}>> : m \in Message} \cup {<<Message>>} \cup Flush

Next ==
  \E p \in Page :
    \/ OpenPage(p) \/ Initialise(p) \/ ClosePage(p)
    \/ \E m \in Message : Get(p, m) \/ Put(p, m)
    \/ PutEntry(p)
    \/ \E sets \in Purges : Purge(p, sets)
    \/ PurgeGoesOn(p)
    \/ \E bytes \in Limit : SetLimit(p, bytes)
    \/ Shrink(p)
    \/ Saved(p) \/ NotSaved(p)

Spec == Init /\ [][Next]_vars

-----------------------------------------------------------------------------
(* Properties *)

\* While one page has the cache to itself and its last change could be saved, a
\* page that is opened next finds what was left: no purged body comes back, and
\* with nothing under way the image is the database. After a rejected save it is
\* not, for the rest of the page's life.
ReloadsAsLeft ==
  ~shared /\ ~stale =>
    /\ gone \cap ToSet(image.rows) = {}
    /\ \A p \in Page : Open(p) /\ page[p].saves = <<>> =>
         image = [rows |-> page[p].rows, settings |-> page[p].settings]

Promise(p) == INSTANCE BoundedStore WITH
  entries <- ToSet(page[p].rows),
  limit <- page[p].limit,
  shrinking <- page[p].op.at = "shrink"

\* "On IndexedDB failure, continues as in-memory-only cache": as long as it is
\* open, a page keeps the promise of the cache, whatever becomes of its saves and
\* whatever other pages do.
PageKeepsPromise ==
  [][\A p \in Page : Up(p) /\ Up(p)' => Promise(p)!Next \/ UNCHANGED Promise(p)!vars]_vars
=============================================================================
