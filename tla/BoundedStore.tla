----------------------------- MODULE BoundedStore -----------------------------
(***************************************************************************)
(* What EmailMessageBodyCache promises its callers, whatever adapter keeps *)
(* the bodies (domain/entities/message/emailMessageBodyCache.ts): a set of *)
(* entries whose total size stays within the limit, except between a       *)
(* change of the limit and the eviction that follows it. An entry is added *)
(* by a put alone, may be dropped at any time, and a limit of 0 disables   *)
(* the cache and empties it.                                               *)
(***************************************************************************)
EXTENDS Integers

CONSTANTS Message, Bytes, Limit, InitialLimit

VARIABLES
  entries,   \* messages whose sealed bodies are cached
  limit,     \* the cache size limit
  shrinking  \* the limit was set and the eviction it calls for is under way

vars == <<entries, limit, shrinking>>

Init ==
  /\ entries = {}
  /\ limit = InitialLimit
  /\ shrinking = FALSE

\* put stores a body, after dropping what has to make room for it.
Store(m) ==
  /\ ~shrinking
  /\ limit > 0
  /\ \E kept \in SUBSET entries : entries' = kept \cup {m}
  /\ Bytes[entries'] <= limit
  /\ UNCHANGED <<limit, shrinking>>

\* Eviction, deleteMessage, flush, flushAll, and a stale entry met by get.
Drop ==
  /\ entries' \in SUBSET entries
  /\ UNCHANGED <<limit, shrinking>>

SetLimit(bytes) ==
  /\ limit' = bytes
  /\ shrinking' = TRUE
  /\ UNCHANGED entries

Shrink ==
  /\ shrinking
  /\ entries' \in SUBSET entries
  /\ Bytes[entries'] <= limit
  /\ limit = 0 => entries' = {}
  /\ shrinking' = FALSE
  /\ UNCHANGED limit

Next ==
  \/ \E m \in Message : Store(m)
  \/ Drop
  \/ \E bytes \in Limit : SetLimit(bytes)
  \/ Shrink

Spec == Init /\ [][Next]_vars

\* The total size is within the limit, and nothing is left when it is 0.
WithinLimit ==
  ~shrinking => Bytes[entries] <= limit /\ (limit = 0 => entries = {})
=============================================================================
