---------------------------- MODULE DraftsProofs ----------------------------
(***************************************************************************)
(* What holds of the drafts and their schedules for any drafts, masks,     *)
(* keys, calls and limits.                                                 *)
(*                                                                         *)
(* The properties of Drafts speak of calls that have come to rest; what    *)
(* makes them inductive is what they say of the calls under way: which     *)
(* cancellations are still to come, which key a scheduling has read, which *)
(* masks the uploads carry, and which drafts a listing has still to read.  *)
(***************************************************************************)
EXTENDS Drafts, FiniteSetTheorems, TLAPS

-----------------------------------------------------------------------------
(* The inductive invariant *)

\* A cancellation still to come is for a draft no schedule is wanted of.
CancelsAreUnwanted == \A d \in wanted : d \in Draft /\ cancels[d] = 0

\* A scheduling has read the key of the object that is there, unless it was
\* saved again since.
HasReadKey(c) ==
  (call[c].at = "schedule" /\ ~call[c].stale /\ object[call[c].draft] # None) =>
    object[call[c].draft].key = call[c].key

KeysAreRead == \A c \in Caller : HasReadKey(c)

InFlight(c) == call[c].at \in {"save", "upload"}

\* Whoever brings back a removed draft was on its way when it was removed.
RemovedForGood ==
  \A d \in removed \ raced :
    /\ object[d] = None
    /\ \A c \in Caller : InFlight(c) => call[c].draft # d

\* A draft has one mask: its object and every call about to store it agree.
OneMask ==
  /\ \A c \in Caller :
       InFlight(c) =>
         /\ object[call[c].draft] # None => object[call[c].draft].mask = call[c].mask
         /\ \A o \in Caller :
              InFlight(o) /\ call[o].draft = call[c].draft => call[o].mask = call[c].mask
  /\ \A c \in Caller : call[c].at = "save" => call[c].draft \in Stored \cup removed

\* A listing has read, or will read, every draft without a mask that it found,
\* if one page held them all.
Covers(r) ==
  /\ r.there \subseteq Stored \cup removed
  /\ Cardinality(r.there) <= PageLimit =>
       \A d \in r.there \ removed : IsAt(d, None) => d \in r.left \cup r.got

ListingsCover == \A c \in Caller : call[c].at = "read" => Covers(call[c])

IInv ==
  /\ TypeOK
  /\ DeletedIsCancelled
  /\ KeptStaysScheduled
  /\ CancelsAreUnwanted
  /\ KeysAreRead
  /\ ScheduledOpens
  /\ RemovedForGood
  /\ OneMask
  /\ ListingsCover

-----------------------------------------------------------------------------
(* The records of calls *)

\* What each kind of call carries.
LEMMA CallFields ==
  ASSUME NEW x \in Call
  PROVE  /\ x.at \in {"none", "save", "upload", "schedule", "read"}
         /\ x.at = "save" => x.draft \in Draft /\ x.mask \in Prefix
         /\ x.at = "upload" => x.draft \in Draft /\ x.mask \in Prefix /\ x.key \in SymKey
         /\ x.at = "schedule" => x.draft \in Draft /\ x.key \in SymKey /\ x.stale \in BOOLEAN
         /\ x.at = "read" => /\ x.there \subseteq Draft /\ x.left \subseteq Draft
                             /\ x.got \subseteq Draft
<1>1. CASE x = NoCall
  BY <1>1 DEF NoCall
<1>2. ASSUME NEW d \in Draft, NEW m \in Prefix, x = Saving(d, m)
      PROVE  x.at = "save" /\ x.draft = d /\ x.mask = m
  BY <1>2 DEF Saving
<1>3. ASSUME NEW d \in Draft, NEW m \in Prefix, NEW k \in SymKey, x = Uploading(d, m, k)
      PROVE  x.at = "upload" /\ x.draft = d /\ x.mask = m /\ x.key = k
  BY <1>3 DEF Uploading
<1>4. ASSUME NEW d \in Draft, NEW k \in SymKey, NEW s \in BOOLEAN, x = Scheduling(d, k, s)
      PROVE  x.at = "schedule" /\ x.draft = d /\ x.key = k /\ x.stale = s
  BY <1>4 DEF Scheduling
<1>5. ASSUME NEW there \in SUBSET Draft, NEW left \in SUBSET Draft, NEW got \in SUBSET Draft,
             x = Reading(there, left, got)
      PROVE  x.at = "read" /\ x.there = there /\ x.left = left /\ x.got = got
  BY <1>5 DEF Reading
<1>6. \/ x = NoCall
      \/ \E d \in Draft, m \in Prefix : x = Saving(d, m)
      \/ \E d \in Draft, m \in Prefix, k \in SymKey : x = Uploading(d, m, k)
      \/ \E d \in Draft, k \in SymKey, s \in BOOLEAN : x = Scheduling(d, k, s)
      \/ \E there, left, got \in SUBSET Draft : x = Reading(there, left, got)
  BY DEF Call
<1> QED
  BY <1>1, <1>2, <1>3, <1>4, <1>5, <1>6

\* A call with these fields is one of the calls.
LEMMA CallsMade ==
  /\ NoCall \in Call /\ NoCall.at = "none"
  /\ \A d \in Draft, m \in Prefix :
       /\ Saving(d, m) \in Call
       /\ Saving(d, m).at = "save" /\ Saving(d, m).draft = d /\ Saving(d, m).mask = m
  /\ \A d \in Draft, m \in Prefix, k \in SymKey :
       /\ Uploading(d, m, k) \in Call
       /\ Uploading(d, m, k).at = "upload" /\ Uploading(d, m, k).draft = d
       /\ Uploading(d, m, k).mask = m /\ Uploading(d, m, k).key = k
  /\ \A d \in Draft, k \in SymKey, s \in BOOLEAN :
       /\ Scheduling(d, k, s) \in Call
       /\ Scheduling(d, k, s).at = "schedule" /\ Scheduling(d, k, s).draft = d
       /\ Scheduling(d, k, s).key = k /\ Scheduling(d, k, s).stale = s
  /\ \A there, left, got \in SUBSET Draft :
       /\ Reading(there, left, got) \in Call
       /\ Reading(there, left, got).at = "read" /\ Reading(there, left, got).there = there
       /\ Reading(there, left, got).left = left /\ Reading(there, left, got).got = got
<1>1. NoCall \in Call /\ NoCall.at = "none"
  BY DEF Call, NoCall
<1>2. ASSUME NEW d \in Draft, NEW m \in Prefix
      PROVE  /\ Saving(d, m) \in Call
             /\ Saving(d, m).at = "save" /\ Saving(d, m).draft = d /\ Saving(d, m).mask = m
  <2>1. Saving(d, m) \in Call
    BY DEF Call
  <2> QED
    BY <2>1 DEF Saving
<1>3. ASSUME NEW d \in Draft, NEW m \in Prefix, NEW k \in SymKey
      PROVE  /\ Uploading(d, m, k) \in Call
             /\ Uploading(d, m, k).at = "upload" /\ Uploading(d, m, k).draft = d
             /\ Uploading(d, m, k).mask = m /\ Uploading(d, m, k).key = k
  <2>1. Uploading(d, m, k) \in Call
    BY DEF Call
  <2> QED
    BY <2>1 DEF Uploading
<1>4. ASSUME NEW d \in Draft, NEW k \in SymKey, NEW s \in BOOLEAN
      PROVE  /\ Scheduling(d, k, s) \in Call
             /\ Scheduling(d, k, s).at = "schedule" /\ Scheduling(d, k, s).draft = d
             /\ Scheduling(d, k, s).key = k /\ Scheduling(d, k, s).stale = s
  <2>1. Scheduling(d, k, s) \in Call
    BY DEF Call
  <2> QED
    BY <2>1 DEF Scheduling
<1>5. ASSUME NEW there \in SUBSET Draft, NEW left \in SUBSET Draft, NEW got \in SUBSET Draft
      PROVE  /\ Reading(there, left, got) \in Call
             /\ Reading(there, left, got).at = "read" /\ Reading(there, left, got).there = there
             /\ Reading(there, left, got).left = left /\ Reading(there, left, got).got = got
  <2>1. Reading(there, left, got) \in Call
    BY DEF Call
  <2> QED
    BY <2>1 DEF Reading
<1> QED
  BY <1>1, <1>2, <1>3, <1>4, <1>5

\* An object stored is not None.
LEMMA ObjectsAreStored ==
  ASSUME NEW m \in Prefix, NEW k \in SymKey
  PROVE  /\ [mask |-> m, key |-> k] \in Object
         /\ [mask |-> m, key |-> k] # None
  BY NoneAssumption DEF Object

\* A page of at least as many objects as there are holds them all.
LEMMA PagesHold ==
  ASSUME TypeOK, NEW n \in Nat, NEW found \in DraftsMetadata(n)
  PROVE  /\ Stored \subseteq Draft
         /\ DOMAIN found \subseteq Stored
         /\ Cardinality(Stored) <= n => DOMAIN found = Stored
<1>1. PICK page \in ListObjects(n) : found = [d \in page |-> object[d].mask]
  BY DEF DraftsMetadata
<1>2. page = DOMAIN found
  BY <1>1
<1>3. page \subseteq Stored /\ Cardinality(page) = Min({n, Cardinality(Stored)})
  BY <1>1 DEF ListObjects, kSubset
<1>4. Stored \subseteq Draft
  BY DEF Stored
<1>5. IsFiniteSet(Stored) /\ Cardinality(Stored) \in Nat
  BY <1>4, DraftAssumption, FS_Subset, FS_CardinalityType
<1>6. ASSUME Cardinality(Stored) <= n
      PROVE  Min({n, Cardinality(Stored)}) = Cardinality(Stored)
  <2>1. \A x \in {n, Cardinality(Stored)} :
          (\A y \in {n, Cardinality(Stored)} : x =< y) <=> x = Cardinality(Stored)
    BY <1>5, <1>6
  <2> QED
    BY <2>1 DEF Min
<1> QED
  BY <1>2, <1>3, <1>4, <1>5, <1>6, FS_Subset

-----------------------------------------------------------------------------
(* The steps *)

\* What a call that goes on is about to do, and on what grounds.
Begins(c, next) ==
  \/ next = NoCall
  \/ \E d \in Draft, m \in Prefix : next = Saving(d, m) /\ IsAt(d, m)
  \/ \E d \in Draft, m \in Prefix, k \in SymKey :
       /\ next = Uploading(d, m, k)
       /\ \/ call[c].at = "save" /\ call[c].draft = d /\ call[c].mask = m
          \/ /\ d \notin Stored \cup removed
             /\ \A o \in Caller : call[o].at = "upload" => call[o].draft # d
  \/ \E d \in Draft :
       /\ object[d] # None
       /\ object[d].key \in SymKey
       /\ next = Scheduling(d, object[d].key, FALSE)
  \/ next.at = "read" /\ Covers(next)

Starts(c) == \E next \in Call : Go(c, next) /\ Begins(c, next)

\* The calls that list begin with a page of what is there.
LEMMA ListStarts ==
  ASSUME TypeOK, NEW c \in Caller, ListMetadata(c) \/ ListDrafts(c)
  PROVE  Starts(c)
<1>1. ASSUME NEW n \in Nat, PageLimit <= n, NEW found \in DraftsMetadata(n),
             NEW next, \/ next = Reading(Stored, {}, DOMAIN found)
                       \/ next = Reading(Stored, DOMAIN found, {}),
             Go(c, next)
      PROVE  Starts(c)
  <2>1. Stored \subseteq Draft /\ DOMAIN found \subseteq Draft
    BY <1>1, PagesHold
  <2>2. next \in Call /\ next.at = "read" /\ next.there = Stored
        /\ next.left \cup next.got = DOMAIN found
    <3>1. ASSUME NEW left \in SUBSET Draft, NEW got \in SUBSET Draft,
                 next = Reading(Stored, left, got)
          PROVE  /\ next \in Call /\ next.at = "read" /\ next.there = Stored
                 /\ next.left = left /\ next.got = got
      BY <2>1, <3>1, CallsMade
    <3>2. CASE next = Reading(Stored, {}, DOMAIN found)
      <4>1. {} \in SUBSET Draft /\ DOMAIN found \in SUBSET Draft
        BY <2>1
      <4>2. /\ next \in Call /\ next.at = "read" /\ next.there = Stored
            /\ next.left = {} /\ next.got = DOMAIN found
        BY <3>1, <3>2, <4>1
      <4> QED
        BY <4>2
    <3>3. CASE next = Reading(Stored, DOMAIN found, {})
      <4>1. {} \in SUBSET Draft /\ DOMAIN found \in SUBSET Draft
        BY <2>1
      <4>2. /\ next \in Call /\ next.at = "read" /\ next.there = Stored
            /\ next.left = DOMAIN found /\ next.got = {}
        BY <3>1, <3>3, <4>1
      <4> QED
        BY <4>2
    <3> QED
      BY <1>1, <3>2, <3>3
  <2>3. Cardinality(Stored) \in Nat
    BY <2>1, DraftAssumption, FS_Subset, FS_CardinalityType
  <2>4. Cardinality(Stored) <= PageLimit => DOMAIN found = Stored
    <3>1. Cardinality(Stored) <= PageLimit => Cardinality(Stored) <= n
      BY <1>1, <2>3, LimitAssumption
    <3> QED
      BY <1>1, <3>1, PagesHold
  <2>5. Covers(next)
    BY <2>2, <2>4 DEF Covers
  <2> QED
    BY <1>1, <2>2, <2>5 DEF Starts, Begins
<1>2. PageLimit \in Nat /\ MetadataLimit \in Nat /\ PageLimit <= PageLimit
      /\ PageLimit <= MetadataLimit
  BY LimitAssumption
<1>3. CASE ListMetadata(c)
  BY <1>1, <1>2, <1>3 DEF ListMetadata
<1>4. CASE ListDrafts(c)
  BY <1>1, <1>2, <1>4 DEF ListDrafts
<1> QED
  BY <1>3, <1>4

\* Reading one more draft of the page covers as much as before.
LEMMA ReadStarts ==
  ASSUME TypeOK, ListingsCover, NEW c \in Caller, Read(c)
  PROVE  Starts(c)
<1>1. PICK d \in call[c].left :
        Go(c, Reading(call[c].there, call[c].left \ {d},
                      call[c].got \cup {n \in {d} : IsAt(n, None)}))
  BY DEF Read
<1> DEFINE left == call[c].left \ {d}
           got == call[c].got \cup {n \in {d} : IsAt(n, None)}
           next == Reading(call[c].there, left, got)
<1>2. call[c] \in Call /\ call[c].at = "read"
  BY DEF TypeOK, Read
<1>3. call[c].there \subseteq Draft /\ call[c].left \subseteq Draft /\ call[c].got \subseteq Draft
  BY <1>2, CallFields
<1>4. left \subseteq Draft /\ got \subseteq Draft
  BY <1>1, <1>3
<1>5. /\ next \in Call /\ next.at = "read" /\ next.there = call[c].there
      /\ next.left = left /\ next.got = got
  BY <1>3, <1>4, CallsMade
<1>6. Covers(call[c])
  BY <1>2 DEF ListingsCover
<1>7. \A e \in call[c].left \cup call[c].got : IsAt(e, None) => e \in left \cup got
  OBVIOUS
<1>8. Covers(next)
  <2> HIDE DEF next, left, got
  <2> QED
    BY <1>5, <1>6, <1>7 DEF Covers
<1> QED
  BY <1>1, <1>5, <1>8 DEF Starts, Begins

\* A call that saves starts an upload, or goes on to check its contents.
LEMMA SaveStarts ==
  ASSUME TypeOK, NEW c \in Caller, CreateDraft(c) \/ UpdateDraft(c) \/ SaveUpdate(c)
  PROVE  Starts(c)
<1>1. ASSUME NEW d \in Draft, NEW m \in Prefix, SealDraft(c, d, m)
      PROVE  /\ currentKey \in SymKey
             /\ Uploading(d, m, currentKey) \in Call
             /\ Go(c, Uploading(d, m, currentKey))
  <2>1. currentKey \in SymKey
    BY <1>1 DEF SealDraft, TypeOK
  <2> QED
    BY <1>1, <2>1, CallsMade DEF SealDraft
<1>2. CASE CreateDraft(c)
  <2>1. PICK d \in Draft, m \in Prefix :
          /\ d \notin Stored \cup removed
          /\ \A o \in Caller : call[o].at = "upload" => call[o].draft # d
          /\ SealDraft(c, d, m)
    BY <1>2 DEF CreateDraft
  <2> QED
    BY <1>1, <2>1 DEF Starts, Begins
<1>3. CASE UpdateDraft(c)
  <2>1. PICK d \in Draft, m \in Prefix : IsAt(d, m) /\ Go(c, Saving(d, m))
    BY <1>3 DEF UpdateDraft
  <2>2. Saving(d, m) \in Call
    BY CallsMade
  <2> QED
    BY <2>1, <2>2 DEF Starts, Begins
<1>4. CASE SaveUpdate(c)
  <2>1. call[c] \in Call /\ call[c].at = "save"
    BY <1>4 DEF TypeOK, SaveUpdate
  <2>2. call[c].draft \in Draft /\ call[c].mask \in Prefix
    BY <2>1, CallFields
  <2> QED
    BY <1>1, <1>4, <2>1, <2>2 DEF SaveUpdate, Starts, Begins
<1> QED
  BY <1>2, <1>3, <1>4

\* A scheduling starts with the key it read.
LEMMA ScheduleStarts ==
  ASSUME TypeOK, NEW c \in Caller, ScheduleDraft(c)
  PROVE  Starts(c)
<1>1. PICK d \in Draft : /\ IsAt(d, None)
                         /\ object[d].key \in held
                         /\ Go(c, Scheduling(d, object[d].key, FALSE))
  BY DEF ScheduleDraft
<1>2. object[d] # None /\ object[d].key \in SymKey
  BY <1>1 DEF TypeOK, IsAt
<1>3. Scheduling(d, object[d].key, FALSE) \in Call
  BY <1>2, CallsMade
<1> QED
  BY <1>1, <1>2, <1>3 DEF Starts, Begins

\* Only the current key and the device's keys change.
KeysChange ==
  /\ UNCHANGED <<object, schedule, call, cancels, removed, raced, wanted, late, resaved>>
  /\ currentKey' \in held' \cup {None} /\ held' \subseteq SymKey

\* Every step is that of a call that starts something, of a call or the service
\* that changes what is stored, or one of keys.
LEMMA StepCases ==
  ASSUME TypeOK, ListingsCover, [Next]_vars
  PROVE  \/ \E c \in Caller : Starts(c)
         \/ \E c \in Caller : Upload(c)
         \/ \E c \in Caller : Schedule(c)
         \/ \E c \in Caller : DeleteDrafts(c)
         \/ \E c \in Caller : DeleteLost(c)
         \/ \E c \in Caller : CancelScheduled(c)
         \/ \E d \in Draft : CancelBehind(d)
         \/ \E d \in Draft : CancelLost(d)
         \/ \E d \in Draft : Send(d)
         \/ KeysChange
<1>1. ASSUME NEW c \in Caller, End(c)
      PROVE  Starts(c)
  BY <1>1, CallsMade DEF End, Starts, Begins
<1>2. ASSUME NEW c \in Caller, List(c)
      PROVE  Starts(c)
  BY <1>2, ListStarts, ReadStarts DEF List
<1>3. ASSUME NEW k \in SymKey, NewKey(k)
      PROVE  KeysChange
  BY <1>3 DEF NewKey, KeysChange, TypeOK, history
<1>4. CASE LoseKeys
  BY <1>4 DEF LoseKeys, KeysChange, history
<1>5. CASE UNCHANGED vars
  BY <1>5 DEF vars, KeysChange, TypeOK, keys, history
<1> QED
  BY <1>1, <1>2, <1>3, <1>4, <1>5, SaveStarts, ScheduleStarts
     DEF Next, Save, Remove, SetSchedule

-----------------------------------------------------------------------------
(* What the steps change *)

\* An upload ends its call and makes the schedulings of its draft outdated; no
\* other call notices.
LEMMA UploadEffect ==
  ASSUME TypeOK, NEW c \in Caller, Upload(c)
  PROVE  LET d == call[c].draft IN
         /\ d \in Draft /\ call[c].mask \in Prefix /\ call[c].key \in SymKey
         /\ object'[d] # None /\ object'[d].mask = call[c].mask
         /\ object' \in [Draft -> Object \cup {None}]
         /\ \A e \in Draft : e # d => object'[e] = object[e]
         /\ call' \in [Caller -> Call]
         /\ \A o \in Caller :
              /\ call'[o].at # "schedule" => call'[o] = call[o] \/ call'[o] = NoCall
              /\ call'[o].at = "schedule" =>
                   /\ call[o].at = "schedule"
                   /\ call'[o].draft = d => call'[o].stale
                   /\ call'[o].draft # d => call'[o] = call[o]
<1> DEFINE d == call[c].draft
           new == [mask |-> call[c].mask, key |-> call[c].key]
<1>1. call \in [Caller -> Call] /\ call[c].at = "upload"
  BY DEF TypeOK, Upload
<1>2. d \in Draft /\ call[c].mask \in Prefix /\ call[c].key \in SymKey
  BY <1>1, CallFields
<1>3. new \in Object /\ new # None /\ new.mask = call[c].mask
  BY <1>2, ObjectsAreStored
<1>4. /\ object' = [object EXCEPT ![d] = new]
      /\ call' = [Outdated(d) EXCEPT ![c] = NoCall]
  BY DEF Upload
<1>5. /\ object'[d] = new
      /\ object' \in [Draft -> Object \cup {None}]
      /\ \A e \in Draft : e # d => object'[e] = object[e]
  <2> HIDE DEF d, new
  <2> QED
    BY <1>2, <1>3, <1>4 DEF TypeOK
<1>6. \A o \in Caller :
        call'[o] = IF o = c THEN NoCall
                   ELSE IF call[o].at = "schedule" /\ call[o].draft = d
                        THEN Scheduling(d, call[o].key, TRUE)
                        ELSE call[o]
  <2> HIDE DEF d
  <2> QED
    BY <1>4 DEF Outdated
<1>7. DOMAIN call' = Caller /\ call' = [o \in Caller |-> call'[o]]
  <2> HIDE DEF d
  <2> QED
    BY <1>4 DEF Outdated
<1>8. ASSUME NEW o \in Caller
      PROVE  /\ call'[o] \in Call
             /\ call'[o].at # "schedule" => call'[o] = call[o] \/ call'[o] = NoCall
             /\ call'[o].at = "schedule" =>
                  /\ call[o].at = "schedule"
                  /\ call'[o].draft = d => call'[o].stale
                  /\ call'[o].draft # d => call'[o] = call[o]
  <2>1. CASE o = c
    <3>1. NoCall \in Call /\ NoCall.at # "schedule"
      BY CallsMade
    <3>2. call'[o] = NoCall
      BY <1>6, <2>1
    <3> QED
      BY <3>1, <3>2
  <2>2. CASE o # c /\ call[o].at = "schedule" /\ call[o].draft = d
    <3>1. call[o].key \in SymKey
      BY <1>1, <2>2, CallFields
    <3>2. call'[o] = Scheduling(d, call[o].key, TRUE)
      BY <1>6, <2>2
    <3>3. ASSUME NEW e \in Draft, NEW k \in SymKey, NEW x, x = Scheduling(e, k, TRUE)
          PROVE  x \in Call /\ x.at = "schedule" /\ x.draft = e /\ x.stale
      <4>1. x \in Call
        <5>1. \A s \in BOOLEAN : Scheduling(e, k, s) \in Call
          BY CallsMade
        <5>2. Scheduling(e, k, TRUE) \in Call
          BY <5>1, Zenon
        <5> QED
          BY <3>3, <5>2
      <4>2. x.at = "schedule" /\ x.draft = e
        BY <3>3 DEF Scheduling
      <4>3. x.stale
        BY <3>3 DEF Scheduling
      <4> QED
        BY <4>1, <4>2, <4>3
    <3>4. call'[o] \in Call /\ call'[o].at = "schedule" /\ call'[o].draft = d /\ call'[o].stale
      BY <1>2, <3>1, <3>2, <3>3
    <3> QED
      BY <2>2, <3>4
  <2>3. CASE o # c /\ ~(call[o].at = "schedule" /\ call[o].draft = d)
    BY <1>1, <1>6, <2>3
  <2> QED
    BY <2>1, <2>2, <2>3
<1> QED
  BY <1>2, <1>3, <1>5, <1>7, <1>8

\* A deletion takes objects away, and notes which and what was on its way.
LEMMA DeleteEffect ==
  ASSUME TypeOK, NEW D \in SUBSET Draft, NEW m \in Prefix, BulkDelete(D, m)
  PROVE  /\ object' \in [Draft -> Object \cup {None}]
         /\ \A d \in Draft :
              object'[d] # object[d] => object'[d] = None /\ d \in D /\ d \in removed'
         /\ removed \subseteq removed' /\ removed' \subseteq Draft
         /\ raced \subseteq raced' /\ raced' \subseteq removed'
         /\ \A d \in removed' \ removed :
              /\ object'[d] = None
              /\ d \notin raced' => \A c \in Caller : InFlight(c) => call[c].draft # d
<1> DEFINE gone == {d \in D : IsAt(d, m)}
           race == {d \in gone : \E c \in Caller :
                      call[c].at \in {"save", "upload"} /\ call[c].draft = d}
<1>1. /\ object' = [d \in Draft |-> IF d \in gone THEN None ELSE object[d]]
      /\ removed' = removed \cup gone
      /\ raced' = raced \cup race
  BY DEF BulkDelete
<1>2. gone \subseteq D /\ race \subseteq gone
  OBVIOUS
<1>3. \A d \in gone \ race, c \in Caller : InFlight(c) => call[c].draft # d
  BY DEF InFlight
<1> HIDE DEF gone, race
<1>4. object' \in [Draft -> Object \cup {None}]
  BY <1>1 DEF TypeOK
<1> QED
  BY <1>1, <1>2, <1>3, <1>4 DEF TypeOK

-----------------------------------------------------------------------------
(* Every step keeps the types *)

LEMMA TypeOKStep ==
  ASSUME TypeOK, ListingsCover, [Next]_vars
  PROVE  TypeOK'
<1>1. ASSUME NEW c \in Caller, Starts(c)
      PROVE  TypeOK'
  BY <1>1 DEF Starts, Go, TypeOK, keys, history, Scheduled
<1>2. ASSUME NEW c \in Caller, Upload(c)
      PROVE  TypeOK'
  <2>1. /\ object' \in [Draft -> Object \cup {None}]
        /\ call' \in [Caller -> Call]
    BY <1>2, UploadEffect
  <2>2. /\ UNCHANGED <<schedule, currentKey, held, cancels, removed, raced, wanted, late>>
        /\ resaved' \subseteq resaved \cup Scheduled
    BY <1>2 DEF Upload, keys
  <2> QED
    BY <2>1, <2>2 DEF TypeOK, Scheduled
<1>3. ASSUME NEW c \in Caller, Schedule(c)
      PROVE  TypeOK'
  <2>1. call[c] \in Call /\ call[c].at = "schedule"
    BY <1>3 DEF TypeOK, Schedule
  <2>2. call[c].draft \in Draft /\ call[c].key \in SymKey /\ call[c].key # None
    BY <2>1, CallFields, NoneAssumption
  <2>3. /\ UNCHANGED <<object, currentKey, held, cancels, removed, raced>>
        /\ schedule' = [schedule EXCEPT ![call[c].draft] = call[c].key]
        /\ call' = [call EXCEPT ![c] = NoCall]
        /\ late' \subseteq late \cup {call[c].draft}
        /\ resaved' \subseteq resaved \cup {call[c].draft}
    BY <1>3 DEF Schedule, keys
  <2>4. NoCall \in Call
    BY CallsMade
  <2>5. Scheduled' = Scheduled \cup {call[c].draft}
    BY <2>2, <2>3 DEF Scheduled, TypeOK
  <2>6. schedule' \in [Draft -> SymKey \cup {None}] /\ call' \in [Caller -> Call]
    BY <2>2, <2>3, <2>4 DEF TypeOK
  <2> QED
    BY <2>3, <2>5, <2>6 DEF TypeOK
<1>4. ASSUME NEW d \in Draft, EndSchedule(d)
      PROVE  /\ schedule' \in [Draft -> SymKey \cup {None}]
             /\ late' \cup resaved' \subseteq Scheduled'
  BY <1>4 DEF EndSchedule, TypeOK, Scheduled
<1>5. ASSUME NEW c \in Caller, DeleteDrafts(c)
      PROVE  TypeOK'
  <2>0. PICK D \in SUBSET Draft, m \in Prefix : \E failed \in SUBSET D :
          /\ BulkDelete(D \ failed, m)
          /\ \A d \in Succeeded(D, failed) : cancels[d] < MaxCancels
          /\ cancels' = [d \in Draft |->
                           cancels[d] + IF d \in Succeeded(D, failed) THEN 1 ELSE 0]
    BY <1>5 DEF DeleteDrafts
  <2>1. PICK failed \in SUBSET D :
          /\ BulkDelete(D \ failed, m)
          /\ \A d \in Succeeded(D, failed) : cancels[d] < MaxCancels
          /\ cancels' = [d \in Draft |->
                           cancels[d] + IF d \in Succeeded(D, failed) THEN 1 ELSE 0]
    BY <2>0
  <2>2. UNCHANGED <<schedule, currentKey, held, call, late, resaved>>
    BY <1>5 DEF DeleteDrafts, keys
  <2>3. ASSUME NEW d \in Draft
        PROVE  cancels[d] + (IF d \in Succeeded(D, failed) THEN 1 ELSE 0) \in 0..MaxCancels
    <3>1. cancels[d] \in 0..MaxCancels /\ MaxCancels \in Nat
      BY LimitAssumption DEF TypeOK
    <3> QED
      BY <2>1, <3>1
  <2>4. cancels' \in [Draft -> 0..MaxCancels]
    BY <2>1, <2>3
  <2> QED
    BY <2>1, <2>2, <2>4, DeleteEffect DEF TypeOK, Scheduled
<1>6. ASSUME NEW c \in Caller, DeleteLost(c)
      PROVE  TypeOK'
  <2>1. PICK D \in SUBSET Draft, m \in Prefix :
          BulkDelete(D, m) /\ late' = late \cup (D \cap Scheduled)
    BY <1>6 DEF DeleteLost
  <2>2. UNCHANGED <<schedule, currentKey, held, call, cancels, resaved>>
    BY <1>6 DEF DeleteLost, keys
  <2> QED
    BY <2>1, <2>2, DeleteEffect DEF TypeOK, Scheduled
<1>7. ASSUME NEW c \in Caller, CancelScheduled(c)
      PROVE  TypeOK'
  <2>1. UNCHANGED <<object, currentKey, held, call, cancels, removed, raced>>
    BY <1>7 DEF CancelScheduled, keys
  <2> QED
    BY <1>4, <1>7, <2>1 DEF CancelScheduled, TypeOK
<1>8. ASSUME NEW d \in Draft, cancels[d] > 0, cancels' = [cancels EXCEPT ![d] = @ - 1]
      PROVE  cancels' \in [Draft -> 0..MaxCancels]
  <2>1. cancels[d] - 1 \in 0..MaxCancels
    BY <1>8, LimitAssumption DEF TypeOK
  <2> QED
    BY <1>8, <2>1 DEF TypeOK
<1>9. ASSUME NEW d \in Draft, CancelBehind(d)
      PROVE  TypeOK'
  <2>1. UNCHANGED <<object, currentKey, held, call, removed, raced>>
    BY <1>9 DEF CancelBehind, keys
  <2> QED
    BY <1>4, <1>8, <1>9, <2>1 DEF CancelBehind, TypeOK
<1>10. ASSUME NEW d \in Draft, CancelLost(d)
       PROVE  TypeOK'
  <2>1. UNCHANGED <<object, schedule, currentKey, held, call, removed, raced, resaved>>
        /\ late' \subseteq late \cup Scheduled
    BY <1>10 DEF CancelLost, keys
  <2> QED
    BY <1>8, <1>10, <2>1 DEF CancelLost, TypeOK, Scheduled
<1>11. ASSUME NEW d \in Draft, Send(d)
       PROVE  TypeOK'
  <2>1. UNCHANGED <<object, currentKey, held, call, cancels, removed, raced>>
    BY <1>11 DEF Send, keys
  <2> QED
    BY <1>4, <1>11, <2>1 DEF Send, TypeOK
<1>12. CASE KeysChange
  BY <1>12 DEF KeysChange, TypeOK, Scheduled
<1> QED
  BY <1>1, <1>2, <1>3, <1>5, <1>6, <1>7, <1>9, <1>10, <1>11, <1>12, StepCases

-----------------------------------------------------------------------------
(* Every step keeps what is said of schedules and their cancellations *)

\* A deletion counts one cancellation for each draft it reports deleted.
LEMMA CancelsCounted ==
  ASSUME TypeOK, NEW c \in Caller, DeleteDrafts(c)
  PROVE  \E D \in SUBSET Draft, m \in Prefix :
           /\ BulkDelete(D, m)
           /\ \A d \in Draft : cancels'[d] = cancels[d] + IF d \in D THEN 1 ELSE 0
           /\ wanted' = wanted \ D
<1>1. PICK D \in SUBSET Draft, m \in Prefix : \E failed \in SUBSET D :
        /\ BulkDelete(D \ failed, m)
        /\ cancels' = [d \in Draft |->
                         cancels[d] + IF d \in Succeeded(D, failed) THEN 1 ELSE 0]
        /\ wanted' = wanted \ (D \ failed)
  BY DEF DeleteDrafts
<1>2. PICK failed \in SUBSET D :
        /\ BulkDelete(D \ failed, m)
        /\ cancels' = [d \in Draft |->
                         cancels[d] + IF d \in Succeeded(D, failed) THEN 1 ELSE 0]
        /\ wanted' = wanted \ (D \ failed)
  BY <1>1
<1>3. Succeeded(D, failed) = D \ failed /\ D \ failed \in SUBSET Draft
  BY DEF Succeeded
<1> QED
  BY <1>2, <1>3

\* Whoever deletes leaves a cancellation behind, or has it noted as lost.
LEMMA DeletedIsCancelledStep ==
  ASSUME TypeOK, ListingsCover, DeletedIsCancelled, [Next]_vars
  PROVE  DeletedIsCancelled'
<1> DEFINE Due(d) == object[d] # None \/ cancels[d] > 0 \/ d \in late
<1>0. \A d \in Draft : schedule[d] # None => Due(d)
  BY DEF DeletedIsCancelled, Scheduled
<1> SUFFICES ASSUME NEW d \in Draft, schedule'[d] # None
             PROVE  object'[d] # None \/ cancels'[d] > 0 \/ d \in late'
  BY DEF DeletedIsCancelled, Scheduled
<1> DEFINE Due2 == object'[d] # None \/ cancels'[d] > 0 \/ d \in late'
<1>1. ASSUME NEW c \in Caller, Starts(c)
      PROVE  Due2
  BY <1>0, <1>1 DEF Starts, Go, history
<1>2. ASSUME NEW c \in Caller, Upload(c)
      PROVE  Due2
  <2>1. UNCHANGED <<schedule, cancels, late>>
    BY <1>2 DEF Upload
  <2>2. object'[d] # None \/ object'[d] = object[d]
    BY <1>2, UploadEffect
  <2> QED
    BY <1>0, <2>1, <2>2
<1>3. ASSUME NEW c \in Caller, Schedule(c)
      PROVE  Due2
  <2>1. CASE d = call[c].draft
    BY <1>3, <2>1 DEF Schedule
  <2>2. CASE d # call[c].draft
    BY <1>0, <1>3, <2>2 DEF Schedule, TypeOK
  <2> QED
    BY <2>1, <2>2
<1>4. ASSUME NEW c \in Caller, DeleteDrafts(c)
      PROVE  Due2
  <2>1. PICK D \in SUBSET Draft, m \in Prefix :
          /\ BulkDelete(D, m)
          /\ \A e \in Draft : cancels'[e] = cancels[e] + IF e \in D THEN 1 ELSE 0
    BY <1>4, CancelsCounted
  <2>2. cancels[d] \in Nat
    BY LimitAssumption DEF TypeOK
  <2>3. schedule' = schedule /\ late' = late
    BY <1>4 DEF DeleteDrafts
  <2>4. CASE d \in D
    BY <2>1, <2>2, <2>4
  <2>5. CASE d \notin D
    <3>1. object'[d] = object[d]
      BY <2>1, <2>5, DeleteEffect
    <3> QED
      BY <1>0, <2>1, <2>2, <2>3, <2>5, <3>1
  <2> QED
    BY <2>4, <2>5
<1>5. ASSUME NEW c \in Caller, DeleteLost(c)
      PROVE  Due2
  <2>1. PICK D \in SUBSET Draft, m \in Prefix :
          BulkDelete(D, m) /\ late' = late \cup (D \cap Scheduled)
    BY <1>5 DEF DeleteLost
  <2>2. schedule' = schedule /\ cancels' = cancels
    BY <1>5 DEF DeleteLost
  <2>3. object'[d] = object[d] \/ d \in D
    BY <2>1, DeleteEffect
  <2> QED
    BY <1>0, <2>1, <2>2, <2>3 DEF Scheduled
<1>6. ASSUME NEW e \in Draft, EndSchedule(e), UNCHANGED object,
             \A f \in Draft \ {e} : cancels'[f] = cancels[f]
      PROVE  Due2
  <2>1. d # e /\ schedule'[d] = schedule[d]
    BY <1>6 DEF EndSchedule, TypeOK
  <2> QED
    BY <1>0, <1>6, <2>1 DEF EndSchedule
<1>7. ASSUME NEW c \in Caller, CancelScheduled(c)
      PROVE  Due2
  BY <1>6, <1>7 DEF CancelScheduled
<1>8. ASSUME NEW e \in Draft, CancelBehind(e)
      PROVE  Due2
  BY <1>6, <1>8 DEF CancelBehind, TypeOK
<1>9. ASSUME NEW e \in Draft, CancelLost(e)
      PROVE  Due2
  <2>1. schedule' = schedule /\ object' = object /\ late' = late \cup ({e} \cap Scheduled)
    BY <1>9 DEF CancelLost
  <2>2. d # e => cancels'[d] = cancels[d]
    BY <1>9 DEF CancelLost, TypeOK
  <2> QED
    BY <1>0, <2>1, <2>2 DEF Scheduled
<1>10. ASSUME NEW e \in Draft, Send(e)
       PROVE  Due2
  BY <1>6, <1>10 DEF Send
<1>11. CASE KeysChange
  BY <1>0, <1>11 DEF KeysChange
<1> QED
  BY <1>1, <1>2, <1>3, <1>4, <1>5, <1>7, <1>8, <1>9, <1>10, <1>11, StepCases

\* What is wanted is scheduled, and no cancellation behind a deletion ends it.
Wanted == KeptStaysScheduled /\ CancelsAreUnwanted

LEMMA WantedStep ==
  ASSUME TypeOK, ListingsCover, Wanted, [Next]_vars
  PROVE  Wanted'
<1>0. \A d \in wanted : d \in Draft /\ schedule[d] # None /\ cancels[d] = 0
  BY DEF Wanted, KeptStaysScheduled, CancelsAreUnwanted, Scheduled
<1> SUFFICES ASSUME NEW d, d \in wanted'
             PROVE  d \in Draft /\ schedule'[d] # None /\ cancels'[d] = 0
  BY DEF Wanted, KeptStaysScheduled, CancelsAreUnwanted, Scheduled
<1> DEFINE Kept == d \in Draft /\ schedule'[d] # None /\ cancels'[d] = 0
<1>1. ASSUME NEW c \in Caller, Starts(c)
      PROVE  Kept
  BY <1>0, <1>1 DEF Starts, Go, history
<1>2. ASSUME NEW c \in Caller, Upload(c)
      PROVE  Kept
  BY <1>0, <1>2 DEF Upload
<1>3. ASSUME NEW c \in Caller, Schedule(c)
      PROVE  Kept
  <2>1. call[c] \in Call /\ call[c].at = "schedule"
    BY <1>3 DEF TypeOK, Schedule
  <2>2. call[c].draft \in Draft /\ call[c].key # None
    BY <2>1, CallFields, NoneAssumption
  <2>3. cancels' = cancels
    BY <1>3 DEF Schedule
  <2>4. CASE d = call[c].draft
    <3>1. schedule'[d] # None
      BY <1>3, <2>2, <2>4 DEF Schedule, TypeOK
    <3>2. cancels[d] = 0
      BY <1>0, <1>3, <2>4 DEF Schedule
    <3> QED
      BY <2>2, <2>3, <2>4, <3>1, <3>2
  <2>5. CASE d # call[c].draft
    <3>1. d \in wanted
      BY <1>3, <2>5 DEF Schedule
    <3>2. schedule'[d] = schedule[d]
      BY <1>0, <1>3, <2>5, <3>1 DEF Schedule, TypeOK
    <3> QED
      BY <1>0, <2>3, <3>1, <3>2
  <2> QED
    BY <2>4, <2>5
<1>4. ASSUME NEW c \in Caller, DeleteDrafts(c)
      PROVE  Kept
  <2>1. PICK D \in SUBSET Draft, m \in Prefix :
          /\ \A e \in Draft : cancels'[e] = cancels[e] + IF e \in D THEN 1 ELSE 0
          /\ wanted' = wanted \ D
    BY <1>4, CancelsCounted
  <2>2. schedule' = schedule
    BY <1>4 DEF DeleteDrafts
  <2> QED
    BY <1>0, <2>1, <2>2
<1>5. ASSUME NEW c \in Caller, DeleteLost(c)
      PROVE  Kept
  BY <1>0, <1>5 DEF DeleteLost
<1>6. ASSUME NEW e \in Draft, EndSchedule(e), wanted' \subseteq wanted \ {e},
             UNCHANGED cancels
      PROVE  Kept
  BY <1>0, <1>6 DEF EndSchedule, TypeOK
<1>7. ASSUME NEW c \in Caller, CancelScheduled(c)
      PROVE  Kept
  BY <1>6, <1>7 DEF CancelScheduled
<1>8. ASSUME NEW e \in Draft, cancels[e] > 0, cancels' = [cancels EXCEPT ![e] = @ - 1],
             wanted' = wanted
      PROVE  d # e /\ cancels'[d] = 0
  BY <1>0, <1>8 DEF TypeOK
<1>9. ASSUME NEW e \in Draft, CancelBehind(e)
      PROVE  Kept
  <2>1. d # e /\ cancels'[d] = 0
    BY <1>8, <1>9 DEF CancelBehind
  <2> QED
    BY <1>0, <1>9, <2>1 DEF CancelBehind, EndSchedule, TypeOK
<1>10. ASSUME NEW e \in Draft, CancelLost(e)
       PROVE  Kept
  <2>1. d # e /\ cancels'[d] = 0
    BY <1>8, <1>10 DEF CancelLost
  <2> QED
    BY <1>0, <1>10, <2>1 DEF CancelLost
<1>11. ASSUME NEW e \in Draft, Send(e)
       PROVE  Kept
  BY <1>6, <1>11 DEF Send
<1>12. CASE KeysChange
  BY <1>0, <1>12 DEF KeysChange
<1> QED
  BY <1>1, <1>2, <1>3, <1>4, <1>5, <1>7, <1>9, <1>10, <1>11, <1>12, StepCases

-----------------------------------------------------------------------------
(* Every step keeps what is said of keys *)

\* What is under way is told when the object it read is saved again.
LEMMA KeysAreReadStep ==
  ASSUME TypeOK, ListingsCover, KeysAreRead, [Next]_vars
  PROVE  KeysAreRead'
<1> SUFFICES ASSUME NEW c \in Caller, call'[c].at = "schedule", ~call'[c].stale,
                    object'[call'[c].draft] # None
             PROVE  object'[call'[c].draft].key = call'[c].key
  BY DEF KeysAreRead, HasReadKey
<1> DEFINE Read2 == object'[call'[c].draft].key = call'[c].key
<1>0. /\ call \in [Caller -> Call]
      /\ (call[c].at = "schedule" /\ ~call[c].stale /\ object[call[c].draft] # None) =>
           object[call[c].draft].key = call[c].key
  BY DEF TypeOK, KeysAreRead, HasReadKey
<1>1. call'[c] \in Call /\ call'[c].draft \in Draft
  BY TypeOKStep, CallFields DEF TypeOK
<1>2. ASSUME NEW d \in Caller, Starts(d)
      PROVE  Read2
  <2>1. PICK next \in Call : Go(d, next) /\ Begins(d, next)
    BY <1>2 DEF Starts
  <2>2. object' = object /\ call' = [call EXCEPT ![d] = next]
    BY <2>1 DEF Go
  <2>3. CASE c = d
    <3>1. call'[c] = next
      BY <1>0, <2>2, <2>3
    <3>2. \E e \in Draft : /\ object[e].key \in SymKey
                           /\ next = Scheduling(e, object[e].key, FALSE)
      <4>1. next.at = "schedule"
        BY <3>1
      <4>2. next # NoCall
        BY <4>1 DEF NoCall
      <4>3. \A e \in Draft, m \in Prefix : next # Saving(e, m)
        BY <4>1 DEF Saving
      <4>4. \A e \in Draft, m \in Prefix, k \in SymKey : next # Uploading(e, m, k)
        BY <4>1 DEF Uploading
      <4> QED
        BY <2>1, <4>1, <4>2, <4>3, <4>4 DEF Begins
    <3>3. PICK e \in Draft : next = Scheduling(e, object[e].key, FALSE)
      BY <3>2
    <3>4. next.draft = e /\ next.key = object[e].key
      BY <3>3 DEF Scheduling
    <3> QED
      BY <2>2, <3>1, <3>4
  <2>4. CASE c # d
    BY <1>0, <2>2, <2>4
  <2> QED
    BY <2>3, <2>4
<1>3. ASSUME NEW d \in Caller, Upload(d)
      PROVE  Read2
  <2>1. call[c].at = "schedule" /\ call'[c].draft # call[d].draft /\ call'[c] = call[c]
    BY <1>3, UploadEffect
  <2>2. object'[call'[c].draft] = object[call[c].draft]
    BY <1>1, <1>3, <2>1, UploadEffect
  <2> QED
    BY <1>0, <2>1, <2>2
<1>4. ASSUME NEW d \in Caller, Schedule(d)
      PROVE  Read2
  <2>1. call'[c] = call[c] /\ object' = object
    BY <1>0, <1>4 DEF Schedule, NoCall
  <2> QED
    BY <1>0, <2>1
<1>5. ASSUME NEW D \in SUBSET Draft, NEW m \in Prefix, BulkDelete(D, m), call' = call
      PROVE  Read2
  <2>1. object'[call[c].draft] = object[call[c].draft]
    BY <1>1, <1>5, DeleteEffect
  <2> QED
    BY <1>0, <1>5, <2>1
<1>6. ASSUME NEW d \in Caller, DeleteDrafts(d)
      PROVE  Read2
  <2>1. call' = call
    BY <1>6 DEF DeleteDrafts
  <2> QED
    BY <1>5, <1>6, <2>1, CancelsCounted
<1>7. ASSUME NEW d \in Caller, DeleteLost(d)
      PROVE  Read2
  BY <1>5, <1>7 DEF DeleteLost
<1>8. CASE UNCHANGED <<object, call>>
  BY <1>0, <1>8
<1> QED
  BY <1>2, <1>3, <1>4, <1>6, <1>7, <1>8, StepCases
     DEF CancelScheduled, CancelBehind, CancelLost, Send, KeysChange

\* The service's entry names the key of the object, or it is noted that the
\* object was saved again.
LEMMA ScheduledOpensStep ==
  ASSUME TypeOK, ListingsCover, KeysAreRead, ScheduledOpens, [Next]_vars
  PROVE  ScheduledOpens'
<1>0. \A d \in Draft : (schedule[d] # None /\ object[d] # None) =>
                          object[d].key = schedule[d] \/ d \in resaved
  BY DEF ScheduledOpens, Scheduled
<1> SUFFICES ASSUME NEW d \in Draft, schedule'[d] # None, object'[d] # None
             PROVE  object'[d].key = schedule'[d] \/ d \in resaved'
  BY DEF ScheduledOpens, Scheduled
<1> DEFINE Opens == object'[d].key = schedule'[d] \/ d \in resaved'
<1>1. ASSUME NEW c \in Caller, Starts(c)
      PROVE  Opens
  BY <1>0, <1>1 DEF Starts, Go, history
<1>2. ASSUME NEW c \in Caller, Upload(c)
      PROVE  Opens
  <2>1. schedule' = schedule /\ resaved' = resaved \cup ({call[c].draft} \cap Scheduled)
    BY <1>2 DEF Upload
  <2>2. d # call[c].draft => object'[d] = object[d]
    BY <1>2, UploadEffect
  <2> QED
    BY <1>0, <2>1, <2>2 DEF Scheduled
<1>3. ASSUME NEW c \in Caller, Schedule(c)
      PROVE  Opens
  <2>1. object' = object /\ call[c].at = "schedule"
    BY <1>3 DEF Schedule
  <2>2. CASE d = call[c].draft
    <3>1. schedule'[d] = call[c].key
      BY <1>3, <2>2 DEF Schedule, TypeOK
    <3>2. CASE call[c].stale
      BY <1>3, <2>2, <3>2 DEF Schedule
    <3>3. CASE ~call[c].stale
      BY <2>1, <2>2, <3>1, <3>3 DEF KeysAreRead, HasReadKey
    <3> QED
      BY <3>2, <3>3
  <2>3. CASE d # call[c].draft
    <3>1. schedule'[d] = schedule[d] /\ (d \in resaved => d \in resaved')
      BY <1>3, <2>3 DEF Schedule, TypeOK
    <3> QED
      BY <1>0, <2>1, <3>1
  <2> QED
    BY <2>2, <2>3
<1>4. ASSUME NEW D \in SUBSET Draft, NEW m \in Prefix, BulkDelete(D, m),
             UNCHANGED <<schedule, resaved>>
      PROVE  Opens
  <2>1. object'[d] = object[d]
    BY <1>4, DeleteEffect
  <2> QED
    BY <1>0, <1>4, <2>1
<1>5. ASSUME NEW c \in Caller, DeleteDrafts(c)
      PROVE  Opens
  <2>1. UNCHANGED <<schedule, resaved>>
    BY <1>5 DEF DeleteDrafts
  <2> QED
    BY <1>4, <1>5, <2>1, CancelsCounted
<1>6. ASSUME NEW c \in Caller, DeleteLost(c)
      PROVE  Opens
  BY <1>4, <1>6 DEF DeleteLost
<1>7. ASSUME NEW e \in Draft, EndSchedule(e), object' = object
      PROVE  Opens
  <2>1. d # e /\ schedule'[d] = schedule[d]
    BY <1>7 DEF EndSchedule, TypeOK
  <2> QED
    BY <1>0, <1>7, <2>1 DEF EndSchedule
<1>8. ASSUME NEW c \in Caller, CancelScheduled(c)
      PROVE  Opens
  BY <1>7, <1>8 DEF CancelScheduled
<1>9. ASSUME NEW e \in Draft, CancelBehind(e) \/ Send(e)
      PROVE  Opens
  BY <1>7, <1>9 DEF CancelBehind, Send
<1>10. CASE UNCHANGED <<object, schedule, resaved>>
  BY <1>0, <1>10
<1> QED
  BY <1>1, <1>2, <1>3, <1>5, <1>6, <1>8, <1>9, <1>10, StepCases DEF CancelLost, KeysChange

-----------------------------------------------------------------------------
(* Every step keeps what is said of the drafts under way *)

\* A call goes into flight for a draft that is there, with its mask, or for a
\* new one.
LEMMA FlightGrounds ==
  ASSUME NEW c \in Caller, NEW next \in Call, Begins(c, next), next.at \in {"save", "upload"}
  PROVE  \/ next.at = "save" /\ IsAt(next.draft, next.mask)
         \/ /\ next.at = "upload"
            /\ call[c].at = "save" /\ call[c].draft = next.draft /\ call[c].mask = next.mask
         \/ /\ next.at = "upload"
            /\ next.draft \notin Stored \cup removed
            /\ \A o \in Caller : call[o].at = "upload" => call[o].draft # next.draft
<1>1. next # NoCall
  BY DEF NoCall
<1>2. \A d \in Draft, k \in SymKey : next # Scheduling(d, k, FALSE)
  BY DEF Scheduling
<1>3. CASE \E d \in Draft, m \in Prefix : next = Saving(d, m) /\ IsAt(d, m)
  <2>1. PICK d \in Draft, m \in Prefix : next = Saving(d, m) /\ IsAt(d, m)
    BY <1>3
  <2>2. next.at = "save" /\ next.draft = d /\ next.mask = m
    BY <2>1 DEF Saving
  <2> QED
    BY <2>1, <2>2
<1>4. ASSUME NEW d \in Draft, NEW m \in Prefix, NEW k \in SymKey, next = Uploading(d, m, k)
      PROVE  next.at = "upload" /\ next.draft = d /\ next.mask = m
  BY <1>4 DEF Uploading
<1> QED
  BY <1>1, <1>2, <1>3, <1>4 DEF Begins

\* A step starts a call, or uploads, deletes, or leaves the objects alone; the
\* last three start nothing.
LEMMA ObjectCases ==
  ASSUME TypeOK, ListingsCover, [Next]_vars
  PROVE  \/ \E c \in Caller : Starts(c)
         \/ /\ \A c \in Caller :
                 call'[c].at \in {"save", "upload", "read"} => call'[c] = call[c]
            /\ \/ /\ \E c \in Caller : Upload(c)
                  /\ UNCHANGED <<removed, raced>>
               \/ \E D \in SUBSET Draft, m \in Prefix : BulkDelete(D, m)
               \/ UNCHANGED <<object, removed, raced>>
<1>1. ASSUME NEW c \in Caller, Upload(c)
      PROVE  /\ \A o \in Caller :
                  call'[o].at \in {"save", "upload", "read"} => call'[o] = call[o]
             /\ UNCHANGED <<removed, raced>>
  <2>1. UNCHANGED <<removed, raced>>
    BY <1>1 DEF Upload
  <2>2. \A o \in Caller : call'[o].at # "schedule" => call'[o] = call[o] \/ call'[o] = NoCall
    BY <1>1, UploadEffect
  <2> QED
    BY <2>1, <2>2 DEF NoCall
<1>2. ASSUME NEW c \in Caller, Schedule(c)
      PROVE  /\ \A o \in Caller :
                  call'[o].at \in {"save", "upload", "read"} => call'[o] = call[o]
             /\ UNCHANGED <<object, removed, raced>>
  BY <1>2 DEF Schedule, NoCall, TypeOK
<1>3. ASSUME NEW c \in Caller, DeleteDrafts(c)
      PROVE  call' = call /\ \E D \in SUBSET Draft, m \in Prefix : BulkDelete(D, m)
  BY <1>3, CancelsCounted DEF DeleteDrafts
<1>4. ASSUME NEW c \in Caller, DeleteLost(c)
      PROVE  call' = call /\ \E D \in SUBSET Draft, m \in Prefix : BulkDelete(D, m)
  BY <1>4 DEF DeleteLost
<1>5. ASSUME NEW c \in Caller, CancelScheduled(c)
      PROVE  UNCHANGED <<object, call, removed, raced>>
  BY <1>5 DEF CancelScheduled
<1>6. ASSUME NEW d \in Draft, CancelBehind(d) \/ CancelLost(d) \/ Send(d)
      PROVE  UNCHANGED <<object, call, removed, raced>>
  BY <1>6 DEF CancelBehind, CancelLost, Send
<1>7. CASE KeysChange
  BY <1>7 DEF KeysChange
<1> QED
  BY <1>1, <1>2, <1>3, <1>4, <1>5, <1>6, <1>7, StepCases

\* Nothing stored or on its way is of a draft removed for good.
LEMMA RemovedForGoodStep ==
  ASSUME TypeOK, ListingsCover, RemovedForGood, [Next]_vars
  PROVE  RemovedForGood'
<1> SUFFICES ASSUME NEW d \in removed', d \notin raced'
             PROVE  /\ object'[d] = None
                    /\ \A c \in Caller :
                         call'[c].at \in {"save", "upload"} => call'[c].draft # d
  BY DEF RemovedForGood, InFlight
<1>0. d \in removed /\ d \notin raced =>
        /\ object[d] = None
        /\ \A c \in Caller : call[c].at \in {"save", "upload"} => call[c].draft # d
  BY DEF RemovedForGood, InFlight
<1>1. ASSUME NEW b \in Caller, Starts(b)
      PROVE  /\ object'[d] = None
             /\ \A c \in Caller :
                  call'[c].at \in {"save", "upload"} => call'[c].draft # d
  <2>1. PICK next \in Call : Go(b, next) /\ Begins(b, next)
    BY <1>1 DEF Starts
  <2>2. /\ UNCHANGED <<object, removed, raced>>
        /\ \A c \in Caller : call'[c] = IF c = b THEN next ELSE call[c]
    BY <2>1 DEF Go, history, TypeOK
  <2>3. next.at \in {"save", "upload"} => next.draft # d
    BY <1>0, <2>1, <2>2, FlightGrounds DEF IsAt
  <2> QED
    BY <1>0, <2>2, <2>3
<1>2. ASSUME NEW b \in Caller, Upload(b), UNCHANGED <<removed, raced>>,
             \A c \in Caller : call'[c].at \in {"save", "upload", "read"} => call'[c] = call[c]
      PROVE  /\ object'[d] = None
             /\ \A c \in Caller :
                  call'[c].at \in {"save", "upload"} => call'[c].draft # d
  <2>1. d \in Draft /\ d # call[b].draft
    BY <1>0, <1>2 DEF Upload, TypeOK
  <2>2. object'[d] = object[d]
    BY <1>2, <2>1, UploadEffect
  <2> QED
    BY <1>0, <1>2, <2>2
<1>3. ASSUME NEW D \in SUBSET Draft, NEW m \in Prefix, BulkDelete(D, m),
             \A c \in Caller : call'[c].at \in {"save", "upload", "read"} => call'[c] = call[c]
      PROVE  /\ object'[d] = None
             /\ \A c \in Caller :
                  call'[c].at \in {"save", "upload"} => call'[c].draft # d
  <2>1. d \in Draft /\ d \notin raced /\ (object'[d] = object[d] \/ object'[d] = None)
    BY <1>3, DeleteEffect
  <2>2. CASE d \in removed
    BY <1>0, <1>3, <2>1, <2>2
  <2>3. CASE d \notin removed
    BY <1>3, <2>3, DeleteEffect DEF InFlight
  <2> QED
    BY <2>2, <2>3
<1>4. ASSUME UNCHANGED <<object, removed, raced>>,
             \A c \in Caller : call'[c].at \in {"save", "upload", "read"} => call'[c] = call[c]
      PROVE  /\ object'[d] = None
             /\ \A c \in Caller :
                  call'[c].at \in {"save", "upload"} => call'[c].draft # d
  BY <1>0, <1>4
<1> QED
  BY <1>1, <1>2, <1>3, <1>4, ObjectCases

\* Nobody stores a draft under another mask than it has.
LEMMA OneMaskStep ==
  ASSUME TypeOK, ListingsCover, OneMask, [Next]_vars
  PROVE  OneMask'
<1> DEFINE Flies(x) == x.at \in {"save", "upload"}
           Masked(x, obj) == obj[x.draft] # None => obj[x.draft].mask = x.mask
           Known(x, obj, gone) == x.at = "save" => obj[x.draft] # None \/ x.draft \in gone
<1>0. \A c \in Caller :
        /\ call[c] \in Call
        /\ Flies(call[c]) =>
             /\ call[c].draft \in Draft
             /\ Masked(call[c], object)
             /\ \A o \in Caller :
                  Flies(call[o]) /\ call[o].draft = call[c].draft => call[o].mask = call[c].mask
        /\ Known(call[c], object, removed)
  <2>1. \A c \in Caller : call[c] \in Call /\ (Flies(call[c]) => call[c].draft \in Draft)
    BY CallFields DEF TypeOK
  <2> QED
    BY <2>1 DEF OneMask, InFlight, Stored
<1> DEFINE Agree ==
             \A c \in Caller :
               /\ Flies(call'[c]) =>
                    /\ Masked(call'[c], object')
                    /\ \A o \in Caller : Flies(call'[o]) /\ call'[o].draft = call'[c].draft
                                           => call'[o].mask = call'[c].mask
               /\ call'[c].at = "save" =>
                    call'[c].draft \in Draft /\ Known(call'[c], object', removed')
<1>1. ASSUME NEW b \in Caller, Starts(b)
      PROVE  Agree
  <2>1. PICK next \in Call : Go(b, next) /\ Begins(b, next)
    BY <1>1 DEF Starts
  <2>2. /\ UNCHANGED <<object, removed>>
        /\ \A c \in Caller : call'[c] = IF c = b THEN next ELSE call[c]
    BY <2>1 DEF Go, history, TypeOK
  <2>3. ASSUME Flies(next)
        PROVE  /\ next.draft \in Draft
               /\ Masked(next, object)
               /\ Known(next, object, removed)
               /\ \A o \in Caller \ {b} :
                    Flies(call[o]) /\ call[o].draft = next.draft => call[o].mask = next.mask
    <3>1. next.draft \in Draft
      BY <2>3, CallFields
    <3>2. CASE next.at = "save" /\ IsAt(next.draft, next.mask)
      BY <1>0, <3>1, <3>2 DEF IsAt
    <3>3. CASE /\ next.at = "upload"
               /\ call[b].at = "save" /\ call[b].draft = next.draft /\ call[b].mask = next.mask
      BY <1>0, <3>1, <3>3
    <3>4. CASE /\ next.at = "upload"
               /\ next.draft \notin Stored \cup removed
               /\ \A o \in Caller : call[o].at = "upload" => call[o].draft # next.draft
      <4>1. object[next.draft] = None /\ next.draft \notin removed
        BY <3>1, <3>4 DEF Stored
      <4>2. \A o \in Caller : Flies(call[o]) => call[o].draft # next.draft
        BY <1>0, <3>4, <4>1
      <4> QED
        BY <3>1, <3>4, <4>1, <4>2
    <3> QED
      BY <2>1, <2>3, <3>2, <3>3, <3>4, FlightGrounds
  <2> QED
    BY <1>0, <2>2, <2>3
<1> DEFINE Still == \A c \in Caller :
                      call'[c].at \in {"save", "upload", "read"} => call'[c] = call[c]
<1>2. ASSUME NEW b \in Caller, Upload(b), removed' = removed, Still
      PROVE  Agree
  <2>1. /\ call[b].at = "upload" /\ call[b].draft \in Draft
        /\ object'[call[b].draft] # None
        /\ object'[call[b].draft].mask = call[b].mask
        /\ \A e \in Draft : e # call[b].draft => object'[e] = object[e]
    BY <1>2, UploadEffect DEF Upload
  <2>2. ASSUME NEW c \in Caller, Flies(call[c])
        PROVE  Masked(call[c], object') /\ Known(call[c], object', removed)
    <3>1. CASE call[c].draft = call[b].draft
      BY <1>0, <2>1, <2>2, <3>1
    <3>2. CASE call[c].draft # call[b].draft
      BY <1>0, <2>1, <2>2, <3>2
    <3> QED
      BY <3>1, <3>2
  <2> QED
    BY <1>0, <1>2, <2>2
<1>3. ASSUME NEW D \in SUBSET Draft, NEW m \in Prefix, BulkDelete(D, m), Still
      PROVE  Agree
  <2>1. /\ \A d \in Draft : object'[d] = object[d] \/ (object'[d] = None /\ d \in removed')
        /\ removed \subseteq removed'
    BY <1>3, DeleteEffect
  <2>2. ASSUME NEW c \in Caller, Flies(call[c])
        PROVE  Masked(call[c], object') /\ Known(call[c], object', removed')
    BY <1>0, <2>1, <2>2
  <2> QED
    BY <1>0, <1>3, <2>2
<1>4. ASSUME UNCHANGED <<object, removed>>, Still
      PROVE  Agree
  BY <1>0, <1>4
<1>5. Agree
  BY <1>1, <1>2, <1>3, <1>4, ObjectCases
<1> QED
  BY <1>5 DEF OneMask, InFlight, Stored

\* A listing misses no draft without a mask: none it has passed by comes to be
\* without one.
LEMMA ListingsCoverStep ==
  ASSUME TypeOK, OneMask, ListingsCover, [Next]_vars
  PROVE  ListingsCover'
<1> DEFINE Full(r, obj, gone) ==
             /\ \A d \in r.there : d \in Draft /\ (obj[d] # None \/ d \in gone)
             /\ Cardinality(r.there) <= PageLimit =>
                  \A d \in r.there \ gone :
                    obj[d] # None /\ obj[d].mask = None => d \in r.left \cup r.got
<1>0. \A c \in Caller : call[c].at = "read" => Full(call[c], object, removed)
  <2>1. removed \subseteq Draft
    BY DEF TypeOK
  <2> QED
    BY <2>1 DEF ListingsCover, Covers, Stored, IsAt
<1> SUFFICES ASSUME NEW c \in Caller, call'[c].at = "read"
             PROVE  Full(call'[c], object', removed')
  BY DEF ListingsCover, Covers, Stored, IsAt
<1>1. ASSUME NEW b \in Caller, Starts(b)
      PROVE  Full(call'[c], object', removed')
  <2>1. PICK next \in Call : Go(b, next) /\ Begins(b, next)
    BY <1>1 DEF Starts
  <2>2. /\ UNCHANGED <<object, removed>>
        /\ call'[c] = IF c = b THEN next ELSE call[c]
    BY <2>1 DEF Go, history, TypeOK
  <2>3. ASSUME next.at = "read"
        PROVE  Full(next, object, removed)
    <3>1. /\ next # NoCall
          /\ \A d \in Draft, m \in Prefix : next # Saving(d, m)
          /\ \A d \in Draft, m \in Prefix, k \in SymKey : next # Uploading(d, m, k)
          /\ \A d \in Draft, k \in SymKey : next # Scheduling(d, k, FALSE)
      BY <2>3 DEF NoCall, Saving, Uploading, Scheduling
    <3>2. Covers(next)
      BY <2>1, <3>1 DEF Begins
    <3>3. removed \subseteq Draft
      BY DEF TypeOK
    <3> QED
      BY <3>2, <3>3 DEF Covers, Stored, IsAt
  <2> QED
    BY <1>0, <2>2, <2>3
<1> DEFINE Still == \A o \in Caller :
                      call'[o].at \in {"save", "upload", "read"} => call'[o] = call[o]
<1>2. ASSUME NEW b \in Caller, Upload(b), removed' = removed, Still
      PROVE  Full(call'[c], object', removed')
  <2>1. /\ call[b].at = "upload" /\ call[b].draft \in Draft
        /\ object'[call[b].draft] # None
        /\ object'[call[b].draft].mask = call[b].mask
        /\ \A e \in Draft : e # call[b].draft => object'[e] = object[e]
    BY <1>2, UploadEffect DEF Upload
  <2>2. object[call[b].draft] # None => object[call[b].draft].mask = call[b].mask
    BY <2>1 DEF OneMask, InFlight
  <2>3. Full(call[c], object, removed) /\ call'[c] = call[c]
    BY <1>0, <1>2
  <2>4. \A d \in call[c].there :
          d \notin removed => (object'[d] # None /\ object'[d].mask = None =>
                                 object[d] # None /\ object[d].mask = None)
    BY <2>1, <2>2, <2>3
  <2>5. \A d \in call[c].there : d \in Draft /\ (object'[d] # None \/ d \in removed)
    BY <2>1, <2>3
  <2> QED
    BY <1>2, <2>3, <2>4, <2>5
<1>3. ASSUME NEW D \in SUBSET Draft, NEW m \in Prefix, BulkDelete(D, m), Still
      PROVE  Full(call'[c], object', removed')
  <2>1. /\ \A d \in Draft : object'[d] = object[d] \/ (object'[d] = None /\ d \in removed')
        /\ removed \subseteq removed'
    BY <1>3, DeleteEffect
  <2>2. Full(call[c], object, removed) /\ call'[c] = call[c]
    BY <1>0, <1>3
  <2> QED
    BY <2>1, <2>2
<1>4. ASSUME UNCHANGED <<object, removed>>, Still
      PROVE  Full(call'[c], object', removed')
  BY <1>0, <1>4
<1> QED
  BY <1>1, <1>2, <1>3, <1>4, ObjectCases

-----------------------------------------------------------------------------
(* The theorems *)

LEMMA InitIInv ==
  ASSUME Init
  PROVE  IInv
<1>1. None \notin SymKey /\ None \in Object \cup {None} /\ MaxCancels \in Nat
  BY NoneAssumption, LimitAssumption
<1>2. \A c \in Caller : call[c] = NoCall /\ call[c].at = "none"
  BY DEF Init, NoCall
<1>3. TypeOK
  BY <1>1, CallsMade DEF Init, TypeOK, Scheduled
<1>4. Stored = {} /\ Scheduled = {}
  BY DEF Init, Stored, Scheduled
<1> QED
  BY <1>2, <1>3, <1>4
     DEF IInv, Init, DeletedIsCancelled, KeptStaysScheduled, CancelsAreUnwanted, KeysAreRead,
         HasReadKey, ScheduledOpens, RemovedForGood, OneMask, InFlight, ListingsCover

\* Every reachable state has all the parts of the inductive invariant.
THEOREM Inductive == Spec => []IInv
<1>1. IInv /\ [Next]_vars => IInv'
  BY TypeOKStep, DeletedIsCancelledStep, WantedStep, KeysAreReadStep, ScheduledOpensStep,
     RemovedForGoodStep, OneMaskStep, ListingsCoverStep DEF IInv, Wanted
<1> QED
  BY <1>1, InitIInv, PTL DEF Spec

\* Every reachable state of the bucket, the schedules and the calls is well
\* typed.
THEOREM TypeCorrect == Spec => []TypeOK
<1>1. IInv => TypeOK
  BY DEF IInv
<1> QED
  BY <1>1, Inductive, PTL

\* The cancellations behind a deletion leave no entry of a deleted draft, other
\* than where an answer was lost or it was being scheduled then.
THEOREM DeletedAlwaysCancelled == Spec => []DeletedIsCancelled
<1>1. IInv => DeletedIsCancelled
  BY DEF IInv
<1> QED
  BY <1>1, Inductive, PTL

\* No deletion of other drafts, nor one that fails for it, ends the schedule of
\* a draft.
THEOREM KeptAlwaysScheduled == Spec => []KeptStaysScheduled
<1>1. IInv => KeptStaysScheduled
  BY DEF IInv
<1> QED
  BY <1>1, Inductive, PTL

\* The service can open what it was given to send, however keys change.
THEOREM ScheduledAlwaysOpens == Spec => []ScheduledOpens
<1>1. IInv => ScheduledOpens
  BY DEF IInv
<1> QED
  BY <1>1, Inductive, PTL

\* A deleted draft comes back only with an update that was on its way.
THEOREM DeletedAlwaysStaysGone == Spec => []DeletedStaysGone
<1>1. IInv => DeletedStaysGone
  BY DEF IInv, RemovedForGood, DeletedStaysGone
<1> QED
  BY <1>1, Inductive, PTL

\* What is stored without a mask is listed, whatever else comes and goes.
THEOREM UnmaskedAlwaysListed == Spec => []ListsUnmasked
<1>1. IInv => ListsUnmasked
  <2> SUFFICES ASSUME IInv, NEW c \in Caller, HasListed(c),
                      Cardinality(call[c].there) <= PageLimit,
                      NEW d \in call[c].there \ removed, IsAt(d, None)
               PROVE  d \in call[c].got
    BY DEF ListsUnmasked
  <2>1. Covers(call[c]) /\ call[c].left = {}
    BY DEF IInv, ListingsCover, HasListed
  <2> QED
    BY <2>1 DEF Covers
<1> QED
  BY <1>1, Inductive, PTL
=============================================================================
