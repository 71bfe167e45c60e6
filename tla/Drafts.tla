------------------------------- MODULE Drafts -------------------------------
(***************************************************************************)
(* The drafts of one email address: objects of an S3 bucket, saved under   *)
(* the mask they were written for and sealed with the symmetric key that   *)
(* was current, and the service's table of drafts scheduled to be sent.    *)
(*                                                                         *)
(* A call of the client is a sequence of awaits, and other calls, a change *)
(* of keys and the sending of scheduled drafts happen between them.        *)
(***************************************************************************)
EXTENDS Integers, FiniteSets, FiniteSetsExt

CONSTANTS
  Draft,     \* identifiers of drafts, each given to one by v4()
  Mask,      \* email masks of the address
  SymKey,    \* symmetric keys
  Caller,    \* calls of the client that may be in flight at once
  None,
  PageLimit, \* how many objects listDraftEmailMessages asks for
  MetadataLimit, \* how many listDraftEmailMessageMetadata asks for
  MaxCancels \* bound: cancellations of one draft left behind at once

\* What a call may name as emailMaskId.
Prefix == Mask \cup {None}

\* What the bucket holds of a draft.
Object == [mask : Prefix, key : SymKey]

ASSUME NoneAssumption == None \notin Draft \cup Mask \cup SymKey \cup Object

\* An id is a UUID, of which there are finitely many.
ASSUME DraftAssumption == IsFiniteSet(Draft)

\* listDraftEmailMessageMetadata asks for 1000, as many as S3 ever lists.
ASSUME LimitAssumption ==
  /\ {PageLimit, MetadataLimit, MaxCancels} \subseteq Nat \ {0}
  /\ PageLimit <= MetadataLimit

VARIABLES
  object,      \* the object stored for a draft: its prefix and the key of its metadata
  schedule,    \* the symmetric key of the service's SCHEDULED entry under the
               \* draft's key without a mask
  currentKey,  \* the symmetric key new drafts are sealed with
  held,        \* the symmetric keys of the device
  call,        \* where each call is
  cancels,     \* cancellations a deletion left behind, for each draft
  removed,     \* history: drafts whose object was deleted at some time
  raced,       \* history: an update was on its way when the object was deleted
  wanted,      \* history: scheduled, and since then neither cancelled nor
               \* reported deleted
  late,        \* history: a cancellation was lost, or a scheduling overlapped
               \* the deletion
  resaved      \* history: saved since the schedule read its key

keys == <<currentKey, held>>
history == <<removed, raced, wanted, late, resaved>>
vars == <<object, schedule, keys, call, cancels, history>>

NoCall == [at |-> "none"]
Saving(d, m) == [at |-> "save", draft |-> d, mask |-> m]
Uploading(d, m, k) == [at |-> "upload", draft |-> d, mask |-> m, key |-> k]
\* stale: the object was saved again after its key was read.
Scheduling(d, k, s) == [at |-> "schedule", draft |-> d, key |-> k, stale |-> s]
\* there: what was stored when it listed; left: what it has still to read.
Reading(there, left, got) ==
  [at |-> "read", there |-> there, left |-> left, got |-> got]

Call ==
  {NoCall}
    \cup {Saving(d, m) : d \in Draft, m \in Prefix}
    \cup {Uploading(d, m, k) : d \in Draft, m \in Prefix, k \in SymKey}
    \cup {Scheduling(d, k, s) : d \in Draft, k \in SymKey, s \in BOOLEAN}
    \cup {Reading(D, left, got) :
            D \in SUBSET Draft, left \in SUBSET Draft, got \in SUBSET Draft}

Init ==
  /\ object = [d \in Draft |-> None]
  /\ schedule = [d \in Draft |-> None]
  /\ currentKey \in SymKey
  /\ held = {currentKey}
  /\ call = [c \in Caller |-> NoCall]
  /\ cancels = [d \in Draft |-> 0]
  /\ removed = {} /\ raced = {} /\ wanted = {} /\ late = {} /\ resaved = {}

-----------------------------------------------------------------------------
(* The bucket and the service *)

Stored == {d \in Draft : object[d] # None}

\* The draft is under the key made of its id and this prefix.
IsAt(d, m) == object[d] # None /\ object[d].mask = m

\* listObjectsV2 of at most n objects under draft/, masks and all, in the order
\* of their keys: ids are random, so any n of them may come first.
ListObjects(n) == kSubset(Min({n, Cardinality(Stored)}), Stored)

\* A page of metadata: the masks, by the ids of the drafts.
DraftsMetadata(n) ==
  {[d \in page |-> object[d].mask] : page \in ListObjects(n)}

\* Schedulings of d that have read the key of its object.
Outdated(d) ==
  [c \in Caller |-> IF call[c].at = "schedule" /\ call[c].draft = d
                    THEN Scheduling(d, call[c].key, TRUE)
                    ELSE call[c]]

\* What listScheduledDraftMessagesForEmailAddressId lists as SCHEDULED.
Scheduled == {d \in Draft : schedule[d] # None}

\* The entry of d, if it has one, is SENT, FAILED or CANCELLED from now on.
EndSchedule(d) ==
  /\ schedule' = [schedule EXCEPT ![d] = None]
  /\ late' = late \ {d}
  /\ resaved' = resaved \ {d}

\* The service sends a scheduled draft, or fails to.
Send(d) ==
  /\ d \in Scheduled
  /\ EndSchedule(d)
  /\ wanted' = wanted \ {d}
  /\ UNCHANGED <<object, keys, call, cancels, removed, raced>>

-----------------------------------------------------------------------------
(* Keys come and go by the calls of module DeviceKeys. *)

NewKey(k) ==
  /\ k \notin held
  /\ currentKey' = k
  /\ held' = held \cup {k}
  /\ UNCHANGED <<object, schedule, call, cancels, history>>

LoseKeys ==
  /\ currentKey' = None
  /\ held' = {}
  /\ UNCHANGED <<object, schedule, call, cancels, history>>

-----------------------------------------------------------------------------
(* Saving *)

Go(c, next) ==
  /\ call' = [call EXCEPT ![c] = next]
  /\ UNCHANGED <<object, schedule, keys, cancels, history>>

\* Variant: goes on without a key.
SealUnchecked(c, d, m) == Go(c, Uploading(d, m, currentKey))

\* saveDraft up to the upload: it takes the current key and seals with it.
SealDraft(c, d, m) == currentKey # None /\ Go(c, Uploading(d, m, currentKey))

\* v4() gives an id no draft had.
CreateDraft(c) ==
  /\ call[c] = NoCall
  /\ \E d \in Draft \ (Stored \cup removed), m \in Prefix :
       /\ \A o \in Caller : call[o].at = "upload" => call[o].draft # d
       /\ SealDraft(c, d, m)

\* Variant: an update goes on to save whether or not the draft is there.
UpdateUnchecked(c) ==
  call[c] = NoCall /\ \E d \in Draft, m \in Prefix : Go(c, Saving(d, m))

\* An update reads the draft first, with the key it was sealed with; then it
\* checks the new contents, which takes requests of its own.
UpdateDraft(c) ==
  /\ call[c] = NoCall
  /\ \E d \in Draft, m \in Prefix :
       /\ IsAt(d, m)
       /\ object[d].key \in held
       /\ Go(c, Saving(d, m))

SaveUpdate(c) == call[c].at = "save" /\ SealDraft(c, call[c].draft, call[c].mask)

\* The object is stored, whatever was under its key. The HEAD that follows
\* gives the time of update.
Upload(c) ==
  /\ call[c].at = "upload"
  /\ LET d == call[c].draft IN
       /\ object' = [object EXCEPT ![d] = [mask |-> call[c].mask, key |-> call[c].key]]
       /\ call' = [Outdated(d) EXCEPT ![c] = NoCall]
       /\ resaved' = resaved \cup ({d} \cap Scheduled)
  /\ UNCHANGED <<schedule, keys, cancels, removed, raced, wanted, late>>

-----------------------------------------------------------------------------
(* Deleting *)

\* deleteObjects deletes those of D that are under the prefix.
BulkDelete(D, m) ==
  LET gone == {d \in D : IsAt(d, m)} IN
    /\ object' = [d \in Draft |-> IF d \in gone THEN None ELSE object[d]]
    /\ removed' = removed \cup gone
    /\ raced' = raced \cup
         {d \in gone : \E c \in Caller :
            call[c].at \in {"save", "upload"} /\ call[c].draft = d}

\* Variant: cancels nothing when a deletion failed.
SucceededOrNone(D, failed) == IF failed = {} THEN D ELSE {}

\* Variant: the failures are left out of the error map.
SucceededAll(D, failed) == D

\* The ids reported deleted, whose schedules are cancelled: those not in the
\* error map, which for S3 includes ids of no object. S3 is taken to name key and
\* message in every error: with either empty, a failed id counts as deleted.
Succeeded(D, failed) == D \ failed

\* deleteDraftEmailMessages returns; the cancellations go on without it. The
\* deletion, its answer and the queueing of the cancellations are one step: the
\* queue is read by nobody but CancelBehind, which may wait as long.
DeleteDrafts(c) ==
  /\ call[c] = NoCall
  /\ \E D \in SUBSET Draft, m \in Prefix : \E failed \in SUBSET D :
       LET done == Succeeded(D, failed) IN
         /\ BulkDelete(D \ failed, m)
         /\ \A d \in done : cancels[d] < MaxCancels
         /\ cancels' = [d \in Draft |-> cancels[d] + IF d \in done THEN 1 ELSE 0]
         /\ wanted' = wanted \ (D \ failed)
  /\ UNCHANGED <<schedule, keys, call, late, resaved>>

\* The answer of deleteObjects is lost: the call rejects, and cancels nothing.
DeleteLost(c) ==
  /\ call[c] = NoCall
  /\ \E D \in SUBSET Draft, m \in Prefix :
       /\ BulkDelete(D, m)
       /\ late' = late \cup (D \cap Scheduled)
       /\ wanted' = wanted \ D
  /\ UNCHANGED <<schedule, keys, call, cancels, resaved>>

\* cancelScheduledDraftMessage at the service: no entry, no error.
CancelBehind(d) ==
  /\ cancels[d] > 0
  /\ cancels' = [cancels EXCEPT ![d] = @ - 1]
  /\ EndSchedule(d)
  /\ UNCHANGED <<object, keys, call, removed, raced, wanted>>

\* It fails; the failure is logged.
CancelLost(d) ==
  /\ cancels[d] > 0
  /\ cancels' = [cancels EXCEPT ![d] = @ - 1]
  /\ late' = late \cup ({d} \cap Scheduled)
  /\ UNCHANGED <<object, schedule, keys, call, removed, raced, wanted, resaved>>

-----------------------------------------------------------------------------
(* Scheduling *)

\* Variant: the current key instead of the one the object names.
ScheduleWithCurrent(c) ==
  /\ call[c] = NoCall
  /\ \E d \in Draft : IsAt(d, None) /\ currentKey # None
                      /\ Go(c, Scheduling(d, currentKey, FALSE))

\* The metadata of the object name the key; the object is looked for without a
\* mask, even if the call names one. The key must be on the device.
ScheduleDraft(c) ==
  /\ call[c] = NoCall
  /\ \E d \in Draft :
       /\ IsAt(d, None)
       /\ object[d].key \in held
       /\ Go(c, Scheduling(d, object[d].key, FALSE))

\* The service is told the key, and of the draft only where it is.
Schedule(c) ==
  /\ call[c].at = "schedule"
  /\ LET d == call[c].draft IN
       /\ schedule' = [schedule EXCEPT ![d] = call[c].key]
       /\ late' = IF object[d] = None THEN late \cup {d} ELSE late \ {d}
       /\ wanted' = IF object[d] # None /\ cancels[d] = 0 THEN wanted \cup {d} ELSE wanted
       /\ resaved' = IF call[c].stale THEN resaved \cup {d} ELSE resaved \ {d}
  /\ call' = [call EXCEPT ![c] = NoCall]
  /\ UNCHANGED <<object, keys, cancels, removed, raced>>

CancelScheduled(c) ==
  /\ call[c] = NoCall
  /\ \E d \in Draft : EndSchedule(d) /\ wanted' = wanted \ {d}
  /\ UNCHANGED <<object, keys, call, cancels, removed, raced>>

-----------------------------------------------------------------------------
(* Listing *)

\* Bound: one call lists at a time, since listing changes nothing others see.
MayList(c) == call[c] = NoCall /\ \A o \in Caller : call[o].at # "read"

\* Metadata carry the masks, and nothing is read after them.
ListMetadata(c) ==
  /\ MayList(c)
  /\ \E found \in DraftsMetadata(MetadataLimit) : Go(c, Reading(Stored, {}, DOMAIN found))

\* One page of metadata, then every draft of it is read.
ListDrafts(c) ==
  /\ MayList(c)
  /\ \E found \in DraftsMetadata(PageLimit) : Go(c, Reading(Stored, DOMAIN found, {}))

\* Variant: a draft that is not found leaves the ones after it unread.
ReadUntilMissing(c) ==
  /\ call[c].at = "read"
  /\ \E d \in call[c].left :
       IF IsAt(d, None)
       THEN Go(c, Reading(call[c].there, call[c].left \ {d}, call[c].got \cup {d}))
       ELSE Go(c, Reading(call[c].there, {}, call[c].got))

\* getDraft of the ids of the page, without the masks of their metadata; those
\* not found are left out. One that does not unseal rejects the call.
Read(c) ==
  /\ call[c].at = "read"
  /\ \E d \in call[c].left :
       /\ IsAt(d, None) => object[d].key \in held
       /\ Go(c, Reading(call[c].there, call[c].left \ {d},
                        call[c].got \cup {n \in {d} : IsAt(n, None)}))

\* A call has nothing left to do and returns, or rejects at an await: no key,
\* too many recipients, a request that fails.
End(c) == call[c] # NoCall /\ Go(c, NoCall)

-----------------------------------------------------------------------------
Save(c) == CreateDraft(c) \/ UpdateDraft(c) \/ SaveUpdate(c) \/ Upload(c)
Remove(c) == DeleteDrafts(c) \/ DeleteLost(c)
SetSchedule(c) == ScheduleDraft(c) \/ Schedule(c) \/ CancelScheduled(c)
List(c) == ListMetadata(c) \/ ListDrafts(c) \/ Read(c)

Next ==
  \/ \E c \in Caller : Save(c) \/ Remove(c) \/ SetSchedule(c) \/ List(c) \/ End(c)
  \/ \E d \in Draft : CancelBehind(d) \/ CancelLost(d) \/ Send(d)
  \/ \E k \in SymKey : NewKey(k)
  \/ LoseKeys

Spec == Init /\ [][Next]_vars

-----------------------------------------------------------------------------
(* Properties *)

\* A call that lists has read all of its page and returns.
HasListed(c) == call[c].at = "read" /\ call[c].left = {}

\* What the client, the bucket and the service can hold; what is noted of a
\* schedule is noted of one.
TypeOK ==
  /\ object \in [Draft -> Object \cup {None}]
  /\ schedule \in [Draft -> SymKey \cup {None}]
  /\ cancels \in [Draft -> 0..MaxCancels]
  /\ currentKey \in held \cup {None} /\ held \subseteq SymKey
  /\ call \in [Caller -> Call]
  /\ raced \subseteq removed /\ removed \subseteq Draft
  /\ late \cup resaved \subseteq Scheduled

\* A draft whose object is gone is not listed as scheduled once the
\* cancellations behind its deletion have been answered, whatever deletions
\* failed beside it; unless an answer was lost or it was being scheduled then.
DeletedIsCancelled ==
  \A d \in Scheduled :
    object[d] # None \/ cancels[d] > 0 \/ d \in late

\* A scheduled draft stays scheduled until it is sent, cancelled by a call, or
\* reported deleted: a deletion that fails for it cancels nothing.
KeptStaysScheduled == wanted \subseteq Scheduled

\* The service was given the key that opens the object, however the device's
\* keys changed while the call was on its way; a draft saved again under a
\* later key keeps the entry with the former.
ScheduledOpens ==
  \A d \in Scheduled :
    object[d] # None => object[d].key = schedule[d] \/ d \in resaved

\* A deleted draft is there again only if an update had found it before and
\* was on its way by then; one that begins later finds nothing to save over.
DeletedStaysGone == \A d \in removed : object[d] = None \/ d \in raced

\* listDraftEmailMessages returns every draft saved without a mask that was
\* there when it began and was not deleted, if one page holds all that was
\* there: those under masks and those deleted meanwhile do not hide others.
ListsUnmasked ==
  \A c \in Caller :
    HasListed(c) /\ Cardinality(call[c].there) <= PageLimit =>
      {d \in call[c].there \ removed : IsAt(d, None)} \subseteq call[c].got

\* "Lists the metadata and content of all draft email messages for the user":
\* whatever mask a draft was saved under, and however many there are.
ListsAll ==
  \A c \in Caller : HasListed(c) => call[c].there \ removed \subseteq call[c].got
=============================================================================
