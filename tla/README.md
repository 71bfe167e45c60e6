# sudo-email-js: a TLA+ model

`sudo-email-js` is the client library of an email service that keeps everything
sealed: message bodies, drafts, folder names, aliases and mask metadata reach
the service encrypted, under keys that only the user's device has. The service
(GraphQL over AppSync, objects in S3) is outside the repository; what is inside
is the code that keeps device, cache and service in step while calls of the
application overlap, fail half way and are cut off. That code is what the
modules here model, with TLC runs on small instances and TLAPS proofs for every
instance.

Paths below are relative to the repository; `private/` stands for
`src/private/` and `client` for `src/public/defaultSudoEmailClient.ts`.

## 1. The system

### Parts, state, operations

| Part | Where | State it keeps | Operations |
|---|---|---|---|
| Message body cache (Node) | `private/data/message/cache/{lazy,default}EmailMessageBodyCache.ts`, `betterSqlite3Adapter.ts` | an in-memory limit; SQLite rows (`cache`, `settings`); one file per large body | `get`, `put`, `deleteMessage`, `flush`, `flushAll`, `setCacheSizeLimit`, initialisation behind a promise |
| Body cache storage in the browser | `sqlJsAdapter.ts` | a database in the memory of each page; its image in IndexedDB, which all pages of an origin share | the same interface; a page opens and closes |
| Message bodies | `defaultEmailMessageService.ts` 684-760, `deleteEmailMessagesUseCase.ts`, `deprovisionEmailAccountUseCase.ts`, client | none of its own; reads through the cache | get a message with its body, delete messages, purge on deprovision, on a deletion event, on `reset()` |
| Event subscriptions | `defaultEmailMessageService.ts` 1065-1240, `subscriptionManager.ts` | per event kind: subscribers, a watcher, a stream | subscribe, unsubscribe, stream events and ends |
| Device keys | `private/data/common/deviceKeyWorker.ts` | in the key manager: key pairs, symmetric keys, two names for "current" ones | generate, look up, seal, unseal, remove |
| Addresses, folders, masks | `private/data/{account,folder,mask}`, their use cases, client's mutex | the service's records, sealed under the device's keys | provision, deprovision, get, list, set alias; create, rename, delete folder; provision, update, list, deprovision mask |
| Drafts and scheduled messages | `defaultEmailMessageService.ts` 202-511, `use-cases/draft` | sealed objects in S3, schedules in the service | save, update, delete, get, list, schedule, cancel |
| Sending | `sendEmailMessageUseCase.ts`, `util/emailMessageUtil.ts`, `defaultEmailMessageService.ts` 513-620 | a transient S3 object | send plain or end-to-end encrypted |
| End-to-end encryption | `private/data/secure` | none | encrypt for a set of recipients, decrypt |
| Blocklist | `private/data/blocklist` | the service's list of hashes and sealed values | block for the owner or one address, unblock by address or by hash, list |
| Batch operations | `updateEmailMessagesUseCase.ts`, client 459-499 | none | update, delete many messages; partial results |
| Object storage, API client, configuration, domains, sign-in guard, RFC 822 encoding, transformers | `private/data/common`, `private/data/{configuration,emailDomain}`, `private/util` | none | single requests and translations |

### How the parts interact

```
 application
   |  calls (any number at a time)
 DefaultSudoEmailClient ---- mutex: provision / deprovision / get / list addresses
   |            |                       |
   |  message service            account, folder, mask services
   |   |    |      \                    |        \
   | cache  S3   subscriptions    device keys    GraphQL service
   |   |            |                 |
   |  SQLite+files  streams      key manager
   +-- reset(): keys, then cache
```

Everything runs on one JavaScript thread. Two calls interleave only where one of
them awaits; between two awaits code is atomic. Some work is deliberately not
awaited (`void cache.put(..)` after a download, `void Promise.all(..)` purging
after a delete), so it goes on behind a call that has returned. Other actors are
the service (which other devices use too), the event streams, and the process
itself, which may die at any instruction, leaving its disk and its key manager.

### What is hard about it

* **Interleaving at awaits.** `put` evicts, awaits, then stores;
  `setCacheSizeLimit` stores, awaits, then evicts. `subscribe` looks for a
  watcher, awaits a stream, then installs one. `getCurrentSymmetricKeyId` and
  `generateCurrentSymmetricKey` are five awaits, outside any lock for folders
  and masks.
* **Work behind a call that has returned**: a put that overlaps a purge of the
  same message.
* **Two stores that must agree**: row and file of a large body; limit in memory
  and in the settings table; a record of the service and the key that opens it;
  the identifier of a key and the key.
* **Partial failure and crashes** between the two writes of each such pair.
* **Work at the end of the promise, not of the write**: a browser page saves its
  whole database after every change; after one rejected save it never saves again.
* **Answers in another vocabulary than the question**: a batch of addresses is sent
  as hashes, and what was done is told in hashes.
* **Two pieces of code that must decide alike**: whether a message is encrypted is
  decided by one use case when it is sent, by another when it is saved as a draft.
* **Lost answers and lost events**: a mutation served whose answer never
  arrives; a deletion event published while disconnected.

### What makes each part correct

| Part | Correctness |
|---|---|
| Body cache | total size bounded by the limit; rows and files agree; a failure costs a cached body, never more; operations end |
| Message bodies | a body deleted before a read is not served; purged bodies stay purged; a read comes to what it would come to without the cache, until a disk or the process has failed; reads end |
| Subscriptions | nobody subscribed is left without a stream, or without a notice unless a callback told before theirs throws; no stream leaks or stays open for nobody |
| Keys and records | whatever the service holds for the user can be opened on the device; a lock is passed on; a status is never reported wrongly because of another call |
| Drafts | what was saved is listed and can be read; a deleted draft is not sent; an interrupted save loses neither version |
| Sending | everyone addressed can decrypt what is encrypted; what cannot be encrypted for everyone is not encrypted |
| Blocklist | of a batch done in part, every address is named for what happened to it; what was blocked can be unblocked |
| Browser storage | a page opened again finds what the last left; an open page keeps the promise of the cache whatever becomes of its saves |

## 2. The modules

| Module | Models | Role |
|---|---|---|
| `BodyCache` | lazy + default cache over the better-sqlite3 adapter | component |
| `BoundedStore` | what the interface comment of `EmailMessageBodyCache` promises | abstract specification |
| `MessageBodies` | reading and purging bodies through the cache, against the service | composes `BodyCache` (EXTENDS), implements `Mailbox` |
| `Mailbox` | what reading a message with its body promises, whether or not there is a cache | abstract specification |
| `Subscriptions` | `subscribeToEmailMessages` over three `SubscriptionManager`s | component |
| `DeviceKeys` | device key worker, addresses, folders, masks, lists of messages, client mutex | component |
| `Drafts` | the drafts of one address: bucket, schedules, the calls over them | component |
| `Sending` | the form a message or draft takes, whose keys it is sealed to, what is read back | component |
| `Blocklist` | blocking, unblocking and listing, and the way back from hashes | component |
| `BrowserBodyCache` | default cache over the sql.js adapter; pages over one image | component, implements `BoundedStore` |
| `Subsequences` | what `Array.filter` and `DELETE .. WHERE` leave of a sequence, and what a `Set` keeps of it | operators of `Sending`, `Blocklist` and `BrowserBodyCache` |
| `MessageBodiesProofs` | theorems about `BodyCache` and `MessageBodies` | proofs |
| `SubscriptionsProofs`, `DeviceKeysProofs`, `DraftsProofs`, `SendingProofs`, `BlocklistProofs`, `BrowserBodyCacheProofs` | theorems about the module of that name | proofs |
| `SubsequencesProofs` | lemmas about `Subsequences` | proofs |
| `MC...` | sizes, owners and symmetry for the runs | instances |

A definition whose comment calls it a variant (`BlockFailsAfterRow` beside
`BlockFails`) is the code with a plausible bug: a guard dropped, two writes
swapped, a lock not taken. Each property of a passing run is violated when its variant
replaces the faithful definition; no specification uses the variants.

### BodyCache

State and code: `adapter` is the settling of `cachePromise`; `limit` is
`cacheSizeLimitBytes`; `savedLimit` the row of `settings`; `rows` and
`accessedAt` the table; `blob` the files of bodies above
`largeMessageThresholdBytes`. `op[p]` says which synchronous block activity `p`
runs next: the adapter's methods are `async` but synchronous inside, so an
operation is one or two blocks split at each `await` of the cache on it, after a first await in the
lazy wrapper. Every block is an action with the method's own early returns
(`Inactive`, `PutOversize`, `GetMiss`, `GetStale`). `Call` starts any operation of
the interface; `TakeResult` lets a caller continue.

Failures: `BlockFails` and `SetLimitFails` are a file or SQL call that throws,
which the cache logs and swallows; `Crash` ends the process between or inside
blocks. In both cases `Tear` gives what is left of the files: SQLite undoes its
rows, nothing undoes an unlink or a write. It allows any subset of the files a
block would remove, where the code removes them in one order: more outcomes than
the code has, none fewer.

`Kept` states what the eviction loop leaves by a condition on sets rather than as
a loop. `EvictLoop` is the loop itself, as the sequence of rows it deletes, with ties in
any order, and `EvictsLeastRecent` compares the two in every reachable state.

### BoundedStore

A set of entries and a limit. Entries join by a put alone and only when they
fit; they may be dropped at any time; changing the limit opens an interval in which the total
may exceed it, closed by an eviction; 0 empties the store. `BodyCache` instantiates
it as `Promise` with `entries <- rows` and `shrinking <-` "some operation is
between the two blocks of `setCacheSizeLimit`". `BrowserBodyCache` instantiates it once
for each page.

### MessageBodies

Extends `BodyCache` with the service's messages (`exists`), the deletion events
not yet handled, and `task[p]`, the call of the client an activity is in: lookup
of the metadata, `cache.get`, download, and the put left behind; deletion and
deprovisioning, whose answers can be lost, with the purges they leave behind; the
deletion event; the cache operations the application calls itself, and `reset()`.
`late` marks a read that began after the deletion of its message; `purged` is
history. Rows of one millisecond are evicted in any order, so the
clock is left standing.

A read throws on three accounts that have nothing to do with the cache: the request for
the metadata is rejected (`LookupRejected`), S3 fails in another way than by missing the
key (`DownloadRejected`), or the body cannot be decoded on this device (`Decoded`). The
last depends on `readable`, the messages whose keys the device holds: `reset()` removes
every key before it flushes (`Reset`), deprovisioning an address removes its pair unless
that is shared, and keys come and go in other ways (`KeysChange`). A body that cannot be
decoded is put in the cache all the same, as in the code. `CacheHit` decodes what the
cache returned, which may also be a file cut short ("cut"). An answer that is lost
(`AnswerLost`) is a failure of the service, not of the cache, and leaves all of the
cache as it is: every step of `ServiceNext` is then a step of `BodyCache` or leaves it
alone, which `ClientUsesCache` proves.

### Mailbox

Messages, which of them this device can decode, the read each activity is in, and what
its last read came to; no cache. A read serves the body if the message was there when it
began, is the address's and can be decoded (`Serve`); it resolves to nothing if the
message is not the address's, or is gone by the end (`FindNothing`). It throws if a
request of its own is rejected (`Reject`) or if the body cannot be decoded here
(`Undecodable`), and for a body cut short only after something has failed (`Fail`).
`MessageBodies` instantiates it as `Uncached`, with the failures of cache and process
added up and the stages of a read, rows, files and limit hidden: `CacheIsTransparent`
says that reads through the cache come to what reads without one come to. Among other
things no read serves a body that was deleted before it began (`LateReadsServeNothing`,
a theorem of its own), nor one of another address, nor meets a body cut short before a
file or the process has failed.

### Subscriptions

Per event kind the manager's subscribers, its watcher flag and its stream, beside
`open`, the streams the service really has open. A call enters the three kinds
one after another and awaits one stream for each kind without a watcher;
`Unsubscribe` is synchronous; `StreamEnds` is the completion or failure of any
open stream, known to the manager or not. `notice` is what the last step told each
subscriber. A manager tells its subscribers one after another in a `forEach` that
nothing guards, so a callback that throws ends it (`TellThrows`): when a stream ends,
the rest have been dropped by then and are never told; when one arrives, the call that
awaited it throws though its stream stays (`ArrivalThrows`). `crossed` remembers an id unsubscribed
while its own call awaited a stream: the stream then opens for nobody, which
`NoIdleStream` excuses and shows to be the only way but overlapping calls. The
events themselves, and a subscriber's callback calling back into the client, are not
modelled.

### DeviceKeys

`Call` is a set of calls, each of which runs once; keys, addresses and masks are named
by the call that makes them, as UUIDs are by nothing else. `password` is the key
manager's two names (current symmetric key, singleton key pair), `keys` what it holds,
`owner` the service's records, `queue` the mutex of the client. Each await of the key
manager or of the service is a step, in the order of the code: which path a call takes
is `First`, `AfterPair` and `AfterSymmetric`. `Fault` rejects any await (a request may
have been served, its answer lost); `Crash` ends all calls and keeps the key manager;
`ListMessages` and `Unseal` are the lists of messages, which run outside the mutex:
messages are sealed under the key pair of their address, and each is looked up a key for
after the service has answered. `Reset` is `removeAllKeys`, which no mutex guards, and
`erased` remembers what it took, since the properties cannot hold for that.

`SudoKeyManager` is not in the repository. Two of its behaviours are left open:
`addPassword` on a name that is taken either replaces or rejects, and
`deletePassword` of an absent name does nothing.

### Drafts

`object` is the bucket: for each draft the mask prefix it was stored under and the key
it is sealed with. `schedule` is the service's table of drafts to be sent, under the
draft's name *without* a mask, and the key each was scheduled with. A call is a
sequence of steps, each up to the first await after it has read or written something
others can see: an update reads (`UpdateDraft`), checks, seals (`SaveUpdate`) and
uploads (`Upload`); scheduling reads the key of the object (`ScheduleDraft`) and gives
it to the service (`Schedule`). `cancels` counts the cancellations
`deleteDraftEmailMessages` leaves behind without awaiting them. The service sends
drafts at any time (`Send`), keys come and go (`NewKey`, `LoseKeys`, the summary of
`DeviceKeys`), requests fail and answers are lost (`DeleteLost`, `CancelLost`, `End`).
The history variables say what a property must excuse: `raced` an update under way
during the deletion, `late` a cancellation that was lost or overtaken, `resaved` a
save after the key was read.

### Sending

A message is a list of recipients, a list of files and a size. `directory` is the
service's public information (a key, and whether the address accepts encryption) and
changes between the look-up of recipients and the request that carries the message;
`config` is the service's flags. Two paths decide the form: `EncryptsSent` as
`sendEmailMessageUseCase.ts` does, including the domains of masks when masks are on, and
`EncryptsDraft` as `processMessageForS3Upload` does, without. The test for an internal
domain is by substring, on whichever domains it is given, so an address elsewhere counts
as internal if it contains a configured domain (`NamesOurs`) or, where masks are asked
about, a domain of masks (`NamesMasks`). On what is read back the same kind of test
tells a sealed body from a plain one: a plain draft whose text contains the content id
of a sealed body (`quotes`, `coded`) is taken for one and cannot be read, and neither
can a draft when `reset()` removes the keys it was sealed with (`locked`). An encrypted
message is an envelope: inline files stay beside the sealed body, and a parse keeps the
first file of each name. Calls share nothing but directory and keys, so one runs at a
time. Files are parted by `Pick` of `Subsequences`, which says of each position what it
holds, where the library's `SelectSeq` is recursive and could not be proved about.

### Blocklist

The service keeps one entry for each hash; the hash is of an owner or one of the
owner's addresses, and of a normalized address or its domain. `Distinct` and
`Normalized` make the batch that is hashed; `Named` goes back from the hashes of a
partial answer to addresses, by index in the list as the caller gave it. An entry
blocked for one address can be unblocked only by its hash, as listed; unblocking by
address hashes under the owner. Keys are lost at any step (`LoseKeys`), which leaves
entries that are listed but cannot be read. `wrote`, which the service does not see, is
one of the spellings an entry was made from, for `UnblockedIsGone` to speak of.

### BrowserBodyCache

`page[p]` is the memory of a page: the rows in order of access, the limit, the
row of settings, `persistenceDisabled`, and the exports on their way to IndexedDB; `image` is
what IndexedDB holds. Every adapter method ends in `Persist`, an export of the whole
database as it is then; `waits` says how many exports the operation awaits before its
next block. IndexedDB serves the requests of a page in the order they were made
(`Saved`). A save may be rejected, after which the page saves no more, or its request
may succeed and its transaction abort, for which `saveToIndexedDB` does not wait
(`NotSaved`). `OpenPage` reads the image, or starts empty when that fails, and saves
at once. A page runs one changing operation at a time with lookups beside it; what
overlapping operations do to rows and limit is in `BodyCache`, and so are accesses
within one millisecond.

## 3. What is checked

Instances are as small as the hazards allow, and the reason is given for each.

| Run | Instance | Shows |
|---|---|---|
| `bodycache_concurrent` | 3 bodies (one inline, two in files; one of no sudo; two addresses), 2 activities, limits 0 and 2, one failure, one crash | typing; `OverrunBounded`; `BlobsMatchRows`; `LimitInSync` |
| `bodycache_sequential` | the same bodies, one activity, limits 0, 1, 3, three clock values | `EvictsLeastRecent`; `KeepsPromise`, the refinement of `BoundedStore` |
| `bodies_concurrent` | 1 message, two addresses, 2 activities, limits 0 and 2, one failure of the cache; rejected requests and lost keys without bound | `CacheIsTransparent`, the refinement of `Mailbox`; `PurgedStaysGone` |
| `bodies_onecall` | 2 messages, 1 activity, limit 2, one failure, one crash, fairness | `OneFailureTolerated`; `ReadsEnd`; `OperationsEnd` |
| `bodies_corrupt` (violation) | 2 activities, one failure | `CacheNeverBreaksRetrieval` fails: a file cut short under an existing row |
| `browser` | 2 pages, 2 bodies (sizes 1 and 2), limits 0, 2, 3, one export of a lookup at a time, one load or save that fails | `ReloadsAsLeft`; `PageKeepsPromise`, the refinement of `BoundedStore` by each page |
| `subscriptions` | 2 subscribers, 2 calls, 2 streams per kind, one rejection or throwing callback | `WatcherIsLive`; `NoStreamLeaks`; `NoIdleStream`; `ResolvedIsServed`; `NoSilentLoss` |
| `keys` | 3 calls of any kind, one rejected await or crash, any number of resets | `LockIsPassedOn`; `RecordsAreReadable`; `FailedMeansErased`; `OneSingleton`; `RefusedOnlyWithoutKey` |
| `drafts` | 2 drafts, one mask, 2 keys, 2 calls, pages of 2, one cancellation left behind for each draft | `DeletedIsCancelled`; `KeptStaysScheduled`; `ScheduledOpens`; `DeletedStaysGone`; `ListsUnmasked` |
| `drafts_listed` (violation) | the same | `ListsAll` fails: a draft saved under a mask is left out |
| `sending` | the sender, one address of ours, one mask, three elsewhere (one that contains our domain, one that contains the masks'), 2 keys, 10 messages, two changes of directory or keys | `ReadableByAll`; `DraftStaysReadable`; `FilesSurvive`; `DraftLikeSent` |
| `blocklist` | two addresses of one domain, one in two spellings, and the domain; one inbox; 2 keys; 5 batches | `NamesDistinct`; `UnblockedIsGone` |

The first run of each module checks its type invariant too; `browser`, whose two
properties fix what is in rows, limit and image, has none.

Why these bounds are enough. *Two activities*: every hazard of the cache is a race of
two operations; what `n` activities add is the subject of `OverrunBounded`, which is
proved for any number. *Three bodies*: an eviction with a victim, a survivor and an
incomer, inline and in files. *Limits 0 and 2 over sizes 1, 2, 2*: disabled, exactly
full, and over. *One failure, one crash*: the pairs of writes that must agree are broken
by one; `bodies_corrupt` needs one failure and a second reader. Crashes are in
`bodycache_concurrent` and `bodies_onecall`, and the limit 0 beside reads in
`bodies_concurrent`; the theorems of `MessageBodiesProofs` take all of them together, in
any number. *Three calls*: a record-making call, a call that disturbs it and a call that
reports the outcome; the address, folder and mask calls need no more, since an address
is provisioned by one call; `MCView` leaves out of a call that has ended what nothing
reads any more. *Two clock values*: an older and a newer access, and a tie. *Two drafts,
two calls*: the draft a call is about and another that must not suffer for it; calls
race in pairs, and a schedule, a cancellation left behind and the service's own sending
are actors beside them; one call lists at a time, since listing changes nothing others
see. *Two changes*: the recipient's key, and the sender's. *Batches of up to three*: two
spellings of one address and one behind them. *Two pages*: two are what it takes to
overwrite; two bodies that fit one by one, and together only under the larger limit.

Deadlock checking is on in every run.

### Findings

Two violation runs are disagreements between the code and what its comments
promise; `PROJECT.json` quotes them.

1. `bodies_corrupt`: "a cache failure must never prevent message retrieval": a
   rewrite of a large body that fails half way leaves a cut file under the old
   row, which reads return until the row goes. With one call at a time it takes
   more than one failure (`OneFailureTolerated`).
2. `drafts_listed`: "Lists the metadata and content of all draft email messages for
   the user": each draft is read by id and address alone, so one saved under a mask
   is looked for where it is not and left out; and one page is read for each address.
   What does hold is `ListsUnmasked`.

Others met while modelling are in the models as the code has them; the properties
that pass say how far the promise holds:

* "to ensure the total cached size does not exceed the limit" (interface of the
  cache, `put`) holds one operation at a time (`KeepsPromise`, and theorem
  `WithinLimitOneAtATime`); two puts that overlap each make room for themselves and
  then both store. The overrun is bounded (`OverrunBounded`) and stays until the next
  eviction.
* "Remove successfully deleted messages from the local cache"
  (`deleteEmailMessagesUseCase.ts:66`): a read in flight during the deletion puts the body
  back. It is never served (`CacheIsTransparent`).
* A subscriber told DISCONNECTED because one of three streams ended goes on
  receiving the events of the others (`typings/emailMessage.ts:156`); nobody is
  dropped untold by a manager whose callbacks return (`NoSilentLoss`).
* A callback that throws keeps the disconnect from everybody after it: the manager has
  dropped them all before it tells the first (`subscriptionManager.ts:81`). The same loop
  tells of a new stream, so the callback of one subscriber rejects the subscribe call of
  another (`defaultEmailMessageService.ts:1088`), whose id stays in the managers entered.
* A failure between storing the identifier of the singleton key pair
  (`deviceKeyWorker.ts:224`) and generating it makes every later provisioning fail
  until `reset()`; no address is provisioned without its pair (`RecordsAreReadable`).
* "map the hashed values ... to the cleartext email addresses we passed in"
  (`defaultEmailAddressBlocklistService.ts:90`): hashes are of the distinct, normalized
  addresses and the index is used in the list as given, so after one address in two
  spellings every later one is named by the one before it. `NamesDistinct` states the
  condition: no two of the batch come to one hash.
* "Check if any recipient's domain is not one of ours" (`emailMessageUtil.ts:88`) is a
  search for a substring: a message to an address at a domain whose name contains ours is refused
  as to an unknown address of the network. With masks enabled the domains of masks are
  searched for as well when a message is sent (`sendEmailMessageUseCase.ts:163`), not when
  it is saved: a draft to an address elsewhere that contains one is plain, and the same
  message is refused (the exception in `DraftLikeSent`).
* Whether a draft is encrypted is decided on reading by whether its text contains the
  content id of a sealed body (`defaultEmailMessageService.ts:325`): a plain draft that
  quotes one can be saved and not be read again (`DraftStaysReadable` says of which
  drafts this does not happen).

### Fairness

Only `bodies_onecall` assumes any: weak fairness of the start of the cache, of
every step of a read and of every block of a cache operation. The event loop runs
what is queued, a promise that settles resumes its awaiter, and a request is
answered or times out. Nothing is assumed of calls (the application need not make
one), of deletions, of failures or of crashes, and no step is strongly fair. The safety runs
assume none.

## 4. What is proved

Every property of a passing run is a theorem for every instance, but for those listed
under *Only model-checked*. The theorems hold for any sets of messages, callers, keys,
drafts and pages, and any bounds on failures, crashes and saves.

| Module | Theorems | In words |
|---|---|---|
| `MessageBodiesProofs` (the cache by itself) | `TypeCorrect`, `LimitStaysInSync`, `BlobsAlwaysMatchRows`, `OverrunAlwaysBounded` | typing, `LimitInSync`, `BlobsMatchRows`, `OverrunBounded` |
| | `CacheKeepsPromise`, `WithinLimitOneAtATime` | with one activity and no faults, the cache implements `BoundedStore`, and so stays within its limit |
| | `AlwaysEvictsLeastRecent`, `EvictionAlwaysEnds` | `EvictsLeastRecent`; the eviction loop has an end, for any rows, sizes, access times and limit |
| | `OperationsAdvance` | an operation takes two blocks at most, whatever happens beside it |
| `MessageBodiesProofs` (inside the client) | `ServiceTypeCorrect`, `LateReadsNeverServe`, `PurgedNeverReturns`, `OneFailureIsTolerated` | typing; what late reads and purges come to; one failure, with one call at a time |
| | `CacheIsNeverSeen` | `CacheIsTransparent`: the client implements `Mailbox` |
| | `ReadsAdvance` | a read takes four steps at most, whatever happens beside it |
| | `ClientUsesCache`, `ClientOverrunBounded`, `ClientBlobsMatchRows`, `ClientLimitInSync`, `ClientEvictsLeastRecent`, `ClientKeepsPromise`, `ClientOperationsAdvance` | `ServiceSpec => Spec` of `BodyCache`: the client uses the cache only as it may be used, so what is proved of the cache holds inside the client |
| `SubscriptionsProofs` | `TypeCorrect`, `WatcherAlwaysLive`, `NoStreamEverLeaks`, `NoStreamIsIdle`, `ResolvedAlwaysServed`, `NoLossIsSilent` | all of `Subscriptions`, its action property included |
| `DeviceKeysProofs` | `TypeCorrect`, `LockAlwaysPassedOn`, `RecordsAlwaysReadable`, `FailedAlwaysErased`, `AlwaysOneSingleton`, `OnlyRefusedWithoutKey` | all of `DeviceKeys`, its action property included |
| `DraftsProofs` | `TypeCorrect`, `DeletedAlwaysCancelled`, `KeptAlwaysScheduled`, `ScheduledAlwaysOpens`, `DeletedAlwaysStaysGone`, `UnmaskedAlwaysListed` | all of `Drafts` |
| `SendingProofs` | `TypeCorrect`, `EverybodyCanRead`, `DraftsStayReadable`, `FilesAlwaysSurvive`, `DraftsAlwaysLikeSent` | all of `Sending` |
| `BrowserBodyCacheProofs` | `AlwaysReloadsAsLeft`, `PagesKeepPromise`, `PagesStayWithinLimit` | `ReloadsAsLeft`; the refinement of `BoundedStore` by every open page; and so a page within its limit stays within it |
| `BlocklistProofs` | `TypeCorrect`, `NamesAlwaysRight`, `UnblockedAlwaysGone` | all of `Blocklist` |
| `SubsequencesProofs` | `Picked` | what `Pick` returns, for every sequence |

In five modules a theorem `Inductive` states `Spec => []IInv` first.

### Assumptions

Only the named `ASSUME`s of the modules, all evaluated by TLC in the runs. Those that
say more than that a constant is a set or a bound a number:

* `BytesAssumption` (`BodyCache`, `BrowserBodyCache`): `Bytes` is additive on disjoint
  sets, which is what `SUM(size_bytes)` is.
* `DraftAssumption` and `ProcAssumption`: drafts and activities are finitely many, so
  that a listing or an overrun can be counted.
* `LimitAssumption` of `Drafts`: the page a listing reads is no larger than the one
  listing of metadata reads: 10 by default against 1000, which is all S3 ever gives.
  Without it `ListsUnmasked` is false.
* `AddressAssumption` of `Sending`: an address at a domain contains that domain, ours or
  the masks'. Nothing is assumed of the addresses that contain one and are elsewhere.
* `MessageAssumption` of `Sending`: a message has a sequence of addresses, a sequence of
  files, a size, and quotes the content id of a sealed body or does not.
* `NoneAssumption`, `NoKeyAssumption`, `StreamAssumption`: `None` is not something.

### The arguments

An invariant of a run speaks of calls at rest. What makes it inductive is, each time,
what it says of the calls under way; the parts are named in the proof modules, and
each was checked by TLC before it was proved.

**BodyCache.** `TypeOK`, `LimitInSync` and `BlobsMatchRows` are inductive together,
with `Remove` and `ClearAll`, which several actions share, treated once. `OverrunBounded`
speaks of the rows *and* of the bodies about to join them (`Pending`): every action but
`PutEvict` only removes from that set, or moves a body from pending to stored; `PutEvict`
leaves room for its own body, so what may exceed the limit is at most the pending
bodies of the *other* activities. The refinement needs `SequentialInv`: between the two
blocks of a put the body still fits, and between those of `setCacheSizeLimit` its
argument is still the limit. Both are false as soon as a second activity runs, which is
why the promise is kept one operation at a time only; the limit then follows from the
abstract store (`PromiseKeepsLimit`).

*Eviction.* `LoopKeeps`: whoever the loop deletes is older than who goes later and
than who stays, and the last one was one too many, which is `Kept`. `KeptByLoop` is the
other way round: the rows that go are put in the order of their accesses
(`OrderedByAccess`), that order is a run of the loop, and since what `Kept` leaves would
not fit with its last victim, nothing larger fits before. That finitely many rows can be
ordered at all is shown by the least number of rows that could not, there being no
induction. `RestFits` ends the loop at the first rest in that order which fits. Both need
the rows to be finite, which is an invariant of its own (`RowsFiniteStep`), as the set of
messages need not be.

*Progress.* `Blocks` and `StepsLeft` count what an operation and a read have before
them. Every step leaves them alone or takes one off: nothing is retried, and no step of another
activity sends one back. `OperationsEnd` and `ReadsEnd`, which TLC checks, follow from that and from
fairness; that the counted steps stay enabled is the part that no prover here can express.

**MessageBodies.** `UsesCache` ties each call of the client to the cache operation of
its activity. A read that began late never gets past the service's answer
(`LateIsUnknown`), whatever the cache still holds. A message purged for good is gone from
the service, from the rows and from every call under way, so none can put it back
(`PurgedForGood`). `OneFailureTolerated` with one call at a time: until something fails,
what a put stores has no row yet (`StoresAnew`), so the first failure cuts no file short
that a row names (`NoneCutShort`). For `CacheIsTransparent` a
step of a read before its last is a stutter, and the last one is the mailbox's: a read
past the lookup was begun in time (`LateIsUnknown`) and for the owner of its message
(`ReadsOwned`), and a get that hits before anything has failed returns the whole body
(`ReturnsWhole`, from `BlobsMatchRows`). What a read throws for want of a key or of an
answer it throws at a step that is the mailbox's too.

**Subscriptions.** While no calls have overlapped there is at most one (`OneCall`), and
it awaits a stream for a manager without one, for somebody (`AwaitsForSomebody`).
`ResolvedIsServed` holds because whoever was told nothing is served by the managers behind
its call and is on its way to the rest (`IntactIsServed`). `NoSilentLoss` goes through the
actions: only an unsubscribe and the end of a stream remove anybody, and if a callback
throws while a stream ends, somebody was told, who is not the one left untold.

**DeviceKeys.** The queue is exactly the exclusive calls under way, each once, with
the running one at its head (`MutexHeld`). A record can be opened because the request
that made it had its keys (`RequestsReadable`), because keys removed are those of a
record that is gone for good and whose call will not make another (`RemovesOrphans`,
`RecordsOwned`), and because what a list found it needs was held (`NeedsKnown`).
`SingletonShared` is what all addresses, and the one under way, agree on. `NamesLead`
is for `RefusedOnlyWithoutKey`: a name leads to a key or to the call about to make it.

**Drafts.** A cancellation still to come is for a draft nobody wants sent
(`CancelsAreUnwanted`); a scheduling has the key of the object that is there, unless it
is marked stale (`KeysAreRead`); who brings a removed draft back was on its way when it
was removed (`RemovedForGood`); an object and all calls about to store it agree on one
mask (`OneMask`); and a listing has read, or has still to read, every draft without a
mask that it found (`ListingsCover`).

**Sending.** What is known of the recipients is what the directory says, but of those it
changed since they were looked up (`Current`); a message is encrypted only where all are
known (`EverybodyIsKnown`). For `DraftLikeSent`, a call under way to save an encrypted
draft has found everyone it looked up (`DraftIsDecided`); that both paths ask about
configured domains leaves masks alone to differ by. For attachments, in any number and
order: `Encode` is a permutation, and `Parse` keeps the first of each name (`Keeps`).

**Blocklist.** A request carries the hashes of its batch, or of the whole list as it is
now (`HashesAreAsked`, `ListingIsCurrent`); an entry's hash can be computed from the
spelling kept with it (`WroteIsHashed`). If there are as many hashes as addresses, the
distinct addresses are all of them in their order (`DistinctKeeps`), no two share a hash
(`EachOnce`, by counting), and the way back by index is right (`NamedRightly`).

**BrowserBodyCache.** The image is behind the page by exactly the exports on their way,
and the last of these is of the database as it is (`LastIsCurrent`, `ImageIsCurrent`),
while one page is open (`OneOpen`) and nothing was lost. What a purge has deleted so far
is in the database of no page, in no export the purge waits for or a later one, and,
once it waits for none, not in the image (`DeletedIsAbsent`); when it resolves, that is
`GoneIsAbsent`. The refinement needs `StoresWithin` alone: a put that made room still
fits when it stores, since a page changes its rows one operation at a time.
`PagesStayWithinLimit` follows from it. It speaks of steps, not of states: the image may
have been saved between a lowered limit and its eviction, and a page opened from it
starts over the limit.

**Subsequences.** `Pick(s, I)` gives the `k`-th smallest position of `I` its place. That
each rank is taken, by one position only, is proved from the least element of a set of
naturals, by well-founded order rather than by induction over a formula, which the
installed provers cannot instantiate.

### Only model-checked

* `ReadsEnd`, `OperationsEnd`: liveness is out of the prover's reach. What is proved is that
  no step undoes another's progress (`ReadsAdvance`, `OperationsAdvance`) and that no
  action is stuck for want of an eviction (`EvictionAlwaysEnds`).
* The two violation runs, whose properties are false.

Proving changed the models in a few places. `Sending`, `Blocklist` and
`BrowserBodyCache` say with `Pick` what they said with recursive operators of the
libraries; `AnswerLost` no longer counts as a failure of the cache; `EvictLoop` became a
sequence of victims where it was a recursive function; two overlapping cases of `First`
in `DeviceKeys` became disjoint; and the assumptions on `Draft`, `PageLimit`, `Message`
and `Bytes` became explicit.

## 5. What is not modelled

`PROJECT.json` lists every component with its status and every hazard with the
properties that watch it, or the reason there is none. In short:

* *Text*: ciphers, headers and bodies of RFC 822 messages, GraphQL transformations
  and generated types (a third of the source lines) have no control to model.
* *Single requests*: the API client, configuration and domains, enabling,
  disabling and verifying masks, availability of addresses, `updateEmailMessages`. Each
  sends its input and returns the answer under other names; where a model needs one
  it is a request that is served, refused, or whose answer is lost.
* *External*: `SudoKeyManager`, `SignInGuard`, AppSync, S3, SQLite and IndexedDB are not in the
  repository and appear by what their callers see. Exporting and importing keys is
  an archive library's work.
* *Coarser than the code*: `DeviceKeys` reports `Failed` for every record it lacks a key
  for, where a folder without its key loses its name only and a mask its metadata
  (`NeedsOf`); the deletion of drafts, its answer and the firing of the cancellations are
  one step, as nobody reads their number but the cancellations themselves
  (`DeleteDrafts`); S3 is taken to name the key and the cause of a deletion it refuses,
  without which the client counts it as done (`Succeeded`).
* *Left out of a modelled part*: two Node clients sharing one cache directory; a
  change of `enforceSingletonPublicKey` between sessions; the order in which events
  of one stream are delivered, which no document promises; a page in which sql.js
  fails to load, which has no cache.

## 6. Plan

Done: *body cache and message bodies* (`BodyCache`, `BoundedStore`, `MessageBodies`,
`Mailbox`), *subscriptions and keys* (`Subscriptions`, `DeviceKeys`), *drafts* (`Drafts`), *sending
and blocklist* (`Sending`, `Blocklist`), *browser storage* (`BrowserBodyCache`), and the
proofs of their safety properties.

Left: the archive of keys, once its library's behaviour is known (it leaves public
keys out, which `getSingletonKeyPair` then does not find), and the hazards that
`PROJECT.json` lists without a property.
