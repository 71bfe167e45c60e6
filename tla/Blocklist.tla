------------------------------ MODULE Blocklist ------------------------------
(***************************************************************************)
(* The blocklist of an owner: addresses blocked for all of the owner's     *)
(* addresses or for one, listed, and unblocked again.                      *)
(*                                                                         *)
(* The service sees hashes and sealed values only. What it answers of a    *)
(* batch is in hashes, and is turned back into the addresses given.        *)
(***************************************************************************)
EXTENDS Integers, Sequences, FiniteSets, SequencesExt, Subsequences

CONSTANTS
  Written,     \* addresses and domains as a caller may write them
  Normal,      \* the normalized form of each
  DomainOf,    \* the domain of a normalized address
  WellFormed,  \* the normalized forms that are addresses
  Batch,       \* the lists of written addresses that calls are given
  Inbox,       \* ids of email addresses of the owner
  Owner,
  Key,         \* symmetric keys
  None

ASSUME WrittenAssumption ==
  /\ Normal \in [Written -> Written]
  /\ \A w \in Written : Normal[Normal[w]] = Normal[w]
  /\ WellFormed \subseteq Written /\ DomainOf \in [WellFormed -> Written]
  /\ \A b \in Batch : b \in Seq(Written)

ASSUME IdAssumption == Owner \notin Inbox /\ None \notin Key \cup Written

VARIABLES
  blocklist,  \* the service's entries, one for each hash
  current,    \* the device's current symmetric key, or None
  held,       \* the symmetric keys of the device
  call,       \* the call that is running: calls share nothing but the above
  outcome     \* what the last call came to

vars == <<blocklist, current, held, call, outcome>>

NoCall == [at |-> "none"]
Nothing == [is |-> "nothing"]
Refused == [is |-> "refused"]

Init ==
  /\ blocklist = {}
  /\ current \in Key \cup {None}
  /\ held = {current} \ {None}
  /\ call = NoCall
  /\ outcome = Nothing

-----------------------------------------------------------------------------
(* Hashes, and the way back from them *)

Hash(prefix, value) == [of |-> prefix, value |-> value]

Normalized(batch) == [i \in DOMAIN batch |-> Normal[batch[i]]]

\* The order of a JavaScript Set: each value where it first occurs.
FirstIn(s) == {i \in DOMAIN s : \A j \in 1..(i - 1) : s[j] # s[i]}
Distinct(s) == Pick(s, FirstIn(s))

Cleartext(address, level) == IF level = "address" THEN address ELSE DomainOf[address]

\* Hashes of what a batch blocks, in the order of its distinct addresses.
BlockHashes(batch, level, prefix) ==
  LET addresses == Distinct(Normalized(batch))
  IN [i \in DOMAIN addresses |-> Hash(prefix, Cleartext(addresses[i], level))]

\* Variant: the address is hashed as it is written.
UnblockHashesAsWritten(batch) == [i \in DOMAIN batch |-> Hash(Owner, batch[i])]

\* Only addresses blocked for the owner, not for one inbox, have these hashes.
UnblockHashes(batch) == [i \in DOMAIN batch |-> Hash(Owner, Normal[batch[i]])]

\* Variant: the service's answer is taken to be in the order of the request.
NamedInOrder(hashes, some, batch) == {batch[i] : i \in 1..Cardinality(some)}

\* indexOf in the hashes, applied to the batch as it was given.
Named(hashes, some, batch) ==
  {batch[SelectInSeq(hashes, LAMBDA g : g = h)] : h \in some}

-----------------------------------------------------------------------------
(* Calls, up to the request *)

\* An empty batch is refused.
BlockEmailAddresses(batch, level, prefix) ==
  /\ call = NoCall
  /\ IF batch = <<>>
     THEN outcome' = Refused /\ UNCHANGED call
     ELSE /\ call' = [at |-> "key", op |-> "block", batch |-> batch,
                      level |-> level, prefix |-> prefix, key |-> None]
          /\ outcome' = Nothing
  /\ UNCHANGED <<blocklist, current, held>>

\* createBlockedAddressInputs: without a current key, or with one address that is
\* none, the whole batch is refused.
TakeKey ==
  /\ call.at = "key"
  /\ IF current # None /\ ToSet(Normalized(call.batch)) \subseteq WellFormed
     THEN call' = [call EXCEPT !.at = "seal", !.key = current] /\ UNCHANGED outcome
     ELSE call' = NoCall /\ outcome' = Refused
  /\ UNCHANGED <<blocklist, current, held>>

\* The values are sealed if the key is still there.
Seal ==
  /\ call.at = "seal"
  /\ IF call.key \in held
     THEN /\ call' = [at |-> "request", op |-> "block", batch |-> call.batch,
                      level |-> call.level, prefix |-> call.prefix, key |-> call.key,
                      hashes |-> BlockHashes(call.batch, call.level, call.prefix)]
          /\ UNCHANGED outcome
     ELSE call' = NoCall /\ outcome' = Refused
  /\ UNCHANGED <<blocklist, current, held>>

\* Addresses given twice are refused here.
UnblockEmailAddresses(batch) ==
  /\ call = NoCall
  /\ IF batch = <<>> \/ Len(Distinct(Normalized(batch))) < Len(batch)
     THEN outcome' = Refused /\ UNCHANGED call
     ELSE /\ call' = [at |-> "request", op |-> "unblock", batch |-> batch,
                      hashes |-> UnblockHashes(batch)]
          /\ outcome' = Nothing
  /\ UNCHANGED <<blocklist, current, held>>

\* What has just been listed is unblocked by its hashes, all at once.
UnblockByHashedValue ==
  /\ outcome.is = "listed"
  /\ call = NoCall
  /\ IF outcome.items = {}
     THEN outcome' = Refused /\ UNCHANGED call
     ELSE /\ call' = [at |-> "request", op |-> "unhash",
                      hashes |-> SetToSeq({item.hash : item \in outcome.items})]
          /\ outcome' = Nothing
  /\ UNCHANGED <<blocklist, current, held>>

-----------------------------------------------------------------------------
(* The service, and what is made of its answer *)

\* Entries of the hashes that are blocked; "wrote" keeps one of the spellings a
\* caller gave. An address that is blocked already stays so, under its key or the
\* new one.
Blocked(some, kept) ==
  LET wrote(h) == CHOOSE w \in ToSet(call.batch) : Cleartext(Normal[w], call.level) = h.value
  IN {e \in blocklist : e.hash \notin some \/ e.hash \in kept}
       \cup {[hash |-> h, key |-> call.key, level |-> call.level, wrote |-> wrote(h)]
               : h \in some \ kept}

Serve(some) ==
  IF call.op = "block"
  THEN \E kept \in {{}, some \cap {e.hash : e \in blocklist}} :
         blocklist' = Blocked(some, kept)
  ELSE blocklist' = {e \in blocklist : e.hash \notin some}

\* A status alone if all or nothing was done, else which address was and which
\* was not; unblocking by hash answers in hashes.
Result(some) ==
  LET all == ToSet(call.hashes) IN
  IF some \in {{}, all}
  THEN [is |-> "done", call |-> call, status |-> IF some = all THEN "success" ELSE "failed"]
  ELSE [is |-> "partial", call |-> call, done |-> some,
        success |-> IF call.op = "unhash" THEN some ELSE Named(call.hashes, some, call.batch),
        failure |-> IF call.op = "unhash" THEN all \ some
                    ELSE Named(call.hashes, all \ some, call.batch)]

\* Any part of the batch may be done, and the answer lost.
Answered ==
  /\ call.at = "request"
  /\ \E some \in SUBSET ToSet(call.hashes) :
       Serve(some) /\ outcome' \in {Result(some), Refused}
  /\ call' = NoCall
  /\ UNCHANGED <<current, held>>

GetEmailAddressBlocklist ==
  /\ call = NoCall
  /\ call' = [at |-> "unseal", entries |-> blocklist]
  /\ outcome' = Nothing
  /\ UNCHANGED <<blocklist, current, held>>

\* Variant: entries that cannot be read are left out.
UnsealedOnly(entries) ==
  {[hash |-> e.hash, value |-> e.hash.value] : e \in {f \in entries : f.key \in held}}

\* Every entry is listed by its hash, without its value if it cannot be unsealed.
Unsealed(entries) ==
  {[hash |-> e.hash, value |-> IF e.key \in held THEN e.hash.value ELSE None] : e \in entries}

Listed ==
  /\ call.at = "unseal"
  /\ outcome' = [is |-> "listed", items |-> Unsealed(call.entries)]
  /\ call' = NoCall
  /\ UNCHANGED <<blocklist, current, held>>

\* Nobody is signed in, there is no such inbox, or a request fails.
Reject ==
  /\ call # NoCall
  /\ call' = NoCall
  /\ outcome' = Refused
  /\ UNCHANGED <<blocklist, current, held>>

-----------------------------------------------------------------------------
(* The device's keys *)

\* Variant: the id of the current key stays known.
LoseKeysOnly ==
  /\ held # {}
  /\ held' = {}
  /\ UNCHANGED <<blocklist, current, call, outcome>>

\* reset() removes all keys.
LoseKeys ==
  /\ held # {}
  /\ held' = {} /\ current' = None
  /\ UNCHANGED <<blocklist, call, outcome>>

\* A key is generated by provisioning, if there is none. Key ids are not reused,
\* nor is the id of a key that sealed something.
NewKey ==
  /\ current = None
  /\ \E k \in Key :
       /\ k \notin {e.key : e \in blocklist}
       /\ call.at \in {"seal", "request"} /\ call.op = "block" => k # call.key
       /\ current' = k /\ held' = held \cup {k}
  /\ UNCHANGED <<blocklist, call, outcome>>

Next ==
  \/ \E batch \in Batch :
       \/ \E level \in {"address", "domain"}, prefix \in Inbox \cup {Owner} :
            BlockEmailAddresses(batch, level, prefix)
       \/ UnblockEmailAddresses(batch)
  \/ TakeKey \/ Seal \/ UnblockByHashedValue \/ Answered
  \/ GetEmailAddressBlocklist \/ Listed \/ Reject
  \/ LoseKeys \/ NewKey

Spec == Init /\ [][Next]_vars

-----------------------------------------------------------------------------
(* Properties *)

\* The service keeps one entry for each hash, sealed under a key of the device.
TypeOK ==
  /\ \A e \in blocklist : e.key \in Key /\ e.hash.of \in Inbox \cup {Owner} /\ e.wrote \in Written
  /\ \A e, f \in blocklist : e.hash = f.hash => e = f
  /\ held \subseteq Key /\ current \in held \cup {None}
  /\ call.at \in {"none", "key", "seal", "request", "unseal"}
  /\ outcome.is \in {"nothing", "refused", "done", "partial", "listed"}

\* What the service made of the address a caller wrote.
HashOf(c, written) ==
  IF c.op = "block" THEN Hash(c.prefix, Cleartext(Normal[written], c.level))
  ELSE Hash(Owner, Normal[written])

NamesRight(o) ==
  LET given == ToSet(o.call.batch) IN
    /\ o.success = {w \in given : HashOf(o.call, w) \in o.done}
    /\ o.failure = {w \in given : HashOf(o.call, w) \notin o.done}

PartialOfAddresses == outcome.is = "partial" /\ outcome.call.op # "unhash"

\* When a batch is done in part, the addresses it was given are told apart, as
\* they were written, if no two of them come to one hash. Unblocking sees to that
\* itself; blocking does not.
NamesDistinct ==
  PartialOfAddresses /\ Len(outcome.call.batch) = Cardinality(ToSet(outcome.call.hashes)) =>
    NamesRight(outcome)

\* What was blocked can be unblocked. By address, in whatever case either was
\* written, what is blocked for the owner; by what is listed, also what was sealed
\* under a key that is lost, or blocked for one inbox.
UnblockedIsGone ==
  outcome.is = "done" /\ outcome.status = "success" =>
    /\ outcome.call.op = "unblock" =>
         \A e \in blocklist, w \in ToSet(outcome.call.batch) :
           e.hash.of = Owner /\ e.level = "address" => Normal[e.wrote] # Normal[w]
    /\ outcome.call.op = "unhash" => blocklist = {}
=============================================================================
