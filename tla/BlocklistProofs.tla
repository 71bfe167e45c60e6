--------------------------- MODULE BlocklistProofs ---------------------------
(***************************************************************************)
(* What holds of the blocklist and of what callers are told of it, for any *)
(* addresses, spellings, inboxes, keys and batches.                        *)
(***************************************************************************)
EXTENDS Blocklist, SubsequencesProofs

-----------------------------------------------------------------------------
(* The inductive invariant *)

Levels == {"address", "domain"}
Prefix == Inbox \cup {Owner}
Hashes == [of : Prefix, value : Written]
Entry == [hash : Hashes, key : Key, level : Levels, wrote : Written]

\* A call of blockEmailAddresses before its request.
Asking ==
  [at : {"key"}, op : {"block"}, batch : Batch, level : Levels, prefix : Prefix, key : {None}]
Sealing ==
  [at : {"seal"}, op : {"block"}, batch : Batch, level : Levels, prefix : Prefix, key : Key]

\* The requests the service is sent.
BlockRequest ==
  [at : {"request"}, op : {"block"}, batch : Batch, level : Levels, prefix : Prefix,
   key : Key, hashes : Seq(Hashes)]
UnblockRequest ==
  [at : {"request"}, op : {"unblock"}, batch : Batch, hashes : Seq(Hashes)]
UnhashRequest ==
  [at : {"request"}, op : {"unhash"}, hashes : Seq(Hashes)]

Listing == [at : {"unseal"}, entries : SUBSET Entry]

Calls ==
  {NoCall} \cup Asking \cup Sealing \cup BlockRequest \cup UnblockRequest
    \cup UnhashRequest \cup Listing

Typed ==
  /\ blocklist \in SUBSET Entry /\ IsFiniteSet(blocklist)
  /\ held \subseteq Key /\ current \in held \cup {None}
  /\ call \in Calls
  /\ outcome.is \in {"nothing", "refused", "done", "partial", "listed"}

OneEntryEach == \A e, f \in blocklist : e.hash = f.hash => e = f

\* The spelling kept with an entry is one its hash can be computed from.
WroteIsHashed ==
  \A e \in blocklist : e.hash.value = Cleartext(Normal[e.wrote], e.level)

\* A batch is sealed only if all of it are addresses.
BatchIsWellFormed ==
  call.at \in {"seal", "request"} =>
    (call.op = "block" => ToSet(Normalized(call.batch)) \subseteq WellFormed)

\* A request carries the hashes of its batch, or those of the whole list.
HashesAreAsked ==
  call.at = "request" =>
    /\ call.op = "block" =>
         call.hashes = BlockHashes(call.batch, call.level, call.prefix)
    /\ call.op = "unblock" => call.hashes = UnblockHashes(call.batch)
    /\ call.op = "unhash" => ToSet(call.hashes) = {e.hash : e \in blocklist}

\* While nothing else is called, what is listed is what is there.
ListingIsCurrent ==
  /\ call.at = "unseal" => call.entries = blocklist
  /\ outcome.is = "listed" =>
       {item.hash : item \in outcome.items} = {e.hash : e \in blocklist}

\* A call has no outcome before it ends.
OutcomeIsLast == call # NoCall => outcome = Nothing

IInv ==
  /\ Typed
  /\ OneEntryEach
  /\ WroteIsHashed
  /\ BatchIsWellFormed
  /\ HashesAreAsked
  /\ ListingIsCurrent
  /\ OutcomeIsLast
  /\ NamesDistinct
  /\ UnblockedIsGone

-----------------------------------------------------------------------------
(* Hashes of a batch *)

LEMMA NormalizedWritten ==
  ASSUME NEW batch \in Batch
  PROVE  /\ batch \in Seq(Written) /\ Len(batch) \in Nat /\ DOMAIN batch = 1..Len(batch)
         /\ DOMAIN Normalized(batch) = DOMAIN batch
         /\ \A i \in DOMAIN batch :
              /\ batch[i] \in Written /\ Normal[batch[i]] \in Written
              /\ Normalized(batch)[i] = Normal[batch[i]]
<1>1. batch \in Seq(Written)
  BY WrittenAssumption
<1>2. Len(batch) \in Nat /\ DOMAIN batch = 1..Len(batch)
  BY <1>1, LenProperties
<1>3. \A i \in DOMAIN batch : batch[i] \in Written
  BY <1>1, <1>2, ElementOfSeq
<1> QED
  BY <1>1, <1>2, <1>3, WrittenAssumption DEF Normalized

\* Distinct loses no value, and nothing at all if it is as long as what it is of.
LEMMA DistinctKeeps ==
  ASSUME NEW S, NEW s \in Seq(S)
  PROVE  /\ Distinct(s) \in Seq(S) /\ ToSet(Distinct(s)) = ToSet(s)
         /\ Len(Distinct(s)) <= Len(s)
         /\ Len(Distinct(s)) = Len(s) => Distinct(s) = s
<1>1. Len(s) \in Nat /\ DOMAIN s = 1..Len(s)
  BY LenProperties
<1>2. FirstIn(s) \in SUBSET DOMAIN s
  BY DEF FirstIn
<1>3. /\ Distinct(s) \in Seq(S) /\ Len(Distinct(s)) = Cardinality(FirstIn(s))
      /\ ToSet(Distinct(s)) = {s[i] : i \in FirstIn(s)}
  BY <1>2, Picked DEF Distinct
<1>4. ASSUME NEW i \in DOMAIN s
      PROVE  \E k \in FirstIn(s) : s[k] = s[i]
  <2> DEFINE same == {k \in DOMAIN s : s[k] = s[i]}
  <2>1. same \in SUBSET Nat /\ i \in same
    BY <1>1
  <2>2. PICK k \in same : \A j \in same : k <= j
    <3> HIDE DEF same
    <3> QED
      BY <2>1, LeastNatural
  <2>3. k \in DOMAIN s /\ s[k] = s[i]
    OBVIOUS
  <2>4. ASSUME NEW j \in 1..(k - 1)
        PROVE  s[j] # s[k]
    <3>1. j \in DOMAIN s /\ j < k
      BY <1>1, <2>3
    <3> QED
      BY <1>1, <2>2, <2>3, <3>1
  <2> QED
    BY <2>3, <2>4 DEF FirstIn
<1>5. ToSet(Distinct(s)) = ToSet(s)
  <2>1. \A i \in FirstIn(s) : i \in DOMAIN s
    BY <1>2
  <2> QED
    BY <1>3, <1>4, <2>1 DEF ToSet
<1>6. IsFiniteSet(DOMAIN s) /\ Cardinality(DOMAIN s) = Len(s)
  BY <1>1, UpTo
<1>7. Len(Distinct(s)) <= Len(s)
  BY <1>2, <1>3, <1>6, FS_Subset
<1>8. ASSUME Len(Distinct(s)) = Len(s)
      PROVE  Distinct(s) = s
  <2>1. FirstIn(s) = DOMAIN s
    BY <1>2, <1>3, <1>6, <1>8, FS_Subset
  <2>2. Pick(s, DOMAIN s) = s
    BY PickedAll
  <2> QED
    BY <2>1, <2>2 DEF Distinct
<1> QED
  BY <1>3, <1>5, <1>7, <1>8

\* A sequence is onto its values.
LEMMA OntoValues ==
  ASSUME NEW S, NEW s \in Seq(S)
  PROVE  s \in Surjection(1..Len(s), ToSet(s))
<1>1. Len(s) \in Nat /\ DOMAIN s = 1..Len(s)
  BY LenProperties
<1>2. \A i \in 1..Len(s) : s[i] \in ToSet(s)
  BY <1>1 DEF ToSet
<1>3. s \in [1..Len(s) -> ToSet(s)]
  BY <1>1, <1>2, LenProperties
<1>4. \A x \in ToSet(s) : \E i \in 1..Len(s) : s[i] = x
  BY <1>1 DEF ToSet
<1> QED
  BY <1>3, <1>4 DEF Surjection

\* A sequence has no more values than places.
LEMMA ValuesCounted ==
  ASSUME NEW S, NEW s \in Seq(S)
  PROVE  IsFiniteSet(ToSet(s)) /\ Cardinality(ToSet(s)) <= Len(s)
<1>1. Len(s) \in Nat /\ DOMAIN s = 1..Len(s)
  BY LenProperties
<1>2. s \in Surjection(1..Len(s), ToSet(s))
  BY OntoValues
<1>3. IsFiniteSet(1..Len(s)) /\ Cardinality(1..Len(s)) = Len(s)
  BY <1>1, UpTo
<1> QED
  BY <1>2, <1>3, FS_Surjection

\* A sequence with as many values as places holds each once.
LEMMA EachOnce ==
  ASSUME NEW S, NEW s \in Seq(S), Cardinality(ToSet(s)) = Len(s)
  PROVE  \A i, j \in DOMAIN s : s[i] = s[j] => i = j
<1>1. Len(s) \in Nat /\ DOMAIN s = 1..Len(s)
  BY LenProperties
<1>2. s \in Surjection(1..Len(s), ToSet(s))
  BY OntoValues
<1>3. IsFiniteSet(1..Len(s)) /\ Cardinality(1..Len(s)) = Len(s)
  BY <1>1, UpTo
<1>4. s \in Injection(1..Len(s), ToSet(s))
  BY <1>2, <1>3, FS_Surjection
<1> QED
  BY <1>1, <1>4 DEF Injection, IsInjective

\* The hashes a batch is blocked by: those of its addresses, and in its order if
\* there are as many.
LEMMA HashesOfBlock ==
  ASSUME NEW batch \in Batch, ToSet(Normalized(batch)) \subseteq WellFormed,
         NEW level \in Levels, NEW prefix \in Prefix
  PROVE  LET hashes == BlockHashes(batch, level, prefix)
             hash(w) == Hash(prefix, Cleartext(Normal[w], level))
         IN  /\ hashes \in Seq(Hashes)
             /\ ToSet(hashes) = {hash(w) : w \in ToSet(batch)}
             /\ Len(hashes) <= Len(batch)
             /\ Len(hashes) = Len(batch) => \A i \in DOMAIN batch : hashes[i] = hash(batch[i])
<1> DEFINE hashes == BlockHashes(batch, level, prefix)
           normal == Normalized(batch)
           addresses == Distinct(normal)
           of(a) == Hash(prefix, Cleartext(a, level))
<1>1. /\ Len(batch) \in Nat /\ DOMAIN batch = 1..Len(batch) /\ DOMAIN normal = DOMAIN batch
      /\ \A i \in DOMAIN batch : normal[i] = Normal[batch[i]] /\ normal[i] \in WellFormed
  <2>1. \A i \in DOMAIN normal : normal[i] \in WellFormed
    BY DEF ToSet
  <2> QED
    BY <2>1, NormalizedWritten
<1>2. normal \in Seq(WellFormed) /\ Len(normal) = Len(batch)
  <2>1. normal = [i \in 1..Len(batch) |-> normal[i]]
    BY <1>1 DEF Normalized
  <2>2. normal \in [1..Len(batch) -> WellFormed]
    BY <1>1, <2>1
  <2> QED
    BY <1>1, <2>2, IsASeq, LenProperties
<1>3. /\ addresses \in Seq(WellFormed) /\ ToSet(addresses) = ToSet(normal)
      /\ Len(addresses) <= Len(normal)
      /\ Len(addresses) = Len(normal) => addresses = normal
  BY <1>2, DistinctKeeps
<1>4. /\ Len(addresses) \in Nat /\ DOMAIN addresses = 1..Len(addresses)
      /\ \A i \in DOMAIN addresses : addresses[i] \in WellFormed
  BY <1>3, LenProperties, ElementOfSeq
<1>5. hashes = [i \in DOMAIN addresses |-> of(addresses[i])]
  BY DEF BlockHashes
<1>6. ASSUME NEW a \in WellFormed
      PROVE  of(a) \in Hashes
  <2>1. a \in Written /\ DomainOf[a] \in Written
    BY WrittenAssumption
  <2> QED
    BY <2>1 DEF Hash, Hashes, Cleartext
<1> HIDE DEF hashes, normal, addresses, of
<1>7. hashes \in Seq(Hashes) /\ Len(hashes) = Len(addresses)
  <2>1. hashes \in [1..Len(addresses) -> Hashes]
    BY <1>4, <1>5, <1>6
  <2> QED
    BY <1>4, <2>1, IsASeq, LenProperties
<1>8. ToSet(hashes) = {of(Normal[w]) : w \in ToSet(batch)}
  <2>1. ToSet(hashes) = {of(a) : a \in ToSet(addresses)}
    BY <1>5 DEF ToSet
  <2>2. ToSet(normal) = {Normal[w] : w \in ToSet(batch)}
    BY <1>1 DEF ToSet
  <2> QED
    BY <1>3, <2>1, <2>2
<1>9. ASSUME Len(hashes) = Len(batch), NEW i \in DOMAIN batch
      PROVE  hashes[i] = of(Normal[batch[i]])
  BY <1>1, <1>2, <1>3, <1>5, <1>7, <1>9
<1> QED
  BY <1>2, <1>3, <1>7, <1>8, <1>9 DEF hashes, of

LEMMA HashesOfUnblock ==
  ASSUME NEW batch \in Batch
  PROVE  LET hashes == UnblockHashes(batch)
             hash(w) == Hash(Owner, Normal[w])
         IN  /\ hashes \in Seq(Hashes)
             /\ ToSet(hashes) = {hash(w) : w \in ToSet(batch)}
             /\ Len(hashes) = Len(batch)
             /\ \A i \in DOMAIN batch : hashes[i] = hash(batch[i])
<1> DEFINE hashes == UnblockHashes(batch)
<1>1. hashes = [i \in 1..Len(batch) |-> Hash(Owner, Normal[batch[i]])]
  BY NormalizedWritten DEF UnblockHashes
<1>2. \A i \in 1..Len(batch) : Hash(Owner, Normal[batch[i]]) \in Hashes
  BY NormalizedWritten DEF Hash, Hashes, Prefix
<1>3. hashes \in Seq(Hashes) /\ Len(hashes) = Len(batch)
  <2>1. hashes \in [1..Len(batch) -> Hashes]
    BY <1>1, <1>2
  <2> HIDE DEF hashes
  <2> QED
    BY <2>1, NormalizedWritten, IsASeq, LenProperties
<1> QED
  BY <1>1, <1>3, NormalizedWritten DEF ToSet

\* In a request that carries as many hashes as its batch has addresses, each is
\* the hash of the address in its place, and of no other.
LEMMA HashesInPlace ==
  ASSUME IInv, call.at = "request", call.op # "unhash"
  PROVE  /\ call.batch \in Batch /\ call.hashes \in Seq(Hashes)
         /\ ToSet(call.hashes) = {HashOf(call, w) : w \in ToSet(call.batch)}
         /\ Len(call.batch) = Cardinality(ToSet(call.hashes)) =>
              /\ DOMAIN call.hashes = DOMAIN call.batch
              /\ \A i \in DOMAIN call.batch : call.hashes[i] = HashOf(call, call.batch[i])
              /\ \A i, j \in DOMAIN call.batch : call.hashes[i] = call.hashes[j] => i = j
<1> DEFINE hashes == call.hashes
           batch == call.batch
<1>1. call \in BlockRequest \cup UnblockRequest
  BY DEF IInv, Typed, Calls, NoCall, Asking, Sealing, UnhashRequest, Listing
<1>2. batch \in Batch /\ hashes \in Seq(Hashes) /\ call.op \in {"block", "unblock"}
  BY <1>1 DEF BlockRequest, UnblockRequest
<1>3. /\ ToSet(hashes) = {HashOf(call, w) : w \in ToSet(batch)}
      /\ Len(hashes) <= Len(batch)
      /\ Len(hashes) = Len(batch) => \A i \in DOMAIN batch : hashes[i] = HashOf(call, batch[i])
  <2>1. CASE call.op = "block"
    <3>1. /\ call.level \in Levels /\ call.prefix \in Prefix
          /\ hashes = BlockHashes(batch, call.level, call.prefix)
          /\ ToSet(Normalized(batch)) \subseteq WellFormed
      BY <1>1, <2>1 DEF IInv, HashesAreAsked, BatchIsWellFormed, BlockRequest, UnblockRequest
    <3>2. \A w : HashOf(call, w) = Hash(call.prefix, Cleartext(Normal[w], call.level))
      BY <2>1 DEF HashOf
    <3> QED
      BY <1>2, <3>1, <3>2, HashesOfBlock
  <2>2. CASE call.op = "unblock"
    <3>1. hashes = UnblockHashes(batch)
      BY <2>2 DEF IInv, HashesAreAsked
    <3>2. \A w : HashOf(call, w) = Hash(Owner, Normal[w])
      BY <2>2 DEF HashOf
    <3>3. Len(batch) \in Nat
      BY <1>2, NormalizedWritten
    <3> QED
      BY <1>2, <3>1, <3>2, <3>3, HashesOfUnblock
  <2> QED
    BY <1>2, <2>1, <2>2
<1> HIDE DEF hashes, batch
<1>4. ASSUME Len(batch) = Cardinality(ToSet(hashes))
      PROVE  /\ DOMAIN hashes = DOMAIN batch
             /\ \A i \in DOMAIN batch : hashes[i] = HashOf(call, batch[i])
             /\ \A i, j \in DOMAIN batch : hashes[i] = hashes[j] => i = j
  <2>1. /\ Len(hashes) \in Nat /\ DOMAIN hashes = 1..Len(hashes)
        /\ Len(batch) \in Nat /\ DOMAIN batch = 1..Len(batch)
    BY <1>2, NormalizedWritten, LenProperties
  <2>2. Cardinality(ToSet(hashes)) <= Len(hashes)
    BY <1>2, ValuesCounted
  <2>3. Len(hashes) = Len(batch)
    <3> DEFINE a == Len(hashes)
               b == Len(batch)
    <3>1. a \in Nat /\ b \in Nat /\ a <= b /\ b <= a
      BY <1>3, <1>4, <2>1, <2>2
    <3> HIDE DEF a, b
    <3>2. a = b
      BY <3>1
    <3> QED
      BY <3>2 DEF a, b
  <2>4. \A i, j \in DOMAIN hashes : hashes[i] = hashes[j] => i = j
    BY <1>2, <1>4, <2>3, EachOnce
  <2> QED
    BY <1>3, <2>1, <2>3, <2>4
<1> QED
  BY <1>2, <1>3, <1>4 DEF hashes, batch

\* So the way back by index in the batch names each address rightly.
LEMMA NamedRightly ==
  ASSUME NEW batch \in Batch, NEW hashes \in Seq(Hashes), NEW f,
         DOMAIN hashes = DOMAIN batch, DOMAIN f = ToSet(batch),
         \A i \in DOMAIN batch : hashes[i] = f[batch[i]],
         \A i, j \in DOMAIN batch : hashes[i] = hashes[j] => i = j,
         NEW some \in SUBSET ToSet(hashes)
  PROVE  Named(hashes, some, batch) = {w \in ToSet(batch) : f[w] \in some}
<1> DEFINE Index(h) == SelectInSeq(hashes, LAMBDA g : g = h)
<1>1. DOMAIN batch = 1..Len(hashes)
  BY LenProperties
<1>2. ASSUME NEW i \in DOMAIN batch
      PROVE  Index(hashes[i]) = i
  <2> DEFINE I == {j \in 1..Len(hashes) : hashes[j] = hashes[i]}
  <2>1. I = {i}
    BY <1>1
  <2>2. Index(hashes[i]) = Min(I)
    BY <2>1 DEF SelectInSeq
  <2>3. i \in Int
    BY <1>1
  <2>4. Min({i}) = i
    BY <2>3 DEF Min
  <2> QED
    BY <2>1, <2>2, <2>4
<1> HIDE DEF Index
<1>3. Named(hashes, some, batch) = {batch[Index(h)] : h \in some}
  BY DEF Named, Index
<1>4. ASSUME NEW h \in some
      PROVE  batch[Index(h)] \in ToSet(batch) /\ f[batch[Index(h)]] \in some
  <2>1. PICK i \in DOMAIN batch : h = hashes[i]
    BY DEF ToSet
  <2>2. Index(h) = i
    BY <1>2, <2>1
  <2> QED
    BY <2>1, <2>2 DEF ToSet
<1>5. ASSUME NEW w \in ToSet(batch), f[w] \in some
      PROVE  \E h \in some : w = batch[Index(h)]
  <2>1. PICK i \in DOMAIN batch : w = batch[i]
    BY DEF ToSet
  <2>2. hashes[i] \in some /\ Index(hashes[i]) = i
    BY <1>2, <1>5, <2>1
  <2> QED
    BY <2>1, <2>2
<1> QED
  BY <1>3, <1>4, <1>5

-----------------------------------------------------------------------------
(* The steps *)

\* The elements of a finite set, in some order.
LEMMA Ordered ==
  ASSUME NEW T, NEW S \in SUBSET T, IsFiniteSet(S)
  PROVE  SetToSeq(S) \in Seq(T) /\ ToSet(SetToSeq(S)) = S
<1> DEFINE n == Cardinality(S)
           s == SetToSeq(S)
<1>1. n \in Nat /\ IsFiniteSet(1..n) /\ Cardinality(1..n) = n
  BY FS_CardinalityType, UpTo
<1>2. PICK f : f \in Bijection(1..n, S)
  BY FS_CardinalityType DEF ExistsBijection
<1>3. \E g \in [1..n -> S] : IsInjective(g)
  <2>1. f \in [1..n -> S] /\ \A a, b \in 1..n : f[a] = f[b] => a = b
    BY <1>2 DEF Bijection, Injection, IsInjective
  <2> QED
    BY <2>1 DEF IsInjective
<1>4. s \in [1..n -> S] /\ IsInjective(s)
  BY <1>3 DEF SetToSeq
<1> HIDE DEF s
<1>5. s \in Injection(1..n, S)
  BY <1>4 DEF Injection
<1>6. s \in Surjection(1..n, S)
  BY <1>1, <1>5, FS_Injection
<1>7. DOMAIN s = 1..n /\ \A x \in S : \E k \in 1..n : s[k] = x
  BY <1>4, <1>6 DEF Surjection
<1>8. s \in [1..n -> T]
  BY <1>4
<1> HIDE DEF n
<1>9. s \in Seq(T)
  BY <1>1, <1>8, IsASeq
<1> QED
  BY <1>4, <1>7, <1>9 DEF s, ToSet

\* A call that is at a stage carries what a call carries there.
LEMMA CallFields ==
  ASSUME Typed
  PROVE  /\ call.at = "key" => call \in Asking
         /\ call.at = "seal" => call \in Sealing
         /\ call.at = "request" => call \in BlockRequest \cup UnblockRequest \cup UnhashRequest
         /\ call.at = "unseal" => call \in Listing
         /\ call.at = "none" <=> call = NoCall
  BY DEF Typed, Calls, NoCall, Asking, Sealing, BlockRequest, UnblockRequest, UnhashRequest,
         Listing

\* Steps before a request, or without one, that leave the list as it is.
LEMMA RequestStarts ==
  ASSUME IInv,
         \/ \E batch \in Batch, level \in Levels, prefix \in Prefix :
              BlockEmailAddresses(batch, level, prefix)
         \/ \E batch \in Batch : UnblockEmailAddresses(batch)
         \/ TakeKey \/ Seal \/ UnblockByHashedValue \/ GetEmailAddressBlocklist
  PROVE  /\ UNCHANGED <<blocklist, current, held>>
         /\ call' \in Calls
         /\ outcome' \in {Nothing, Refused}
         /\ call' # NoCall => outcome' = Nothing
         /\ BatchIsWellFormed' /\ HashesAreAsked' /\ ListingIsCurrent'
<1> USE DEF IInv
<1>n. Nothing.is = "nothing" /\ Refused.is = "refused" /\ NoCall.at = "none" /\ NoCall \in Calls
  BY DEF Nothing, Refused, NoCall, Calls
<1>1. ASSUME NEW batch \in Batch, NEW level \in Levels, NEW prefix \in Prefix,
             BlockEmailAddresses(batch, level, prefix)
      PROVE  /\ UNCHANGED <<blocklist, current, held>>
             /\ call' \in Calls /\ call'.at \in {"none", "key"}
             /\ outcome' \in {Nothing, Refused}
             /\ call' # NoCall => outcome' = Nothing
  BY <1>1, <1>n DEF BlockEmailAddresses, Calls, Asking
<1>2. ASSUME NEW batch \in Batch, UnblockEmailAddresses(batch)
      PROVE  /\ UNCHANGED <<blocklist, current, held>>
             /\ call' \in Calls
             /\ outcome' \in {Nothing, Refused}
             /\ call' # NoCall => outcome' = Nothing
             /\ \/ call'.at = "none"
                \/ /\ call'.at = "request" /\ call'.op = "unblock" /\ call'.batch = batch
                   /\ call'.hashes = UnblockHashes(batch)
  <2>1. UnblockHashes(batch) \in Seq(Hashes)
    BY HashesOfUnblock
  <2> QED
    BY <1>2, <1>n, <2>1 DEF UnblockEmailAddresses, Calls, UnblockRequest
<1>3. ASSUME TakeKey
      PROVE  /\ UNCHANGED <<blocklist, current, held>>
             /\ call' \in Calls
             /\ outcome' \in {Nothing, Refused}
             /\ call' # NoCall => outcome' = Nothing
             /\ \/ call'.at = "none"
                \/ call'.at = "seal" /\ ToSet(Normalized(call'.batch)) \subseteq WellFormed
  <2>1. call \in Asking /\ outcome = Nothing
    BY <1>3, <1>n, CallFields DEF TakeKey, OutcomeIsLast
  <2>2. CASE current # None /\ ToSet(Normalized(call.batch)) \subseteq WellFormed
    <3>1. current \in Key
      BY <2>2 DEF Typed
    <3>2. call' = [call EXCEPT !.at = "seal", !.key = current] /\ outcome' = outcome
      BY <1>3, <2>2 DEF TakeKey
    <3>3. call' \in Sealing /\ call'.at = "seal" /\ call'.batch = call.batch
      BY <2>1, <3>1, <3>2 DEF Asking, Sealing
    <3> QED
      BY <1>3, <2>1, <2>2, <3>2, <3>3 DEF TakeKey, Calls
  <2>3. CASE ~(current # None /\ ToSet(Normalized(call.batch)) \subseteq WellFormed)
    BY <1>3, <1>n, <2>3 DEF TakeKey
  <2> QED
    BY <2>2, <2>3
<1>4. ASSUME Seal
      PROVE  /\ UNCHANGED <<blocklist, current, held>>
             /\ call' \in Calls
             /\ outcome' \in {Nothing, Refused}
             /\ call' # NoCall => outcome' = Nothing
             /\ \/ call'.at = "none"
                \/ /\ call'.at = "request" /\ call'.op = "block"
                   /\ ToSet(Normalized(call'.batch)) \subseteq WellFormed
                   /\ call'.hashes = BlockHashes(call'.batch, call'.level, call'.prefix)
  <2>1. call \in Sealing /\ outcome = Nothing /\ ToSet(Normalized(call.batch)) \subseteq WellFormed
    BY <1>4, <1>n, CallFields DEF Seal, OutcomeIsLast, BatchIsWellFormed, Sealing
  <2>2. CASE call.key \in held
    <3> DEFINE hashes == BlockHashes(call.batch, call.level, call.prefix)
    <3>1. hashes \in Seq(Hashes)
      BY <2>1, HashesOfBlock DEF Sealing
    <3>2. /\ call' = [at |-> "request", op |-> "block", batch |-> call.batch,
                      level |-> call.level, prefix |-> call.prefix, key |-> call.key,
                      hashes |-> hashes]
          /\ outcome' = outcome
      BY <1>4, <2>2 DEF Seal
    <3> HIDE DEF hashes
    <3>3. /\ call' \in BlockRequest
          /\ call'.at = "request" /\ call'.op = "block" /\ call'.hashes = hashes
          /\ call'.batch = call.batch /\ call'.level = call.level /\ call'.prefix = call.prefix
      BY <2>1, <3>1, <3>2 DEF Sealing, BlockRequest
    <3> QED
      BY <1>4, <2>1, <3>2, <3>3 DEF Seal, Calls, hashes
  <2>3. CASE call.key \notin held
    BY <1>4, <1>n, <2>3 DEF Seal
  <2> QED
    BY <2>2, <2>3
<1>5. ASSUME UnblockByHashedValue
      PROVE  /\ UNCHANGED <<blocklist, current, held>>
             /\ call' \in Calls
             /\ outcome' \in {Nothing, Refused}
             /\ call' # NoCall => outcome' = Nothing
             /\ \/ call'.at = "none"
                \/ /\ call'.at = "request" /\ call'.op = "unhash"
                   /\ ToSet(call'.hashes) = {e.hash : e \in blocklist}
  <2> DEFINE listed == {item.hash : item \in outcome.items}
  <2>1. listed = {e.hash : e \in blocklist}
    BY <1>5 DEF UnblockByHashedValue, ListingIsCurrent
  <2>2. listed \in SUBSET Hashes /\ IsFiniteSet(listed)
    <3>1. \A e \in blocklist : e.hash \in Hashes
      BY DEF Typed, Entry
    <3> DEFINE h == [e \in blocklist |-> e.hash]
    <3>2. h \in Surjection(blocklist, listed)
      BY <2>1 DEF Surjection
    <3> QED
      BY <2>1, <3>1, <3>2, FS_Surjection DEF Typed
  <2> HIDE DEF listed
  <2>3. SetToSeq(listed) \in Seq(Hashes) /\ ToSet(SetToSeq(listed)) = listed
    BY <2>2, Ordered
  <2>4. CASE outcome.items = {}
    BY <1>5, <1>n, <2>4 DEF UnblockByHashedValue
  <2>5. CASE outcome.items # {}
    <3>1. /\ call' = [at |-> "request", op |-> "unhash", hashes |-> SetToSeq(listed)]
          /\ outcome' = Nothing
      BY <1>5, <2>5 DEF UnblockByHashedValue, listed
    <3>2. /\ call' \in UnhashRequest
          /\ call'.at = "request" /\ call'.op = "unhash" /\ call'.hashes = SetToSeq(listed)
      BY <2>3, <3>1 DEF UnhashRequest
    <3> QED
      BY <1>5, <2>1, <2>3, <3>1, <3>2 DEF UnblockByHashedValue, Calls
  <2> QED
    BY <2>4, <2>5
<1>6. ASSUME GetEmailAddressBlocklist
      PROVE  /\ UNCHANGED <<blocklist, current, held>>
             /\ call' \in Calls
             /\ outcome' = Nothing
             /\ call'.at = "unseal" /\ call'.entries = blocklist
  BY <1>6 DEF GetEmailAddressBlocklist, Calls, Listing, Typed
<1>7. \/ \E batch \in Batch, level \in Levels, prefix \in Prefix :
           BlockEmailAddresses(batch, level, prefix)
      \/ \E batch \in Batch : UnblockEmailAddresses(batch)
      \/ TakeKey \/ Seal \/ UnblockByHashedValue \/ GetEmailAddressBlocklist
  OBVIOUS
<1>8. /\ UNCHANGED <<blocklist, current, held>>
      /\ call' \in Calls
      /\ outcome' \in {Nothing, Refused}
      /\ call' # NoCall => outcome' = Nothing
  BY <1>1, <1>2, <1>3, <1>4, <1>5, <1>6, <1>7
<1>9. BatchIsWellFormed'
  BY <1>1, <1>2, <1>3, <1>4, <1>5, <1>6, <1>7 DEF BatchIsWellFormed
<1>10. HashesAreAsked'
  BY <1>1, <1>2, <1>3, <1>4, <1>5, <1>6, <1>7 DEF HashesAreAsked
<1>11. call'.at = "unseal" => call'.entries = blocklist'
  BY <1>1, <1>2, <1>3, <1>4, <1>5, <1>6, <1>7
<1> QED
  BY <1>n, <1>8, <1>9, <1>10, <1>11 DEF ListingIsCurrent

\* What the service makes of a request: of each hash one entry, in a spelling the
\* hash can be computed from.
LEMMA ServeEffect ==
  ASSUME IInv, call.at = "request", NEW some \in SUBSET ToSet(call.hashes), Serve(some)
  PROVE  /\ blocklist' \in SUBSET Entry /\ IsFiniteSet(blocklist')
         /\ OneEntryEach' /\ WroteIsHashed'
         /\ call.op # "block" => blocklist' = {e \in blocklist : e.hash \notin some}
<1> USE DEF IInv
<1>1. blocklist \in SUBSET Entry /\ IsFiniteSet(blocklist)
  BY DEF Typed
<1>2. CASE call.op # "block"
  <2>1. blocklist' = {e \in blocklist : e.hash \notin some}
    BY <1>2 DEF Serve
  <2>2. blocklist' \in SUBSET blocklist
    BY <2>1
  <2>3. IsFiniteSet(blocklist')
    BY <1>1, <2>2, FS_Subset
  <2> QED
    BY <1>1, <2>1, <2>2, <2>3 DEF OneEntryEach, WroteIsHashed
<1>3. CASE call.op = "block"
  <2> DEFINE Wrote(h) == CHOOSE w \in ToSet(call.batch) :
                           Cleartext(Normal[w], call.level) = h.value
             Made(h) == [hash |-> h, key |-> call.key, level |-> call.level, wrote |-> Wrote(h)]
  <2>1. call \in BlockRequest
    BY <1>3, CallFields DEF UnblockRequest, UnhashRequest
  <2>2. /\ call.batch \in Batch /\ call.level \in Levels /\ call.key \in Key
        /\ call.hashes \in Seq(Hashes)
    BY <2>1 DEF BlockRequest
  <2>3. PICK kept \in {{}, some \cap {e.hash : e \in blocklist}} : blocklist' = Blocked(some, kept)
    BY <1>3 DEF Serve
  <2> DEFINE old == {e \in blocklist : e.hash \notin some \/ e.hash \in kept}
             new == {Made(h) : h \in some \ kept}
  <2>4. blocklist' = old \cup new
    BY <2>3 DEF Blocked
  <2>5. ASSUME NEW h \in some
        PROVE  /\ h \in Hashes
               /\ Wrote(h) \in Written /\ Cleartext(Normal[Wrote(h)], call.level) = h.value
    <3>1. h \in Hashes
      BY <2>2, LenProperties, ElementOfSeq DEF ToSet
    <3>2. PICK w \in ToSet(call.batch) : h = HashOf(call, w)
      BY <1>3, HashesInPlace
    <3>3. h.value = Cleartext(Normal[w], call.level)
      BY <1>3, <3>2 DEF HashOf, Hash
    <3>4. Wrote(h) \in ToSet(call.batch) /\ Cleartext(Normal[Wrote(h)], call.level) = h.value
      BY <3>3
    <3>5. \A x \in ToSet(call.batch) : x \in Written
      BY <2>2, NormalizedWritten DEF ToSet
    <3> QED
      BY <3>1, <3>4, <3>5
  <2> HIDE DEF Wrote
  <2>6. ASSUME NEW h \in some
        PROVE  /\ Made(h) \in Entry /\ Made(h).hash = h
               /\ h.value = Cleartext(Normal[Made(h).wrote], Made(h).level)
    BY <2>2, <2>5 DEF Entry
  <2> HIDE DEF Made
  <2>7. IsFiniteSet(new)
    <3> DEFINE make == [h \in some \ kept |-> Made(h)]
    <3>1. make \in Surjection(some \ kept, new)
      BY DEF Surjection
    <3>2. IsFiniteSet(ToSet(call.hashes))
      BY <2>2, ValuesCounted
    <3>3. some \ kept \in SUBSET ToSet(call.hashes)
      OBVIOUS
    <3>4. IsFiniteSet(some \ kept)
      BY <3>2, <3>3, FS_Subset
    <3> HIDE DEF make, new
    <3> QED
      BY <3>1, <3>4, FS_Surjection
  <2>8. IsFiniteSet(blocklist') /\ blocklist' \in SUBSET Entry
    <3>1. old \in SUBSET blocklist /\ new \in SUBSET Entry
      BY <2>6
    <3>2. IsFiniteSet(old)
      BY <1>1, <3>1, FS_Subset
    <3> HIDE DEF old, new
    <3> QED
      BY <1>1, <2>4, <2>7, <3>1, <3>2, FS_Union
  <2>9. ASSUME NEW e \in blocklist', NEW f \in blocklist', e.hash = f.hash
        PROVE  e = f
    <3>1. e \in old \/ e \in new
      BY <2>4
    <3>2. f \in old \/ f \in new
      BY <2>4
    <3>3. CASE e \in old /\ f \in old
      BY <2>9, <3>3 DEF OneEntryEach
    <3>4. CASE e \in new /\ f \in new
      BY <2>6, <2>9, <3>4
    <3>5. CASE e \in old /\ f \in new
      BY <2>6, <2>9, <3>5
    <3>6. CASE e \in new /\ f \in old
      BY <2>6, <2>9, <3>6
    <3> QED
      BY <3>1, <3>2, <3>3, <3>4, <3>5, <3>6
  <2>10. ASSUME NEW e \in blocklist'
         PROVE  e.hash.value = Cleartext(Normal[e.wrote], e.level)
    <3>1. CASE e \in old
      BY <3>1 DEF WroteIsHashed
    <3>2. CASE e \in new
      BY <2>6, <3>2
    <3> QED
      BY <2>4, <3>1, <3>2
  <2> QED
    BY <1>3, <2>8, <2>9, <2>10 DEF OneEntryEach, WroteIsHashed
<1> QED
  BY <1>2, <1>3

\* A partial answer to as many addresses as hashes names them rightly.
LEMMA PartialNamesRight ==
  ASSUME IInv, call.at = "request", call.op # "unhash",
         NEW some \in SUBSET ToSet(call.hashes),
         Len(call.batch) = Cardinality(ToSet(call.hashes))
  PROVE  LET given == ToSet(call.batch)
             all == ToSet(call.hashes)
         IN  /\ Named(call.hashes, some, call.batch) = {w \in given : HashOf(call, w) \in some}
             /\ Named(call.hashes, all \ some, call.batch)
                  = {w \in given : HashOf(call, w) \notin some}
<1> DEFINE given == ToSet(call.batch)
           all == ToSet(call.hashes)
           f == [w \in given |-> HashOf(call, w)]
<1>1. /\ call.batch \in Batch /\ call.hashes \in Seq(Hashes)
      /\ all = {HashOf(call, w) : w \in given}
      /\ DOMAIN call.hashes = DOMAIN call.batch
      /\ \A i \in DOMAIN call.batch : call.hashes[i] = HashOf(call, call.batch[i])
      /\ \A i, j \in DOMAIN call.batch : call.hashes[i] = call.hashes[j] => i = j
  BY HashesInPlace
<1>2. /\ DOMAIN f = given
      /\ \A i \in DOMAIN call.batch : call.hashes[i] = f[call.batch[i]]
      /\ \A w \in given : f[w] = HashOf(call, w) /\ f[w] \in all
  BY <1>1 DEF ToSet
<1> HIDE DEF f
<1>3. ASSUME NEW part \in SUBSET all
      PROVE  Named(call.hashes, part, call.batch) = {w \in given : f[w] \in part}
  BY <1>1, <1>2, NamedRightly
<1>4. Named(call.hashes, some, call.batch) = {w \in given : f[w] \in some}
  BY <1>3
<1>5. Named(call.hashes, all \ some, call.batch) = {w \in given : f[w] \in all \ some}
  BY <1>3
<1> HIDE DEF given, all
<1>6. {w \in given : f[w] \in some} = {w \in given : HashOf(call, w) \in some}
  BY <1>2
<1>7. {w \in given : f[w] \in all \ some} = {w \in given : HashOf(call, w) \notin some}
  BY <1>2
<1> QED
  BY <1>4, <1>5, <1>6, <1>7 DEF given, all

LEMMA AnsweredStep ==
  ASSUME IInv, Answered
  PROVE  IInv'
<1> USE DEF IInv
<1>1. PICK some \in SUBSET ToSet(call.hashes) :
        Serve(some) /\ outcome' \in {Result(some), Refused}
  BY DEF Answered
<1>2. /\ call.at = "request" /\ call' = NoCall /\ call'.at = "none"
      /\ UNCHANGED <<current, held>>
  BY DEF Answered, NoCall
<1>3. /\ blocklist' \in SUBSET Entry /\ IsFiniteSet(blocklist')
      /\ OneEntryEach' /\ WroteIsHashed'
      /\ call.op # "block" => blocklist' = {e \in blocklist : e.hash \notin some}
  BY <1>1, <1>2, ServeEffect
<1> DEFINE all == ToSet(call.hashes)
<1>4. \/ outcome' = Refused /\ outcome'.is = "refused"
      \/ /\ outcome'.is = "done" /\ outcome'.call = call
         /\ outcome'.status = "success" => some = all
      \/ /\ outcome'.is = "partial" /\ outcome'.call = call /\ outcome'.done = some
         /\ call.op # "unhash" =>
              /\ outcome'.success = Named(call.hashes, some, call.batch)
              /\ outcome'.failure = Named(call.hashes, all \ some, call.batch)
  <2>1. CASE outcome' = Refused
    BY <2>1 DEF Refused
  <2>2. CASE outcome' = Result(some) /\ some \in {{}, all}
    <3>1. outcome' = [is |-> "done", call |-> call,
                      status |-> IF some = all THEN "success" ELSE "failed"]
      BY <2>2 DEF Result
    <3> QED
      BY <3>1
  <2>3. CASE outcome' = Result(some) /\ some \notin {{}, all}
    <3>1. outcome' = [is |-> "partial", call |-> call, done |-> some,
                      success |-> IF call.op = "unhash" THEN some
                                  ELSE Named(call.hashes, some, call.batch),
                      failure |-> IF call.op = "unhash" THEN all \ some
                                  ELSE Named(call.hashes, all \ some, call.batch)]
      BY <2>3 DEF Result
    <3> QED
      BY <3>1
  <2> QED
    BY <1>1, <2>1, <2>2, <2>3
<1>5. Typed'
  BY <1>2, <1>3, <1>4 DEF Typed, Calls
<1>6. BatchIsWellFormed' /\ HashesAreAsked' /\ ListingIsCurrent' /\ OutcomeIsLast'
  BY <1>2, <1>4 DEF BatchIsWellFormed, HashesAreAsked, ListingIsCurrent, OutcomeIsLast
<1>7. NamesDistinct'
  <2>1. ASSUME outcome'.is = "partial", outcome'.call.op # "unhash",
               Len(outcome'.call.batch) = Cardinality(ToSet(outcome'.call.hashes))
        PROVE  /\ outcome'.success = {w \in ToSet(outcome'.call.batch) :
                                        HashOf(outcome'.call, w) \in outcome'.done}
               /\ outcome'.failure = {w \in ToSet(outcome'.call.batch) :
                                        HashOf(outcome'.call, w) \notin outcome'.done}
    <3>1. /\ outcome'.call = call /\ outcome'.done = some /\ call.op # "unhash"
          /\ outcome'.success = Named(call.hashes, some, call.batch)
          /\ outcome'.failure = Named(call.hashes, all \ some, call.batch)
      BY <1>4, <2>1 DEF Refused
    <3>2. Len(call.batch) = Cardinality(ToSet(call.hashes))
      BY <2>1, <3>1
    <3>3. /\ Named(call.hashes, some, call.batch)
               = {w \in ToSet(call.batch) : HashOf(call, w) \in some}
          /\ Named(call.hashes, all \ some, call.batch)
               = {w \in ToSet(call.batch) : HashOf(call, w) \notin some}
      BY <1>2, <3>1, <3>2, PartialNamesRight
    <3> QED
      BY <3>1, <3>3
  <2> QED
    BY <2>1 DEF NamesDistinct, PartialOfAddresses, NamesRight
<1>8. UnblockedIsGone'
  <2>1. ASSUME outcome'.is = "done", outcome'.status = "success", outcome'.call.op = "unblock",
               NEW e \in blocklist', NEW w \in ToSet(outcome'.call.batch),
               e.hash.of = Owner, e.level = "address"
        PROVE  Normal[e.wrote] # Normal[w]
    <3>1. outcome'.call = call /\ some = all /\ call.op = "unblock"
      BY <1>4, <2>1 DEF Refused
    <3>2. e \in Entry /\ e.hash \notin all
      BY <1>3, <2>1, <3>1
    <3>3. e.hash.value = Normal[e.wrote]
      BY <1>3, <2>1 DEF WroteIsHashed, Cleartext
    <3>4. HashOf(call, w) \in all /\ HashOf(call, w) = Hash(Owner, Normal[w])
      BY <1>2, <2>1, <3>1, HashesInPlace DEF HashOf
    <3>5. e.hash = Hash(Owner, e.hash.value)
      BY <2>1, <3>2 DEF Entry, Hashes, Hash
    <3> QED
      BY <3>2, <3>3, <3>4, <3>5
  <2>2. ASSUME outcome'.is = "done", outcome'.status = "success", outcome'.call.op = "unhash"
        PROVE  blocklist' = {}
    <3>1. some = all /\ call.op = "unhash"
      BY <1>4, <2>2 DEF Refused
    <3>2. all = {e.hash : e \in blocklist}
      BY <1>2, <3>1 DEF HashesAreAsked
    <3> QED
      BY <1>3, <3>1, <3>2
  <2> QED
    BY <2>1, <2>2 DEF UnblockedIsGone
<1> QED
  BY <1>3, <1>5, <1>6, <1>7, <1>8

\* What starts or prepares a request keeps the invariant.
LEMMA RequestStep ==
  ASSUME IInv,
         \/ \E batch \in Batch, level \in Levels, prefix \in Prefix :
              BlockEmailAddresses(batch, level, prefix)
         \/ \E batch \in Batch : UnblockEmailAddresses(batch)
         \/ TakeKey \/ Seal \/ UnblockByHashedValue \/ GetEmailAddressBlocklist
  PROVE  IInv'
<1>1. /\ UNCHANGED <<blocklist, current, held>>
      /\ call' \in Calls
      /\ outcome' \in {Nothing, Refused}
      /\ call' # NoCall => outcome' = Nothing
      /\ BatchIsWellFormed' /\ HashesAreAsked' /\ ListingIsCurrent'
  BY RequestStarts
<1>2. outcome'.is \in {"nothing", "refused"}
  BY <1>1 DEF Nothing, Refused
<1> QED
  BY <1>1, <1>2
     DEF IInv, Typed, OneEntryEach, WroteIsHashed, OutcomeIsLast, NamesDistinct,
         PartialOfAddresses, UnblockedIsGone

LEMMA ListedStep ==
  ASSUME IInv, Listed
  PROVE  IInv'
<1> USE DEF IInv
<1>1. /\ call.at = "unseal" /\ call' = NoCall /\ call'.at = "none"
      /\ outcome' = [is |-> "listed", items |-> Unsealed(call.entries)]
      /\ UNCHANGED <<blocklist, current, held>>
  BY DEF Listed, NoCall
<1>2. outcome'.is = "listed" /\ outcome'.items = Unsealed(blocklist)
  BY <1>1 DEF ListingIsCurrent
<1>3. {item.hash : item \in Unsealed(blocklist)} = {e.hash : e \in blocklist}
  <2> DEFINE Item(e) == [hash |-> e.hash, value |-> IF e.key \in held THEN e.hash.value ELSE None]
  <2>1. Unsealed(blocklist) = {Item(e) : e \in blocklist}
    BY DEF Unsealed
  <2>2. \A e \in blocklist : Item(e).hash = e.hash
    OBVIOUS
  <2> HIDE DEF Item
  <2> QED
    BY <2>1, <2>2
<1>4. ListingIsCurrent'
  BY <1>1, <1>2, <1>3 DEF ListingIsCurrent
<1> QED
  BY <1>1, <1>2, <1>4
     DEF Typed, Calls, OneEntryEach, WroteIsHashed, BatchIsWellFormed, HashesAreAsked,
         OutcomeIsLast, NamesDistinct, PartialOfAddresses, UnblockedIsGone

LEMMA RejectStep ==
  ASSUME IInv, Reject
  PROVE  IInv'
<1>1. /\ call' = NoCall /\ call'.at = "none" /\ outcome' = Refused /\ outcome'.is = "refused"
      /\ UNCHANGED <<blocklist, current, held>>
  BY DEF Reject, NoCall, Refused
<1> QED
  BY <1>1
     DEF IInv, Typed, Calls, OneEntryEach, WroteIsHashed, BatchIsWellFormed, HashesAreAsked,
         ListingIsCurrent, OutcomeIsLast, NamesDistinct, PartialOfAddresses, UnblockedIsGone

\* Keys come and go without a trace in the list.
LEMMA KeyStep ==
  ASSUME IInv, LoseKeys \/ NewKey \/ UNCHANGED vars
  PROVE  IInv'
<1>1. UNCHANGED <<blocklist, call, outcome>>
  BY DEF LoseKeys, NewKey, vars
<1>2. held' \subseteq Key /\ current' \in held' \cup {None}
  BY DEF LoseKeys, NewKey, vars, IInv, Typed
<1>3. Typed'
  BY <1>1, <1>2 DEF IInv, Typed
<1>4. NamesDistinct'
  BY <1>1 DEF IInv, NamesDistinct, PartialOfAddresses, NamesRight
<1>5. UnblockedIsGone'
  BY <1>1 DEF IInv, UnblockedIsGone
<1> QED
  BY <1>1, <1>3, <1>4, <1>5
     DEF IInv, OneEntryEach, WroteIsHashed, BatchIsWellFormed, HashesAreAsked,
         ListingIsCurrent, OutcomeIsLast

LEMMA InitInv == Init => IInv
<1> SUFFICES ASSUME Init PROVE IInv
  OBVIOUS
<1>1. blocklist = {} /\ call = NoCall /\ call.at = "none" /\ outcome.is = "nothing"
  BY DEF Init, NoCall, Nothing
<1>2. held \subseteq Key /\ current \in held \cup {None}
  BY DEF Init
<1> QED
  BY <1>1, <1>2, FS_EmptySet
     DEF IInv, Typed, Calls, OneEntryEach, WroteIsHashed, BatchIsWellFormed, HashesAreAsked,
         ListingIsCurrent, OutcomeIsLast, NamesDistinct, PartialOfAddresses, UnblockedIsGone

\* The invariant holds whatever is called, answered, lost and rejected.
THEOREM Inductive == Spec => []IInv
<1>1. IInv /\ [Next]_vars => IInv'
  BY AnsweredStep, RequestStep, ListedStep, RejectStep, KeyStep DEF Next, Levels, Prefix
<1> QED
  BY <1>1, InitInv, PTL DEF Spec

-----------------------------------------------------------------------------
(* What callers and the service may rely on *)

\* One entry for each hash, under a key of the device, and calls at a stage that
\* there is.
THEOREM TypeCorrect == Spec => []TypeOK
<1>1. IInv => TypeOK
  <2> SUFFICES ASSUME IInv PROVE TypeOK
    OBVIOUS
  <2>1. \A e \in blocklist :
          e.key \in Key /\ e.hash.of \in Inbox \cup {Owner} /\ e.wrote \in Written
    BY DEF IInv, Typed, Entry, Hashes, Prefix
  <2>2. call.at \in {"none", "key", "seal", "request", "unseal"}
    BY DEF IInv, Typed, Calls, NoCall, Asking, Sealing, BlockRequest, UnblockRequest,
           UnhashRequest, Listing
  <2> QED
    BY <2>1, <2>2 DEF IInv, Typed, OneEntryEach, TypeOK
<1> QED
  BY <1>1, Inductive, PTL

\* Of a batch done in part every address is named for what happened to it, if no
\* two of it come to one hash.
THEOREM NamesAlwaysRight == Spec => []NamesDistinct
<1>1. IInv => NamesDistinct
  BY DEF IInv
<1> QED
  BY <1>1, Inductive, PTL

\* What an unblocking that succeeded was about is blocked no more, in whatever
\* spelling it was blocked, and whatever keys were lost.
THEOREM UnblockedAlwaysGone == Spec => []UnblockedIsGone
<1>1. IInv => UnblockedIsGone
  BY DEF IInv
<1> QED
  BY <1>1, Inductive, PTL
=============================================================================
