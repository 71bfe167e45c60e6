----------------------------- MODULE DeviceKeys -----------------------------
(***************************************************************************)
(* The keys a client keeps on its device and the records of the email      *)
(* service that depend on them: email addresses (src/private/data/account),*)
(* their custom folders (data/folder) and email masks (data/mask), over    *)
(* DefaultDeviceKeyWorker (data/common/deviceKeyWorker.ts).                *)
(*                                                                         *)
(* A call of the client is an element of Call and runs once.  Each await   *)
(* of the key manager or of the service is a step, so that calls overlap   *)
(* as the event loop lets them; the calls that DefaultSudoEmailClient runs *)
(* under its mutex take their turn in queue.  Key identifiers are UUIDs:   *)
(* the keys call p generates, and the address or mask it provisions, are   *)
(* named p.                                                                *)
(***************************************************************************)
EXTENDS Naturals, Sequences

CONSTANTS
  Call,       \* the calls of the client
  NoKey,      \* no key identifier: an absent password or sealed attribute
  MaxFaults   \* bound: rejected awaits and crashes

ASSUME NoKeyAssumption == NoKey \notin Call
ASSUME FaultsAssumption == MaxFaults \in Nat

VARIABLES
  singleton,  \* the client was built with enforceSingletonPublicKey
  password,   \* key manager: the key identifiers stored under two names
  keys,       \* key manager: the key pairs and symmetric keys it holds
  owner,      \* service: the address or mask each call has provisioned
  queue,      \* the calls waiting for the client's mutex; its head has it
  call,       \* what each call is doing
  erased,     \* history: the keys reset() removed, or whose name it removed
  faults      \* history: how many awaits were rejected, and crashes

vars == <<singleton, password, keys, owner, queue, call, erased, faults>>

Id == Call \cup {NoKey}
Key == {"pair", "symmetric"} \X Call

AddressOps == {"provisionAddress", "deprovisionAddress", "getAddresses",
               "updateAlias", "nameFolder", "deleteFolder"}
MaskOps == {"provisionMask", "updateMask", "deprovisionMask", "listMasks"}
MessageOps == {"listMessages"}

\* Variants with a bug that the properties must catch: deprovisioning, or
\* provisioning, outside the mutex.
ExclusiveNotDeprovision == {"provisionAddress", "getAddresses"}
ExclusiveNotProvision == {"deprovisionAddress", "getAddresses"}

\* The calls DefaultSudoEmailClient runs in mutex.runExclusive.
Exclusive == {"provisionAddress", "deprovisionAddress", "getAddresses"}

\* Calls that get their symmetric key generated when there is none; the two
\* provisioning and naming calls leave the choice to the application
\* (allowSymmetricKeyGeneration), the mask calls always do.
MayGenerate(op) ==
  CASE op \in {"provisionAddress", "nameFolder"} -> BOOLEAN
    [] op \in {"provisionMask", "updateMask"} -> {TRUE}
    [] OTHER -> {FALSE}

\* Calls that seal an alias, a folder name or metadata; an address or a mask
\* may be provisioned with or without, an alias or metadata set or removed.
MaySeal(op) ==
  CASE op \in {"provisionAddress", "provisionMask", "updateAlias",
               "updateMask"} -> BOOLEAN
    [] op = "nameFolder" -> {TRUE}
    [] OTHER -> {FALSE}

Stages == {"ready", "waiting", "readSingleton", "addSingleton", "generatePair",
           "publicKey", "readCurrent", "lookUp", "deletePassword",
           "addPassword", "generateKey", "seal", "request", "map", "unseal",
           "removeKeys", "done"}

\* "Failed" is the status of an address, a mask or a message whose keys are
\* missing (a list of messages is Partial then), the others are the error a call
\* throws ("Error": a request or key access rejected).
Results == {"none", "Completed", "Failed", "KeyNotFound", "NoPublicKey",
            "Error"}

NoRecord == [kind |-> "none", pair |-> NoKey, attribute |-> NoKey,
             folder |-> NoKey]

TypeOK ==
  /\ singleton \in BOOLEAN
  /\ password \in [{"symmetric", "singleton"} -> Id]
  /\ keys \subseteq Key
  /\ owner \in [Call -> [kind : {"none", "address", "mask"}, pair : Id,
                         attribute : Id, folder : Id]]
  /\ queue \in Seq(Call)
  /\ call \in [Call -> [op : AddressOps \cup MaskOps \cup MessageOps \cup {"none"},
                        target : Call, mayGenerate : BOOLEAN, seals : BOOLEAN,
                        at : Stages, pair : Id, symmetric : Id,
                        needs : SUBSET Key, result : Results]]
  /\ erased \subseteq Key
  /\ faults \in 0 .. MaxFaults

Init ==
  /\ singleton \in BOOLEAN
  /\ password = [name \in {"symmetric", "singleton"} |-> NoKey]
  /\ keys = {}
  /\ owner = [p \in Call |-> NoRecord]
  /\ queue = <<>>
  /\ call = [p \in Call |->
               [op |-> "none", target |-> p, mayGenerate |-> FALSE,
                seals |-> FALSE, at |-> "ready", pair |-> NoKey,
                symmetric |-> NoKey, needs |-> {}, result |-> "none"]]
  /\ erased = {}
  /\ faults = 0

Running(p) == call[p].at \notin {"ready", "waiting", "done"}
Addresses == {a \in Call : owner[a].kind = "address"}
Masks == {m \in Call : owner[m].kind = "mask"}

-----------------------------------------------------------------------------
(* Moving through a call.                                                  *)

Goto(p, stage) ==
  /\ call' = [call EXCEPT ![p].at = stage]
  /\ UNCHANGED queue

\* What is left of a call that has returned or thrown.
Ended(c, result) ==
  [c EXCEPT !.at = "done", !.result = result, !.mayGenerate = FALSE,
            !.seals = FALSE, !.pair = NoKey, !.symmetric = NoKey]

\* A variant with a bug: a call that throws keeps the mutex.
EndLocked(p, result) ==
  /\ call' = [call EXCEPT ![p] = Ended(@, result)]
  /\ queue' = IF call[p].op \in Exclusive /\ result # "Error" THEN Tail(queue)
              ELSE queue

\* The call returns or throws; runExclusive gives the mutex up either way.
End(p, result) ==
  /\ call' = [call EXCEPT ![p] = Ended(@, result)]
  /\ queue' = IF call[p].op \in Exclusive THEN Tail(queue) ELSE queue

\* The first await of a call.  Only the address service is given the
\* configuration: a mask is always provisioned with a key pair of its own.
\* An alias is looked up a key for even to be removed, metadata is not.
First(op, seals) ==
  CASE op = "provisionAddress" /\ singleton -> "readSingleton"
    [] op = "provisionAddress" /\ ~singleton -> "generatePair"
    [] op = "provisionMask" -> "generatePair"
    [] op \in {"updateAlias", "nameFolder"} -> "readCurrent"
    [] op = "updateMask" /\ seals -> "readCurrent"
    [] OTHER -> "request"

\* Provisioning an address looks for a symmetric key whether it has an alias
\* or not; provisioning a mask only to seal its metadata.
AfterPair(p) ==
  IF call[p].op = "provisionAddress" \/ call[p].seals THEN "readCurrent"
  ELSE "request"

AfterSymmetric(p) == IF call[p].seals THEN "seal" ELSE "request"

Targets(op, p) ==
  CASE op \in {"updateAlias", "nameFolder", "deleteFolder",
               "deprovisionAddress"} -> Addresses
    [] op \in {"updateMask", "deprovisionMask"} -> Masks
    [] OTHER -> {p}

\* The application makes a call; an exclusive one queues for the mutex.
Start(p, op) ==
  /\ call[p].at = "ready"
  /\ \E target \in Targets(op, p), mayGenerate \in MayGenerate(op),
        seals \in MaySeal(op) :
       call' = [call EXCEPT
                  ![p].op = op, ![p].target = target,
                  ![p].mayGenerate = mayGenerate, ![p].seals = seals,
                  ![p].at = IF op \in Exclusive THEN "waiting"
                            ELSE First(op, seals)]
  /\ queue' = IF op \in Exclusive THEN Append(queue, p) ELSE queue
  /\ UNCHANGED <<singleton, password, keys, owner, erased, faults>>

\* The mutex is given to the call that has waited longest.
Acquire(p) ==
  /\ call[p].at = "waiting"
  /\ Head(queue) = p
  /\ Goto(p, First(call[p].op, call[p].seals))
  /\ UNCHANGED <<singleton, password, keys, owner, erased, faults>>

-----------------------------------------------------------------------------
(* Key pairs: getSingletonKeyPair and generateKeyPair.                     *)

ReadSingleton(p) ==
  /\ call[p].at = "readSingleton"
  /\ call' = [call EXCEPT
                ![p].pair = IF password["singleton"] = NoKey THEN p
                            ELSE password["singleton"],
                ![p].at = IF password["singleton"] = NoKey THEN "addSingleton"
                          ELSE "publicKey"]
  /\ UNCHANGED <<singleton, password, keys, owner, queue, erased, faults>>

\* What addPassword does when the name is taken is the key manager's affair:
\* it replaces the value or rejects.
Store(p, name, stage) ==
  \/ /\ password' = [password EXCEPT ![name] = p]
     /\ Goto(p, stage)
  \/ /\ password[name] # NoKey
     /\ End(p, "Error")
     /\ UNCHANGED password

AddSingleton(p) ==
  /\ call[p].at = "addSingleton"
  /\ Store(p, "singleton", "generatePair")
  /\ UNCHANGED <<singleton, keys, owner, erased, faults>>

\* A variant with a bug: the key pair is stored under the identifier read
\* before it was made.
GeneratePairUnnamed(p) ==
  /\ call[p].at = "generatePair"
  /\ keys' = keys \cup {<<"pair", call[p].pair>>}
  /\ call' = [call EXCEPT ![p].pair = p, ![p].at = "publicKey"]
  /\ UNCHANGED <<singleton, password, owner, queue, erased, faults>>

GeneratePair(p) ==
  /\ call[p].at = "generatePair"
  /\ keys' = keys \cup {<<"pair", p>>}
  /\ call' = [call EXCEPT ![p].pair = p, ![p].at = "publicKey"]
  /\ UNCHANGED <<singleton, password, owner, queue, erased, faults>>

PublicKey(p) ==
  /\ call[p].at = "publicKey"
  /\ IF <<"pair", call[p].pair>> \in keys THEN Goto(p, AfterPair(p))
     ELSE End(p, "NoPublicKey")
  /\ UNCHANGED <<singleton, password, keys, owner, erased, faults>>

-----------------------------------------------------------------------------
(* The current symmetric key: getCurrentSymmetricKeyId, and                *)
(* generateCurrentSymmetricKey by the callers that may generate one.       *)

WithoutCurrent(p) ==
  IF call[p].mayGenerate THEN Goto(p, "deletePassword")
  ELSE End(p, "KeyNotFound")

ReadCurrent(p) ==
  /\ call[p].at = "readCurrent"
  /\ \/ /\ password["symmetric"] = NoKey
        /\ WithoutCurrent(p)
     \/ /\ password["symmetric"] # NoKey
        /\ call' = [call EXCEPT ![p].symmetric = password["symmetric"],
                                ![p].at = "lookUp"]
        /\ UNCHANGED queue
  /\ UNCHANGED <<singleton, password, keys, owner, erased, faults>>

\* A variant with a bug: looks for a key pair of that name.
LookUpPair(p) ==
  /\ call[p].at = "lookUp"
  /\ IF <<"pair", call[p].symmetric>> \in keys
     THEN Goto(p, AfterSymmetric(p))
     ELSE WithoutCurrent(p)
  /\ UNCHANGED <<singleton, password, keys, owner, erased, faults>>

LookUp(p) ==
  /\ call[p].at = "lookUp"
  /\ IF <<"symmetric", call[p].symmetric>> \in keys
     THEN Goto(p, AfterSymmetric(p))
     ELSE WithoutCurrent(p)
  /\ UNCHANGED <<singleton, password, keys, owner, erased, faults>>

DeletePassword(p) ==
  /\ call[p].at = "deletePassword"
  /\ password' = [password EXCEPT !["symmetric"] = NoKey]
  /\ Goto(p, "addPassword")
  /\ UNCHANGED <<singleton, keys, owner, erased, faults>>

AddPassword(p) ==
  /\ call[p].at = "addPassword"
  /\ Store(p, "symmetric", "generateKey")
  /\ UNCHANGED <<singleton, keys, owner, erased, faults>>

GenerateKey(p) ==
  /\ call[p].at = "generateKey"
  /\ keys' = keys \cup {<<"symmetric", p>>}
  /\ call' = [call EXCEPT ![p].symmetric = p, ![p].at = AfterSymmetric(p)]
  /\ UNCHANGED <<singleton, password, owner, queue, erased, faults>>

\* Encrypting with a key that is gone is rejected.
Seal(p) ==
  /\ call[p].at = "seal"
  /\ IF <<"symmetric", call[p].symmetric>> \in keys THEN Goto(p, "request")
     ELSE End(p, "Error")
  /\ UNCHANGED <<singleton, password, keys, owner, erased, faults>>

-----------------------------------------------------------------------------
(* The email service.                                                      *)

Sealed(p) == IF call[p].seals THEN call[p].symmetric ELSE NoKey

\* The record call p leaves of its target.
NewRecord(p) ==
  LET op == call[p].op
      old == owner[call[p].target]
  IN CASE op = "provisionAddress" ->
            [kind |-> "address", pair |-> call[p].pair,
             attribute |-> Sealed(p), folder |-> NoKey]
       [] op = "provisionMask" ->
            [kind |-> "mask", pair |-> call[p].pair,
             attribute |-> Sealed(p), folder |-> NoKey]
       [] op \in {"updateAlias", "updateMask"} ->
            [old EXCEPT !.attribute = Sealed(p)]
       [] op = "nameFolder" -> [old EXCEPT !.folder = Sealed(p)]
       [] op = "deleteFolder" -> [old EXCEPT !.folder = NoKey]
       [] op \in {"deprovisionAddress", "deprovisionMask"} -> NoRecord
       [] OTHER -> old

\* The service knows the target, or is asked to create it.
Known(p) ==
  \/ call[p].op \in {"provisionAddress", "provisionMask", "getAddresses",
                     "listMasks"}
  \/ owner[call[p].target].kind # "none"

Serve(p) ==
  /\ Known(p)
  /\ owner' = [owner EXCEPT ![call[p].target] = NewRecord(p)]

\* The keys it takes to read the records R. Reported as Failed is more here than
\* by the code, which leaves a folder without its name when that key is missing,
\* and gives a mask an error for its metadata alone.
NeedsOf(R) ==
  {<<"pair", r.pair>> : r \in {r \in R : r.kind = "address"}}
    \cup {<<"symmetric", r.attribute>> : r \in {r \in R : r.attribute # NoKey}}
    \cup {<<"symmetric", r.folder>> : r \in {r \in R : r.folder # NoKey}}

\* The records the service returns to call p.
Answer(p) ==
  CASE call[p].op = "getAddresses" -> {owner[a] : a \in Addresses}
    [] call[p].op = "listMasks" -> {owner[m] : m \in Masks}
    [] OTHER -> {NewRecord(p)}

\* A variant with a bug: the pair goes even if other addresses share it.
DropsPairAlways(p) == call[p].op = "deprovisionAddress"

\* Deprovisioning an address goes on to its key pair, unless the client keeps
\* one pair for all.  A mask's pair is never removed.
DropsPair(p) == call[p].op = "deprovisionAddress" /\ ~singleton

\* The request and its answer.  The calls that report what they can read go
\* on to do so; the others transform their answer likewise, but what they
\* would find missing the lists find too.
Request(p) ==
  /\ call[p].at = "request"
  /\ call[p].op \notin MessageOps
  /\ \/ /\ Serve(p)
        /\ CASE call[p].op \in {"provisionAddress", "getAddresses",
                                "listMasks"} ->
                  /\ call' = [call EXCEPT ![p].needs = NeedsOf(Answer(p)),
                                          ![p].at = "map"]
                  /\ UNCHANGED queue
             [] DropsPair(p) ->
                  /\ call' = [call EXCEPT
                                ![p].pair = owner[call[p].target].pair,
                                ![p].at = "removeKeys"]
                  /\ UNCHANGED queue
             [] OTHER -> End(p, "Completed")
     \/ /\ ~Known(p)
        /\ End(p, "Error")
        /\ UNCHANGED owner
  /\ UNCHANGED <<singleton, password, keys, erased, faults>>

\* mapEmailAddress and the transformers under it: what cannot be read for
\* want of a key makes the status Failed.
Map(p) ==
  /\ call[p].at = "map"
  /\ End(p, IF call[p].needs \subseteq keys THEN "Completed" ELSE "Failed")
  /\ UNCHANGED <<singleton, password, keys, owner, erased, faults>>

\* Messages are sealed under the key pair of their address: getMessage and the
\* lists by address, by folder and of all are answered with those of some
\* addresses.
ListMessages(p) ==
  /\ call[p].at = "request"
  /\ call[p].op \in MessageOps
  /\ \E A \in SUBSET Addresses :
       call' = [call EXCEPT ![p].needs = {<<"pair", owner[a].pair>> : a \in A},
                            ![p].at = "unseal"]
  /\ UNCHANGED <<singleton, password, keys, owner, queue, erased, faults>>

\* unsealEmailMessage: each message is looked up a key for, and Failed without.
Unseal(p) ==
  /\ call[p].at = "unseal"
  /\ End(p, IF call[p].needs \subseteq keys THEN "Completed" ELSE "Failed")
  /\ UNCHANGED <<singleton, password, keys, owner, erased, faults>>

RemoveKeys(p) ==
  /\ call[p].at = "removeKeys"
  /\ keys' = keys \ {<<"pair", call[p].pair>>}
  /\ End(p, "Completed")
  /\ UNCHANGED <<singleton, password, owner, erased, faults>>

-----------------------------------------------------------------------------
(* Failures, and reset().                                                  *)

\* An await of call p is rejected; a request may have been served all the
\* same, its answer lost.
Fault(p) ==
  /\ Running(p)
  /\ faults < MaxFaults
  /\ faults' = faults + 1
  /\ End(p, "Error")
  /\ \/ UNCHANGED owner
     \/ call[p].at = "request" /\ Serve(p)
  /\ UNCHANGED <<singleton, password, keys, erased>>

\* The application stops and is started again: its calls and the mutex are
\* gone, the key manager's store is not.
Crash ==
  /\ faults < MaxFaults
  /\ faults' = faults + 1
  /\ call' = [p \in Call |->
                IF call[p].at \in {"ready", "done"} THEN call[p]
                ELSE Ended(call[p], "Error")]
  /\ queue' = <<>>
  /\ UNCHANGED <<singleton, password, keys, owner, erased>>

\* DefaultSudoEmailClient.reset, which no mutex guards.
Reset ==
  /\ keys' = {}
  /\ password' = [name \in {"symmetric", "singleton"} |-> NoKey]
  /\ erased' = erased \cup keys
                \cup (Key \cap {<<"pair", password["singleton"]>>,
                              <<"symmetric", password["symmetric"]>>})
  /\ UNCHANGED <<singleton, owner, queue, call, faults>>

Step(p) ==
  \/ Acquire(p)
  \/ ReadSingleton(p) \/ AddSingleton(p) \/ GeneratePair(p) \/ PublicKey(p)
  \/ ReadCurrent(p) \/ LookUp(p)
  \/ DeletePassword(p) \/ AddPassword(p) \/ GenerateKey(p) \/ Seal(p)
  \/ Request(p) \/ Map(p) \/ ListMessages(p) \/ Unseal(p) \/ RemoveKeys(p)

Next ==
  \/ \E p \in Call, op \in AddressOps \cup MaskOps \cup MessageOps : Start(p, op)
  \/ \E p \in Call : Step(p) \/ Fault(p)
  \/ Crash
  \/ Reset

Spec == Init /\ [][Next]_vars

-----------------------------------------------------------------------------
(* Properties.                                                             *)

\* The mutex is never left to a call that has ended, by whatever path it
\* ended: every call in the queue is still under way, in it once, and only the
\* head of the queue is past waiting.
LockIsPassedOn ==
  /\ \A i \in DOMAIN queue : call[queue[i]].at \notin {"ready", "done"}
  /\ \A i, j \in DOMAIN queue : queue[i] = queue[j] => i = j
  /\ \A p \in Call :
       call[p].op \in Exclusive /\ Running(p) => queue # <<>> /\ Head(queue) = p

\* Whatever the service holds for this client can be read on this device: the
\* key pair of every address and mask and the symmetric key of every alias,
\* folder name and metadata is in the key manager, unless reset() took it.
RecordsAreReadable ==
  \A o \in Call :
    /\ owner[o].kind # "none" => <<"pair", owner[o].pair>> \in keys \cup erased
    /\ \A k \in {owner[o].attribute, owner[o].folder} \ {NoKey} :
         <<"symmetric", k>> \in keys \cup erased

\* An address is reported with status Failed only if a key of it was taken by
\* reset(): never because another call was provisioning or deprovisioning it.
\* Messages are listed outside the mutex: they are Failed also if their address
\* is deprovisioned meanwhile, and then it is gone from the service.
FailedMeansErased ==
  \A p \in Call :
    call[p].result = "Failed" =>
      \/ call[p].needs \cap erased # {}
      \/ /\ call[p].op \in MessageOps
         /\ ~singleton
         /\ call[p].needs \ keys # {}
         /\ \A a \in Addresses : <<"pair", owner[a].pair>> \notin call[p].needs \ keys

\* With enforceSingletonPublicKey all addresses share one key pair, until
\* reset() discards it.
OneSingleton ==
  singleton =>
    \A a, b \in Addresses :
      \/ owner[a].pair = owner[b].pair
      \/ {<<"pair", owner[a].pair>>, <<"pair", owner[b].pair>>} \cap erased # {}

\* A call is told that there is no symmetric key only if this device has
\* none, or another call is in the middle of generating one, or a failure or
\* reset() interfered.
RefusedOnlyWithoutKey ==
  [][\A p \in Call :
       (call[p].result = "none" /\ call'[p].result = "KeyNotFound") =>
         \/ \A k \in keys : k[1] # "symmetric"
         \/ \E q \in Call : call[q].at \in {"addPassword", "generateKey"}
         \/ faults > 0
         \/ erased # {}]_vars
=============================================================================
