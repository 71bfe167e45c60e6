--------------------------- MODULE DeviceKeysProofs ---------------------------
(* Theorems about DeviceKeys, for every set of calls and any number of     *)
(* failures: the mutex, the keys a record needs, the status Failed, the    *)
(* singleton key pair and the refusal for want of a symmetric key.         *)
EXTENDS DeviceKeys, SequenceTheorems, TLAPS

(***************************************************************************)
(* The inductive invariant, part by part.                                  *)
(***************************************************************************)
Provisioning == {"provisionAddress", "provisionMask"}
Sealing == Provisioning \cup {"updateAlias", "updateMask", "nameFolder"}

\* What a call past its request has left with the service stays its own.
Served == {"map", "done"}

\* A provisioning call between the public key and the request.
Paired == {"readCurrent", "lookUp", "deletePassword", "addPassword",
           "generateKey", "seal", "request"}

\* Keys this device has, or has had and lost to reset().
Held == keys \cup erased

\* Which call gets where.
Shape(p) ==
  LET c == call[p] IN
  /\ c.at = "ready" <=> c.op = "none"
  /\ c.at = "waiting" => c.op \in Exclusive
  /\ c.seals => c.op \in Sealing
  /\ c.op \in Provisioning => c.target = p
  /\ c.at \in {"readSingleton", "addSingleton"} => c.op = "provisionAddress" /\ singleton
  /\ c.at \in {"generatePair", "publicKey"} => c.op \in Provisioning
  /\ c.at = "map" => c.op \in {"provisionAddress", "getAddresses", "listMasks"}
  /\ c.at = "unseal" => c.op \in MessageOps
  /\ c.at = "removeKeys" => c.op = "deprovisionAddress" /\ ~singleton

Queued(p) == \E i \in DOMAIN queue : queue[i] = p

\* The queue holds the exclusive calls under way, each once, and its head has
\* the mutex.
MutexHeld ==
  /\ \A p \in Call :
       Queued(p) <=> call[p].op \in Exclusive /\ call[p].at \notin {"ready", "done"}
  /\ \A i, j \in DOMAIN queue : queue[i] = queue[j] => i = j
  /\ \A p \in Call :
       call[p].op \in Exclusive /\ Running(p) => queue # <<>> /\ Head(queue) = p

\* A record is left by the call it is named after; unless all share one, so is
\* its key pair.
RecordsOwned ==
  \A o \in Call :
    owner[o].kind # "none" =>
      /\ call[o].at \in Served
      /\ ~singleton => owner[o].pair = o

\* The keys a request is about to leave a record of are here.
RequestsReadable ==
  \A p \in Call :
    LET c == call[p] IN
    /\ c.op \in Provisioning /\ c.at \in Paired => <<"pair", c.pair>> \in Held
    /\ c.op \in Provisioning /\ c.at \in Paired \cup {"publicKey"} /\ ~singleton
         => c.pair = p
    /\ c.at = "request" /\ c.seals => <<"symmetric", c.symmetric>> \in Held

\* A key pair is removed only once its record is gone for good.
RemovesOrphans ==
  \A p \in Call :
    call[p].at = "removeKeys" =>
      /\ call[p].pair \in Call
      /\ owner[call[p].pair].kind = "none"
      /\ call[call[p].pair].at \in Served

\* What a call is about to look up the keys of, and what it found missing.
NeedsKnown ==
  \A p \in Call :
    LET c == call[p] IN
    /\ c.at = "ready" => c.needs = {}
    /\ c.at # "done" => c.result = "none"
    /\ c.at = "map" => c.needs \subseteq Held
    /\ c.at = "map" /\ c.op = "listMasks" => \A k \in c.needs : k[1] # "pair"
    /\ c.op \in MessageOps =>
         \A k \in c.needs :
           /\ ~singleton => call[k[2]].at \in Served
           /\ k \in Held \/ (~singleton /\ owner[k[2]].kind = "none" /\ k[1] = "pair")
    /\ c.result = "Failed" =>
         \/ c.needs \cap erased # {}
         \/ c.op \in MessageOps /\ ~(c.needs \subseteq keys)

\* All addresses, and the one being provisioned, are under the pair named in
\* the key manager, unless reset() discarded theirs.
SingletonShared ==
  singleton =>
    /\ \A a \in Addresses :
         owner[a].pair = password["singleton"] \/ <<"pair", owner[a].pair>> \in erased
    /\ \A p \in Call :
         LET c == call[p] IN
         c.op = "provisionAddress" =>
           /\ c.at = "addSingleton" => password["singleton"] = NoKey
           /\ c.at = "generatePair" =>
                password["singleton"] = p \/ <<"pair", p>> \in erased
           /\ c.at \in Paired \cup {"publicKey"} =>
                c.pair = password["singleton"] \/ <<"pair", c.pair>> \in erased

\* While nothing fails and nothing is reset, a name of a symmetric key leads to
\* it or to the call that is generating it.
Leads(s) == <<"symmetric", s>> \in keys \/ call[s].at = "generateKey"

NamesLead ==
  faults = 0 /\ erased = {} =>
    /\ password["symmetric"] # NoKey => Leads(password["symmetric"])
    /\ \A p \in Call : call[p].at = "lookUp" =>
         call[p].symmetric # NoKey /\ Leads(call[p].symmetric)
    /\ \/ password["symmetric"] # NoKey
       \/ \E q \in Call : call[q].at = "addPassword"
       \/ /\ \A k \in keys : k[1] # "symmetric"
          /\ \A q \in Call : call[q].at # "generateKey"

IInv ==
  /\ TypeOK
  /\ \A p \in Call : Shape(p)
  /\ MutexHeld
  /\ RecordsOwned
  /\ RecordsAreReadable
  /\ RequestsReadable
  /\ RemovesOrphans
  /\ NeedsKnown
  /\ SingletonShared
  /\ NamesLead

-----------------------------------------------------------------------------

Ops == AddressOps \cup MaskOps \cup MessageOps

Activity ==
  [op : Ops \cup {"none"}, target : Call, mayGenerate : BOOLEAN, seals : BOOLEAN,
   at : Stages, pair : Id, symmetric : Id, needs : SUBSET Key, result : Results]

Records == [kind : {"none", "address", "mask"}, pair : Id, attribute : Id, folder : Id]

\* The step of call p takes it to c, whatever the others do.
Moves(p, c) ==
  /\ call' \in [Call -> Activity]
  /\ call'[p] = c
  /\ \A q \in Call : q # p => call'[q] = call[q]

LEMMA Types ==
  ASSUME TypeOK
  PROVE  /\ call \in [Call -> Activity]
         /\ owner \in [Call -> Records]
         /\ password \in [{"symmetric", "singleton"} -> Id]
         /\ queue \in Seq(Call)
         /\ \A p \in Call : call[p] \in Activity /\ owner[p] \in Records
         /\ password["symmetric"] \in Id /\ password["singleton"] \in Id
  BY DEF TypeOK, Activity, Ops, Records

LEMMA MovesTo ==
  ASSUME TypeOK, NEW p \in Call, NEW c \in Activity, call' = [call EXCEPT ![p] = c]
  PROVE  Moves(p, c)
  BY Types DEF Moves

\* The changes a step makes to what a call is doing, field by field.
LEMMA AtType ==
  ASSUME NEW c \in Activity, NEW stage \in Stages
  PROVE  /\ [c EXCEPT !.at = stage] \in Activity
         /\ [c EXCEPT !.at = stage].at = stage
         /\ [c EXCEPT !.at = stage].op = c.op /\ [c EXCEPT !.at = stage].target = c.target
         /\ [c EXCEPT !.at = stage].seals = c.seals
         /\ [c EXCEPT !.at = stage].pair = c.pair
         /\ [c EXCEPT !.at = stage].symmetric = c.symmetric
         /\ [c EXCEPT !.at = stage].needs = c.needs
         /\ [c EXCEPT !.at = stage].result = c.result
  BY DEF Activity

LEMMA PairType ==
  ASSUME NEW c \in Activity, NEW k \in Id, NEW stage \in Stages
  PROVE  LET d == [c EXCEPT !.pair = k, !.at = stage] IN
         /\ d \in Activity
         /\ d.at = stage /\ d.op = c.op /\ d.target = c.target /\ d.seals = c.seals
         /\ d.pair = k /\ d.symmetric = c.symmetric /\ d.needs = c.needs
         /\ d.result = c.result
  BY DEF Activity

LEMMA SymmetricType ==
  ASSUME NEW c \in Activity, NEW k \in Id, NEW stage \in Stages
  PROVE  LET d == [c EXCEPT !.symmetric = k, !.at = stage] IN
         /\ d \in Activity
         /\ d.at = stage /\ d.op = c.op /\ d.target = c.target /\ d.seals = c.seals
         /\ d.pair = c.pair /\ d.symmetric = k /\ d.needs = c.needs
         /\ d.result = c.result
  BY DEF Activity

LEMMA NeedsType ==
  ASSUME NEW c \in Activity, NEW N \in SUBSET Key, NEW stage \in Stages
  PROVE  LET d == [c EXCEPT !.needs = N, !.at = stage] IN
         /\ d \in Activity
         /\ d.at = stage /\ d.op = c.op /\ d.target = c.target /\ d.seals = c.seals
         /\ d.pair = c.pair /\ d.symmetric = c.symmetric /\ d.needs = N
         /\ d.result = c.result
  BY DEF Activity

LEMMA StartType ==
  ASSUME NEW c \in Activity, NEW op \in Ops, NEW target \in Call,
         NEW mayGenerate \in BOOLEAN, NEW seals \in BOOLEAN, NEW stage \in Stages
  PROVE  LET d == [c EXCEPT !.op = op, !.target = target, !.mayGenerate = mayGenerate,
                            !.seals = seals, !.at = stage] IN
         /\ d \in Activity
         /\ d.at = stage /\ d.op = op /\ d.target = target /\ d.seals = seals
         /\ d.pair = c.pair /\ d.symmetric = c.symmetric /\ d.needs = c.needs
         /\ d.result = c.result
  BY DEF Activity

LEMMA EndedType ==
  ASSUME NEW c \in Activity, NEW result \in Results
  PROVE  LET d == Ended(c, result) IN
         /\ d \in Activity
         /\ d.op = c.op /\ d.target = c.target /\ d.at = "done" /\ d.result = result
         /\ d.seals = FALSE /\ d.needs = c.needs
  BY DEF Activity, Ended, Stages, Id

LEMMA GotoMoves ==
  ASSUME TypeOK, NEW p \in Call, NEW stage \in Stages, Goto(p, stage)
  PROVE  Moves(p, [call[p] EXCEPT !.at = stage]) /\ UNCHANGED queue
  BY AtType, MovesTo, Types DEF Goto

LEMMA EndMoves ==
  ASSUME TypeOK, NEW p \in Call, NEW result \in Results, End(p, result)
  PROVE  Moves(p, Ended(call[p], result))
         /\ queue' = IF call[p].op \in Exclusive THEN Tail(queue) ELSE queue
  BY MovesTo, EndedType, Types DEF End

\* Start is a move of its call.
LEMMA StartMoves ==
  ASSUME TypeOK, NEW p \in Call, NEW op \in Ops, Start(p, op)
  PROVE  \E target \in Targets(op, p), mayGenerate \in MayGenerate(op),
            seals \in MaySeal(op) :
           /\ target \in Call /\ seals \in BOOLEAN
           /\ Moves(p, [call[p] EXCEPT
                !.op = op, !.target = target, !.mayGenerate = mayGenerate, !.seals = seals,
                !.at = IF op \in Exclusive THEN "waiting" ELSE First(op, seals)])
<1>1. PICK target \in Targets(op, p), mayGenerate \in MayGenerate(op), seals \in MaySeal(op) :
        call' = [call EXCEPT
                   ![p].op = op, ![p].target = target,
                   ![p].mayGenerate = mayGenerate, ![p].seals = seals,
                   ![p].at = IF op \in Exclusive THEN "waiting" ELSE First(op, seals)]
  BY DEF Start
<1>2. target \in Call /\ mayGenerate \in BOOLEAN /\ seals \in BOOLEAN
  BY DEF Targets, MayGenerate, MaySeal, Addresses, Masks
<1> DEFINE stage == IF op \in Exclusive THEN "waiting" ELSE First(op, seals)
           c == [call[p] EXCEPT !.op = op, !.target = target, !.mayGenerate = mayGenerate,
                                !.seals = seals, !.at = stage]
<1>3. stage \in Stages
  BY DEF First, Stages
<1>4. c \in Activity
  <2>1. call[p] \in Activity
    BY Types
  <2> HIDE DEF stage
  <2> QED
    BY <1>2, <1>3, <2>1 DEF Activity
<1>5. call' = [call EXCEPT ![p] = c]
  BY <1>1, Types
<1> QED
  BY <1>2, <1>4, <1>5, MovesTo

-----------------------------------------------------------------------------

RunningStages == Stages \ {"ready", "waiting", "done"}

\* What every step of call p, a rejected await of it included, does to the rest.
Progress(p, c, d) ==
  /\ call' \in [Call -> Activity]
  /\ \A q \in Call : q # p => call'[q] = call[q]
  /\ d \in Activity /\ d.op = c.op /\ d.target = c.target
  /\ \/ c.at \in RunningStages /\ d.at \in RunningStages /\ UNCHANGED queue
     \/ /\ c.at = "waiting" /\ Head(queue) = p
        /\ d.at \in RunningStages /\ UNCHANGED queue
     \/ /\ c.at \in RunningStages /\ d.at = "done"
        /\ queue' = IF c.op \in Exclusive THEN Tail(queue) ELSE queue
  /\ c.at \in Served => d.at \in Served
  /\ UNCHANGED <<singleton, erased>>
  /\ \/ UNCHANGED owner
     \/ c.at = "request" /\ Serve(p) /\ d.at \in {"map", "removeKeys", "done"}
        /\ (d.at = "removeKeys" => c.op = "deprovisionAddress")
  /\ \/ UNCHANGED keys
     \/ c.at = "generatePair" /\ keys' = keys \cup {<<"pair", p>>}
     \/ c.at = "generateKey" /\ keys' = keys \cup {<<"symmetric", p>>}
     \/ c.at = "removeKeys" /\ keys' = keys \ {<<"pair", c.pair>>} /\ d.at = "done"
  /\ password' \in [{"symmetric", "singleton"} -> Id]
  /\ faults' \in 0 .. MaxFaults

Progresses(p) == Progress(p, call[p], call'[p]) /\ Shape(p)'

\* A step that only moves its call on, or ends it, and leaves the rest alone.
LEMMA GotoProgresses ==
  ASSUME TypeOK, NEW p \in Call, Shape(p), Running(p), NEW stage \in RunningStages,
         Goto(p, stage), UNCHANGED <<singleton, keys, owner, erased, faults>>,
         password' \in [{"symmetric", "singleton"} -> Id],
         stage \notin {"readSingleton", "addSingleton", "publicKey", "map", "unseal",
                       "removeKeys"},
         stage = "generatePair" => call[p].op \in Provisioning,
         call[p].at \notin Served
  PROVE  Progresses(p)
<1>1. Moves(p, [call[p] EXCEPT !.at = stage]) /\ UNCHANGED queue
  BY GotoMoves DEF RunningStages
<1>2. call[p] \in Activity /\ call[p].at \in RunningStages
  BY Types DEF Running, RunningStages, Activity
<1> DEFINE d == call'[p]
<1>3. /\ d \in Activity /\ d.op = call[p].op /\ d.target = call[p].target
      /\ d.at = stage /\ d.seals = call[p].seals
  BY <1>1, <1>2, AtType DEF Moves, RunningStages
<1>4. Progress(p, call[p], d)
  BY <1>1, <1>2, <1>3, Types DEF Progress, Moves, TypeOK
<1>5. Shape(p)'
  BY <1>2, <1>3 DEF Shape, Running, RunningStages
<1> QED
  BY <1>4, <1>5 DEF Progresses

LEMMA EndProgresses ==
  ASSUME TypeOK, NEW p \in Call, Shape(p), Running(p), NEW result \in Results,
         End(p, result), UNCHANGED <<singleton, password, erased>>,
         UNCHANGED owner \/ (call[p].at = "request" /\ Serve(p)),
         keys' = keys \/ (call[p].at = "removeKeys" /\ keys' = keys \ {<<"pair", call[p].pair>>}),
         faults' \in 0 .. MaxFaults
  PROVE  Progresses(p)
<1>1. /\ Moves(p, Ended(call[p], result))
      /\ queue' = IF call[p].op \in Exclusive THEN Tail(queue) ELSE queue
  BY EndMoves
<1>2. call[p] \in Activity /\ call[p].at \in RunningStages
  BY Types DEF Running, RunningStages, Activity
<1> DEFINE d == call'[p]
<1>3. /\ d \in Activity /\ d.op = call[p].op /\ d.target = call[p].target
      /\ d.at = "done" /\ d.seals = FALSE
  <2>1. d = Ended(call[p], result)
    BY <1>1 DEF Moves
  <2>2. NoKey \in Id /\ "done" \in Stages
    BY DEF Id, Stages
  <2> HIDE DEF d
  <2>3. d \in Activity
    BY <1>2, <2>1, <2>2 DEF Ended, Activity
  <2>4. d.at = "done" /\ d.seals = FALSE /\ d.op = call[p].op /\ d.target = call[p].target
    BY <1>2, <2>1 DEF Ended, Activity
  <2> QED
    BY <2>3, <2>4
<1>4. Progress(p, call[p], d)
  BY <1>1, <1>2, <1>3, Types DEF Progress, Moves, Served
<1>5. Shape(p)'
  BY <1>2, <1>3 DEF Shape, RunningStages
<1> QED
  BY <1>4, <1>5 DEF Progresses

Readable(r) ==
  /\ r.kind # "none" => <<"pair", r.pair>> \in Held
  /\ \A k \in {r.attribute, r.folder} \ {NoKey} : <<"symmetric", k>> \in Held

LEMMA HeldType ==
  ASSUME TypeOK
  PROVE  Held \subseteq Key
  BY DEF TypeOK, Held

LEMMA NeedsHeld ==
  ASSUME NEW R \in SUBSET Records, \A r \in R : Readable(r)
  PROVE  NeedsOf(R) \subseteq Held
  BY DEF NeedsOf, Readable, Records

\* A record of masks takes no key pair to read.
LEMMA MaskNeeds ==
  ASSUME NEW R, \A r \in R : r.kind = "mask", NEW k \in NeedsOf(R)
  PROVE  k[1] # "pair"
  BY DEF NeedsOf

\* What a request leaves with the service is typed and can be read.
LEMMA NewRecordReadable ==
  ASSUME TypeOK, NEW p \in Call, Shape(p), RecordsAreReadable, RequestsReadable,
         call[p].at = "request"
  PROVE  NewRecord(p) \in Records /\ Readable(NewRecord(p))
<1> DEFINE c == call[p]
           old == owner[c.target]
           k == Sealed(p)
<1>t. /\ c \in Activity /\ c.target \in Call /\ c.pair \in Id /\ c.symmetric \in Id
      /\ old \in Records /\ NoKey \in Id /\ c.op # "none"
  BY Types DEF Activity, Id, Shape
<1>o. Readable(old)
  BY <1>t DEF RecordsAreReadable, Readable, Held
<1>k. k \in Id /\ (k # NoKey => <<"symmetric", k>> \in Held)
  BY <1>t DEF Sealed, RequestsReadable
<1>1. CASE c.op \in Provisioning
  <2>1. <<"pair", c.pair>> \in Held
    BY <1>1 DEF RequestsReadable, Paired
  <2>2. \E kind \in {"address", "mask"} :
          NewRecord(p) = [kind |-> kind, pair |-> c.pair, attribute |-> k, folder |-> NoKey]
    BY <1>1 DEF NewRecord, Provisioning
  <2> HIDE DEF k
  <2> QED
    BY <1>t, <1>k, <2>1, <2>2 DEF Records, Readable
<1>2. CASE c.op \in {"updateAlias", "updateMask"}
  <2>1. NewRecord(p) = [old EXCEPT !.attribute = k]
    BY <1>2 DEF NewRecord
  <2> HIDE DEF k, old
  <2> QED
    BY <1>t, <1>k, <1>o, <2>1 DEF Records, Readable
<1>3. CASE c.op = "nameFolder"
  <2>1. NewRecord(p) = [old EXCEPT !.folder = k]
    BY <1>3 DEF NewRecord
  <2> HIDE DEF k, old
  <2> QED
    BY <1>t, <1>k, <1>o, <2>1 DEF Records, Readable
<1>4. CASE c.op = "deleteFolder"
  <2>1. NewRecord(p) = [old EXCEPT !.folder = NoKey]
    BY <1>4 DEF NewRecord
  <2> HIDE DEF k, old
  <2> QED
    BY <1>t, <1>o, <2>1 DEF Records, Readable
<1>5. CASE c.op \in {"deprovisionAddress", "deprovisionMask"}
  <2>1. NewRecord(p) = NoRecord
    BY <1>5 DEF NewRecord
  <2> QED
    BY <1>t, <2>1 DEF Records, Readable, NoRecord
<1>6. CASE c.op \in {"getAddresses", "listMasks"} \cup MessageOps
  <2>1. NewRecord(p) = old
    BY <1>6 DEF NewRecord, MessageOps
  <2> QED
    BY <1>t, <1>o, <2>1
<1>7. c.op \in Ops
  BY <1>t DEF Activity
<1> QED
  BY <1>1, <1>2, <1>3, <1>4, <1>5, <1>6, <1>7
     DEF Ops, AddressOps, MaskOps, MessageOps, Provisioning

LEMMA AnswerReadable ==
  ASSUME TypeOK, NEW p \in Call, Shape(p), RecordsAreReadable, RequestsReadable,
         call[p].at = "request"
  PROVE  NeedsOf(Answer(p)) \subseteq Held
<1>1. \A o \in Call : owner[o] \in Records /\ Readable(owner[o])
  BY Types DEF RecordsAreReadable, Readable, Held
<1>2. Answer(p) \subseteq Records /\ \A r \in Answer(p) : Readable(r)
  BY <1>1, NewRecordReadable DEF Answer, Addresses, Masks
<1> QED
  BY <1>2, NeedsHeld

LEMMA StepProgresses ==
  ASSUME TypeOK, NEW p \in Call, Shape(p), RecordsAreReadable, RequestsReadable,
         Step(p) \/ Fault(p)
  PROVE  Progresses(p)
<1> DEFINE c == call[p]
           d == call'[p]
<1>t. c \in Activity /\ c.target \in Call /\ owner[c.target] \in Records /\ faults \in 0 .. MaxFaults
      /\ password \in [{"symmetric", "singleton"} -> Id] /\ p \in Id
  BY Types DEF Activity, Id, TypeOK
<1>r. {"KeyNotFound", "NoPublicKey", "Error", "Completed", "Failed"} \subseteq Results
  BY DEF Results
<1>e. /\ AfterPair(p) \in {"readCurrent", "request"}
      /\ AfterSymmetric(p) \in {"seal", "request"}
      /\ {"readCurrent", "request", "lookUp", "deletePassword", "addPassword",
          "generateKey", "seal"} \subseteq RunningStages
  BY DEF AfterPair, AfterSymmetric, RunningStages, Stages
<1>1. CASE Acquire(p)
  <2> DEFINE stage == First(c.op, c.seals)
  <2>1. stage \in {"readSingleton", "generatePair", "request"} /\ c.op \in Exclusive
    BY <1>1 DEF Acquire, Shape, First, Exclusive
  <2>2. /\ stage = "readSingleton" => c.op = "provisionAddress" /\ singleton
        /\ stage = "generatePair" => c.op = "provisionAddress"
    BY <1>1 DEF Acquire, Shape, First, Exclusive
  <2>3. stage \in Stages /\ stage \in RunningStages
    BY <2>1 DEF Stages, RunningStages
  <2>4. Moves(p, [c EXCEPT !.at = stage]) /\ UNCHANGED queue
    BY <1>1, <2>3, GotoMoves DEF Acquire
  <2>5. d \in Activity /\ d.op = c.op /\ d.target = c.target /\ d.at = stage /\ d.seals = c.seals
    <3> HIDE DEF stage
    <3> QED
      BY <1>t, <2>3, <2>4 DEF Moves, Activity
  <2> HIDE DEF stage
  <2>6. Progress(p, c, d)
    BY <1>1, <1>t, <2>3, <2>4, <2>5 DEF Progress, Moves, Acquire, Served
  <2>7. Shape(p)'
    BY <1>1, <2>1, <2>2, <2>5 DEF Shape, Acquire, Provisioning
  <2> QED
    BY <2>6, <2>7 DEF Progresses
<1>2. CASE Fault(p)
  <2>1. faults' \in 0 .. MaxFaults
    BY <1>2, <1>t, FaultsAssumption DEF Fault
  <2> QED
    BY <1>2, <1>r, <2>1, EndProgresses DEF Fault
<1>3. ASSUME NEW k \in Id, NEW stage \in RunningStages,
             \/ call' = [call EXCEPT ![p] = [@ EXCEPT !.pair = k, !.at = stage]]
             \/ call' = [call EXCEPT ![p] = [@ EXCEPT !.symmetric = k, !.at = stage]]
      PROVE  /\ call' \in [Call -> Activity]
             /\ \A q \in Call : q # p => call'[q] = call[q]
             /\ d \in Activity /\ d.op = c.op /\ d.target = c.target /\ d.at = stage
             /\ d.seals = c.seals
  <2>1. \/ Moves(p, [c EXCEPT !.pair = k, !.at = stage])
        \/ Moves(p, [c EXCEPT !.symmetric = k, !.at = stage])
    BY <1>3, <1>t, PairType, SymmetricType, MovesTo DEF RunningStages
  <2> QED
    BY <1>t, <2>1 DEF Moves, Activity, RunningStages
<1>4. CASE ReadSingleton(p)
  <2> DEFINE k == IF password["singleton"] = NoKey THEN p ELSE password["singleton"]
             stage == IF password["singleton"] = NoKey THEN "addSingleton" ELSE "publicKey"
  <2>1. k \in Id /\ stage \in RunningStages /\ stage \in {"addSingleton", "publicKey"}
    BY <1>t DEF RunningStages, Stages
  <2>2. call' = [call EXCEPT ![p] = [@ EXCEPT !.pair = k, !.at = stage]]
    BY <1>4 DEF ReadSingleton
  <2> HIDE DEF k, stage
  <2>3. /\ call' \in [Call -> Activity] /\ \A q \in Call : q # p => call'[q] = call[q]
        /\ d \in Activity /\ d.op = c.op /\ d.target = c.target /\ d.at = stage
        /\ d.seals = c.seals
    BY <1>3, <2>1, <2>2
  <2>4. Progress(p, c, d)
    BY <1>4, <1>t, <2>1, <2>3 DEF Progress, ReadSingleton, Served, RunningStages, Stages
  <2>5. Shape(p)'
    BY <1>4, <2>1, <2>3 DEF Shape, ReadSingleton, Provisioning
  <2> QED
    BY <2>4, <2>5 DEF Progresses
<1>5. CASE GeneratePair(p)
  <2>1. call' = [call EXCEPT ![p] = [@ EXCEPT !.pair = p, !.at = "publicKey"]]
    BY <1>5 DEF GeneratePair
  <2>2. "publicKey" \in RunningStages /\ "generatePair" \in RunningStages
    BY DEF RunningStages, Stages
  <2>3. /\ call' \in [Call -> Activity] /\ \A q \in Call : q # p => call'[q] = call[q]
        /\ d \in Activity /\ d.op = c.op /\ d.target = c.target /\ d.at = "publicKey"
        /\ d.seals = c.seals
    BY <1>3, <1>t, <2>1, <2>2
  <2>4. Progress(p, c, d)
    BY <1>5, <1>t, <2>2, <2>3 DEF Progress, GeneratePair, Served
  <2>5. Shape(p)'
    BY <1>5, <2>3 DEF Shape, GeneratePair
  <2> QED
    BY <2>4, <2>5 DEF Progresses
<1>6. CASE GenerateKey(p)
  <2> DEFINE stage == AfterSymmetric(p)
  <2>1. call' = [call EXCEPT ![p] = [@ EXCEPT !.symmetric = p, !.at = stage]]
    BY <1>6 DEF GenerateKey
  <2>2. stage \in RunningStages /\ "generateKey" \in RunningStages
        /\ stage \in {"seal", "request"}
    BY <1>e
  <2> HIDE DEF stage
  <2>3. /\ call' \in [Call -> Activity] /\ \A q \in Call : q # p => call'[q] = call[q]
        /\ d \in Activity /\ d.op = c.op /\ d.target = c.target /\ d.at = stage
        /\ d.seals = c.seals
    BY <1>3, <1>t, <2>1, <2>2
  <2>4. Progress(p, c, d)
    BY <1>6, <1>t, <2>2, <2>3 DEF Progress, GenerateKey, Served
  <2>5. Shape(p)'
    BY <1>6, <2>2, <2>3 DEF Shape, GenerateKey
  <2> QED
    BY <2>4, <2>5 DEF Progresses
<1>7. CASE ReadCurrent(p) \/ LookUp(p)
  <2>1. Running(p) /\ c.at \notin Served
    BY <1>7 DEF ReadCurrent, LookUp, Running, Served
  <2>2. CASE WithoutCurrent(p)
    BY <1>7, <1>t, <1>e, <1>r, <2>1, <2>2, GotoProgresses, EndProgresses
       DEF WithoutCurrent, ReadCurrent, LookUp
  <2>3. CASE LookUp(p) /\ Goto(p, AfterSymmetric(p))
    BY <1>t, <1>e, <2>1, <2>3, GotoProgresses DEF LookUp
  <2>4. CASE ReadCurrent(p) /\ password["symmetric"] # NoKey
             /\ call' = [call EXCEPT ![p].symmetric = password["symmetric"], ![p].at = "lookUp"]
             /\ UNCHANGED queue
    <3>1. call' = [call EXCEPT ![p] = [@ EXCEPT !.symmetric = password["symmetric"],
                                                !.at = "lookUp"]]
      BY <2>4
    <3>2. password["symmetric"] \in Id /\ "lookUp" \in RunningStages
      BY <1>t DEF RunningStages, Stages
    <3>3. /\ call' \in [Call -> Activity] /\ \A q \in Call : q # p => call'[q] = call[q]
          /\ d \in Activity /\ d.op = c.op /\ d.target = c.target /\ d.at = "lookUp"
          /\ d.seals = c.seals
      BY <1>3, <3>1, <3>2
    <3>4. Progress(p, c, d)
      BY <2>4, <1>t, <1>e, <3>2, <3>3 DEF Progress, ReadCurrent, Served
    <3>5. Shape(p)'
      BY <2>4, <3>3 DEF Shape, ReadCurrent
    <3> QED
      BY <3>4, <3>5 DEF Progresses
  <2> QED
    BY <1>7, <2>2, <2>3, <2>4 DEF ReadCurrent, LookUp
<1>8. CASE DeletePassword(p)
  <2>1. Running(p) /\ c.at \notin Served /\ password' \in [{"symmetric", "singleton"} -> Id]
    BY <1>8, <1>t DEF DeletePassword, Running, Served, Id
  <2> QED
    BY <1>8, <1>e, <2>1, GotoProgresses DEF DeletePassword
<1>9. CASE AddPassword(p) \/ AddSingleton(p)
  <2>1. Running(p) /\ c.at \notin Served
    BY <1>9 DEF AddPassword, AddSingleton, Running, Served
  <2>2. password' \in [{"symmetric", "singleton"} -> Id]
    BY <1>9, <1>t DEF AddPassword, AddSingleton, Store
  <2>3. "generatePair" \in RunningStages
    BY DEF RunningStages, Stages
  <2>4. CASE AddPassword(p)
    BY <1>t, <1>e, <1>r, <2>1, <2>2, <2>4, GotoProgresses, EndProgresses DEF AddPassword, Store
  <2>5. CASE AddSingleton(p)
    <3>1. c.op \in Provisioning
      BY <2>5 DEF AddSingleton, Shape, Provisioning
    <3> QED
      BY <1>t, <1>r, <2>1, <2>2, <2>3, <2>5, <3>1, GotoProgresses, EndProgresses
         DEF AddSingleton, Store
  <2> QED
    BY <1>9, <2>4, <2>5
<1>10. CASE PublicKey(p) \/ Seal(p)
  <2>1. Running(p) /\ c.at \notin Served
    BY <1>10 DEF PublicKey, Seal, Running, Served
  <2>2. CASE PublicKey(p)
    BY <1>t, <1>e, <1>r, <2>1, <2>2, GotoProgresses, EndProgresses DEF PublicKey
  <2>3. CASE Seal(p)
    BY <1>t, <1>e, <1>r, <2>1, <2>3, GotoProgresses, EndProgresses DEF Seal
  <2> QED
    BY <1>10, <2>2, <2>3
<1>11. CASE Map(p) \/ Unseal(p) \/ RemoveKeys(p)
  <2>1. Running(p)
    BY <1>11 DEF Map, Unseal, RemoveKeys, Running
  <2>2. CASE Map(p) \/ Unseal(p)
    <3>1. (IF c.needs \subseteq keys THEN "Completed" ELSE "Failed") \in Results
      BY <1>r
    <3> QED
      BY <1>t, <2>1, <2>2, <3>1, EndProgresses DEF Map, Unseal
  <2>3. CASE RemoveKeys(p)
    BY <1>t, <1>r, <2>1, <2>3, EndProgresses DEF RemoveKeys
  <2> QED
    BY <1>11, <2>2, <2>3
<1>12. ASSUME NEW N \in SUBSET Key, NEW stage \in {"map", "unseal"},
              call' = [call EXCEPT ![p] = [@ EXCEPT !.needs = N, !.at = stage]]
       PROVE  /\ call' \in [Call -> Activity]
              /\ \A q \in Call : q # p => call'[q] = call[q]
              /\ d \in Activity /\ d.op = c.op /\ d.target = c.target /\ d.at = stage
              /\ d.seals = c.seals
  <2>1. Moves(p, [c EXCEPT !.needs = N, !.at = stage])
    <3>1. [c EXCEPT !.needs = N, !.at = stage] \in Activity
      BY <1>12, <1>t DEF Activity, Stages
    <3> QED
      BY <1>12, <3>1, MovesTo
  <2> QED
    BY <1>t, <2>1 DEF Moves, Activity, Stages
<1>13. CASE ListMessages(p)
  <2>1. PICK A \in SUBSET Addresses :
          call' = [call EXCEPT ![p].needs = {<<"pair", owner[a].pair>> : a \in A},
                               ![p].at = "unseal"]
    BY <1>13 DEF ListMessages
  <2> DEFINE N == {<<"pair", owner[a].pair>> : a \in A}
  <2>2. N \subseteq Key
    BY HeldType DEF RecordsAreReadable, Held, Addresses
  <2>3. call' = [call EXCEPT ![p] = [@ EXCEPT !.needs = N, !.at = "unseal"]]
    BY <2>1
  <2> HIDE DEF N
  <2>4. /\ call' \in [Call -> Activity] /\ \A q \in Call : q # p => call'[q] = call[q]
        /\ d \in Activity /\ d.op = c.op /\ d.target = c.target /\ d.at = "unseal"
        /\ d.seals = c.seals
    BY <1>12, <2>2, <2>3
  <2>5. Progress(p, c, d)
    BY <1>13, <1>t, <2>4 DEF Progress, ListMessages, Served, RunningStages, Stages
  <2>6. Shape(p)'
    BY <1>13, <2>4 DEF Shape, ListMessages
  <2> QED
    BY <2>5, <2>6 DEF Progresses
<1>14. CASE Request(p)
  <2>1. Running(p) /\ c.at = "request"
    BY <1>14 DEF Request, Running
  <2>2. CASE End(p, "Completed") \/ End(p, "Error")
    BY <1>14, <1>t, <1>r, <2>1, <2>2, EndProgresses DEF Request
  <2>3. CASE /\ c.op \in {"provisionAddress", "getAddresses", "listMasks"}
             /\ call' = [call EXCEPT ![p].needs = NeedsOf(Answer(p)), ![p].at = "map"]
             /\ UNCHANGED queue /\ Serve(p)
    <3> DEFINE N == NeedsOf(Answer(p))
    <3>1. N \subseteq Key
      BY <2>1, AnswerReadable, HeldType
    <3>2. call' = [call EXCEPT ![p] = [@ EXCEPT !.needs = N, !.at = "map"]]
      BY <2>3
    <3> HIDE DEF N
    <3>3. /\ call' \in [Call -> Activity] /\ \A q \in Call : q # p => call'[q] = call[q]
          /\ d \in Activity /\ d.op = c.op /\ d.target = c.target /\ d.at = "map"
          /\ d.seals = c.seals
      BY <1>12, <3>1, <3>2
    <3>4. Progress(p, c, d)
      BY <1>14, <1>t, <2>3, <3>3 DEF Progress, Request, Served, RunningStages, Stages
    <3>5. Shape(p)'
      BY <1>14, <2>3, <3>3 DEF Shape, Request
    <3> QED
      BY <3>4, <3>5 DEF Progresses
  <2>4. CASE /\ DropsPair(p) /\ Serve(p) /\ UNCHANGED queue
             /\ call' = [call EXCEPT ![p].pair = owner[c.target].pair, ![p].at = "removeKeys"]
    <3> DEFINE k == owner[c.target].pair
    <3>1. k \in Id /\ "removeKeys" \in RunningStages
      BY <1>t DEF Records, RunningStages, Stages
    <3>2. call' = [call EXCEPT ![p] = [@ EXCEPT !.pair = k, !.at = "removeKeys"]]
      BY <2>4
    <3> HIDE DEF k
    <3>3. /\ call' \in [Call -> Activity] /\ \A q \in Call : q # p => call'[q] = call[q]
          /\ d \in Activity /\ d.op = c.op /\ d.target = c.target /\ d.at = "removeKeys"
          /\ d.seals = c.seals
      BY <1>3, <3>1, <3>2
    <3>4. Progress(p, c, d)
      BY <1>14, <1>t, <2>4, <3>3 DEF Progress, Request, DropsPair, Served, RunningStages, Stages
    <3>5. Shape(p)'
      BY <1>14, <2>4, <3>3 DEF Shape, Request, DropsPair, Provisioning
    <3> QED
      BY <3>4, <3>5 DEF Progresses
  <2> QED
    BY <1>14, <2>2, <2>3, <2>4 DEF Request, DropsPair
<1> QED
  BY <1>1, <1>2, <1>4, <1>5, <1>6, <1>7, <1>8, <1>9, <1>10, <1>11, <1>13, <1>14 DEF Step

\* Start moves only its call, which was not under way.
StartsAs(p, d) ==
  /\ call[p].at = "ready"
  /\ call' \in [Call -> Activity]
  /\ \A q \in Call : q # p => call'[q] = call[q]
  /\ d \in Activity /\ d.op \in Ops
  /\ d.needs = call[p].needs /\ d.result = call[p].result
  /\ d.op \in Provisioning => d.target = p
  /\ d.at = IF d.op \in Exclusive THEN "waiting" ELSE First(d.op, d.seals)
  /\ d.seals => d.op \in Sealing
  /\ queue' = IF d.op \in Exclusive THEN Append(queue, p) ELSE queue
  /\ UNCHANGED <<singleton, password, keys, owner, erased, faults>>

LEMMA StartStarts ==
  ASSUME TypeOK, NEW p \in Call, NEW op \in Ops, Start(p, op)
  PROVE  StartsAs(p, call'[p]) /\ Shape(p)'
<1>1. PICK target \in Targets(op, p), mayGenerate \in MayGenerate(op), seals \in MaySeal(op) :
        /\ target \in Call /\ seals \in BOOLEAN
        /\ Moves(p, [call[p] EXCEPT
             !.op = op, !.target = target, !.mayGenerate = mayGenerate, !.seals = seals,
             !.at = IF op \in Exclusive THEN "waiting" ELSE First(op, seals)])
  BY StartMoves
<1> DEFINE stage == IF op \in Exclusive THEN "waiting" ELSE First(op, seals)
           c == call[p]
           d == call'[p]
<1>2. stage \in Stages /\ c \in Activity
  BY Types DEF First, Stages
<1>3. d = [c EXCEPT !.op = op, !.target = target, !.mayGenerate = mayGenerate, !.seals = seals,
                    !.at = stage]
  BY <1>1 DEF Moves
<1> HIDE DEF stage
<1>4. /\ d.op = op /\ d.target = target /\ d.seals = seals /\ d.at = stage
      /\ d.needs = c.needs /\ d.result = c.result
  BY <1>2, <1>3 DEF Activity
<1>5. op \in Provisioning => target = p
  BY <1>1 DEF Targets, Provisioning
<1>6. seals => op \in Sealing
  BY <1>1 DEF MaySeal, Sealing, Provisioning
<1>7. call' \in [Call -> Activity] /\ \A q \in Call : q # p => call'[q] = call[q]
  BY <1>1 DEF Moves
<1>8. StartsAs(p, d)
  BY <1>4, <1>5, <1>6, <1>7 DEF StartsAs, Start, stage
<1>9. Shape(p)'
  BY <1>4, <1>5, <1>6 DEF Shape, stage, First, Exclusive, Provisioning, Ops, AddressOps,
                          MaskOps, MessageOps, Start
<1> QED
  BY <1>8, <1>9

LEMMA ServeType ==
  ASSUME TypeOK, NEW p \in Call, Shape(p), RecordsAreReadable, RequestsReadable,
         call[p].at = "request", Serve(p)
  PROVE  /\ owner' \in [Call -> Records]
         /\ owner'[call[p].target] = NewRecord(p)
         /\ \A o \in Call : o # call[p].target => owner'[o] = owner[o]
  BY Types, NewRecordReadable DEF Serve, Activity

-----------------------------------------------------------------------------

Same(c, d) ==
  d.pair = c.pair /\ d.symmetric = c.symmetric /\ d.needs = c.needs /\ d.result = c.result

\* The stages of a call, each with what it asks for and what it leaves.
Passes(p, c, d) ==
  /\ Same(c, d)
  /\ \/ /\ UNCHANGED password
        /\ \/ c.at = "waiting" /\ d.at = First(c.op, c.seals)
           \/ c.at = "publicKey" /\ <<"pair", c.pair>> \in keys /\ d.at = AfterPair(p)
           \/ c.at \in {"readCurrent", "lookUp"} /\ d.at = "deletePassword"
           \/ c.at = "lookUp" /\ <<"symmetric", c.symmetric>> \in keys
                /\ d.at = AfterSymmetric(p)
           \/ c.at = "seal" /\ <<"symmetric", c.symmetric>> \in keys /\ d.at = "request"
     \/ c.at = "addSingleton" /\ d.at = "generatePair"
          /\ password' = [password EXCEPT !["singleton"] = p]
     \/ c.at = "deletePassword" /\ d.at = "addPassword"
          /\ password' = [password EXCEPT !["symmetric"] = NoKey]
     \/ c.at = "addPassword" /\ d.at = "generateKey"
          /\ password' = [password EXCEPT !["symmetric"] = p]

TakesPair(p, c, d) ==
  /\ d.symmetric = c.symmetric /\ d.needs = c.needs /\ d.result = c.result
  /\ UNCHANGED password
  /\ \/ /\ c.at = "readSingleton" /\ d.at = "publicKey"
        /\ password["singleton"] # NoKey /\ d.pair = password["singleton"]
     \/ c.at = "readSingleton" /\ d.at = "addSingleton" /\ password["singleton"] = NoKey
     \/ /\ c.at = "generatePair" /\ d.at = "publicKey" /\ d.pair = p
        /\ keys' = keys \cup {<<"pair", p>>}
     \/ /\ c.at = "request" /\ d.at = "removeKeys" /\ Serve(p)
        /\ c.op = "deprovisionAddress" /\ d.pair = owner[c.target].pair

TakesSymmetric(p, c, d) ==
  /\ d.pair = c.pair /\ d.needs = c.needs /\ d.result = c.result
  /\ UNCHANGED password
  /\ \/ /\ c.at = "readCurrent" /\ d.at = "lookUp"
        /\ password["symmetric"] # NoKey /\ d.symmetric = password["symmetric"]
     \/ /\ c.at = "generateKey" /\ d.at = AfterSymmetric(p) /\ d.symmetric = p
        /\ keys' = keys \cup {<<"symmetric", p>>}

TakesAnswer(p, c, d) ==
  /\ d.pair = c.pair /\ d.symmetric = c.symmetric /\ d.result = c.result
  /\ UNCHANGED password
  /\ c.at = "request"
  /\ \/ /\ d.at = "map" /\ d.needs = NeedsOf(Answer(p))
        /\ c.op \in {"provisionAddress", "getAddresses", "listMasks"}
     \/ /\ d.at = "unseal" /\ c.op \in MessageOps
        /\ \E A \in SUBSET Addresses : d.needs = {<<"pair", owner[a].pair>> : a \in A}

Ends(p, c, d) ==
  /\ d.at = "done" /\ d.needs = c.needs
  /\ UNCHANGED password
  /\ \/ /\ c.at \in {"map", "unseal"} /\ UNCHANGED keys
        /\ d.result = IF c.needs \subseteq keys THEN "Completed" ELSE "Failed"
     \/ /\ d.result = "KeyNotFound"
        /\ \/ c.at = "readCurrent" /\ password["symmetric"] = NoKey
           \/ c.at = "lookUp" /\ <<"symmetric", c.symmetric>> \notin keys
     \/ /\ d.result \in {"Error", "NoPublicKey", "Completed"}
        /\ c.at = "addPassword" => password["symmetric"] # NoKey \/ faults' > 0
        /\ c.at = "generateKey" => faults' > 0

Transition(p, c, d) ==
  \/ /\ UNCHANGED faults /\ d.seals = c.seals
     /\ \/ Passes(p, c, d) \/ TakesPair(p, c, d)
        \/ TakesSymmetric(p, c, d) \/ TakesAnswer(p, c, d)
  \/ Ends(p, c, d) /\ d.seals = FALSE /\ faults' >= faults

LEMMA GotoFields ==
  ASSUME TypeOK, NEW p \in Call, NEW stage \in Stages, Goto(p, stage)
  PROVE  /\ Same(call[p], call'[p]) /\ call'[p].at = stage
         /\ call'[p].seals = call[p].seals
<1>1. call'[p] = [call[p] EXCEPT !.at = stage] /\ call[p] \in Activity
  BY GotoMoves, Types DEF Moves
<1> QED
  BY <1>1 DEF Same, Activity

LEMMA EndFields ==
  ASSUME TypeOK, NEW p \in Call, NEW result \in Results, End(p, result)
  PROVE  /\ call'[p].at = "done" /\ call'[p].needs = call[p].needs
         /\ call'[p].result = result /\ call'[p].seals = FALSE
<1>1. call'[p] = Ended(call[p], result) /\ call[p] \in Activity
  BY EndMoves, Types DEF Moves
<1> QED
  BY <1>1 DEF Ended, Activity

LEMMA StepTransition ==
  ASSUME TypeOK, NEW p \in Call, Shape(p), Step(p) \/ Fault(p)
  PROVE  Transition(p, call[p], call'[p])
<1> DEFINE c == call[p]
           d == call'[p]
<1>t. /\ c \in Activity /\ faults \in Nat /\ p \in Id
      /\ \A q \in Call : call[q] \in Activity
      /\ {"KeyNotFound", "NoPublicKey", "Error", "Completed", "Failed"} \subseteq Results
  BY Types, FaultsAssumption DEF Activity, Id, TypeOK, Results
<1>e. /\ AfterPair(p) \in Stages /\ AfterSymmetric(p) \in Stages
      /\ {"generatePair", "deletePassword", "addPassword", "generateKey", "request"}
           \subseteq Stages
  BY DEF AfterPair, AfterSymmetric, Stages
<1>x. \A result \in {"KeyNotFound", "NoPublicKey", "Error", "Completed", "Failed"} :
        End(p, result) => /\ d.at = "done" /\ d.needs = c.needs
                          /\ d.result = result /\ d.seals = FALSE
  BY <1>t, EndFields
<1>1. CASE Acquire(p)
  <2>1. First(c.op, c.seals) \in Stages
    BY DEF First, Stages
  <2> QED
    BY <1>1, <2>1, GotoFields DEF Acquire, Transition, Passes
<1>2. CASE Fault(p)
  <2>1. faults' > 0 /\ faults' >= faults
    BY <1>2, <1>t DEF Fault
  <2> QED
    BY <1>2, <1>t, <2>1, EndFields DEF Fault, Transition, Ends
<1>3. CASE ReadSingleton(p)
  <2>1. d = [c EXCEPT !.pair = IF password["singleton"] = NoKey THEN p ELSE password["singleton"],
                      !.at = IF password["singleton"] = NoKey THEN "addSingleton" ELSE "publicKey"]
    BY <1>3, Types DEF ReadSingleton
  <2>2. /\ d.symmetric = c.symmetric /\ d.needs = c.needs /\ d.result = c.result
        /\ d.seals = c.seals
        /\ d.pair = IF password["singleton"] = NoKey THEN p ELSE password["singleton"]
        /\ d.at = IF password["singleton"] = NoKey THEN "addSingleton" ELSE "publicKey"
    BY <1>t, <2>1 DEF Activity
  <2> QED
    BY <1>3, <2>2 DEF ReadSingleton, Transition, TakesPair
<1>4. CASE AddSingleton(p)
  BY <1>4, <1>e, <1>t, <1>x, GotoFields DEF AddSingleton, Store, Transition, Passes, Ends
<1>5. CASE GeneratePair(p)
  <2>1. d = [c EXCEPT !.pair = p, !.at = "publicKey"]
    BY <1>5, Types DEF GeneratePair
  <2>2. /\ d.symmetric = c.symmetric /\ d.needs = c.needs /\ d.result = c.result
        /\ d.seals = c.seals /\ d.pair = p /\ d.at = "publicKey"
    BY <1>t, <2>1 DEF Activity
  <2> QED
    BY <1>5, <2>2 DEF GeneratePair, Transition, TakesPair
<1>6. CASE PublicKey(p)
  BY <1>6, <1>e, <1>t, <1>x, GotoFields DEF PublicKey, Transition, Passes, Ends
<1>7. CASE ReadCurrent(p)
  <2>1. CASE password["symmetric"] = NoKey
    BY <1>7, <1>e, <1>t, <1>x, <2>1, GotoFields
       DEF ReadCurrent, WithoutCurrent, Transition, Passes, Ends
  <2>2. CASE password["symmetric"] # NoKey
    <3>1. d = [c EXCEPT !.symmetric = password["symmetric"], !.at = "lookUp"]
      BY <1>7, <2>2, Types DEF ReadCurrent
    <3>2. /\ d.pair = c.pair /\ d.needs = c.needs /\ d.result = c.result
          /\ d.seals = c.seals /\ d.symmetric = password["symmetric"] /\ d.at = "lookUp"
      BY <1>t, <3>1 DEF Activity
    <3> QED
      BY <1>7, <2>2, <3>2 DEF ReadCurrent, Transition, TakesSymmetric
  <2> QED
    BY <2>1, <2>2
<1>8. CASE LookUp(p)
  BY <1>8, <1>e, <1>t, <1>x, GotoFields
     DEF LookUp, WithoutCurrent, Transition, Passes, Ends
<1>9. CASE DeletePassword(p)
  BY <1>9, <1>e, GotoFields DEF DeletePassword, Transition, Passes
<1>10. CASE AddPassword(p)
  BY <1>10, <1>e, <1>t, <1>x, GotoFields DEF AddPassword, Store, Transition, Passes, Ends
<1>11. CASE GenerateKey(p)
  <2>1. d = [c EXCEPT !.symmetric = p, !.at = AfterSymmetric(p)]
    BY <1>11, Types DEF GenerateKey
  <2>2. /\ d.pair = c.pair /\ d.needs = c.needs /\ d.result = c.result
        /\ d.seals = c.seals /\ d.symmetric = p /\ d.at = AfterSymmetric(p)
    BY <1>t, <2>1 DEF Activity
  <2> QED
    BY <1>11, <2>2 DEF GenerateKey, Transition, TakesSymmetric
<1>12. CASE Seal(p)
  BY <1>12, <1>e, <1>t, <1>x, GotoFields DEF Seal, Transition, Passes, Ends
<1>13. CASE Request(p)
  <2>1. CASE End(p, "Completed") \/ End(p, "Error")
    BY <1>13, <1>t, <1>x, <2>1 DEF Request, Transition, Ends
  <2>2. CASE /\ c.op \in {"provisionAddress", "getAddresses", "listMasks"}
             /\ call' = [call EXCEPT ![p].needs = NeedsOf(Answer(p)), ![p].at = "map"]
    <3>1. d = [c EXCEPT !.needs = NeedsOf(Answer(p)), !.at = "map"]
      BY <2>2, Types
    <3>2. /\ d.pair = c.pair /\ d.symmetric = c.symmetric /\ d.result = c.result
          /\ d.seals = c.seals /\ d.needs = NeedsOf(Answer(p)) /\ d.at = "map"
      BY <1>t, <3>1 DEF Activity
    <3> QED
      BY <1>13, <2>2, <3>2 DEF Request, Transition, TakesAnswer
  <2>3. CASE /\ DropsPair(p) /\ Serve(p)
             /\ call' = [call EXCEPT ![p].pair = owner[c.target].pair, ![p].at = "removeKeys"]
    <3>1. d = [c EXCEPT !.pair = owner[c.target].pair, !.at = "removeKeys"]
      BY <2>3, Types
    <3>2. /\ d.symmetric = c.symmetric /\ d.needs = c.needs /\ d.result = c.result
          /\ d.seals = c.seals /\ d.pair = owner[c.target].pair /\ d.at = "removeKeys"
      BY <1>t, <3>1 DEF Activity
    <3> QED
      BY <1>13, <2>3, <3>2 DEF Request, DropsPair, Transition, TakesPair
  <2> QED
    BY <1>13, <2>1, <2>2, <2>3 DEF Request
<1>14. CASE Map(p) \/ Unseal(p)
  <2>1. End(p, IF c.needs \subseteq keys THEN "Completed" ELSE "Failed")
    BY <1>14 DEF Map, Unseal
  <2>2. d.result = IF c.needs \subseteq keys THEN "Completed" ELSE "Failed"
    BY <1>x, <2>1
  <2> QED
    BY <1>14, <1>t, <1>x, <2>1, <2>2 DEF Map, Unseal, Transition, Ends
<1>15. CASE ListMessages(p)
  <2>1. PICK A \in SUBSET Addresses :
          call' = [call EXCEPT ![p].needs = {<<"pair", owner[a].pair>> : a \in A},
                               ![p].at = "unseal"]
    BY <1>15 DEF ListMessages
  <2>2. d = [c EXCEPT !.needs = {<<"pair", owner[a].pair>> : a \in A}, !.at = "unseal"]
    BY <2>1, Types
  <2>3. /\ d.pair = c.pair /\ d.symmetric = c.symmetric /\ d.result = c.result
        /\ d.seals = c.seals /\ d.needs = {<<"pair", owner[a].pair>> : a \in A}
        /\ d.at = "unseal"
    BY <1>t, <2>2 DEF Activity
  <2> QED
    BY <1>15, <2>3 DEF ListMessages, Transition, TakesAnswer
<1>16. CASE RemoveKeys(p)
  BY <1>16, <1>t, <1>x DEF RemoveKeys, Transition, Ends
<1> QED
  BY <1>1, <1>2, <1>3, <1>4, <1>5, <1>6, <1>7, <1>8, <1>9, <1>10, <1>11, <1>12, <1>13, <1>14,
     <1>15, <1>16 DEF Step

-----------------------------------------------------------------------------

StepsAs(p) == Progresses(p) /\ Transition(p, call[p], call'[p])

\* Start, a step or a fault of one call, a crash or reset(), or nothing.
LEMMA StepCases ==
  ASSUME IInv, [Next]_vars
  PROVE  \/ \E p \in Call : StartsAs(p, call'[p]) /\ Shape(p)'
         \/ \E p \in Call : StepsAs(p)
         \/ Crash
         \/ Reset
         \/ UNCHANGED vars
  BY StartStarts, StepProgresses, StepTransition DEF IInv, Next, Ops, StepsAs

-----------------------------------------------------------------------------
(* The parts of the invariant, one by one.                                 *)

LEMMA CrashMoves ==
  ASSUME TypeOK, Crash
  PROVE  /\ call' \in [Call -> Activity]
         /\ \A p \in Call :
              /\ call[p].at \in {"ready", "done"} => call'[p] = call[p]
              /\ call[p].at \notin {"ready", "done"} =>
                   /\ call'[p].op = call[p].op /\ call'[p].target = call[p].target
                   /\ call'[p].at = "done" /\ call'[p].seals = FALSE
                   /\ call'[p].needs = call[p].needs /\ call'[p].result = "Error"
<1>1. "Error" \in Results
  BY DEF Results
<1>6. \A c \in Activity :
        LET d == Ended(c, "Error") IN
        d.op = c.op /\ d.target = c.target /\ d.at = "done" /\ d.seals = FALSE
        /\ d.needs = c.needs /\ d.result = "Error"
  BY <1>1, EndedType
<1>2. \A p \in Call : Ended(call[p], "Error") \in Activity
  BY <1>1, Types, EndedType
<1>3. call' \in [Call -> Activity]
  BY <1>2, Types DEF Crash
<1>4. ASSUME NEW p \in Call, call[p].at \notin {"ready", "done"}
      PROVE  call'[p] = Ended(call[p], "Error") /\ call[p] \in Activity
  BY <1>4, Types DEF Crash
<1>5. ASSUME NEW p \in Call, call[p].at \notin {"ready", "done"}
      PROVE  /\ call'[p].op = call[p].op /\ call'[p].target = call[p].target
             /\ call'[p].at = "done" /\ call'[p].seals = FALSE
             /\ call'[p].needs = call[p].needs /\ call'[p].result = "Error"
  BY <1>4, <1>5, <1>6
<1> QED
  BY <1>3, <1>5 DEF Crash

LEMMA TypeOKStep ==
  ASSUME IInv, [Next]_vars
  PROVE  TypeOK'
<1> USE DEF Records
<1>t. TypeOK
  BY DEF IInv
<1>f. /\ call \in [Call -> Activity] /\ owner \in [Call -> Records]
      /\ password \in [{"symmetric", "singleton"} -> Id]
      /\ queue \in Seq(Call) /\ faults \in 0 .. MaxFaults /\ singleton \in BOOLEAN
      /\ keys \subseteq Key /\ erased \subseteq Key
  BY <1>t, Types DEF TypeOK
<1> SUFFICES /\ call' \in [Call -> Activity] /\ owner' \in [Call -> Records]
             /\ password' \in [{"symmetric", "singleton"} -> Id]
             /\ queue' \in Seq(Call) /\ faults' \in 0 .. MaxFaults /\ singleton' \in BOOLEAN
             /\ keys' \subseteq Key /\ erased' \subseteq Key
  BY DEF TypeOK, Activity, Ops
<1>1. ASSUME NEW p \in Call, StartsAs(p, call'[p])
      PROVE  /\ call' \in [Call -> Activity]
             /\ queue' \in Seq(Call)
             /\ UNCHANGED <<singleton, password, keys, owner, erased, faults>>
  BY <1>1, <1>f DEF StartsAs
<1>2. ASSUME NEW p \in Call, StepsAs(p)
      PROVE  /\ call' \in [Call -> Activity] /\ owner' \in [Call -> Records]
             /\ password' \in [{"symmetric", "singleton"} -> Id]
             /\ queue' \in Seq(Call) /\ faults' \in 0 .. MaxFaults
             /\ UNCHANGED <<singleton, erased>> /\ keys' \subseteq Key
  <2> DEFINE c == call[p]
             d == call'[p]
  <2>1. Progress(p, c, d)
    BY <1>2 DEF StepsAs, Progresses
  <2>2. queue' \in Seq(Call)
    <3>1. c.at \in RunningStages /\ c.op \in Exclusive => queue # <<>>
      BY DEF IInv, MutexHeld, Running, RunningStages
    <3>2. queue # <<>> => Tail(queue) \in Seq(Call)
      BY <1>f, HeadTailProperties
    <3>3. queue \in Seq(Call)
      BY <1>f
    <3> QED
      BY <2>1, <3>1, <3>2, <3>3 DEF Progress
  <2>3. owner' \in [Call -> Records]
    BY <2>1, <1>f, ServeType DEF Progress, IInv
  <2>4. keys' \subseteq Key
    BY <2>1, <1>f DEF Progress, Key
  <2> QED
    BY <2>1, <2>2, <2>3, <2>4 DEF Progress
<1>3. CASE Crash
  <2>1. faults' \in 0 .. MaxFaults
    BY <1>3, <1>f, FaultsAssumption DEF Crash
  <2>2. queue' \in Seq(Call)
    BY <1>3 DEF Crash
  <2> QED
    BY <1>3, <1>f, <1>t, <2>1, <2>2, CrashMoves DEF Crash
<1>4. CASE Reset
  BY <1>4, <1>f DEF Reset, Id
<1>5. CASE UNCHANGED vars
  BY <1>5, <1>f DEF vars
<1> QED
  BY <1>1, <1>2, <1>3, <1>4, <1>5, <1>f, StepCases

LEMMA ShapeStep ==
  ASSUME IInv, [Next]_vars, NEW p \in Call
  PROVE  Shape(p)'
<1> DEFINE c == call[p]
<1>1. ASSUME UNCHANGED singleton,
             \/ call'[p] = c
             \/ call'[p].at = "done" /\ call'[p].op = c.op /\ call'[p].target = c.target
                /\ call'[p].seals = FALSE /\ c.at # "ready"
      PROVE  Shape(p)'
  BY <1>1 DEF Shape, IInv
<1>2. ASSUME NEW q \in Call, StartsAs(q, call'[q]) /\ Shape(q)'
      PROVE  Shape(p)'
  BY <1>1, <1>2 DEF StartsAs
<1>3. ASSUME NEW q \in Call, StepsAs(q)
      PROVE  Shape(p)'
  BY <1>1, <1>3 DEF StepsAs, Progresses, Progress
<1>4. CASE Crash
  BY <1>1, <1>4, CrashMoves DEF IInv, Crash
<1>5. CASE Reset \/ UNCHANGED vars
  BY <1>1, <1>5 DEF Reset, vars
<1> QED
  BY <1>2, <1>3, <1>4, <1>5, StepCases

-----------------------------------------------------------------------------

Has(s, p) == \E i \in DOMAIN s : s[i] = p
Distinct(s) == \A i, j \in DOMAIN s : s[i] = s[j] => i = j

\* The head leaves the queue.
LEMMA HeadLeaves ==
  ASSUME NEW s \in Seq(Call), s # <<>>, Distinct(s)
  PROVE  /\ Distinct(Tail(s))
         /\ \A p \in Call : Has(Tail(s), p) <=> Has(s, p) /\ p # Head(s)
<1>1. /\ Len(s) \in Nat /\ Len(s) > 0 /\ Head(s) = s[1]
      /\ DOMAIN s = 1 .. Len(s) /\ DOMAIN Tail(s) = 1 .. (Len(s) - 1)
      /\ \A i \in 1 .. (Len(s) - 1) : Tail(s)[i] = s[i + 1]
  BY HeadTailProperties, EmptySeq
<1>2. Distinct(Tail(s))
  BY <1>1 DEF Distinct
<1>3. ASSUME NEW p \in Call, Has(Tail(s), p)
      PROVE  Has(s, p) /\ p # Head(s)
  BY <1>1, <1>3 DEF Has, Distinct
<1>4. ASSUME NEW p \in Call, Has(s, p), p # Head(s)
      PROVE  Has(Tail(s), p)
  <2>1. PICK i \in 1 .. Len(s) : s[i] = p
    BY <1>1, <1>4 DEF Has
  <2>2. i - 1 \in 1 .. (Len(s) - 1) /\ (i - 1) + 1 = i
    BY <1>1, <1>4, <2>1
  <2> QED
    BY <1>1, <2>1, <2>2 DEF Has
<1> QED
  BY <1>2, <1>3, <1>4

\* A call joins the queue at its end.
LEMMA LastJoins ==
  ASSUME NEW s \in Seq(Call), NEW p \in Call, ~Has(s, p), Distinct(s)
  PROVE  /\ Distinct(Append(s, p)) /\ Append(s, p) # <<>>
         /\ \A q \in Call : Has(Append(s, p), q) <=> Has(s, q) \/ q = p
         /\ s # <<>> => Head(Append(s, p)) = Head(s)
<1>1. /\ Len(s) \in Nat
      /\ DOMAIN s = 1 .. Len(s) /\ DOMAIN Append(s, p) = 1 .. (Len(s) + 1)
      /\ \A i \in 1 .. Len(s) : Append(s, p)[i] = s[i]
      /\ Append(s, p)[Len(s) + 1] = p
  BY AppendProperties
<1>2. Distinct(Append(s, p))
  BY <1>1 DEF Distinct, Has
<1>3. \A q \in Call : Has(Append(s, p), q) <=> Has(s, q) \/ q = p
  BY <1>1 DEF Has
<1> QED
  BY <1>2, <1>3, HeadTailAppend, AppendProperties

LEMMA MutexHeldStep ==
  ASSUME IInv, [Next]_vars
  PROVE  MutexHeld'
<1>m. /\ \A p \in Call :
           Has(queue, p) <=> call[p].op \in Exclusive /\ call[p].at \notin {"ready", "done"}
      /\ Distinct(queue)
      /\ \A p \in Call : call[p].op \in Exclusive /\ Running(p) =>
                           queue # <<>> /\ Head(queue) = p
  BY DEF IInv, MutexHeld, Has, Distinct, Queued
<1>s. /\ queue \in Seq(Call)
      /\ \A p \in Call : call[p].op \in Ops \cup {"none"} /\ call[p].at \in Stages
  BY Types DEF IInv, Activity
<1> SUFFICES /\ \A p \in Call : Has(queue', p)
                  <=> call'[p].op \in Exclusive /\ call'[p].at \notin {"ready", "done"}
             /\ Distinct(queue')
             /\ \A p \in Call :
                  call'[p].op \in Exclusive /\ call'[p].at \notin {"ready", "waiting", "done"}
                    => queue' # <<>> /\ Head(queue') = p
  BY DEF MutexHeld, Has, Distinct, Queued, Running
<1>1. ASSUME NEW p \in Call, StartsAs(p, call'[p])
      PROVE  /\ \A q \in Call : Has(queue', q)
                  <=> call'[q].op \in Exclusive /\ call'[q].at \notin {"ready", "done"}
             /\ Distinct(queue')
             /\ \A q \in Call :
                  call'[q].op \in Exclusive /\ call'[q].at \notin {"ready", "waiting", "done"}
                    => queue' # <<>> /\ Head(queue') = q
  <2>1. /\ call[p].at = "ready" /\ ~Has(queue, p)
        /\ \A q \in Call : q # p => call'[q] = call[q]
    BY <1>1, <1>m DEF StartsAs
  <2>2. CASE call'[p].op \in Exclusive
    <3>1. queue' = Append(queue, p) /\ call'[p].at = "waiting"
      BY <1>1, <2>2 DEF StartsAs
    <3> QED
      BY <1>m, <1>s, <2>1, <2>2, <3>1, LastJoins DEF Running
  <2>3. CASE call'[p].op \notin Exclusive
    <3>1. queue' = queue
      BY <1>1, <2>3 DEF StartsAs
    <3> QED
      BY <1>m, <2>1, <2>3, <3>1 DEF Running
  <2> QED
    BY <2>2, <2>3
<1>2. ASSUME NEW p \in Call, StepsAs(p)
      PROVE  /\ \A q \in Call : Has(queue', q)
                  <=> call'[q].op \in Exclusive /\ call'[q].at \notin {"ready", "done"}
             /\ Distinct(queue')
             /\ \A q \in Call :
                  call'[q].op \in Exclusive /\ call'[q].at \notin {"ready", "waiting", "done"}
                    => queue' # <<>> /\ Head(queue') = q
  <2> DEFINE c == call[p]
             d == call'[p]
  <2>1. d.op = c.op /\ \A q \in Call : q # p => call'[q] = call[q]
    BY <1>2 DEF StepsAs, Progresses, Progress
  <2>2. CASE c.at \in RunningStages \cup {"waiting"} /\ d.at \in RunningStages
             /\ UNCHANGED queue /\ (c.at = "waiting" => Head(queue) = p)
    <3>1. queue = <<>> => ~Has(queue, p)
      BY DEF Has
    <3> QED
      BY <1>m, <2>1, <2>2, <3>1 DEF Running, RunningStages
  <2>3. CASE c.at \in RunningStages /\ d.at = "done"
             /\ queue' = IF c.op \in Exclusive THEN Tail(queue) ELSE queue
    <3>1. CASE c.op \in Exclusive
      <4>1. queue # <<>> /\ Head(queue) = p /\ queue' = Tail(queue)
        BY <2>3, <3>1, <1>m DEF Running, RunningStages
      <4> QED
        BY <1>m, <1>s, <2>1, <2>3, <4>1, HeadLeaves DEF Running
    <3>2. CASE c.op \notin Exclusive
      BY <1>m, <2>1, <2>3, <3>2 DEF Running
    <3> QED
      BY <3>1, <3>2
  <2> QED
    BY <1>2, <2>2, <2>3 DEF StepsAs, Progresses, Progress, RunningStages
<1>3. CASE Crash
  <2>1. queue' = <<>> /\ \A p \in Call : call'[p].at \in {"ready", "done"}
    BY <1>3, CrashMoves DEF Crash, IInv
  <2> QED
    BY <2>1 DEF Has, Distinct
<1>4. CASE Reset \/ UNCHANGED vars
  BY <1>4, <1>m DEF Reset, vars, Running
<1> QED
  BY <1>1, <1>2, <1>3, <1>4, StepCases

-----------------------------------------------------------------------------

\* Only a provisioning call leaves a record where there was none.
LEMMA RecordKept ==
  ASSUME TypeOK, NEW p \in Call, Shape(p), call[p].at = "request",
         call[p].op \notin Provisioning
  PROVE  \/ NewRecord(p).kind = "none"
         \/ /\ NewRecord(p).kind = owner[call[p].target].kind
            /\ NewRecord(p).pair = owner[call[p].target].pair
<1> DEFINE c == call[p]
           old == owner[c.target]
           k == Sealed(p)
<1>1. c.op \in Ops \cup {"none"} /\ c.target \in Call /\ old \in Records
  BY Types DEF Activity
<1>2. \/ NewRecord(p) = [old EXCEPT !.attribute = k]
      \/ NewRecord(p) = [old EXCEPT !.folder = k]
      \/ NewRecord(p) = [old EXCEPT !.folder = NoKey]
      \/ NewRecord(p) = NoRecord
      \/ NewRecord(p) = old
  BY <1>1 DEF NewRecord, Provisioning, Ops, AddressOps, MaskOps, MessageOps
<1> HIDE DEF old, k
<1> QED
  BY <1>1, <1>2 DEF Records, NoRecord, old

\* Calls whose requests are served stay so.
LEMMA ServedStays ==
  ASSUME IInv, [Next]_vars, NEW o \in Call, call[o].at \in Served
  PROVE  call'[o].at \in Served
<1>1. TypeOK
  BY DEF IInv
<1> QED
  BY <1>1, CrashMoves, StepCases DEF StartsAs, StepsAs, Progresses, Progress, Served, Reset, vars

\* The record a served call has, and the one it gets.
LEMMA OwnerStep ==
  ASSUME IInv, [Next]_vars, NEW o \in Call, owner'[o].kind # "none"
  PROVE  \/ owner[o].kind = owner'[o].kind /\ owner[o].pair = owner'[o].pair
         \/ /\ call[o].at = "request" /\ call[o].op \in Provisioning
            /\ call'[o].at \in Served
            /\ owner'[o].pair = call[o].pair
            /\ owner'[o].kind = IF call[o].op = "provisionAddress" THEN "address" ELSE "mask"
<1>i. TypeOK /\ RecordsAreReadable /\ RequestsReadable /\ \A p \in Call : Shape(p)
  BY DEF IInv
<1>1. ASSUME NEW p \in Call, StepsAs(p)
      PROVE  \/ owner[o].kind = owner'[o].kind /\ owner[o].pair = owner'[o].pair
             \/ /\ call[o].at = "request" /\ call[o].op \in Provisioning
                /\ call'[o].at \in Served
                /\ owner'[o].pair = call[o].pair
                /\ owner'[o].kind = IF call[o].op = "provisionAddress" THEN "address" ELSE "mask"
  <2>1. CASE UNCHANGED owner
    BY <2>1
  <2>2. CASE call[p].at = "request" /\ Serve(p) /\ call'[p].at \in {"map", "removeKeys", "done"}
             /\ (call'[p].at = "removeKeys" => call[p].op = "deprovisionAddress")
    <3>1. /\ owner'[call[p].target] = NewRecord(p)
          /\ \A q \in Call : q # call[p].target => owner'[q] = owner[q]
      BY <1>i, <2>2, ServeType
    <3>2. CASE o # call[p].target
      BY <3>1, <3>2
    <3>3. CASE o = call[p].target /\ call[p].op \notin Provisioning
      BY <1>i, <2>2, <3>1, <3>3, RecordKept
    <3>4. CASE o = call[p].target /\ call[p].op \in Provisioning
      <4>1. o = p
        BY <1>i, <3>4 DEF Shape
      <4>2. /\ NewRecord(p).pair = call[p].pair
            /\ NewRecord(p).kind = IF call[p].op = "provisionAddress" THEN "address" ELSE "mask"
        BY <3>4 DEF NewRecord, Provisioning
      <4> QED
        BY <2>2, <3>1, <3>4, <4>1, <4>2 DEF Served, Provisioning
    <3> QED
      BY <3>2, <3>3, <3>4
  <2> QED
    BY <1>1, <2>1, <2>2 DEF StepsAs, Progresses, Progress
<1> QED
  BY <1>1, StepCases DEF StartsAs, Crash, Reset, vars

LEMMA RecordsOwnedStep ==
  ASSUME IInv, [Next]_vars
  PROVE  RecordsOwned'
<1>1. singleton' = singleton
  BY StepCases DEF StartsAs, StepsAs, Progresses, Progress, Crash, Reset, vars
<1> SUFFICES ASSUME NEW o \in Call, owner'[o].kind # "none"
             PROVE  call'[o].at \in Served /\ (~singleton => owner'[o].pair = o)
  BY <1>1 DEF RecordsOwned
<1>2. CASE owner[o].kind = owner'[o].kind /\ owner[o].pair = owner'[o].pair
  BY <1>2, ServedStays DEF IInv, RecordsOwned
<1>3. CASE /\ call[o].at = "request" /\ call[o].op \in Provisioning
           /\ call'[o].at \in Served
           /\ owner'[o].pair = call[o].pair
  BY <1>3 DEF IInv, RequestsReadable, Paired
<1> QED
  BY <1>2, <1>3, OwnerStep


LEMMA RemovesOrphansStep ==
  ASSUME IInv, [Next]_vars
  PROVE  RemovesOrphans'
<1>i. TypeOK /\ RecordsAreReadable /\ RequestsReadable /\ \A p \in Call : Shape(p)
  BY DEF IInv
<1> SUFFICES ASSUME NEW p \in Call, call'[p].at = "removeKeys"
             PROVE  /\ call'[p].pair \in Call
                    /\ owner'[call'[p].pair].kind = "none"
                    /\ call'[call'[p].pair].at \in Served
  BY DEF RemovesOrphans
<1>a. ASSUME NEW o \in Call, owner[o].kind = "none", call[o].at \in Served
      PROVE  owner'[o].kind = "none" /\ call'[o].at \in Served
  BY <1>a, OwnerStep, ServedStays DEF Served
<1>1. CASE call'[p] = call[p]
  BY <1>1, <1>a DEF IInv, RemovesOrphans
<1>2. CASE call'[p] # call[p]
  <2>1. StepsAs(p)
    <3>1. ~Crash /\ ~Reset /\ ~UNCHANGED vars
      BY <1>i, <1>2, CrashMoves DEF Reset, vars
    <3>2. \A q \in Call : ~StartsAs(q, call'[q])
      BY <1>2 DEF StartsAs, First
    <3> QED
      BY <1>2, <3>1, <3>2, StepCases DEF StepsAs, Progresses, Progress
  <2> DEFINE t == call[p].target
  <2>2. /\ call[p].at = "request" /\ Serve(p) /\ call[p].op = "deprovisionAddress"
        /\ call'[p].pair = owner[t].pair /\ ~singleton
    BY <2>1 DEF StepsAs, Transition, Passes, TakesPair, TakesSymmetric, TakesAnswer, Ends,
                AfterPair, AfterSymmetric, First, Progresses, Progress, Shape
  <2>3. t \in Call /\ owner[t].kind # "none"
    BY <1>i, <2>2, Types DEF Serve, Known, Activity
  <2>4. owner[t].pair = t /\ call[t].at \in Served
    BY <2>2, <2>3 DEF IInv, RecordsOwned
  <2>5. owner'[t].kind = "none"
    <3>1. owner'[t] = NewRecord(p)
      BY <1>i, <2>2, ServeType
    <3>2. NewRecord(p) = NoRecord
      BY <2>2 DEF NewRecord
    <3> QED
      BY <3>1, <3>2 DEF NoRecord
  <2> QED
    BY <2>2, <2>3, <2>4, <2>5, ServedStays
<1> QED
  BY <1>1, <1>2

\* A key leaves this device for good only with the pair of a record that is gone.
LEMMA HeldStep ==
  ASSUME IInv, [Next]_vars, NEW k \in Held, k \notin Held'
  PROVE  \E q \in Call :
           /\ call[q].at = "removeKeys" /\ call[q].op = "deprovisionAddress"
           /\ k = <<"pair", call[q].pair>> /\ ~singleton
           /\ call[q].pair \in Call
           /\ owner[call[q].pair].kind = "none" /\ call[call[q].pair].at \in Served
<1>1. ASSUME NEW q \in Call, StepsAs(q)
      PROVE  call[q].at = "removeKeys" /\ k = <<"pair", call[q].pair>>
  BY <1>1 DEF StepsAs, Progresses, Progress, Held
<1>2. ~(\E q \in Call : StartsAs(q, call'[q])) /\ ~Crash /\ ~Reset /\ ~UNCHANGED vars
  BY DEF StartsAs, Crash, Reset, vars, Held
<1> QED
  BY <1>1, <1>2, StepCases DEF IInv, RemovesOrphans, Shape

LEMMA RecordsAreReadableStep ==
  ASSUME IInv, [Next]_vars
  PROVE  RecordsAreReadable'
<1>i. TypeOK /\ RecordsAreReadable /\ RequestsReadable /\ \A p \in Call : Shape(p)
  BY DEF IInv
<1> SUFFICES ASSUME NEW o \in Call
             PROVE  /\ owner'[o].kind # "none" => <<"pair", owner'[o].pair>> \in Held'
                    /\ \A k \in {owner'[o].attribute, owner'[o].folder} \ {NoKey} :
                         <<"symmetric", k>> \in Held'
  BY DEF RecordsAreReadable, Held
<1>r. Readable(owner[o])
  BY <1>i DEF RecordsAreReadable, Readable, Held
<1>1. CASE owner'[o] = owner[o]
  <2>1. ASSUME owner[o].kind # "none", <<"pair", owner[o].pair>> \notin Held'
        PROVE  FALSE
    BY <1>r, <2>1, HeldStep DEF IInv, RecordsOwned, Readable
  <2>2. ASSUME NEW k, <<"symmetric", k>> \in Held
        PROVE  <<"symmetric", k>> \in Held'
    BY <2>2, HeldStep
  <2> QED
    BY <1>r, <1>1, <2>1, <2>2 DEF Readable
<1>2. CASE owner'[o] # owner[o]
  <2>1. PICK p \in Call : call[p].at = "request" /\ Serve(p) /\ UNCHANGED <<keys, erased>>
    BY <1>2, StepCases DEF StartsAs, StepsAs, Progresses, Progress, Crash, Reset, vars
  <2>2. owner'[o] = NewRecord(p)
    BY <1>i, <1>2, <2>1, ServeType
  <2>3. Readable(NewRecord(p)) /\ Held' = Held
    BY <1>i, <2>1, NewRecordReadable DEF Held
  <2> QED
    BY <2>2, <2>3 DEF Readable
<1> QED
  BY <1>1, <1>2

LEMMA RequestsReadableStep ==
  ASSUME IInv, [Next]_vars
  PROVE  RequestsReadable'
<1>i. TypeOK /\ RequestsReadable /\ \A p \in Call : Shape(p)
  BY DEF IInv
<1>z. singleton' = singleton
  BY StepCases DEF StartsAs, StepsAs, Progresses, Progress, Crash, Reset, vars
<1> SUFFICES ASSUME NEW p \in Call
             PROVE  LET c == call'[p] IN
                    /\ c.op \in Provisioning /\ c.at \in Paired => <<"pair", c.pair>> \in Held'
                    /\ c.op \in Provisioning /\ c.at \in Paired \cup {"publicKey"} /\ ~singleton
                         => c.pair = p
                    /\ c.at = "request" /\ c.seals => <<"symmetric", c.symmetric>> \in Held'
  BY <1>z DEF RequestsReadable
<1> DEFINE c == call[p]
           d == call'[p]
<1>h. /\ c.op \in Provisioning /\ c.at \in Paired => <<"pair", c.pair>> \in Held'
      /\ \A k : <<"symmetric", k>> \in Held => <<"symmetric", k>> \in Held'
  <2>1. ASSUME c.op \in Provisioning, c.at \in Paired, <<"pair", c.pair>> \notin Held'
        PROVE  FALSE
    <3>1. <<"pair", c.pair>> \in Held /\ (~singleton => c.pair = p)
      BY <1>i, <2>1 DEF RequestsReadable
    <3>2. c.at \in Served
      BY <2>1, <3>1, HeldStep
    <3> QED
      BY <2>1, <3>2 DEF Paired, Served
  <2> QED
    BY <2>1, HeldStep
<1>1. CASE d = c
  BY <1>1, <1>h, <1>i DEF RequestsReadable
<1>2. CASE StartsAs(p, d)
  BY <1>2 DEF StartsAs, First, Exclusive, Provisioning, Sealing, Paired
<1>3. CASE StepsAs(p)
  <2>1. d.op = c.op /\ Shape(p) /\ Shape(p)'
    BY <1>3, <1>i DEF StepsAs, Progresses, Progress
  <2>2. CASE Passes(p, c, d) /\ d.seals = c.seals
    <3>1. Same(c, d)
      BY <2>2 DEF Passes
    <3>2. CASE c.at = "waiting"
      BY <2>1, <2>2, <3>2 DEF Passes, Shape, First, Exclusive, Provisioning, Sealing, Paired
    <3>3. CASE c.at = "publicKey"
      <4>1. <<"pair", c.pair>> \in Held /\ c.op \in Provisioning /\ d.at = AfterPair(p)
        BY <2>1, <2>2, <3>3 DEF Passes, Shape, Held
      <4>2. <<"pair", c.pair>> \in Held'
        BY <1>3, <3>3, <4>1 DEF StepsAs, Progresses, Progress, Held
      <4> QED
        BY <1>i, <2>2, <3>1, <3>3, <4>1, <4>2
           DEF RequestsReadable, Same, AfterPair, Provisioning
    <3>4. CASE c.at \in {"readCurrent", "lookUp", "seal", "deletePassword", "addPassword"}
      BY <1>h, <1>i, <2>1, <2>2, <3>1, <3>4
         DEF Passes, RequestsReadable, Same, AfterSymmetric, Paired, Held
    <3>5. CASE c.at = "addSingleton"
      BY <2>2, <3>5 DEF Passes, Paired
    <3> QED
      BY <2>2, <3>2, <3>3, <3>4, <3>5 DEF Passes
  <2>3. CASE TakesPair(p, c, d)
    BY <2>1, <2>3 DEF TakesPair, Paired, Shape, Provisioning
  <2>4. CASE TakesSymmetric(p, c, d) /\ d.seals = c.seals
    BY <1>h, <1>i, <2>1, <2>4
       DEF TakesSymmetric, RequestsReadable, AfterSymmetric, Paired, Held
  <2>5. CASE TakesAnswer(p, c, d) \/ Ends(p, c, d)
    BY <2>5 DEF TakesAnswer, Ends, Paired
  <2> QED
    BY <1>3, <2>2, <2>3, <2>4, <2>5 DEF StepsAs, Transition
<1>4. CASE Crash
  BY <1>1, <1>4, <1>i, CrashMoves DEF Paired
<1> QED
  BY <1>1, <1>2, <1>3, <1>4, StepCases DEF StartsAs, StepsAs, Progresses, Progress, Reset, vars

\* Two exclusive calls are never past waiting at once.
LEMMA OneExclusive ==
  ASSUME IInv, NEW p \in Call, NEW q \in Call,
         call[p].op \in Exclusive, call[p].at \in RunningStages,
         call[q].op \in Exclusive, call[q].at \in RunningStages
  PROVE  p = q
  BY DEF IInv, MutexHeld, Running, RunningStages

\* What a step changes of the keys, in terms of who takes it.
LEMMA KeysStep ==
  ASSUME IInv, [Next]_vars, NEW k \in keys', k \notin keys
  PROVE  \E q \in Call :
           \/ call[q].at = "generatePair" /\ k = <<"pair", q>>
           \/ call[q].at = "generateKey" /\ k = <<"symmetric", q>>
  BY StepCases DEF StartsAs, StepsAs, Progresses, Progress, Crash, Reset, vars

\* What the variables of a call keep through the steps of the others.
NeedsOK(p, c) ==
  /\ c.at = "ready" => c.needs = {}
  /\ c.at # "done" => c.result = "none"
  /\ c.at = "map" => c.needs \subseteq Held
  /\ c.at = "map" /\ c.op = "listMasks" => \A k \in c.needs : k[1] # "pair"
  /\ c.op \in MessageOps =>
       \A k \in c.needs :
         /\ ~singleton => call[k[2]].at \in Served
         /\ k \in Held \/ (~singleton /\ owner[k[2]].kind = "none" /\ k[1] = "pair")
  /\ c.result = "Failed" =>
       \/ c.needs \cap erased # {}
       \/ c.op \in MessageOps /\ ~(c.needs \subseteq keys)

\* What keeps what the call needs known, whoever steps.
LEMMA MessageNeedsKept ==
  ASSUME IInv, [Next]_vars, NEW N \in SUBSET Key,
         \A k \in N :
           /\ ~singleton => call[k[2]].at \in Served
           /\ k \in Held \/ (~singleton /\ owner[k[2]].kind = "none" /\ k[1] = "pair")
  PROVE  /\ \A k \in N :
              /\ ~singleton => call'[k[2]].at \in Served
              /\ k \in Held' \/ (~singleton /\ owner'[k[2]].kind = "none" /\ k[1] = "pair")
         /\ ~(N \subseteq keys) => N \cap erased' # {} \/ ~(N \subseteq keys')
<1>1. ASSUME NEW k \in N
      PROVE  /\ ~singleton => call'[k[2]].at \in Served
             /\ k \in Held' \/ (~singleton /\ owner'[k[2]].kind = "none" /\ k[1] = "pair")
  <2>1. k[2] \in Call
    BY DEF Key
  <2>2. ~singleton => call'[k[2]].at \in Served
    BY <2>1, ServedStays
  <2>3. ASSUME ~singleton, owner[k[2]].kind = "none"
        PROVE  owner'[k[2]].kind = "none"
    BY <2>1, <2>3, OwnerStep DEF Served
  <2>4. ASSUME k \in Held, k \notin Held'
        PROVE  ~singleton /\ owner'[k[2]].kind = "none" /\ k[1] = "pair"
    BY <2>3, <2>4, HeldStep
  <2> QED
    BY <2>2, <2>3, <2>4
<1>2. ASSUME NEW k \in N, k \notin keys, N \cap erased' = {}
      PROVE  k \notin keys'
  <2>1. k \notin erased
    <3>1. erased \subseteq erased'
      BY StepCases DEF StartsAs, StepsAs, Progresses, Progress, Crash, Reset, vars
    <3> QED
      BY <1>2, <3>1
  <2>2. k[1] = "pair" /\ call[k[2]].at \in Served
    BY <1>2, <2>1 DEF Held
  <2> QED
    BY <1>2, <2>2, KeysStep DEF Served
<1> QED
  BY <1>1, <1>2

LEMMA NeedsKnownStep ==
  ASSUME IInv, [Next]_vars
  PROVE  NeedsKnown'
<1>i. TypeOK /\ RecordsAreReadable /\ RequestsReadable /\ RecordsOwned
      /\ \A p \in Call : Shape(p) /\ NeedsOK(p, call[p])
  BY DEF IInv, NeedsKnown, NeedsOK
<1>z. singleton' = singleton /\ erased \subseteq erased'
  BY StepCases DEF StartsAs, StepsAs, Progresses, Progress, Crash, Reset, vars
<1> SUFFICES ASSUME NEW p \in Call
             PROVE  LET c == call'[p] IN
      /\ c.at = "ready" => c.needs = {}
      /\ c.at # "done" => c.result = "none"
      /\ c.at = "map" => c.needs \subseteq Held'
      /\ c.at = "map" /\ c.op = "listMasks" => \A k \in c.needs : k[1] # "pair"
      /\ c.op \in MessageOps =>
           \A k \in c.needs :
             /\ ~singleton => call'[k[2]].at \in Served
             /\ k \in Held' \/ (~singleton /\ owner'[k[2]].kind = "none" /\ k[1] = "pair")
      /\ c.result = "Failed" =>
           \/ c.needs \cap erased' # {}
           \/ c.op \in MessageOps /\ ~(c.needs \subseteq keys')
  BY <1>z DEF NeedsKnown
<1> DEFINE c == call[p]
           d == call'[p]
<1>n. c.needs \subseteq Key /\ c.at \in Stages
  BY <1>i, Types DEF Activity
<1>m. c.op \in MessageOps =>
        /\ \A k \in c.needs :
             /\ ~singleton => call'[k[2]].at \in Served
             /\ k \in Held' \/ (~singleton /\ owner'[k[2]].kind = "none" /\ k[1] = "pair")
        /\ ~(c.needs \subseteq keys) => c.needs \cap erased' # {} \/ ~(c.needs \subseteq keys')
  BY <1>i, <1>n, MessageNeedsKept DEF NeedsOK
<1>s. c.at = "map" => c.needs \subseteq Held'
  <2> SUFFICES ASSUME c.at = "map", NEW k \in c.needs, k \notin Held'
               PROVE  FALSE
    OBVIOUS
  <2>1. PICK q \in Call : call[q].at = "removeKeys" /\ call[q].op = "deprovisionAddress"
                          /\ k = <<"pair", call[q].pair>>
    BY <1>i, HeldStep DEF NeedsOK
  <2>2. c.op \in {"provisionAddress", "getAddresses"}
    BY <1>i, <2>1 DEF NeedsOK, Shape
  <2>3. p = q
    BY <2>1, <2>2, OneExclusive DEF Exclusive, RunningStages, Stages
  <2> QED
    BY <2>1, <2>3
<1>1. CASE d.op = c.op /\ d.needs = c.needs /\ d.result \in {c.result, "Error"}
           /\ d.at \in {c.at, "done"}
           /\ (d.result # c.result => d.at = "done") /\ (d.at = "ready" => c.at = "ready")
  BY <1>1, <1>i, <1>z, <1>m, <1>s DEF NeedsOK
<1>2. CASE StartsAs(p, d)
  <2>1. d.needs = {} /\ d.result = "none" /\ d.at \notin {"ready", "map"}
    BY <1>2, <1>i DEF StartsAs, NeedsOK, First
  <2> QED
    BY <2>1
<1>3. CASE StepsAs(p)
  <2>1. d.op = c.op /\ Shape(p) /\ Progress(p, c, d)
    BY <1>3, <1>i DEF StepsAs, Progresses, Progress
  <2>2. CASE Passes(p, c, d) \/ TakesPair(p, c, d) \/ TakesSymmetric(p, c, d)
    <3>1. d.needs = c.needs /\ d.result = c.result /\ d.at \notin {"ready", "map"}
      BY <2>2 DEF Passes, TakesPair, TakesSymmetric, Same, First, AfterPair, AfterSymmetric
    <3>2. c.result = "none"
      BY <1>i, <2>1 DEF Progress, NeedsOK, RunningStages
    <3> QED
      BY <1>m, <2>1, <3>1, <3>2
  <2>3. CASE TakesAnswer(p, c, d) /\ d.at = "map"
    <3>1. /\ d.needs = NeedsOf(Answer(p)) /\ d.result = c.result /\ c.at = "request"
          /\ c.op \in {"provisionAddress", "getAddresses", "listMasks"}
      BY <2>3 DEF TakesAnswer
    <3>2. Held' = Held
      BY <2>1, <3>1 DEF Progress, Held
    <3>3. d.needs \subseteq Held'
      BY <1>i, <3>1, <3>2, AnswerReadable
    <3>4. c.op = "listMasks" => \A k \in d.needs : k[1] # "pair"
      <4> SUFFICES ASSUME c.op = "listMasks", NEW k \in d.needs
                   PROVE  k[1] # "pair"
        OBVIOUS
      <4>1. \A r \in Answer(p) : r.kind = "mask"
        BY DEF Answer, Masks
      <4> QED
        BY <3>1, <4>1, MaskNeeds
    <3>5. c.result # "Failed" /\ d.result = c.result
      BY <1>i, <3>1 DEF NeedsOK
    <3>6. d.result = "none"
      BY <1>i, <3>1 DEF NeedsOK
    <3> QED
      BY <3>6, <2>1, <2>3, <3>1, <3>3, <3>4, <3>5 DEF MessageOps
  <2>4. CASE TakesAnswer(p, c, d) /\ d.at = "unseal"
    <3>1. PICK A \in SUBSET Addresses : d.needs = {<<"pair", owner[a].pair>> : a \in A}
      BY <2>4 DEF TakesAnswer
    <3>2. Held' = Held /\ c.at = "request"
      BY <2>1, <2>4 DEF Progress, Held, TakesAnswer
    <3>3. ASSUME NEW a \in A
          PROVE  /\ <<"pair", owner[a].pair>> \in Held
                 /\ ~singleton => owner[a].pair = a /\ call[a].at \in Served
      BY <1>i DEF RecordsAreReadable, RecordsOwned, Addresses, Held
    <3>4. ASSUME NEW k \in d.needs
          PROVE  k \in Held' /\ (~singleton => call'[k[2]].at \in Served)
      BY <3>1, <3>2, <3>3, ServedStays DEF Addresses
    <3>5. d.result # "Failed" /\ d.result = "none"
      BY <1>i, <2>4, <3>2 DEF NeedsOK, TakesAnswer
    <3> QED
      BY <2>4, <3>4, <3>5
  <2>5. CASE Ends(p, c, d)
    <3>1. d.needs = c.needs /\ d.at = "done"
      BY <2>5 DEF Ends
    <3>2. CASE d.result # "Failed"
      BY <1>m, <2>1, <3>1, <3>2
    <3>3. CASE d.result = "Failed"
      <4>1. c.at \in {"map", "unseal"} /\ UNCHANGED keys /\ ~(c.needs \subseteq keys)
        BY <2>5, <3>3 DEF Ends
      <4>2. c.at = "unseal" => c.op \in MessageOps
        BY <2>1 DEF Shape
      <4>3. c.at = "map" => c.needs \cap erased' # {}
        BY <1>i, <1>z, <4>1 DEF NeedsOK, Held
      <4> QED
        BY <1>m, <2>1, <3>1, <4>1, <4>2, <4>3
    <3> QED
      BY <3>2, <3>3
  <2> QED
    BY <1>3, <2>2, <2>3, <2>4, <2>5 DEF StepsAs, Transition, TakesAnswer
<1>4. CASE Crash
  BY <1>1, <1>4, <1>i, CrashMoves
<1> QED
  BY <1>1, <1>2, <1>3, <1>4, StepCases DEF StartsAs, StepsAs, Progresses, Progress, Reset, vars

\* Under the mutex nothing but reset() changes the name of the singleton pair
\* beside the call that looks for it.
LEMMA SingletonName ==
  ASSUME IInv, [Next]_vars, password'["singleton"] # password["singleton"]
  PROVE  \/ Reset
         \/ \E q \in Call :
              /\ call[q].at = "addSingleton" /\ call[q].op = "provisionAddress"
              /\ password'["singleton"] = q /\ StepsAs(q)
<1>t. password \in [{"symmetric", "singleton"} -> Id]
  BY Types DEF IInv
<1>1. ASSUME NEW q \in Call, StepsAs(q)
      PROVE  call[q].at = "addSingleton" /\ password'["singleton"] = q
  BY <1>1, <1>t
     DEF StepsAs, Transition, Passes, TakesPair, TakesSymmetric, TakesAnswer, Ends
<1> QED
  BY <1>1, StepCases DEF StartsAs, Crash, vars, IInv, Shape

Shares(p, c) ==
  c.op = "provisionAddress" =>
    /\ c.at = "addSingleton" => password["singleton"] = NoKey
    /\ c.at = "generatePair" => password["singleton"] = p \/ <<"pair", p>> \in erased
    /\ c.at \in Paired \cup {"publicKey"} =>
         c.pair = password["singleton"] \/ <<"pair", c.pair>> \in erased

LEMMA SingletonSharedStep ==
  ASSUME IInv, [Next]_vars
  PROVE  SingletonShared'
<1>z. singleton' = singleton /\ erased \subseteq erased'
  BY StepCases DEF StartsAs, StepsAs, Progresses, Progress, Crash, Reset, vars
<1> SUFFICES ASSUME singleton
             PROVE  /\ \A a \in Call : owner'[a].kind = "address" =>
                         \/ owner'[a].pair = password'["singleton"]
                         \/ <<"pair", owner'[a].pair>> \in erased'
                    /\ \A p \in Call : call'[p].op = "provisionAddress" =>
                         /\ call'[p].at = "addSingleton" => password'["singleton"] = NoKey
                         /\ call'[p].at = "generatePair" =>
                              password'["singleton"] = p \/ <<"pair", p>> \in erased'
                         /\ call'[p].at \in Paired \cup {"publicKey"} =>
                              \/ call'[p].pair = password'["singleton"]
                              \/ <<"pair", call'[p].pair>> \in erased'
  BY <1>z DEF SingletonShared, Addresses
<1>i. /\ TypeOK /\ RecordsAreReadable /\ RequestsReadable
      /\ \A p \in Call : Shape(p) /\ Shares(p, call[p])
      /\ \A a \in Call : owner[a].kind = "address" =>
           owner[a].pair = password["singleton"] \/ <<"pair", owner[a].pair>> \in erased
  BY DEF IInv, SingletonShared, Shares, Addresses
<1>k. /\ \A p \in Call : call[p] \in Activity
      /\ password \in [{"symmetric", "singleton"} -> Id]
  BY <1>i, Types
<1>r. ASSUME Reset, NEW k \in Call
      PROVE  /\ password'["singleton"] = NoKey
             /\ k = password["singleton"] => <<"pair", k>> \in erased'
  BY <1>r DEF Reset, Key
<1>1. ASSUME NEW a \in Call, owner'[a].kind = "address"
      PROVE  owner'[a].pair = password'["singleton"] \/ <<"pair", owner'[a].pair>> \in erased'
  <2>1. CASE owner[a].kind = owner'[a].kind /\ owner[a].pair = owner'[a].pair
    <3>1. owner[a].pair \in Call /\ owner[a].pair # NoKey
      <4>1. <<"pair", owner[a].pair>> \in Key
        BY <1>1, <1>i, <2>1, HeldType DEF RecordsAreReadable, Held
      <4> QED
        BY <4>1, NoKeyAssumption DEF Key
    <3>2. CASE password'["singleton"] = password["singleton"] \/ <<"pair", owner[a].pair>> \in erased
      BY <1>1, <1>i, <1>z, <2>1, <3>2
    <3>3. CASE Reset
      BY <1>1, <1>i, <1>r, <1>z, <2>1, <3>1, <3>3
    <3>4. CASE \E q \in Call : call[q].at = "addSingleton" /\ call[q].op = "provisionAddress"
      BY <1>1, <1>i, <1>z, <2>1, <3>1, <3>4 DEF Shares
    <3> QED
      BY <3>2, <3>3, <3>4, SingletonName
  <2>2. CASE /\ call[a].at = "request" /\ call[a].op \in Provisioning
             /\ owner'[a].pair = call[a].pair
             /\ owner'[a].kind = IF call[a].op = "provisionAddress" THEN "address" ELSE "mask"
             /\ owner'[a] # owner[a]
    <3>1. call[a].op = "provisionAddress"
      BY <1>1, <2>2
    <3>2. UNCHANGED password
      <4>1. PICK p \in Call : StepsAs(p) /\ call[p].at = "request"
        BY <2>2, StepCases
           DEF StartsAs, StepsAs, Progresses, Progress, Crash, Reset, vars
      <4> QED
        BY <4>1 DEF StepsAs, Transition, Passes, TakesPair, TakesSymmetric, TakesAnswer, Ends
    <3> QED
      BY <1>i, <1>z, <2>2, <3>1, <3>2 DEF Shares, Paired
  <2> QED
    BY <1>1, <2>1, <2>2, OwnerStep
<1>2. ASSUME NEW p \in Call, call'[p].op = "provisionAddress"
      PROVE  /\ call'[p].at = "addSingleton" => password'["singleton"] = NoKey
             /\ call'[p].at = "generatePair" =>
                  password'["singleton"] = p \/ <<"pair", p>> \in erased'
             /\ call'[p].at \in Paired \cup {"publicKey"} =>
                  \/ call'[p].pair = password'["singleton"]
                  \/ <<"pair", call'[p].pair>> \in erased'
  <2> DEFINE c == call[p]
             d == call'[p]
  <2>1. CASE d = c /\ ~StepsAs(p)
    <3>1. CASE password'["singleton"] = password["singleton"]
      BY <1>2, <1>i, <1>z, <2>1, <3>1 DEF Shares
    <3>2. CASE Reset
      <4>1. c.pair \in Call \cup {NoKey}
        BY <1>k DEF Activity, Id
      <4> QED
        BY <1>2, <1>i, <1>r, <1>z, <2>1, <3>2, <4>1 DEF Shares, Reset
    <3>3. ASSUME NEW q \in Call, call[q].at = "addSingleton", call[q].op = "provisionAddress",
                 StepsAs(q)
          PROVE  d.at \notin {"addSingleton", "generatePair", "publicKey"} \cup Paired
      <4>1. p # q
        BY <2>1, <3>3
      <4> QED
        BY <1>2, <2>1, <3>3, <4>1, OneExclusive DEF Exclusive, RunningStages, Stages, Paired
    <3> QED
      BY <3>1, <3>2, <3>3, SingletonName
  <2>2. CASE StartsAs(p, d)
    BY <1>2, <2>2 DEF StartsAs, Exclusive, Paired
  <2>3. CASE StepsAs(p)
    <3>1. c.op = "provisionAddress" /\ Shape(p)
      BY <1>2, <1>i, <2>3 DEF StepsAs, Progresses, Progress
    <3>2. CASE Passes(p, c, d)
      <4>1. CASE c.at = "addSingleton"
        BY <1>k, <3>2, <4>1 DEF Passes, Paired
      <4>2. CASE c.at = "waiting"
        <5>1. First(c.op, c.seals) = "readSingleton"
          BY <3>1 DEF First
        <5>2. d.at = "readSingleton"
          BY <3>2, <4>2, <5>1 DEF Passes
        <5> QED
          BY <5>2 DEF Paired
      <4>3. CASE c.at \notin {"addSingleton", "waiting"}
        <5>1. password'["singleton"] = password["singleton"] /\ d.pair = c.pair
          BY <1>k, <3>2, <4>3 DEF Passes, Same
        <5>2. c.at \in Paired \cup {"publicKey"}
              /\ d.at \notin {"addSingleton", "generatePair"}
          BY <3>2, <4>3 DEF Passes, Paired, AfterPair, AfterSymmetric
        <5> QED
          BY <1>i, <1>z, <3>1, <5>1, <5>2 DEF Shares
      <4> QED
        BY <4>1, <4>2, <4>3
    <3>3. CASE TakesPair(p, c, d)
      BY <1>i, <1>z, <3>1, <3>3 DEF TakesPair, Shares, Paired
    <3>4. CASE TakesSymmetric(p, c, d)
      BY <1>i, <1>z, <3>1, <3>4 DEF TakesSymmetric, Shares, Paired, AfterSymmetric
    <3>5. CASE TakesAnswer(p, c, d) \/ Ends(p, c, d)
      BY <3>5 DEF TakesAnswer, Ends, Paired
    <3> QED
      BY <2>3, <3>2, <3>3, <3>4, <3>5 DEF StepsAs, Transition
  <2>4. CASE Crash
    <3>1. d = c \/ d.at = "done"
      BY <1>i, <2>4, CrashMoves
    <3> QED
      BY <1>2, <1>i, <2>4, <3>1 DEF Crash, Shares, Paired
  <2>5. ASSUME NEW q \in Call, StartsAs(q, call'[q]) \/ StepsAs(q)
        PROVE  StartsAs(p, d) \/ StepsAs(p) \/ d = c
    BY <2>5 DEF StartsAs, StepsAs, Progresses, Progress
  <2>6. CASE Reset \/ UNCHANGED vars
    <3>1. d = c
      BY <2>6 DEF Reset, vars
    <3> QED
      BY <2>1, <2>3, <3>1
  <2> QED
    BY <2>1, <2>2, <2>3, <2>4, <2>5, <2>6, StepCases
<1> QED
  BY <1>1, <1>2

LEMMA NamesLeadStep ==
  ASSUME IInv, [Next]_vars
  PROVE  NamesLead'
<1>i. TypeOK /\ NamesLead /\ \A p \in Call : Shape(p)
  BY DEF IInv
<1>t. /\ password \in [{"symmetric", "singleton"} -> Id] /\ faults \in Nat
      /\ password["symmetric"] \in Id
      /\ \A p \in Call : call[p] \in Activity /\ call[p].symmetric \in Id
      /\ keys \subseteq Key /\ erased \subseteq Key
  BY <1>i, Types, FaultsAssumption DEF TypeOK, Activity
<1> SUFFICES ASSUME faults' = 0, erased' = {}
             PROVE  /\ password'["symmetric"] # NoKey => Leads(password["symmetric"])'
                    /\ \A p \in Call : call'[p].at = "lookUp" =>
                         call'[p].symmetric # NoKey /\ Leads(call[p].symmetric)'
                    /\ \/ password'["symmetric"] # NoKey
                       \/ \E q \in Call : call'[q].at = "addPassword"
                       \/ /\ \A k \in keys' : k[1] # "symmetric"
                          /\ \A q \in Call : call'[q].at # "generateKey"
  BY DEF NamesLead
<1>z. faults = 0 /\ erased = {} /\ ~Crash
  <2>1. ~Crash
    BY <1>t DEF Crash
  <2>2. erased \subseteq erased'
    BY StepCases DEF StartsAs, StepsAs, Progresses, Progress, Crash, Reset, vars
  <2>3. faults' >= faults \/ faults' = faults
    BY <2>1, StepCases DEF StartsAs, StepsAs, Transition, Reset, vars
  <2> QED
    BY <1>t, <2>1, <2>2, <2>3
<1>n. /\ password["symmetric"] # NoKey => Leads(password["symmetric"])
      /\ \A p \in Call : call[p].at = "lookUp" =>
           call[p].symmetric # NoKey /\ Leads(call[p].symmetric)
      /\ \/ password["symmetric"] # NoKey
         \/ \E q \in Call : call[q].at = "addPassword"
         \/ /\ \A k \in keys : k[1] # "symmetric"
            /\ \A q \in Call : call[q].at # "generateKey"
  BY <1>i, <1>z DEF NamesLead
<1>1. ASSUME NEW p \in Call, StartsAs(p, call'[p])
      PROVE  /\ password'["symmetric"] # NoKey => Leads(password["symmetric"])'
             /\ \A q \in Call : call'[q].at = "lookUp" =>
                  call'[q].symmetric # NoKey /\ Leads(call[q].symmetric)'
             /\ \/ password'["symmetric"] # NoKey
                \/ \E q \in Call : call'[q].at = "addPassword"
                \/ /\ \A k \in keys' : k[1] # "symmetric"
                   /\ \A q \in Call : call'[q].at # "generateKey"
  <2>1. /\ call[p].at = "ready" /\ call'[p].at \notin {"lookUp", "generateKey"}
        /\ \A q \in Call : q # p => call'[q] = call[q]
        /\ UNCHANGED <<password, keys>>
    BY <1>1 DEF StartsAs, First
  <2>2. ASSUME NEW s \in Call, Leads(s)
        PROVE  <<"symmetric", s>> \in keys' \/ call'[s].at = "generateKey"
    BY <2>1, <2>2 DEF Leads
  <2> QED
    BY <1>n, <1>t, <2>1, <2>2 DEF Leads, Id
<1>2. ASSUME NEW p \in Call, StepsAs(p)
      PROVE  /\ password'["symmetric"] # NoKey => Leads(password["symmetric"])'
             /\ \A q \in Call : call'[q].at = "lookUp" =>
                  call'[q].symmetric # NoKey /\ Leads(call[q].symmetric)'
             /\ \/ password'["symmetric"] # NoKey
                \/ \E q \in Call : call'[q].at = "addPassword"
                \/ /\ \A k \in keys' : k[1] # "symmetric"
                   /\ \A q \in Call : call'[q].at # "generateKey"
  <2> DEFINE c == call[p]
             d == call'[p]
  <2>1. Transition(p, c, d) /\ \A q \in Call : q # p => call'[q] = call[q]
    BY <1>2 DEF StepsAs, Progresses, Progress
  <2>2. /\ \A k \in keys : k[1] = "symmetric" => k \in keys'
        /\ \A k \in keys' : k[1] = "symmetric" => k \in keys \/ c.at = "generateKey"
    BY <1>2 DEF StepsAs, Progresses, Progress
  <2>3. c.at = "generateKey" => <<"symmetric", p>> \in keys'
    BY <1>t, <2>1 DEF Transition, Passes, TakesPair, TakesSymmetric, TakesAnswer, Ends
  <2>4. ASSUME NEW s \in Call, Leads(s)
        PROVE  Leads(s)'
    BY <2>1, <2>2, <2>3, <2>4 DEF Leads
  <2>5. ASSUME NEW s \in Id, s # NoKey, Leads(s)
        PROVE  <<"symmetric", s>> \in keys' \/ call'[s].at = "generateKey"
    BY <2>4, <2>5 DEF Id, Leads
  <2>6. CASE c.at = "addPassword"
    <3>1. \/ d.at = "generateKey" /\ password' = [password EXCEPT !["symmetric"] = p]
          \/ d.at = "done" /\ UNCHANGED password /\ password["symmetric"] # NoKey
      BY <2>1, <2>6, <1>z
         DEF Transition, Passes, TakesPair, TakesSymmetric, TakesAnswer, Ends
    <3>2. ASSUME NEW q \in Call, call'[q].at = "lookUp"
          PROVE  call'[q].symmetric # NoKey /\ Leads(call[q].symmetric)'
      BY <1>n, <1>t, <2>1, <2>5, <3>1, <3>2 DEF Leads
    <3>3. CASE d.at = "generateKey" /\ password' = [password EXCEPT !["symmetric"] = p]
      BY <1>t, <3>2, <3>3, NoKeyAssumption DEF Leads
    <3>4. CASE d.at = "done" /\ UNCHANGED password /\ password["symmetric"] # NoKey
      BY <1>n, <1>t, <2>5, <3>2, <3>4 DEF Leads
    <3> QED
      BY <3>1, <3>3, <3>4
  <2>7. CASE c.at = "deletePassword"
    <3>1. \/ d.at = "addPassword" /\ password' = [password EXCEPT !["symmetric"] = NoKey]
          \/ d.at = "done" /\ UNCHANGED password
      BY <2>1, <2>7
         DEF Transition, Passes, TakesPair, TakesSymmetric, TakesAnswer, Ends
    <3> QED
      BY <1>n, <1>t, <2>1, <2>2, <2>5, <2>7, <3>1 DEF Leads, Id
  <2>8. CASE c.at \notin {"addPassword", "deletePassword"}
    <3>1. /\ password'["symmetric"] = password["symmetric"]
          /\ d.at # "generateKey"
          /\ d.at = "lookUp" => d.symmetric = password["symmetric"] /\ d.symmetric # NoKey
      BY <2>1, <2>8, <1>t
         DEF Transition, Passes, TakesPair, TakesSymmetric, TakesAnswer, Ends, First,
             AfterPair, AfterSymmetric
    <3> QED
      BY <1>n, <1>t, <2>1, <2>2, <2>5, <2>8, <3>1 DEF Leads, Id
  <2> QED
    BY <2>6, <2>7, <2>8
<1>3. CASE Reset
  <2>1. /\ keys = {} /\ keys' = {} /\ password' = [name \in {"symmetric", "singleton"} |-> NoKey]
        /\ UNCHANGED call
    BY <1>3 DEF Reset
  <2>2. password["symmetric"] = NoKey
    <3>1. password["symmetric"] \notin Call
      BY <1>3 DEF Reset, Key
    <3> QED
      BY <1>t, <3>1 DEF Id
  <2> QED
    BY <1>n, <2>1, <2>2 DEF Leads
<1>4. CASE UNCHANGED vars
  BY <1>4, <1>n DEF vars, Leads
<1> QED
  BY <1>1, <1>2, <1>3, <1>4, <1>z, StepCases

-----------------------------------------------------------------------------
(* The theorems.                                                           *)

LEMMA InitIInv == Init => IInv
<1> SUFFICES ASSUME Init PROVE IInv
  OBVIOUS
<1>1. TypeOK
  <2>1. /\ NoRecord \in Records /\ <<>> \in Seq(Call)
        /\ \A p \in Call :
             [op |-> "none", target |-> p, mayGenerate |-> FALSE, seals |-> FALSE,
              at |-> "ready", pair |-> NoKey, symmetric |-> NoKey, needs |-> {},
              result |-> "none"] \in Activity
    BY DEF NoRecord, Records, Activity, Stages, Results, Id
  <2> QED
    BY <2>1, FaultsAssumption DEF Init, TypeOK, Id, Activity, Records, Ops
<1>2. \A p \in Call : /\ call[p].at = "ready" /\ call[p].op = "none" /\ call[p].seals = FALSE
                      /\ call[p].needs = {} /\ call[p].result = "none"
                      /\ owner[p] = NoRecord
  BY DEF Init
<1>3. queue = <<>> /\ keys = {}
  BY DEF Init
<1>4. \A p \in Call : Shape(p)
  BY <1>2 DEF Shape, Provisioning, MessageOps, Exclusive
<1>5. MutexHeld
  BY <1>2, <1>3 DEF MutexHeld, Queued, Running, Exclusive
<1>6. RecordsOwned /\ RecordsAreReadable
  BY <1>2 DEF RecordsOwned, RecordsAreReadable, NoRecord
<1>7. RequestsReadable /\ RemovesOrphans
  BY <1>2 DEF RequestsReadable, RemovesOrphans, Paired
<1>8. NeedsKnown
  BY <1>2 DEF NeedsKnown, MessageOps
<1>9. SingletonShared
  BY <1>2 DEF SingletonShared, Addresses, NoRecord
<1>10. NamesLead
  BY <1>2, <1>3 DEF NamesLead, Init
<1> QED
  BY <1>1, <1>4, <1>5, <1>6, <1>7, <1>8, <1>9, <1>10 DEF IInv

\* Every reachable state has all the parts of the inductive invariant.
THEOREM Inductive == Spec => []IInv
<1>1. IInv /\ [Next]_vars => IInv'
  BY TypeOKStep, ShapeStep, MutexHeldStep, RecordsOwnedStep, RecordsAreReadableStep,
     RequestsReadableStep, RemovesOrphansStep, NeedsKnownStep, SingletonSharedStep,
     NamesLeadStep DEF IInv
<1> QED
  BY <1>1, InitIInv, PTL DEF Spec

\* Every reachable state of the keys, the records and the calls is well typed.
THEOREM TypeCorrect == Spec => []TypeOK
<1>1. IInv => TypeOK
  BY DEF IInv
<1> QED
  BY <1>1, Inductive, PTL

\* However the calls of a client overlap, are rejected or die, the mutex of
\* DefaultSudoEmailClient is passed on and held by one of them at a time.
THEOREM LockAlwaysPassedOn == Spec => []LockIsPassedOn
<1>1. IInv => LockIsPassedOn
  <2> SUFFICES ASSUME IInv PROVE LockIsPassedOn
    OBVIOUS
  <2>1. queue \in Seq(Call)
    BY Types DEF IInv
  <2>2. \A i \in DOMAIN queue : queue[i] \in Call /\ Queued(queue[i])
    BY <2>1 DEF Queued
  <2> QED
    BY <2>2 DEF IInv, MutexHeld, LockIsPassedOn
<1> QED
  BY <1>1, Inductive, PTL

\* Whatever the service holds for this client, the device has the keys for, or
\* reset() has taken them: no race, failure or crash loses one.
THEOREM RecordsAlwaysReadable == Spec => []RecordsAreReadable
<1>1. IInv => RecordsAreReadable
  BY DEF IInv
<1> QED
  BY <1>1, Inductive, PTL

\* Nothing is reported Failed that the device could read, but a message of an
\* address that was deprovisioned meanwhile.
THEOREM FailedAlwaysErased == Spec => []FailedMeansErased
<1>1. IInv => FailedMeansErased
  <2> SUFFICES ASSUME IInv, NEW p \in Call, call[p].result = "Failed",
                      call[p].needs \cap erased = {}
               PROVE  /\ call[p].op \in MessageOps
                      /\ ~singleton
                      /\ call[p].needs \ keys # {}
                      /\ \A a \in Addresses :
                           <<"pair", owner[a].pair>> \notin call[p].needs \ keys
    BY DEF FailedMeansErased
  <2>1. call[p].op \in MessageOps /\ ~(call[p].needs \subseteq keys)
    BY DEF IInv, NeedsKnown
  <2>2. \A k \in call[p].needs \ keys :
          ~singleton /\ owner[k[2]].kind = "none"
    BY <2>1 DEF IInv, NeedsKnown, Held
  <2>3. ~singleton
    BY <2>1, <2>2
  <2>4. \A a \in Addresses : owner[a].pair = a /\ owner[a].kind # "none"
    BY <2>3 DEF IInv, RecordsOwned, Addresses
  <2>5. ASSUME NEW a \in Addresses, <<"pair", owner[a].pair>> \in call[p].needs \ keys
        PROVE  FALSE
    BY <2>2, <2>4, <2>5
  <2> QED
    BY <2>1, <2>3, <2>5
<1> QED
  BY <1>1, Inductive, PTL

\* enforceSingletonPublicKey gives all addresses one key pair, however their
\* provisioning overlaps, fails or is cut short, until reset().
THEOREM AlwaysOneSingleton == Spec => []OneSingleton
<1>1. IInv => OneSingleton
  BY DEF IInv, SingletonShared, OneSingleton
<1> QED
  BY <1>1, Inductive, PTL

\* A call finds no symmetric key only when there is none, or one is being made.
THEOREM OnlyRefusedWithoutKey == Spec => RefusedOnlyWithoutKey
<1> DEFINE Justified ==
             \A p \in Call :
               (call[p].result = "none" /\ call'[p].result = "KeyNotFound") =>
                 \/ \A k \in keys : k[1] # "symmetric"
                 \/ \E q \in Call : call[q].at \in {"addPassword", "generateKey"}
                 \/ faults > 0
                 \/ erased # {}
<1>1. ASSUME IInv, [Next]_vars, NEW p \in Call,
             call[p].result = "none", call'[p].result = "KeyNotFound"
      PROVE  \/ \A k \in keys : k[1] # "symmetric"
             \/ \E q \in Call : call[q].at \in {"addPassword", "generateKey"}
             \/ faults > 0
             \/ erased # {}
  <2>1. TypeOK /\ NamesLead /\ faults \in Nat
    BY <1>1, FaultsAssumption DEF IInv, TypeOK
  <2>2. ~Crash
    BY <1>1, <2>1, CrashMoves
  <2>3. StepsAs(p)
    BY <1>1, <2>2, StepCases DEF StartsAs, StepsAs, Progresses, Progress, Reset, vars
  <2>4. \/ call[p].at = "readCurrent" /\ password["symmetric"] = NoKey
        \/ call[p].at = "lookUp" /\ <<"symmetric", call[p].symmetric>> \notin keys
    BY <1>1, <2>3
       DEF StepsAs, Transition, Passes, TakesPair, TakesSymmetric, TakesAnswer, Ends, Same
  <2> SUFFICES ASSUME faults = 0, erased = {}
               PROVE  \/ \A k \in keys : k[1] # "symmetric"
                      \/ \E q \in Call : call[q].at \in {"addPassword", "generateKey"}
    BY <2>1
  <2>5. call[p].symmetric \in Id
    BY <2>1, Types DEF Activity
  <2> QED
    BY <1>1, <2>1, <2>4, <2>5 DEF NamesLead, Leads, Id
<1>2. IInv /\ [Next]_vars => [Justified]_vars
  BY <1>1
<1> QED
  BY <1>2, Inductive, PTL DEF Spec, RefusedOnlyWithoutKey
===============================================================================
