---------------------------- MODULE SendingProofs ----------------------------
(***************************************************************************)
(* What holds of sent messages and saved drafts for any addresses, keys,   *)
(* messages and limits, however the directory and the keys of the device   *)
(* change.                                                                 *)
(***************************************************************************)
EXTENDS Sending, SubsequencesProofs

-----------------------------------------------------------------------------
(* The inductive invariant *)

\* Public information of some addresses.
Infos == UNION {[S -> Info] : S \in SUBSET Address}

\* What is known of those looked up for a message is what the directory d says,
\* but of those it changed since.
Current(r, d, since) ==
  \A a \in LookedUp(r.msg) \ since :
    IF d[a] = None THEN a \notin DOMAIN r.infos
    ELSE a \in DOMAIN r.infos /\ r.infos[a] = d[a]

\* A message is encrypted for those of its recipients that were known: all.
EverybodyIsKnown(r, d, since) ==
  /\ r.msg \in Message
  /\ r.msg.to # <<>>
  /\ Recipients(r.msg) \subseteq DOMAIN r.infos
  /\ Current(r, d, since)

Calls == [op : {"send", "draft"}, msg : Message, infos : Infos, mine : BOOLEAN,
          at : {"lookup", "plain", "encrypted"}]

CallIsTyped == call = NoCall \/ call \in Calls

\* A draft is encrypted where the configuration, its recipients and their
\* information are for it, and has its recipients looked up and found before
\* that: EncryptsDraft under the configuration conf.
EncryptsBy(conf, msg) == AllRecipientsInternal(msg, NamesOurs) /\ conf.encrypted

DraftIsDecided(conf, msg, infos, form) ==
  /\ form = "encrypted" <=> EncryptsBy(conf, msg) /\ AllAcceptEncryption(infos)
  /\ EncryptsBy(conf, msg) => InNetwork(msg, infos)

\* Who is looked up has recipients.
CallIsDecided ==
  /\ call.at = "lookup" => call.msg.to # <<>>
  /\ call.at = "encrypted" => EverybodyIsKnown(call, directory, moved)
  /\ call.at = "lookup" /\ call.op = "draft" => EncryptsBy(config, call.msg)
  /\ call.at \in {"plain", "encrypted"} /\ call.op = "draft" =>
       DraftIsDecided(config, call.msg, call.infos, call.at)

\* A call takes its draft for readable because a key it seals to is here.
CallIsMine ==
  call # NoCall /\ call.mine => Me \in DOMAIN call.infos /\ call.infos[Me].key \in held

\* A call has no outcome before it ends.
OutcomeIsLast == call # NoCall => outcome = Nothing

MadeIsDecided ==
  \A m \in Made :
    /\ m.form \in {"plain", "encrypted"}
    /\ m.keys = {} <=> m.form = "plain"
    /\ m.form = "encrypted" => EverybodyIsKnown(m, directory, moved) /\ m.keys = SealedTo(m.infos)
    /\ outcome.is = "draft" => DraftIsDecided(config, m.msg, m.infos, m.form)

\* Of files with different names none is lost, and no name is.
Keeps(files, saved) ==
  /\ Names(files) = Names(saved)
  /\ Cardinality(Names(saved)) = Len(saved) => ToSet(files) = ToSet(saved)

DraftFields == {"keys", "files", "coded", "saved", "mine", "locked"}

DraftOpens ==
  draft # None =>
    /\ DOMAIN draft = DraftFields
    /\ draft.mine => draft.keys = {} \/ Opens(draft.keys)
    /\ Keeps(draft.files, draft.saved)

OutcomeIsOfDraft ==
  /\ outcome.is = "undecoded" => ~draft.mine \/ draft.keys = {}
  /\ outcome.is = "read" => Keeps(outcome.files, draft.saved)

IInv ==
  /\ TypeOK
  /\ CallIsTyped
  /\ CallIsDecided
  /\ CallIsMine
  /\ OutcomeIsLast
  /\ MadeIsDecided
  /\ DraftOpens
  /\ OutcomeIsOfDraft

-----------------------------------------------------------------------------
(* Files *)

\* The names of files are those of the set of them.
LEMMA NamesOfSet ==
  ASSUME NEW files
  PROVE  Names(files) = {f.name : f \in ToSet(files)}
  BY DEF Names, ToSet

\* Encoding loses no file and adds none, inline or not.
LEMMA EncodeKeeps ==
  ASSUME NEW files \in Seq(File)
  PROVE  ToSet(Encode(files)) = ToSet(files)
<1> DEFINE rest == DOMAIN files \ Inlined(files)
<1>1. Inlined(files) \in SUBSET DOMAIN files /\ rest \in SUBSET DOMAIN files
      /\ rest \cup Inlined(files) = DOMAIN files
  BY DEF Inlined
<1> HIDE DEF rest
<1>2. /\ Pick(files, rest) \in Seq(File) /\ Inline(files) \in Seq(File)
      /\ ToSet(Pick(files, rest)) = {files[i] : i \in rest}
      /\ ToSet(Inline(files)) = {files[i] : i \in Inlined(files)}
  BY <1>1, Picked DEF Inline
<1>3. Encode(files) = Pick(files, rest) \o Inline(files)
  BY DEF Encode, rest
<1>4. ToSet(Encode(files)) = ToSet(Pick(files, rest)) \cup ToSet(Inline(files))
  <2>1. \A q : ToSet(q) = Range(q)
    BY DEF ToSet, Range
  <2>2. Range(Pick(files, rest) \o Inline(files)) = Range(Pick(files, rest)) \cup Range(Inline(files))
    BY <1>2, RangeConcatenation
  <2> QED
    BY <1>3, <2>1, <2>2
<1> QED
  BY <1>1, <1>2, <1>4 DEF ToSet

\* Parsing keeps a file of each name, and every file that has its name alone.
LEMMA ParseKeeps ==
  ASSUME NEW files \in Seq(File)
  PROVE  Parse(files) \in Seq(File) /\ Keeps(Parse(files), files)
<1> DEFINE first == {i \in DOMAIN files :
                       \A j \in 1..(i - 1) : files[j].name # files[i].name}
<1>1. /\ Parse(files) \in Seq(File)
      /\ ToSet(Parse(files)) = {files[i] : i \in first}
  <2>1. first \in SUBSET DOMAIN files
    OBVIOUS
  <2>2. Parse(files) = Pick(files, first)
    BY DEF Parse
  <2> HIDE DEF first
  <2> QED
    BY <2>1, <2>2, Picked
<1>2. Len(files) \in Nat /\ DOMAIN files = 1..Len(files)
  BY LenProperties
<1>3. ASSUME NEW i \in DOMAIN files
      PROVE  \E k \in first : files[k].name = files[i].name
  <2> DEFINE same == {k \in DOMAIN files : files[k].name = files[i].name}
  <2>1. same \in SUBSET Nat /\ i \in same
    BY <1>2
  <2>2. PICK k \in same : \A j \in same : k <= j
    <3> HIDE DEF same
    <3> QED
      BY <2>1, LeastNatural
  <2>3. k \in DOMAIN files /\ files[k].name = files[i].name
    OBVIOUS
  <2>4. ASSUME NEW j \in 1..(k - 1)
        PROVE  files[j].name # files[k].name
    <3>1. j \in DOMAIN files /\ j < k
      BY <1>2, <2>3
    <3> QED
      BY <1>2, <2>2, <2>3, <3>1
  <2> QED
    BY <2>3, <2>4
<1>4. Names(Parse(files)) = {files[i].name : i \in first}
  BY <1>1, NamesOfSet
<1>5. Names(Parse(files)) = Names(files)
  <2>1. \A i \in first : i \in DOMAIN files
    OBVIOUS
  <2> HIDE DEF first
  <2> QED
    BY <1>3, <1>4, <2>1 DEF Names
<1>6. ASSUME Cardinality(Names(files)) = Len(files)
      PROVE  first = DOMAIN files
  <2> DEFINE name == [i \in DOMAIN files |-> files[i].name]
  <2>1. name \in Surjection(1..Len(files), Names(files))
    BY <1>2 DEF Surjection, Names
  <2>2. IsFiniteSet(1..Len(files)) /\ Cardinality(1..Len(files)) = Len(files)
    <3>1. ASSUME NEW n \in Nat
          PROVE  IsFiniteSet(1..n) /\ Cardinality(1..n) = n
      <4>1. /\ IsFiniteSet(1..n)
            /\ Cardinality(1..n) = IF 1 > n THEN 0 ELSE n - 1 + 1
        BY FS_Interval
      <4> QED
        BY <4>1
    <3> QED
      BY <1>2, <3>1
  <2>3. name \in Injection(1..Len(files), Names(files))
    BY <1>6, <2>1, <2>2, FS_Surjection
  <2>4. \A i, j \in DOMAIN files : files[i].name = files[j].name => i = j
    BY <1>2, <2>3 DEF Injection, IsInjective
  <2>5. \A i \in DOMAIN files : \A j \in 1..(i - 1) : j \in DOMAIN files /\ j # i
    BY <1>2
  <2> QED
    BY <2>4, <2>5
<1> QED
  BY <1>1, <1>5, <1>6 DEF Keeps, ToSet

\* What is encrypted, of what was parsed, keeps the same.
LEMMA UploadKeeps ==
  ASSUME NEW files \in Seq(File)
  PROVE  Keeps(files, files) /\ Keeps(Encode(Parse(files)), files)
<1>1. Parse(files) \in Seq(File) /\ Keeps(Parse(files), files)
  BY ParseKeeps
<1>2. ToSet(Encode(Parse(files))) = ToSet(Parse(files))
  BY <1>1, EncodeKeeps
<1> QED
  BY <1>1, <1>2, NamesOfSet DEF Keeps

-----------------------------------------------------------------------------
(* What the steps of calls do *)

LEMMA MadeIsOutcome ==
  /\ \A m \in Made : outcome.is \in {"send", "draft"} /\ m = outcome.made
  /\ outcome.is \in {"send", "draft"} => Made = {outcome.made}
  BY DEF Made

\* The recipients of a message, and those looked up for it, are addresses.
LEMMA RecipientsTyped ==
  ASSUME NEW msg \in Message
  PROVE  /\ Recipients(msg) \subseteq LookedUp(msg)
         /\ LookedUp(msg) \subseteq Address
         /\ msg.to # <<>> => Recipients(msg) # {}
         /\ msg.files \in Seq(File)
<1>1. msg.to \in Seq(Address) /\ msg.files \in Seq(File)
  BY MessageAssumption
<1>2. Recipients(msg) \subseteq Address
  BY <1>1, ElementOfSeq, LenProperties DEF Recipients, ToSet
<1>3. msg.to # <<>> => Recipients(msg) # {}
  <2>1. ASSUME msg.to # <<>>
        PROVE  1 \in DOMAIN msg.to
    BY <1>1, <2>1, EmptySeq, LenProperties
  <2> QED
    BY <2>1 DEF Recipients, ToSet
<1> QED
  BY <1>1, <1>2, <1>3, AddressAssumption DEF LookedUp

\* What was begun: nothing of it is known yet, and it is looked up if it is to be
\* encrypted, which takes recipients.
Begun(c) ==
  /\ c \in Calls
  /\ ~c.mine
  /\ \/ c.at = "lookup" /\ c.msg.to # <<>> /\ (c.op = "draft" => EncryptsBy(config, c.msg))
     \/ c.at = "plain" /\ (c.op = "draft" => ~EncryptsBy(config, c.msg))

LEMMA BeginEffect ==
  ASSUME Send \/ SaveDraft
  PROVE  /\ call = NoCall
         /\ UNCHANGED <<config, directory, held, draft, changes>>
         /\ moved' = {}
         /\ \/ UNCHANGED call /\ outcome' = Refused
            \/ Begun(call') /\ outcome' = Nothing
<1>1. <<>> \in Infos
  <2>1. <<>> \in [{} -> Info]
    OBVIOUS
  <2> QED
    BY <2>1 DEF Infos
<1>2. ASSUME NEW op \in {"send", "draft"}, NEW msg \in Message, NEW at \in {"lookup", "plain"},
             NEW c, c = [op |-> op, msg |-> msg, infos |-> <<>>, mine |-> FALSE, at |-> at]
      PROVE  c \in Calls /\ ~c.mine /\ c.op = op /\ c.msg = msg /\ c.at = at
  BY <1>1, <1>2 DEF Calls
<1>3. CASE Send
  <2>1. PICK msg \in Message : Begin("send", msg, EncryptsSent(msg))
    BY <1>3 DEF Send
  <2>2. CASE EncryptsSent(msg)
    <3>1. msg.to # <<>>
      BY <2>2 DEF EncryptsSent, AllRecipientsInternal
    <3>2. CASE Valid(msg.files)
      <4>1. call' = [op |-> "send", msg |-> msg, infos |-> <<>>, mine |-> FALSE,
                     at |-> "lookup"]
        BY <2>1, <2>2, <3>2 DEF Begin
      <4>2. Begun(call')
        BY <1>2, <3>1, <4>1 DEF Begun
      <4> QED
        BY <2>1, <3>2, <4>2 DEF Begin
    <3>3. CASE ~Valid(msg.files)
      BY <2>1, <3>3 DEF Begin
    <3> QED
      BY <3>2, <3>3
  <2>3. CASE ~EncryptsSent(msg)
    <3>2. CASE Valid(msg.files)
      <4>1. call' = [op |-> "send", msg |-> msg, infos |-> <<>>, mine |-> FALSE,
                     at |-> "plain"]
        BY <2>1, <2>3, <3>2 DEF Begin
      <4>2. Begun(call')
        BY <1>2, <4>1 DEF Begun
      <4> QED
        BY <2>1, <3>2, <4>2 DEF Begin
    <3>3. CASE ~Valid(msg.files)
      BY <2>1, <3>3 DEF Begin
    <3> QED
      BY <3>2, <3>3
  <2> QED
    BY <2>2, <2>3
<1>4. CASE SaveDraft
  <2>1. PICK msg \in Message : Begin("draft", msg, EncryptsDraft(msg))
    BY <1>4 DEF SaveDraft
  <2>2. CASE EncryptsDraft(msg)
    <3>1. msg.to # <<>>
      BY <2>2 DEF EncryptsDraft, AllRecipientsInternal
    <3>2. CASE Valid(msg.files)
      <4>1. call' = [op |-> "draft", msg |-> msg, infos |-> <<>>, mine |-> FALSE,
                     at |-> "lookup"]
        BY <2>1, <2>2, <3>2 DEF Begin
      <4>2. Begun(call')
        BY <1>2, <2>2, <3>1, <4>1 DEF Begun, EncryptsDraft, EncryptsBy
      <4> QED
        BY <2>1, <3>2, <4>2 DEF Begin
    <3>3. CASE ~Valid(msg.files)
      BY <2>1, <3>3 DEF Begin
    <3> QED
      BY <3>2, <3>3
  <2>3. CASE ~EncryptsDraft(msg)
    <3>2. CASE Valid(msg.files)
      <4>1. call' = [op |-> "draft", msg |-> msg, infos |-> <<>>, mine |-> FALSE,
                     at |-> "plain"]
        BY <2>1, <2>3, <3>2 DEF Begin
      <4>2. Begun(call')
        BY <1>2, <2>3, <4>1 DEF Begun, EncryptsDraft, EncryptsBy
      <4> QED
        BY <2>1, <3>2, <4>2 DEF Begin
    <3>3. CASE ~Valid(msg.files)
      BY <2>1, <3>3 DEF Begin
    <3> QED
      BY <3>2, <3>3
  <2> QED
    BY <2>2, <2>3
<1> QED
  BY <1>3, <1>4

\* What a lookup finds is what the directory has of those looked up.
LEMMA PublicInfoFound ==
  ASSUME TypeOK, NEW msg \in Message
  PROVE  /\ PublicInfo(msg) \in Infos
         /\ \A a \in LookedUp(msg) :
              IF directory[a] = None THEN a \notin DOMAIN PublicInfo(msg)
              ELSE a \in DOMAIN PublicInfo(msg) /\ PublicInfo(msg)[a] = directory[a]
<1> DEFINE known == {b \in LookedUp(msg) : directory[b] # None}
<1>1. PublicInfo(msg) = [a \in known |-> directory[a]]
  BY DEF PublicInfo
<1>2. known \in SUBSET Address /\ \A a \in known : directory[a] \in Info
  BY RecipientsTyped DEF TypeOK
<1>3. \A a \in LookedUp(msg) : a \in known <=> directory[a] # None
  OBVIOUS
<1> HIDE DEF known
<1>4. PublicInfo(msg) \in [known -> Info]
  BY <1>1, <1>2
<1> QED
  BY <1>1, <1>2, <1>3, <1>4 DEF Infos

\* A lookup that goes on knows everybody, and takes the call for its sender's if
\* the sender's key is on the device.
LEMMA LookUpEffect ==
  ASSUME TypeOK, CallIsTyped, CallIsDecided, LookUp
  PROVE  /\ UNCHANGED <<config, directory, held, draft, changes>>
         /\ moved' = {}
         /\ call # NoCall
         /\ \/ call' = NoCall /\ outcome' = Unknown(call.msg)
            \/ /\ outcome' = outcome
               /\ call' \in Calls
               /\ call'.op = call.op /\ call'.msg = call.msg
               /\ call'.at = IF AllAcceptEncryption(call'.infos) THEN "encrypted" ELSE "plain"
               /\ call'.mine => Me \in DOMAIN call'.infos /\ call'.infos[Me].key \in held
               /\ EverybodyIsKnown(call', directory', moved')
<1> DEFINE infos == PublicInfo(call.msg)
           mine == directory[Me] # None /\ directory[Me].key \in held
           at == IF AllAcceptEncryption(infos) THEN "encrypted" ELSE "plain"
<1>1. call # NoCall /\ call \in Calls /\ call.at = "lookup" /\ call.msg \in Message
  BY DEF LookUp, NoCall, CallIsTyped, Calls
<1>2. UNCHANGED <<config, directory, held, draft, changes>> /\ moved' = {}
  BY DEF LookUp
<1>3. /\ infos \in Infos
      /\ \A a \in LookedUp(call.msg) :
           IF directory[a] = None THEN a \notin DOMAIN infos
           ELSE a \in DOMAIN infos /\ infos[a] = directory[a]
  BY <1>1, PublicInfoFound
<1>4. mine => Me \in DOMAIN infos /\ infos[Me].key \in held
  BY <1>3 DEF LookedUp
<1>5. CASE InNetwork(call.msg, infos)
  <2>1. /\ call' = [call EXCEPT !.infos = infos, !.mine = mine, !.at = at]
        /\ outcome' = outcome
    BY <1>5 DEF LookUp
  <2>2. mine \in BOOLEAN
    OBVIOUS
  <2>3. at \in {"plain", "encrypted"}
    OBVIOUS
  <2>4. /\ call' \in Calls
        /\ call'.op = call.op /\ call'.msg = call.msg /\ call'.infos = infos
        /\ call'.at = at
    <3> HIDE DEF infos, mine, at
    <3> QED
      BY <1>1, <1>3, <2>1, <2>2, <2>3 DEF Calls
  <2>5. call'.mine => mine
    <3> HIDE DEF infos, at
    <3> QED
      BY <1>1, <2>1 DEF Calls
  <2>6. EverybodyIsKnown(call', directory', moved')
    <3>1. call.msg.to # <<>>
      BY <1>1 DEF CallIsDecided
    <3>2. Recipients(call.msg) \subseteq DOMAIN infos
      BY <1>5 DEF InNetwork
    <3>3. \A a \in LookedUp(call'.msg) :
            IF directory'[a] = None THEN a \notin DOMAIN call'.infos
            ELSE a \in DOMAIN call'.infos /\ call'.infos[a] = directory'[a]
      <4> HIDE DEF infos
      <4> QED
        BY <1>2, <1>3, <2>4
    <3>4. Current(call', directory', moved')
      BY <3>3 DEF Current
    <3>5. /\ call'.msg \in Message /\ call'.msg.to # <<>>
          /\ Recipients(call'.msg) \subseteq DOMAIN call'.infos
      <4> HIDE DEF infos
      <4> QED
        BY <1>1, <2>4, <3>1, <3>2
    <3> QED
      BY <3>4, <3>5 DEF EverybodyIsKnown
  <2>7. call'.at = IF AllAcceptEncryption(call'.infos) THEN "encrypted" ELSE "plain"
    BY <2>4
  <2> QED
    BY <1>1, <1>2, <1>4, <2>1, <2>4, <2>5, <2>6, <2>7
<1>6. CASE ~InNetwork(call.msg, infos)
  BY <1>1, <1>2, <1>6 DEF LookUp
<1> QED
  BY <1>5, <1>6

\* What is uploaded is sealed to somebody exactly if it is encrypted, to the keys
\* that were found, and a draft keeps its files.
LEMMA UploadedFields ==
  ASSUME CallIsTyped, CallIsDecided, call.at \in {"plain", "encrypted"}
  PROVE  LET m == Uploaded IN
         /\ m.form = call.at /\ m.msg = call.msg /\ m.infos = call.infos
         /\ m.keys = {} <=> m.form = "plain"
         /\ m.form = "encrypted" => m.keys = SealedTo(m.infos)
         /\ call.op = "draft" => Keeps(m.files, call.msg.files)
<1> DEFINE m == Uploaded
           keys == IF call.at = "encrypted" THEN SealedTo(call.infos) ELSE {}
           parsed == IF call.op = "draft" THEN Parse(call.msg.files) ELSE call.msg.files
           files == IF call.op = "draft" /\ ~(call.at = "encrypted") THEN call.msg.files
                    ELSE Encode(parsed)
<1>1. /\ m.form = call.at /\ m.msg = call.msg /\ m.infos = call.infos
      /\ m.keys = keys /\ m.files = files
  BY DEF Uploaded
<1>2. call \in Calls /\ call.msg \in Message
  BY DEF CallIsTyped, Calls, NoCall
<1>3. call.at = "encrypted" => SealedTo(call.infos) # {}
  <2>1. ASSUME call.at = "encrypted"
        PROVE  \E a \in Recipients(call.msg) : a \in DOMAIN call.infos
    BY <1>2, <2>1, RecipientsTyped DEF CallIsDecided, EverybodyIsKnown
  <2> QED
    BY <2>1 DEF SealedTo
<1>4. call.op = "draft" => Keeps(files, call.msg.files)
  BY <1>2, RecipientsTyped, UploadKeeps
<1> HIDE DEF m
<1> QED
  BY <1>1, <1>3, <1>4 DEF m

\* What was known stays known, but of the address that changes.
LEMMA ChangeKeepsKnown ==
  ASSUME TypeOK, NEW a \in Address, NEW info \in Info \cup {None}, Change(a, info),
         NEW r, EverybodyIsKnown(r, directory, moved)
  PROVE  EverybodyIsKnown(r, directory', moved')
<1>1. /\ directory' = [directory EXCEPT ![a] = info]
      /\ moved' = moved \cup {a}
  BY DEF Change
<1>2. LookedUp(r.msg) \subseteq Address
  BY RecipientsTyped DEF EverybodyIsKnown
<1>3. \A b \in LookedUp(r.msg) \ moved' : b \notin moved /\ directory'[b] = directory[b]
  BY <1>1, <1>2 DEF TypeOK
<1>4. Current(r, directory', moved')
  BY <1>3 DEF EverybodyIsKnown, Current
<1> QED
  BY <1>4 DEF EverybodyIsKnown

\* The steps, and what a message is sent as or a draft saved as.
LEMMA StepCases ==
  ASSUME [Next]_vars
  PROVE  \/ Send \/ SaveDraft
         \/ LookUp
         \/ SendMessage \/ SendEncryptedMessage
         \/ StoreDraft
         \/ ReadDraft
         \/ Reject
         \/ \E a \in Address, info \in Info \cup {None} : Change(a, info)
         \/ LoseKeys
         \/ UNCHANGED vars
<1>1. Ours \cup Masked \subseteq Address
  BY AddressAssumption
<1> QED
  BY <1>1 DEF Next

LEMMA MadeAs ==
  ASSUME SendMessage \/ SendEncryptedMessage \/ StoreDraft
  PROVE  /\ call.at \in {"plain", "encrypted"}
         /\ call' = NoCall
         /\ UNCHANGED <<config, directory, held, moved, changes>>
         /\ \/ outcome' = Refused
            \/ call.op = "send" /\ outcome' = [is |-> "send", made |-> Uploaded]
            \/ call.op = "draft" /\ outcome' = [is |-> "draft", made |-> Uploaded]
  BY DEF SendMessage, SendEncryptedMessage, DeliverAs, StoreDraft

-----------------------------------------------------------------------------
(* Every step keeps what is said of the call *)

LEMMA CallStep ==
  ASSUME TypeOK, CallIsTyped, CallIsDecided, CallIsMine, OutcomeIsLast, [Next]_vars
  PROVE  CallIsTyped' /\ CallIsDecided' /\ CallIsMine' /\ OutcomeIsLast'
<1> DEFINE Kept == CallIsTyped' /\ CallIsDecided' /\ CallIsMine' /\ OutcomeIsLast'
<1>1. ASSUME call' = NoCall
      PROVE  Kept
  BY <1>1 DEF CallIsTyped, CallIsDecided, CallIsMine, OutcomeIsLast, NoCall
<1>2. ASSUME UNCHANGED <<config, directory, call, outcome, moved>>, held \subseteq held'
      PROVE  Kept
  BY <1>2 DEF CallIsTyped, CallIsDecided, CallIsMine, OutcomeIsLast
<1>3. CASE Send \/ SaveDraft
  <2>1. CASE UNCHANGED call
    BY <1>1, <1>3, <2>1, BeginEffect
  <2>2. CASE Begun(call') /\ outcome' = Nothing
    <3>1. config' = config
      BY <1>3, BeginEffect
    <3>2. CallIsTyped' /\ OutcomeIsLast' /\ CallIsMine'
      BY <2>2 DEF Begun, CallIsTyped, OutcomeIsLast, CallIsMine
    <3>3. CallIsDecided'
      BY <2>2, <3>1 DEF Begun, CallIsDecided, DraftIsDecided
    <3> QED
      BY <3>2, <3>3
  <2> QED
    BY <1>3, <2>1, <2>2, BeginEffect
<1>4. CASE LookUp
  <2>1. CASE call' = NoCall
    BY <1>1, <2>1
  <2>2. CASE call' # NoCall
    <3>1. /\ call # NoCall /\ outcome' = outcome /\ call' \in Calls
          /\ call'.op = call.op /\ call'.msg = call.msg
          /\ call'.at = IF AllAcceptEncryption(call'.infos) THEN "encrypted" ELSE "plain"
          /\ call'.mine => Me \in DOMAIN call'.infos /\ call'.infos[Me].key \in held
          /\ EverybodyIsKnown(call', directory', moved')
          /\ config' = config /\ held' = held
      BY <1>4, <2>2, LookUpEffect
    <3>2. call.at = "lookup"
      BY <1>4 DEF LookUp
    <3>3. CallIsTyped' /\ OutcomeIsLast' /\ CallIsMine'
      BY <3>1 DEF CallIsTyped, OutcomeIsLast, CallIsMine, Nothing
    <3>4. CallIsDecided'
      <4>1. call'.op = "draft" => DraftIsDecided(config', call'.msg, call'.infos, call'.at)
        <5>1. call.op = "draft" => EncryptsBy(config, call.msg)
          BY <3>2 DEF CallIsDecided
        <5>2. InNetwork(call'.msg, call'.infos)
          BY <3>1 DEF EverybodyIsKnown, InNetwork
        <5> QED
          BY <3>1, <5>1, <5>2 DEF DraftIsDecided
      <4>2. call'.at \in {"plain", "encrypted"}
        BY <3>1
      <4> QED
        BY <3>1, <4>1, <4>2 DEF CallIsDecided
    <3> QED
      BY <3>3, <3>4
  <2> QED
    BY <2>1, <2>2
<1>5. CASE SendMessage \/ SendEncryptedMessage \/ StoreDraft
  BY <1>1, <1>5, MadeAs
<1>6. CASE ReadDraft
  BY <1>1, <1>6 DEF ReadDraft
<1>7. CASE Reject
  BY <1>1, <1>7 DEF Reject
<1>8. ASSUME NEW a \in Address, NEW info \in Info \cup {None}, Change(a, info)
      PROVE  Kept
  <2>1. UNCHANGED <<config, call, outcome>> /\ held \subseteq held'
    BY <1>8 DEF Change
  <2>2. call.at = "encrypted" => EverybodyIsKnown(call, directory', moved')
    BY <1>8, ChangeKeepsKnown DEF CallIsDecided
  <2>3. CallIsDecided'
    BY <2>1, <2>2 DEF CallIsDecided
  <2> QED
    BY <2>1, <2>3 DEF CallIsTyped, CallIsMine, OutcomeIsLast
<1>9. CASE LoseKeys
  <2>1. CASE call = NoCall
    BY <1>1, <1>9, <2>1 DEF LoseKeys
  <2>2. CASE call # NoCall
    <3>1. call \in Calls /\ call' = [call EXCEPT !.mine = FALSE]
      BY <1>9, <2>2 DEF LoseKeys, CallIsTyped
    <3>2. /\ call' \in Calls /\ ~call'.mine
          /\ call'.op = call.op /\ call'.msg = call.msg /\ call'.infos = call.infos
          /\ call'.at = call.at
      BY <3>1 DEF Calls
    <3>3. UNCHANGED <<config, directory, outcome, moved>>
      BY <1>9 DEF LoseKeys
    <3>4. call.at = "encrypted" => EverybodyIsKnown(call', directory', moved')
      BY <3>2, <3>3 DEF CallIsDecided, EverybodyIsKnown, Current
    <3>5. CallIsDecided'
      BY <3>2, <3>3, <3>4 DEF CallIsDecided
    <3> QED
      BY <2>2, <3>2, <3>3, <3>5 DEF CallIsTyped, CallIsMine, OutcomeIsLast
  <2> QED
    BY <2>1, <2>2
<1>10. CASE UNCHANGED vars
  BY <1>2, <1>10 DEF vars
<1> QED
  BY <1>3, <1>4, <1>5, <1>6, <1>7, <1>8, <1>9, <1>10, StepCases

-----------------------------------------------------------------------------
(* Every step keeps what is said of what was made *)

LEMMA MadeStep ==
  ASSUME TypeOK, CallIsTyped, CallIsDecided, OutcomeIsLast, MadeIsDecided, [Next]_vars
  PROVE  MadeIsDecided'
<1>1. ASSUME outcome'.is \notin {"send", "draft"}
      PROVE  MadeIsDecided'
  BY <1>1, MadeIsOutcome DEF MadeIsDecided, Made
<1>2. /\ Refused.is = "refused" /\ Nothing.is = "nothing"
      /\ \A msg : Unknown(msg).is = "unknown"
  BY DEF Refused, Nothing, Unknown
<1>3. ASSUME UNCHANGED <<config, outcome>>,
             \A m \in Made : EverybodyIsKnown(m, directory, moved) =>
                               EverybodyIsKnown(m, directory', moved')
      PROVE  MadeIsDecided'
  BY <1>3 DEF MadeIsDecided, Made
<1>4. CASE Send \/ SaveDraft
  BY <1>1, <1>2, <1>4, BeginEffect
<1>5. CASE LookUp
  <2>1. call # NoCall /\ (outcome' = outcome \/ outcome' = Unknown(call.msg))
    BY <1>5, LookUpEffect
  <2> QED
    BY <1>1, <1>2, <2>1 DEF OutcomeIsLast
<1>6. CASE SendMessage \/ SendEncryptedMessage \/ StoreDraft
  <2>1. CASE outcome' = Refused
    BY <1>1, <1>2, <2>1
  <2>2. ASSUME NEW is \in {"send", "draft"}, call.op = is,
               outcome' = [is |-> is, made |-> Uploaded]
        PROVE  MadeIsDecided'
    <3> DEFINE m == Uploaded
    <3>1. outcome'.is = is /\ outcome'.made = m
      BY <2>2
    <3>2. Made' = {m}
      BY <3>1 DEF Made
    <3>3. /\ call.at \in {"plain", "encrypted"}
          /\ UNCHANGED <<config, directory, moved>>
      BY <1>6, MadeAs
    <3>4. /\ m.form = call.at /\ m.msg = call.msg /\ m.infos = call.infos
          /\ m.keys = {} <=> m.form = "plain"
          /\ m.form = "encrypted" => m.keys = SealedTo(m.infos)
      BY <3>3, UploadedFields
    <3> HIDE DEF m
    <3>5. m.form = "encrypted" => EverybodyIsKnown(m, directory', moved')
      BY <3>3, <3>4 DEF CallIsDecided, EverybodyIsKnown, Current
    <3>6. is = "draft" => DraftIsDecided(config', m.msg, m.infos, m.form)
      BY <2>2, <3>3, <3>4 DEF CallIsDecided
    <3>7. /\ outcome'.made.form \in {"plain", "encrypted"}
          /\ outcome'.made.keys = {} <=> outcome'.made.form = "plain"
          /\ outcome'.made.form = "encrypted" =>
               /\ EverybodyIsKnown(outcome'.made, directory', moved')
               /\ outcome'.made.keys = SealedTo(outcome'.made.infos)
          /\ outcome'.is = "draft" =>
               DraftIsDecided(config', outcome'.made.msg, outcome'.made.infos, outcome'.made.form)
      BY <3>1, <3>3, <3>4, <3>5, <3>6
    <3>8. Made' = {outcome'.made}
      BY <3>1, <3>2
    <3> QED
      BY <3>7, <3>8 DEF MadeIsDecided
  <2> QED
    BY <1>6, <2>1, <2>2, MadeAs
<1>7. CASE ReadDraft
  BY <1>1, <1>2, <1>7 DEF ReadDraft
<1>8. CASE Reject
  BY <1>1, <1>2, <1>8 DEF Reject
<1>9. ASSUME NEW a \in Address, NEW info \in Info \cup {None}, Change(a, info)
      PROVE  MadeIsDecided'
  <2>1. UNCHANGED <<config, outcome>>
    BY <1>9 DEF Change
  <2> QED
    BY <1>3, <1>9, <2>1, ChangeKeepsKnown
<1>10. CASE LoseKeys
  BY <1>3, <1>10 DEF LoseKeys
<1>11. CASE UNCHANGED vars
  BY <1>3, <1>11 DEF vars
<1> QED
  BY <1>4, <1>5, <1>6, <1>7, <1>8, <1>9, <1>10, <1>11, StepCases

-----------------------------------------------------------------------------
(* Every step keeps what is said of the draft, and of what was read of it *)

LEMMA DraftStep ==
  ASSUME TypeOK, CallIsTyped, CallIsDecided, CallIsMine, DraftOpens, OutcomeIsOfDraft,
         [Next]_vars
  PROVE  DraftOpens' /\ OutcomeIsOfDraft'
<1> DEFINE Kept == DraftOpens' /\ OutcomeIsOfDraft'
<1>1. /\ Refused.is = "refused" /\ Nothing.is = "nothing"
      /\ \A msg : Unknown(msg).is = "unknown"
  BY DEF Refused, Nothing, Unknown
<1>2. ASSUME draft' = draft, held \subseteq held',
             outcome' = outcome \/ outcome'.is \notin {"undecoded", "read"}
      PROVE  Kept
  <2>1. DraftOpens'
    <3>1. draft # None /\ draft'.mine => draft.keys = {} \/ draft.keys \cap held # {}
      BY <1>2 DEF DraftOpens, Opens
    <3>2. draft # None /\ draft'.mine => draft'.keys = {} \/ draft'.keys \cap held' # {}
      BY <1>2, <3>1
    <3>3. draft # None =>
            DOMAIN draft' = DraftFields /\ Keeps(draft'.files, draft'.saved)
      BY <1>2 DEF DraftOpens
    <3> QED
      BY <1>2, <3>2, <3>3 DEF DraftOpens, Opens, Keeps, Names, ToSet
  <2>2. OutcomeIsOfDraft'
    <3>1. outcome'.is = "undecoded" => ~draft'.mine \/ draft'.keys = {}
      BY <1>2 DEF OutcomeIsOfDraft
    <3>2. outcome'.is = "read" => Keeps(outcome'.files, draft'.saved)
      BY <1>2 DEF OutcomeIsOfDraft
    <3> QED
      BY <3>1, <3>2 DEF OutcomeIsOfDraft, Keeps, Names, ToSet
  <2> QED
    BY <2>1, <2>2
<1>3. CASE Send \/ SaveDraft
  BY <1>1, <1>2, <1>3, BeginEffect
<1>4. CASE LookUp
  <2>1. outcome' = outcome \/ outcome' = Unknown(call.msg)
    BY <1>4, LookUpEffect
  <2>2. draft' = draft /\ held' = held
    BY <1>4, LookUpEffect
  <2> QED
    BY <1>1, <1>2, <2>1, <2>2
<1>5. CASE SendMessage \/ SendEncryptedMessage
  <2>1. draft' = draft /\ held' = held
    BY <1>5 DEF SendMessage, SendEncryptedMessage, DeliverAs
  <2>2. outcome'.is \notin {"undecoded", "read"}
    BY <1>1, <1>5, MadeAs
  <2> QED
    BY <1>2, <2>1, <2>2
<1>6. CASE StoreDraft
  <2>1. held' = held /\ outcome'.is \notin {"undecoded", "read"}
    BY <1>1, <1>6, MadeAs
  <2>2. CASE Within
    <3> DEFINE m == Uploaded
               coded == call.at = "encrypted" \/ call.msg.quotes
               new == [keys |-> m.keys, files |-> m.files, coded |-> coded,
                       saved |-> call.msg.files, mine |-> call.mine, locked |-> FALSE]
    <3>1. draft' = new
      BY <1>6, <2>2 DEF StoreDraft
    <3>2. call.at \in {"plain", "encrypted"} /\ call.op = "draft"
      BY <1>6 DEF StoreDraft
    <3>3. /\ m.form = call.at /\ m.infos = call.infos
          /\ m.keys = {} <=> m.form = "plain"
          /\ m.form = "encrypted" => m.keys = SealedTo(m.infos)
          /\ Keeps(m.files, call.msg.files)
      BY <3>2, UploadedFields
    <3> HIDE DEF m, coded
    <3>4. call.mine => Me \in DOMAIN call.infos /\ call.infos[Me].key \in held
      BY <3>2 DEF CallIsMine, NoCall
    <3>5. call.mine => m.keys = {} \/ Opens(m.keys)
      BY <3>2, <3>3, <3>4 DEF SealedTo, Opens
    <3>6. /\ draft'.keys = m.keys /\ draft'.files = m.files
          /\ draft'.saved = call.msg.files /\ draft'.mine = call.mine
          /\ DOMAIN draft' = DraftFields
      BY <3>1 DEF DraftFields
    <3>7. draft'.mine => draft'.keys = {} \/ draft'.keys \cap held' # {}
      BY <2>1, <3>5, <3>6 DEF Opens
    <3>8. Keeps(draft'.files, draft'.saved)
      BY <3>3, <3>6
    <3> QED
      BY <2>1, <3>6, <3>7, <3>8 DEF DraftOpens, OutcomeIsOfDraft, Opens, Keeps, Names, ToSet
  <2>3. CASE ~Within
    <3>1. draft' = draft
      BY <1>6, <2>3 DEF StoreDraft
    <3> QED
      BY <1>2, <2>1, <3>1
  <2> QED
    BY <2>2, <2>3
<1>7. CASE ReadDraft
  <2>1. draft # None /\ draft' = draft /\ held' = held
    BY <1>7 DEF ReadDraft
  <2>2. DraftOpens'
    <3>1. draft'.mine => draft'.keys = {} \/ draft'.keys \cap held' # {}
      BY <2>1 DEF DraftOpens, Opens
    <3>2. DOMAIN draft' = DraftFields /\ Keeps(draft'.files, draft'.saved)
      BY <2>1 DEF DraftOpens
    <3> QED
      BY <3>1, <3>2 DEF DraftOpens, Opens, Keeps, Names, ToSet
  <2>3. CASE draft.locked
    <3>1. outcome' = Refused
      BY <1>7, <2>3 DEF ReadDraft
    <3> QED
      BY <1>1, <2>2, <3>1 DEF OutcomeIsOfDraft
  <2>4. CASE ~draft.locked /\ ~(draft.coded /\ ~Opens(draft.keys))
    <3>1. outcome' = [is |-> "read", files |-> draft.files]
      BY <1>7, <2>4 DEF ReadDraft
    <3>2. outcome'.is = "read" /\ Keeps(outcome'.files, draft'.saved)
      BY <2>1, <3>1 DEF DraftOpens
    <3> QED
      BY <2>2, <3>2 DEF OutcomeIsOfDraft, Keeps, Names, ToSet
  <2>5. CASE ~draft.locked /\ draft.coded /\ ~Opens(draft.keys)
    <3>1. outcome' = [is |-> "undecoded"]
      BY <1>7, <2>5 DEF ReadDraft
    <3>2. ~draft'.mine \/ draft'.keys = {}
      BY <2>1, <2>5 DEF DraftOpens
    <3> QED
      BY <2>2, <3>1, <3>2 DEF OutcomeIsOfDraft
  <2> QED
    BY <2>3, <2>4, <2>5
<1>8. CASE Reject
  BY <1>1, <1>2, <1>8 DEF Reject
<1>9. ASSUME NEW a \in Address, NEW info \in Info \cup {None}, Change(a, info)
      PROVE  Kept
  <2>1. draft' = draft /\ outcome' = outcome /\ held \subseteq held'
    BY <1>9 DEF Change
  <2> QED
    BY <1>2, <2>1
<1>10. CASE LoseKeys
  <2>1. outcome' = outcome
    BY <1>10 DEF LoseKeys
  <2>2. CASE draft = None
    <3>1. draft' = None
      BY <1>10, <2>2 DEF LoseKeys
    <3> QED
      BY <2>1, <2>2, <3>1 DEF DraftOpens, OutcomeIsOfDraft
  <2>3. CASE draft # None
    <3>1. draft' = [draft EXCEPT !.mine = FALSE, !.locked = TRUE]
      BY <1>10, <2>3 DEF LoseKeys
    <3>2. DOMAIN draft = DraftFields /\ Keeps(draft.files, draft.saved)
      BY <2>3 DEF DraftOpens
    <3>3. /\ draft'.keys = draft.keys /\ draft'.files = draft.files
          /\ draft'.saved = draft.saved /\ ~draft'.mine
          /\ DOMAIN draft' = DOMAIN draft
      BY <3>1, <3>2 DEF DraftFields
    <3>4. DraftOpens'
      <4>1. draft'.mine => draft'.keys = {} \/ draft'.keys \cap held' # {}
        BY <3>3
      <4>2. DOMAIN draft' = DraftFields /\ Keeps(draft'.files, draft'.saved)
        BY <3>2, <3>3
      <4> QED
        BY <4>1, <4>2 DEF DraftOpens, Opens, Keeps, Names, ToSet
    <3>5. OutcomeIsOfDraft'
      <4>1. outcome'.is = "undecoded" => ~draft'.mine \/ draft'.keys = {}
        BY <3>3
      <4>2. outcome'.is = "read" => Keeps(outcome'.files, draft'.saved)
        BY <2>1, <3>3 DEF OutcomeIsOfDraft
      <4> QED
        BY <4>1, <4>2 DEF OutcomeIsOfDraft, Keeps, Names, ToSet
    <3> QED
      BY <3>4, <3>5
  <2> QED
    BY <2>2, <2>3
<1>11. CASE UNCHANGED vars
  BY <1>2, <1>11 DEF vars
<1> QED
  BY <1>3, <1>4, <1>5, <1>6, <1>7, <1>8, <1>9, <1>10, <1>11, StepCases

-----------------------------------------------------------------------------
(* Every step keeps the types *)

LEMMA TypeOKStep ==
  ASSUME TypeOK, CallIsTyped, CallIsDecided, CallIsMine, OutcomeIsLast, MadeIsDecided,
         [Next]_vars
  PROVE  TypeOK'
<1>1. /\ \A m \in Made' : m.keys = {} <=> m.form = "plain"
      /\ CallIsTyped'
  BY MadeStep, CallStep DEF MadeIsDecided
<1>2. call'.at \in {"none", "lookup", "plain", "encrypted"}
  BY <1>1 DEF CallIsTyped, Calls, NoCall
<1>3. /\ Refused.is = "refused" /\ Nothing.is = "nothing"
      /\ \A msg : Unknown(msg).is = "unknown"
  BY DEF Refused, Nothing, Unknown
<1> DEFINE Outcomes == {"nothing", "refused", "unknown", "send", "draft", "read", "undecoded"}
<1>4. ASSUME outcome'.is \in Outcomes,
             /\ directory' \in [Address -> Info \cup {None}]
             /\ held' \subseteq Key /\ moved' \subseteq Address
      PROVE  TypeOK'
  BY <1>1, <1>2, <1>4 DEF TypeOK
<1>5. CASE Send \/ SaveDraft
  BY <1>3, <1>4, <1>5, BeginEffect DEF TypeOK
<1>6. CASE LookUp
  <2>1. outcome' = outcome \/ outcome' = Unknown(call.msg)
    BY <1>6, LookUpEffect
  <2>2. directory' = directory /\ held' = held /\ moved' = {}
    BY <1>6, LookUpEffect
  <2> QED
    BY <1>3, <1>4, <2>1, <2>2 DEF TypeOK
<1>7. CASE SendMessage \/ SendEncryptedMessage \/ StoreDraft
  BY <1>3, <1>4, <1>7, MadeAs DEF TypeOK
<1>8. CASE ReadDraft
  BY <1>3, <1>4, <1>8 DEF ReadDraft, TypeOK
<1>9. CASE Reject
  BY <1>3, <1>4, <1>9 DEF Reject, TypeOK
<1>10. ASSUME NEW a \in Address, NEW info \in Info \cup {None}, Change(a, info)
       PROVE  TypeOK'
  <2>1. /\ directory' = [directory EXCEPT ![a] = info]
        /\ moved' = moved \cup {a}
        /\ outcome' = outcome
    BY <1>10 DEF Change
  <2>2. held' \subseteq Key
    BY <1>10 DEF Change, TypeOK, Info
  <2> QED
    BY <1>4, <2>1, <2>2 DEF TypeOK
<1>11. CASE LoseKeys
  BY <1>4, <1>11 DEF LoseKeys, TypeOK
<1>12. CASE UNCHANGED vars
  BY <1>4, <1>12 DEF vars, TypeOK
<1> QED
  BY <1>5, <1>6, <1>7, <1>8, <1>9, <1>10, <1>11, <1>12, StepCases

-----------------------------------------------------------------------------
(* The theorems *)

LEMMA InitIInv ==
  ASSUME Init
  PROVE  IInv
<1>1. Made = {} /\ Nothing.is = "nothing"
  BY DEF Init, Made, Nothing
<1>2. call = NoCall /\ call.at = "none"
  BY DEF Init, NoCall
<1>3. TypeOK
  <2>1. Me \in Address
    BY AddressAssumption
  <2>2. held \subseteq Key
    BY <2>1 DEF Init, Info
  <2> QED
    BY <1>1, <1>2, <2>2 DEF Init, TypeOK
<1> QED
  BY <1>1, <1>2, <1>3
     DEF IInv, Init, CallIsTyped, CallIsDecided, CallIsMine, OutcomeIsLast, MadeIsDecided,
         DraftOpens, OutcomeIsOfDraft

\* Every reachable state has all the parts of the inductive invariant.
THEOREM Inductive == Spec => []IInv
<1>1. IInv /\ [Next]_vars => IInv'
  BY TypeOKStep, CallStep, MadeStep, DraftStep DEF IInv
<1> QED
  BY <1>1, InitIInv, PTL DEF Spec

\* Every reachable state is well typed, and nothing plain is sealed to anybody.
THEOREM TypeCorrect == Spec => []TypeOK
<1>1. IInv => TypeOK
  BY DEF IInv
<1> QED
  BY <1>1, Inductive, PTL

\* Whoever an encrypted message is addressed to can open it, and so can its
\* sender, unless their information changed since it was looked up.
THEOREM EverybodyCanRead == Spec => []ReadableByAll
<1>1. IInv => ReadableByAll
  <2> SUFFICES ASSUME IInv, NEW m \in Made, m.form = "encrypted"
               PROVE  /\ \A a \in Recipients(m.msg) \ moved :
                           directory[a] # None /\ directory[a].key \in m.keys
                      /\ Me \notin moved /\ directory[Me] # None =>
                           directory[Me].key \in m.keys
    BY DEF ReadableByAll
  <2>1. EverybodyIsKnown(m, directory, moved) /\ m.keys = SealedTo(m.infos)
    BY DEF IInv, MadeIsDecided
  <2>2. \A a \in LookedUp(m.msg) \ moved :
          a \in DOMAIN m.infos => directory[a] # None /\ directory[a].key \in m.keys
    BY <2>1 DEF EverybodyIsKnown, Current, SealedTo
  <2>3. \A a \in LookedUp(m.msg) \ moved : directory[a] # None => a \in DOMAIN m.infos
    BY <2>1 DEF EverybodyIsKnown, Current
  <2> QED
    BY <2>1, <2>2, <2>3 DEF EverybodyIsKnown, LookedUp
<1> QED
  BY <1>1, Inductive, PTL

\* A draft that was encrypted for a key of the device can be read until reset().
THEOREM DraftsStayReadable == Spec => []DraftStaysReadable
<1>1. IInv => DraftStaysReadable
  BY DEF IInv, OutcomeIsOfDraft, DraftStaysReadable
<1> QED
  BY <1>1, Inductive, PTL

\* A draft is read with the files it was saved with.
THEOREM FilesAlwaysSurvive == Spec => []FilesSurvive
<1>1. IInv => FilesSurvive
  BY DEF IInv, OutcomeIsOfDraft, DraftOpens, Keeps, FilesSurvive
<1> QED
  BY <1>1, Inductive, PTL

\* The two pieces of code that decide whether to encrypt agree, unless masks are
\* enabled and a recipient contains a domain of masks and no configured one.
THEOREM DraftsAlwaysLikeSent == Spec => []DraftLikeSent
<1>1. IInv => DraftLikeSent
  <2> SUFFICES ASSUME IInv, NEW m \in Made, outcome.is = "draft"
               PROVE  \/ m.form = SentAs(m.msg, m.infos)
                      \/ /\ config.masks /\ m.form = "plain"
                         /\ Recipients(m.msg) \cap (NamesMasks \ NamesOurs) # {}
    BY DEF DraftLikeSent
  <2>1. DraftIsDecided(config, m.msg, m.infos, m.form) /\ m.form \in {"plain", "encrypted"}
    BY DEF IInv, MadeIsDecided
  <2>e. EncryptsDraft(m.msg) <=> EncryptsBy(config, m.msg)
    BY DEF EncryptsDraft, EncryptsBy
  <2>2. CASE EncryptsDraft(m.msg)
    <3>1. EncryptsSent(m.msg) /\ InNetwork(m.msg, m.infos)
      BY <2>1, <2>2, <2>e DEF DraftIsDecided, EncryptsDraft, EncryptsSent, AllRecipientsInternal
    <3> QED
      BY <2>1, <2>2, <2>e, <3>1 DEF DraftIsDecided, SentAs
  <2>3. CASE ~EncryptsDraft(m.msg) /\ ~EncryptsSent(m.msg)
    BY <2>1, <2>3, <2>e DEF DraftIsDecided, SentAs
  <2>4. CASE ~EncryptsDraft(m.msg) /\ EncryptsSent(m.msg)
    <3>1. /\ config.masks
          /\ Recipients(m.msg) \cap (NamesMasks \ NamesOurs) # {}
      BY <2>4 DEF EncryptsDraft, EncryptsSent, AllRecipientsInternal
    <3> QED
      BY <2>1, <2>4, <2>e, <3>1 DEF DraftIsDecided
  <2> QED
    BY <2>2, <2>3, <2>4
<1> QED
  BY <1>1, Inductive, PTL
=============================================================================
