------------------------------- MODULE Sending -------------------------------
(***************************************************************************)
(* What becomes of a message that is sent or saved as a draft: whether it  *)
(* is encrypted, for whose keys, in which limits, and what is read back.   *)
(*                                                                         *)
(* A message is looked at twice, with requests between: its recipients are *)
(* looked up in the service's directory of public keys, and the keys found *)
(* are sealed to, while the directory changes.                             *)
(***************************************************************************)
EXTENDS Integers, Sequences, FiniteSets, SequencesExt, Subsequences

CONSTANTS
  Address,        \* email addresses and masks
  Me,             \* the address messages are sent from
  Ours,           \* addresses at a configured domain
  Masked,         \* addresses at a domain of masks
  NamesOurs,      \* addresses that contain a configured domain, there or elsewhere
  NamesMasks,     \* addresses that contain a domain of masks, there or elsewhere
  Key,            \* public keys
  File,           \* attachments: a name, and whether they are inline
  Message,        \* the messages sent and saved: recipients, attachments, size, and
                  \* whether the text quotes the content id of a sealed body
  Prohibited,     \* file names with a prohibited extension
  None,
  RecipientsLimit,          \* emailMessageRecipientsLimit
  EncryptedRecipientsLimit, \* encryptedEmailMessageRecipientsLimit
  MaxSize,        \* emailMessageMaxOutboundMessageSize
  MaxChanges      \* bound: changes of the directory and of the device's keys

ASSUME AddressAssumption ==
  /\ Me \in Address /\ None \notin Address \cup Key
  /\ Ours \subseteq NamesOurs /\ Masked \subseteq NamesMasks
  /\ NamesOurs \cup NamesMasks \subseteq Address

ASSUME MessageAssumption ==
  \A msg \in Message :
    /\ msg.to \in Seq(Address) /\ msg.files \in Seq(File)
    /\ msg.size \in Nat /\ msg.quotes \in BOOLEAN

ASSUME LimitAssumption ==
  {RecipientsLimit, EncryptedRecipientsLimit, MaxSize, MaxChanges} \subseteq Nat

VARIABLES
  config,     \* sendEncryptedEmailEnabled and emailMasksEnabled of the service
  directory,  \* the public information of an address: its key, and whether it
              \* accepts encryption
  held,       \* the keys whose private half is on the device
  call,       \* the call that is running: calls share nothing but the above
  outcome,    \* what the last call came to
  draft,      \* the last draft saved
  moved,      \* history: addresses whose information changed since looked up
  changes

vars == <<config, directory, held, call, outcome, draft, moved, changes>>

Info == [key : Key, accepts : BOOLEAN]
NoCall == [at |-> "none"]
Nothing == [is |-> "nothing"]
Refused == [is |-> "refused"]
Unknown(msg) == [is |-> "unknown", msg |-> msg]

Init ==
  /\ config \in [encrypted : BOOLEAN, masks : BOOLEAN]
  /\ directory \in [Address -> Info \cup {None}]
  /\ \A a, b \in Address \ {Me} :
       directory[a] # None /\ directory[b] # None /\ a # b =>
         directory[a].key # directory[b].key
  /\ \A a \in Address \ (Ours \cup Masked) : directory[a] = None
  /\ held = IF directory[Me] = None THEN {} ELSE {directory[Me].key}
  /\ call = NoCall
  /\ outcome = Nothing
  /\ draft = None
  /\ moved = {}
  /\ changes = 0

-----------------------------------------------------------------------------
(* Messages *)

Recipients(msg) == ToSet(msg.to)
Names(files) == {files[i].name : i \in DOMAIN files}

Inlined(files) == {i \in DOMAIN files : files[i].inline}

\* Variant: inline attachments are left out of what is encrypted.
EncodeWithoutInline(files) == Pick(files, DOMAIN files \ Inlined(files))

Inline(files) == Pick(files, Inlined(files))

\* encodeToInternetMessageStr writes the attachments, then the inline ones.
Encode(files) == Pick(files, DOMAIN files \ Inlined(files)) \o Inline(files)

\* parseInternetMessageData keeps the first file of each name.
Parse(files) ==
  Pick(files, {i \in DOMAIN files : \A j \in 1..(i - 1) : files[j].name # files[i].name})

\* verifyAttachmentValidity
Valid(files) == Names(files) \cap Prohibited = {}

-----------------------------------------------------------------------------
(* EmailMessageUtil *)

\* Variant: nobody is as good as everybody.
NoneIsInternal(msg, internal) == Recipients(msg) \subseteq internal

\* Internal is who contains one of the domains asked about, wherever in the
\* address: not only who is at it.
AllRecipientsInternal(msg, internal) ==
  msg.to # <<>> /\ Recipients(msg) \subseteq internal

\* Variant: the recipients alone are looked up.
LookedUpRecipients(msg) == Recipients(msg)

\* lookupPublicInfo of the recipients and the sender, whatever is known of them.
LookedUp(msg) == Recipients(msg) \cup {Me}

PublicInfo(msg) ==
  [a \in {b \in LookedUp(msg) : directory[b] # None} |-> directory[a]]

\* Variant: some recipient is known.
SomeInNetwork(msg, infos) == Recipients(msg) \cap DOMAIN infos # {}

\* retrieveAndVerifyPublicInfo: the sender may be unknown.
InNetwork(msg, infos) == Recipients(msg) \subseteq DOMAIN infos

AllAcceptEncryption(infos) == \A a \in DOMAIN infos : infos[a].accepts

LimitOf(form) ==
  IF form = "encrypted" THEN EncryptedRecipientsLimit ELSE RecipientsLimit

\* The envelope of the keys and the body is larger than what it holds.
SizeOf(msg, form) == IF form = "encrypted" THEN msg.size + 1 ELSE msg.size

\* DefaultEmailCryptoService.encrypt seals once to each distinct key.
SealedTo(infos) == {infos[a].key : a \in DOMAIN infos}

-----------------------------------------------------------------------------
(* Calls *)

\* What is sent is compared with the domains of masks too, if masks are enabled.
EncryptsSent(msg) ==
  /\ config.encrypted
  /\ AllRecipientsInternal(msg, NamesOurs \cup IF config.masks THEN NamesMasks ELSE {})

\* Variant: a draft is encrypted whatever the configuration says.
EncryptsAnyDraft(msg) == AllRecipientsInternal(msg, NamesOurs)

\* A draft is compared with the configured domains alone.
EncryptsDraft(msg) == AllRecipientsInternal(msg, NamesOurs) /\ config.encrypted

\* The attachments are checked; then the recipients are looked up, if all are
\* internal and messages are to be encrypted.
Begin(op, msg, encrypts) ==
  /\ call = NoCall
  /\ moved' = {}
  /\ IF Valid(msg.files)
     THEN /\ call' = [op |-> op, msg |-> msg, infos |-> <<>>, mine |-> FALSE,
                      at |-> IF encrypts THEN "lookup" ELSE "plain"]
          /\ outcome' = Nothing
     ELSE outcome' = Refused /\ UNCHANGED call
  /\ UNCHANGED <<config, directory, held, draft, changes>>

Send == \E msg \in Message : Begin("send", msg, EncryptsSent(msg))
SaveDraft == \E msg \in Message : Begin("draft", msg, EncryptsDraft(msg))

\* An internal address nobody has refuses the message; one that does not
\* accept encryption, the sender included, makes it plain.
LookUp ==
  /\ call.at = "lookup"
  /\ LET infos == PublicInfo(call.msg) IN
       IF InNetwork(call.msg, infos)
       THEN /\ call' = [call EXCEPT !.infos = infos,
              !.mine = directory[Me] # None /\ directory[Me].key \in held,
              !.at = IF AllAcceptEncryption(infos) THEN "encrypted" ELSE "plain"]
            /\ UNCHANGED outcome
       ELSE call' = NoCall /\ outcome' = Unknown(call.msg)
  /\ moved' = {}
  /\ UNCHANGED <<config, directory, held, draft, changes>>

\* What is uploaded. The envelope of an encrypted message holds the sealed keys,
\* the body sealed with all files in it, and beside them the inline files again.
\* A draft is parsed from its text, and a plain one kept as it was.
Uploaded ==
  LET sealed == call.at = "encrypted"
      files == IF call.op = "draft" THEN Parse(call.msg.files) ELSE call.msg.files
  IN [form |-> call.at,
      msg |-> call.msg,
      infos |-> call.infos,
      keys |-> IF sealed THEN SealedTo(call.infos) ELSE {},
      files |-> IF call.op = "draft" /\ ~sealed THEN call.msg.files ELSE Encode(files),
      beside |-> IF sealed THEN Inline(files) ELSE <<>>]

Within == Len(call.msg.to) <= LimitOf(call.at) /\ SizeOf(call.msg, call.at) <= MaxSize

\* The message is uploaded to the transient bucket and sent from there, or it is
\* over a limit.
DeliverAs(form) ==
  /\ call.at = form
  /\ call.op = "send"
  /\ outcome' = IF Within THEN [is |-> "send", made |-> Uploaded] ELSE Refused
  /\ call' = NoCall
  /\ UNCHANGED <<config, directory, held, draft, moved, changes>>

SendMessage == DeliverAs("plain")
SendEncryptedMessage == DeliverAs("encrypted")

StoreDraft ==
  /\ call.at \in {"plain", "encrypted"}
  /\ call.op = "draft"
  /\ IF Within
     THEN /\ outcome' = [is |-> "draft", made |-> Uploaded]
          /\ draft' = [keys |-> Uploaded.keys, files |-> Uploaded.files,
                       coded |-> call.at = "encrypted" \/ call.msg.quotes,
                       saved |-> call.msg.files, mine |-> call.mine, locked |-> FALSE]
     ELSE outcome' = Refused /\ UNCHANGED draft
  /\ call' = NoCall
  /\ UNCHANGED <<config, directory, held, moved, changes>>

\* decrypt takes the first sealed key whose pair is on the device.
Opens(sealed) == sealed \cap held # {}

\* getDraft unseals the draft with the key that all drafts of the device are
\* sealed with. One whose text has the content id of a sealed body in it, be it
\* quoted, is decrypted, which fails if no such body comes with sealed keys.
ReadDraft ==
  /\ call = NoCall
  /\ draft # None
  /\ outcome' = IF draft.locked THEN Refused
                ELSE IF draft.coded /\ ~Opens(draft.keys) THEN [is |-> "undecoded"]
                ELSE [is |-> "read", files |-> draft.files]
  /\ UNCHANGED <<config, directory, held, call, draft, moved, changes>>

\* A request fails, or the upload does.
Reject ==
  /\ call # NoCall
  /\ call' = NoCall
  /\ outcome' = Refused
  /\ UNCHANGED <<config, directory, held, draft, moved, changes>>

-----------------------------------------------------------------------------
(* The directory, and the keys of the device *)

Change(a, info) ==
  /\ changes < MaxChanges
  /\ changes' = changes + 1
  /\ directory[a] # info
  /\ directory' = [directory EXCEPT ![a] = info]
  /\ moved' = moved \cup {a}
  /\ held' = IF a = Me /\ info # None THEN held \cup {info.key} ELSE held
  /\ UNCHANGED <<config, call, outcome, draft>>

\* reset() removes the keys: those that were sealed to, and the one that the draft
\* was sealed with.
LoseKeys ==
  /\ changes < MaxChanges
  /\ changes' = changes + 1
  /\ held' = {}
  /\ draft' = IF draft = None THEN None ELSE [draft EXCEPT !.mine = FALSE, !.locked = TRUE]
  /\ call' = IF call = NoCall THEN NoCall ELSE [call EXCEPT !.mine = FALSE]
  /\ UNCHANGED <<config, directory, outcome, moved>>

Next ==
  \/ Send \/ SaveDraft \/ LookUp
  \/ SendMessage \/ SendEncryptedMessage \/ StoreDraft \/ ReadDraft \/ Reject
  \/ \E a \in Ours \cup Masked, info \in Info \cup {None} : Change(a, info)
  \/ LoseKeys

Spec == Init /\ [][Next]_vars

-----------------------------------------------------------------------------
(* Properties *)

Made == {o.made : o \in {n \in {outcome} : n.is \in {"send", "draft"}}}

\* What is delivered is sealed to somebody exactly if it is encrypted, and what
\* is encrypted was looked up.
TypeOK ==
  /\ directory \in [Address -> Info \cup {None}]
  /\ held \subseteq Key /\ moved \subseteq Address
  /\ call.at \in {"none", "lookup", "plain", "encrypted"}
  /\ outcome.is \in {"nothing", "refused", "unknown", "send", "draft", "read", "undecoded"}
  /\ \A m \in Made : m.keys = {} <=> m.form = "plain"

\* Everyone an encrypted message is addressed to, and its sender, can open it:
\* it is sealed to the key the directory has of them, unless that changed after
\* it was looked up. Nobody is left out who shares a key or is named twice.
ReadableByAll ==
  \A m \in Made : m.form = "encrypted" =>
    /\ \A a \in Recipients(m.msg) \ moved :
         directory[a] # None /\ directory[a].key \in m.keys
    /\ Me \notin moved /\ directory[Me] # None => directory[Me].key \in m.keys

\* An encrypted draft can be read again by who saved it if the sender was known
\* to the directory by a key of the device, whatever keys the sender or the
\* recipients have had since, until reset() removes the device's keys. A plain
\* draft cannot, if its text quotes the content id of a sealed body.
DraftStaysReadable ==
  outcome.is = "undecoded" => ~draft.mine \/ draft.keys = {}

\* A draft that is read again has all files it was saved with, also when it was
\* encrypted, if no two had the same name; of those that do, one is left.
FilesSurvive ==
  outcome.is = "read" =>
    LET saved == draft.saved IN
      /\ Names(outcome.files) = Names(saved)
      /\ Cardinality(Names(saved)) = Len(saved) => ToSet(outcome.files) = ToSet(saved)

\* What becomes of a message sent by its recipients' information.
SentAs(msg, infos) ==
  IF ~EncryptsSent(msg) THEN "plain"
  ELSE IF ~InNetwork(msg, infos) THEN "unknown"
  ELSE IF AllAcceptEncryption(infos) THEN "encrypted" ELSE "plain"

\* A draft is saved in the form the same message would be sent in by then,
\* though each has code of its own to decide. The exception takes masks, and a
\* recipient who contains a domain of masks and no configured one: such a draft
\* is plain, while the message is sent encrypted, or refused if the recipient is
\* elsewhere and unknown to the service.
DraftLikeSent ==
  \A m \in Made : outcome.is = "draft" =>
    \/ m.form = SentAs(m.msg, m.infos)
    \/ /\ config.masks /\ m.form = "plain"
       /\ Recipients(m.msg) \cap (NamesMasks \ NamesOurs) # {}
=============================================================================
