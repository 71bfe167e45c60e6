SPECIFICATION Spec
CONSTANTS
  me = me
  bob = bob
  mask = mask
  other = other
  almost = almost
  decoy = decoy
  Address = {me, bob, mask, other, almost, decoy}
  Me = me
  Ours = {me, bob}
  Masked = {mask}
  NamesOurs = {me, bob, almost}
  NamesMasks = {mask, decoy}
  Key = {k1, k2}
  File <- MCFile
  Message <- MCMessage
  Prohibited = {"exe"}
  None = None
  RecipientsLimit = 1
  EncryptedRecipientsLimit = 2
  MaxSize = 2
  MaxChanges = 2
INVARIANTS
  TypeOK
  ReadableByAll
  DraftStaysReadable
  FilesSurvive
  DraftLikeSent
