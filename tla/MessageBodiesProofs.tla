--------------------------- MODULE MessageBodiesProofs ---------------------------
(***************************************************************************)
(* Theorems about BodyCache and about MessageBodies, which composes it     *)
(* with the service, for every set of messages, activities, limits and     *)
(* sizes, and for any number of faults and crashes. The cache comes first, *)
(* by itself; then, the client uses its cache as BodyCache lets it be      *)
(* used, so what is proved of the cache holds inside the client; and what  *)
(* reads may serve.                                                        *)
(***************************************************************************)
EXTENDS MessageBodies, FiniteSetTheorems, NaturalsInduction, TLAPS

-----------------------------------------------------------------------------
(* The cache by itself *)

(***************************************************************************)
(* What an operation carries, from where it is.                            *)
(***************************************************************************)
LEMMA OpFields ==
  ASSUME NEW o \in Op
  PROVE  /\ o.at \in {"get", "put", "store", "delete", "returned"} => o.msg \in Message
         /\ o.at \in {"flush", "flushAddress"} => o.input \in FlushInput
         /\ o.at \in {"setLimit", "shrink"} => o.bytes \in Limit
  BY DEF Op, Idle

(***************************************************************************)
(* Unlinking files leaves a blob directory.                                *)
(***************************************************************************)
LEMMA UnlinkedType ==
  ASSUME blob \in [Message -> Blob], NEW S
  PROVE  /\ WithoutBlobs(S) \in [Message -> Blob]
         /\ PartlyUnlinked(S) \subseteq [Message -> Blob]
  BY DEF WithoutBlobs, PartlyUnlinked, Blob

LEMMA TearType ==
  ASSUME TypeOK, NEW p \in Proc, Tear(p)
  PROVE  blob' \in [Message -> Blob]
<1>1. blob \in [Message -> Blob]
  BY DEF TypeOK
<1>2. op[p].at = "store" => op[p].msg \in Message
  BY OpFields DEF TypeOK
<1>3. \A S : PartlyUnlinked(S) \subseteq [Message -> Blob]
  BY <1>1, UnlinkedType
<1> QED
  BY <1>1, <1>2, <1>3 DEF Tear, Blob

LEMMA RemoveType ==
  ASSUME TypeOK, NEW S, Remove(S)
  PROVE  /\ rows' \in SUBSET Message
         /\ accessedAt' \in [Message -> 0..MaxTime]
         /\ blob' \in [Message -> Blob]
         /\ faults' \in 0..MaxFaults
<1>1. blob \in [Message -> Blob]
  BY DEF TypeOK
<1>2. blob' \in [Message -> Blob]
  BY <1>1, UnlinkedType DEF Remove
<1>3. faults' \in 0..MaxFaults
  BY BoundAssumption DEF Remove, Fault, TypeOK
<1> QED
  BY <1>2, <1>3, BoundAssumption DEF Remove, TypeOK

LEMMA ClearAllType ==
  ASSUME TypeOK, ClearAll
  PROVE  /\ rows' \in SUBSET Message
         /\ accessedAt' \in [Message -> 0..MaxTime]
         /\ blob' \in [Message -> Blob]
         /\ faults' \in 0..MaxFaults
<1>1. blob \in [Message -> Blob]
  BY DEF TypeOK
<1>2. blob' \in [Message -> Blob]
  BY <1>1, UnlinkedType DEF ClearAll
<1> QED
  BY <1>2, BoundAssumption DEF ClearAll, Fault, TypeOK

LEMMA GotoType ==
  ASSUME TypeOK, NEW p \in Proc, NEW o \in Op, Goto(p, o)
  PROVE  op' \in [Proc -> Op]
  BY DEF Goto, TypeOK

-----------------------------------------------------------------------------

(***************************************************************************)
(* TypeOK is preserved, action by action.                                  *)
(***************************************************************************)
LEMMA TypeOKStep ==
  ASSUME TypeOK, [Next]_vars
  PROVE  TypeOK'
<1> USE LimitAssumption, BoundAssumption
<1>a. \A p \in Proc : op[p] \in Op
  BY DEF TypeOK
<1>b. Idle \in Op /\ \A m \in Message, b \in Blob : Returned(m, b) \in Op
  BY DEF Op, Returned
<1>c. "absent" \in Blob /\ "partial" \in Blob /\ "whole" \in Blob
  BY DEF Blob
<1>1. CASE Initialise
  BY <1>1 DEF Initialise, TypeOK, store
<1>2. CASE InitialiseFails
  BY <1>2 DEF InitialiseFails, TypeOK, store, Fault
<1>3. ASSUME NEW p \in Proc, NEW call \in Calls, Call(p, call)
      PROVE  TypeOK'
  <2>1. call \in Op
    BY DEF Calls, Op
  <2>2. op' \in [Proc -> Op]
    BY <1>3, <2>1, GotoType DEF Call
  <2> QED
    BY <1>3, <2>2 DEF Call, TypeOK, store
<1>4. ASSUME NEW p \in Proc, Block(p)
      PROVE  TypeOK'
  <2>f. op[p].at \in {"get", "put", "store", "delete", "returned"} => op[p].msg \in Message
    BY <1>a, OpFields
  <2>1. CASE Inactive(p)
    <3>1. op' \in [Proc -> Op]
      BY <2>1, <2>f, <1>b, <1>c, GotoType DEF Inactive
    <3> QED
      BY <2>1, <3>1 DEF Inactive, TypeOK, store
  <2>2. CASE GetMiss(p)
    <3>1. op' \in [Proc -> Op]
      BY <2>2, <2>f, <1>b, <1>c, GotoType DEF GetMiss
    <3> QED
      BY <2>2, <3>1 DEF GetMiss, TypeOK, store
  <2>3. CASE GetHit(p)
    <3>1. op' \in [Proc -> Op]
      BY <2>3, <2>f, <1>b, <1>c, GotoType DEF GetHit, TypeOK
    <3> QED
      BY <2>3, <3>1 DEF GetHit, TypeOK
  <2>4. CASE GetStale(p)
    <3>1. op' \in [Proc -> Op]
      BY <2>4, <2>f, <1>b, <1>c, GotoType DEF GetStale
    <3> QED
      BY <2>4, <3>1 DEF GetStale, TypeOK, Fault
  <2>5. CASE PutOversize(p)
    <3>1. op' \in [Proc -> Op]
      BY <2>5, <1>b, GotoType DEF PutOversize, Finish
    <3> QED
      BY <2>5, <3>1 DEF PutOversize, TypeOK, store
  <2>6. CASE PutEvict(p)
    <3>1. [at |-> "store", msg |-> op[p].msg] \in Op
      BY <2>6, <2>f DEF PutEvict, Op
    <3>2. op' \in [Proc -> Op]
      BY <2>6, <3>1, GotoType DEF PutEvict
    <3> QED
      BY <2>6, <3>2, RemoveType DEF PutEvict, TypeOK
  <2>7. CASE PutStore(p)
    <3>1. op' \in [Proc -> Op]
      BY <2>7, <1>b, GotoType DEF PutStore, Finish
    <3> QED
      BY <2>7, <3>1, <2>f, <1>c DEF PutStore, TypeOK
  <2>8. CASE DeleteMessage(p)
    <3>1. op' \in [Proc -> Op]
      BY <2>8, <1>b, GotoType DEF DeleteMessage, Finish
    <3> QED
      BY <2>8, <3>1, RemoveType DEF DeleteMessage, TypeOK
  <2>9. CASE Flush(p)
    <3>1. [at |-> "flushAddress", input |-> op[p].input] \in Op
      BY <2>9, <1>a, OpFields DEF Flush, Op
    <3>2. op' \in [Proc -> Op]
      BY <2>9, <3>1, <1>b, GotoType DEF Flush, Finish
    <3> QED
      BY <2>9, <3>2, RemoveType DEF Flush, TypeOK
  <2>10. CASE FlushAddress(p)
    <3>1. op' \in [Proc -> Op]
      BY <2>10, <1>b, GotoType DEF FlushAddress, Finish
    <3> QED
      BY <2>10, <3>1, RemoveType DEF FlushAddress, TypeOK
  <2>11. CASE FlushAll(p)
    <3>1. op' \in [Proc -> Op]
      BY <2>11, <1>b, GotoType DEF FlushAll, Finish
    <3> QED
      BY <2>11, <3>1, ClearAllType DEF FlushAll, TypeOK
  <2>12. CASE SetLimit(p)
    <3>1. op[p].bytes \in Limit
      BY <2>12, <1>a, OpFields DEF SetLimit
    <3>2. [at |-> "shrink", bytes |-> op[p].bytes] \in Op
      BY <3>1 DEF Op
    <3>3. op' \in [Proc -> Op]
      BY <2>12, <3>2, <1>b, GotoType DEF SetLimit, Finish
    <3> QED
      BY <2>12, <3>1, <3>3 DEF SetLimit, TypeOK, store
  <2>13. CASE Shrink(p)
    <3>1. op' \in [Proc -> Op]
      BY <2>13, <1>b, GotoType DEF Shrink, Finish
    <3> QED
      BY <2>13, <3>1, RemoveType, ClearAllType DEF Shrink, TypeOK
  <2> QED
    BY <1>4, <2>1, <2>2, <2>3, <2>4, <2>5, <2>6, <2>7, <2>8, <2>9, <2>10,
       <2>11, <2>12, <2>13 DEF Block
<1>5. ASSUME NEW p \in Proc, SetLimitFails(p)
      PROVE  TypeOK'
  <2>1. op[p].bytes \in Limit
    BY <1>5, <1>a, OpFields DEF SetLimitFails
  <2>2. op' \in [Proc -> Op]
    BY <1>5, <1>b, GotoType DEF SetLimitFails, Finish
  <2> QED
    BY <1>5, <2>1, <2>2 DEF SetLimitFails, TypeOK, store, Fault
<1>6. ASSUME NEW p \in Proc, BlockFails(p)
      PROVE  TypeOK'
  <2>1. op' \in [Proc -> Op]
    BY <1>6, <1>a, OpFields, <1>b, <1>c, GotoType DEF BlockFails
  <2> QED
    BY <1>6, <2>1, TearType DEF BlockFails, TypeOK, Fault
<1>7. ASSUME NEW p \in Proc, TakeResult(p)
      PROVE  TypeOK'
  <2>1. op' \in [Proc -> Op]
    BY <1>7, <1>b, GotoType DEF TakeResult, Finish
  <2> QED
    BY <1>7, <2>1 DEF TakeResult, TypeOK, store
<1>8. CASE Crash
  <2>1. blob' \in [Message -> Blob]
    BY <1>8, TearType DEF Crash, TypeOK
  <2> QED
    BY <1>8, <1>b, <2>1 DEF Crash, TypeOK
<1>9. CASE Tick
  BY <1>9 DEF Tick, TypeOK, store
<1>10. CASE UNCHANGED vars
  BY <1>10 DEF vars, store, TypeOK
<1> QED
  BY <1>1, <1>2, <1>3, <1>4, <1>5, <1>6, <1>7, <1>8, <1>9, <1>10
  DEF Next, CacheStep

LEMMA InitTyped == Init => TypeOK
  BY LimitAssumption, BoundAssumption DEF Init, TypeOK, Op, Blob

(***************************************************************************)
(* Every reachable state of the cache is well typed.                       *)
(***************************************************************************)
THEOREM TypeCorrect == Spec => []TypeOK
  BY InitTyped, TypeOKStep, PTL DEF Spec

-----------------------------------------------------------------------------

(***************************************************************************)
(* The limit in memory and the settings row can differ only after a failed *)
(* call: setCacheSizeLimit writes both before its first await.             *)
(***************************************************************************)
LEMMA FaultCounts ==
  ASSUME TypeOK, Fault
  PROVE  faults' # 0
  BY BoundAssumption DEF TypeOK, Fault

LEMMA RemoveFaults ==
  ASSUME TypeOK, NEW S, Remove(S) \/ ClearAll
  PROVE  faults' = 0 => faults = 0
  BY FaultCounts DEF Remove, ClearAll

LEMMA LimitInSyncStep ==
  ASSUME TypeOK, LimitInSync, [Next]_vars
  PROVE  LimitInSync'
<1> USE DEF LimitInSync
<1>1. CASE Initialise
  BY <1>1 DEF Initialise
<1>2. CASE InitialiseFails
  BY <1>2 DEF InitialiseFails
<1>3. ASSUME NEW p \in Proc, Block(p)
      PROVE  LimitInSync'
  <2>1. CASE SetLimit(p)
    BY <2>1 DEF SetLimit
  <2>2. CASE Inactive(p) \/ GetMiss(p) \/ GetHit(p) \/ PutOversize(p) \/ PutStore(p)
    BY <2>2 DEF Inactive, GetMiss, GetHit, PutOversize, PutStore
  <2>3. CASE GetStale(p)
    BY <2>3, FaultCounts DEF GetStale
  <2>4. CASE PutEvict(p) \/ DeleteMessage(p) \/ Flush(p) \/ FlushAddress(p)
    BY <2>4, RemoveFaults DEF PutEvict, DeleteMessage, Flush, FlushAddress
  <2>5. CASE FlushAll(p) \/ Shrink(p)
    BY <2>5, RemoveFaults DEF FlushAll, Shrink
  <2> QED
    BY <1>3, <2>1, <2>2, <2>3, <2>4, <2>5 DEF Block
<1>4. ASSUME NEW p \in Proc, SetLimitFails(p) \/ BlockFails(p)
      PROVE  LimitInSync'
  BY <1>4, FaultCounts DEF SetLimitFails, BlockFails
<1>5. CASE Crash
  BY <1>5 DEF Crash
<1>6. CASE \/ Tick
           \/ \E p \in Proc : TakeResult(p) \/ \E call \in Calls : Call(p, call)
           \/ UNCHANGED vars
  BY <1>6 DEF Tick, TakeResult, Call, vars
<1> QED
  BY <1>1, <1>2, <1>3, <1>4, <1>5, <1>6 DEF Next, CacheStep

THEOREM LimitStaysInSync == Spec => []LimitInSync
<1>1. Init => LimitInSync
  BY DEF Init, LimitInSync
<1> QED
  BY <1>1, LimitInSyncStep, TypeCorrect, PTL DEF Spec

-----------------------------------------------------------------------------

(***************************************************************************)
(* Files and rows part only where a call fails or the process dies: every  *)
(* block that runs to its end changes both alike.                          *)
(***************************************************************************)
LEMMA RemoveKeepsMatch ==
  ASSUME TypeOK, BlobsMatchRows, UNCHANGED crashes,
         NEW S \in SUBSET rows, Remove(S) \/ ClearAll
  PROVE  BlobsMatchRows'
<1> SUFFICES ASSUME faults' = 0, crashes' = 0
             PROVE  (\A m \in Message :
                       blob[m] = IF m \in rows /\ Large(m) THEN "whole" ELSE "absent")'
  BY DEF BlobsMatchRows
<1>1. \A m \in Message :
        blob[m] = IF m \in rows /\ Large(m) THEN "whole" ELSE "absent"
  BY RemoveFaults DEF BlobsMatchRows
<1>2. CASE Remove(S)
  <2>1. blob' = WithoutBlobs({m \in S : Large(m)}) /\ rows' = rows \ S
    BY <1>2, FaultCounts DEF Remove
  <2> QED
    BY <1>1, <2>1 DEF WithoutBlobs, Large, Size
<1>3. CASE ClearAll
  <2>1. blob' = WithoutBlobs(Message) /\ rows' = {}
    BY <1>3, FaultCounts DEF ClearAll
  <2> QED
    BY <2>1 DEF WithoutBlobs, Large, Size
<1> QED
  BY <1>2, <1>3

LEMMA BlobsMatchRowsStep ==
  ASSUME TypeOK, BlobsMatchRows, [Next]_vars
  PROVE  BlobsMatchRows'
<1>1. CASE Initialise
  BY <1>1 DEF Initialise, BlobsMatchRows, store, Large, Size
<1>2. CASE InitialiseFails
  BY <1>2, FaultCounts DEF InitialiseFails, BlobsMatchRows
<1>3. ASSUME NEW p \in Proc, Block(p)
      PROVE  BlobsMatchRows'
  <2>1. CASE Inactive(p) \/ GetMiss(p) \/ PutOversize(p) \/ SetLimit(p)
    BY <2>1 DEF Inactive, GetMiss, PutOversize, SetLimit, BlobsMatchRows, store,
                Large, Size
  <2>2. CASE GetHit(p)
    BY <2>2 DEF GetHit, BlobsMatchRows, Large, Size
  <2>3. CASE GetStale(p)
    \* With nothing failed, the file of a large row is there.
    BY <2>3, FaultCounts DEF GetStale, BlobsMatchRows, TypeOK
  <2>4. CASE PutStore(p)
    BY <2>4 DEF PutStore, BlobsMatchRows, TypeOK, Large, Size
  <2>5. CASE PutEvict(p)
    <3>1. PICK K \in Kept(Size(op[p].msg), limit) : Remove(rows \ K)
      BY <2>5 DEF PutEvict
    <3>2. UNCHANGED crashes
      BY <2>5 DEF PutEvict
    <3> QED
      BY <3>1, <3>2, RemoveKeepsMatch
  <2>6. CASE DeleteMessage(p)
    BY <2>6, RemoveKeepsMatch DEF DeleteMessage
  <2>7. CASE Flush(p)
    <3>1. Flushed(op[p].input) \in SUBSET rows
      BY DEF Flushed, Owned, Addressed
    <3> QED
      BY <2>7, <3>1, RemoveKeepsMatch DEF Flush
  <2>8. CASE FlushAddress(p)
    <3>1. Addressed(op[p].input) \in SUBSET rows
      BY DEF Addressed
    <3> QED
      BY <2>8, <3>1, RemoveKeepsMatch DEF FlushAddress
  <2>9. CASE FlushAll(p)
    BY <2>9, RemoveKeepsMatch DEF FlushAll
  <2>10. CASE Shrink(p)
    <3>1. UNCHANGED crashes /\ (ClearAll \/ \E K : Remove(rows \ K))
      BY <2>10 DEF Shrink
    <3>2. CASE ClearAll
      BY <3>1, <3>2, RemoveKeepsMatch
    <3>3. ASSUME NEW K, Remove(rows \ K)
          PROVE  BlobsMatchRows'
      BY <3>1, <3>3, RemoveKeepsMatch
    <3> QED
      BY <3>1, <3>2, <3>3
  <2> QED
    BY <1>3, <2>1, <2>2, <2>3, <2>4, <2>5, <2>6, <2>7, <2>8, <2>9, <2>10 DEF Block
<1>4. ASSUME NEW p \in Proc, SetLimitFails(p) \/ BlockFails(p)
      PROVE  BlobsMatchRows'
  BY <1>4, FaultCounts DEF SetLimitFails, BlockFails, BlobsMatchRows
<1>5. CASE Crash
  <2>1. crashes' # 0
    BY <1>5, BoundAssumption DEF Crash, TypeOK
  <2> QED
    BY <2>1 DEF BlobsMatchRows
<1>6. CASE \/ Tick
           \/ \E p \in Proc : TakeResult(p) \/ \E call \in Calls : Call(p, call)
           \/ UNCHANGED vars
  BY <1>6 DEF Tick, TakeResult, Call, vars, store, BlobsMatchRows, Large, Size
<1> QED
  BY <1>1, <1>2, <1>3, <1>4, <1>5, <1>6 DEF Next, CacheStep

THEOREM BlobsAlwaysMatchRows == Spec => []BlobsMatchRows
<1>1. Init => BlobsMatchRows
  BY DEF Init, BlobsMatchRows
<1> QED
  BY <1>1, BlobsMatchRowsStep, TypeCorrect, PTL DEF Spec

-----------------------------------------------------------------------------

(***************************************************************************)
(* Sizes add up: a set of messages is no smaller than its subsets, and a   *)
(* union no larger than the sum of its parts.                              *)
(***************************************************************************)
LEMMA BytesMonotone ==
  ASSUME NEW S \in SUBSET Message, NEW T \in SUBSET Message, S \subseteq T
  PROVE  Bytes[S] <= Bytes[T]
<1>1. T = S \cup (T \ S) /\ S \cap (T \ S) = {} /\ T \ S \in SUBSET Message
  OBVIOUS
<1>2. Bytes[T] = Bytes[S] + Bytes[T \ S]
  BY <1>1, BytesAssumption
<1>3. Bytes[S] \in Nat /\ Bytes[T \ S] \in Nat
  BY <1>1, BytesAssumption
<1> QED
  BY <1>2, <1>3

LEMMA BytesUnion ==
  ASSUME NEW S \in SUBSET Message, NEW T \in SUBSET Message
  PROVE  Bytes[S \cup T] <= Bytes[S] + Bytes[T]
<1>1. S \cup T = S \cup (T \ S) /\ S \cap (T \ S) = {} /\ T \ S \in SUBSET Message
  OBVIOUS
<1>2. Bytes[S \cup T] = Bytes[S] + Bytes[T \ S]
  BY <1>1, BytesAssumption
<1>3. Bytes[T \ S] <= Bytes[T]
  BY <1>1, BytesMonotone
<1>4. Bytes[S] \in Nat /\ Bytes[T] \in Nat /\ Bytes[T \ S] \in Nat
  BY <1>1, BytesAssumption
<1> QED
  BY <1>2, <1>3, <1>4

(***************************************************************************)
(* OverrunBounded is inductive. Every step but PutEvict leaves no more     *)
(* rows and pending bodies than there were; PutEvict makes its own body    *)
(* fit, so what is over the limit belongs to other activities' puts.       *)
(***************************************************************************)
LEMMA NoMoreThanBefore ==
  ASSUME TypeOK, OverrunBounded,
         (rows \cup Pending)' \subseteq rows \cup Pending
  PROVE  OverrunBounded'
<1>1. PICK max \in Limit, S \in SUBSET Message :
        /\ Cardinality(S) < Cardinality(Proc)
        /\ Bytes[rows \cup Pending] <= max + Bytes[S]
  BY DEF OverrunBounded
<1>2. rows \cup Pending \in SUBSET Message
  BY OpFields DEF TypeOK, Pending
<1>3. Bytes[(rows \cup Pending)'] <= Bytes[rows \cup Pending]
  BY <1>2, BytesMonotone
<1>4. /\ Bytes[(rows \cup Pending)'] \in Nat /\ Bytes[rows \cup Pending] \in Nat
      /\ Bytes[S] \in Nat /\ max \in Nat
  BY <1>2, BytesAssumption, LimitAssumption
<1>5. Bytes[(rows \cup Pending)'] <= max + Bytes[S]
  BY <1>1, <1>3, <1>4
<1> QED
  BY <1>1, <1>5 DEF OverrunBounded

LEMMA PendingOnlyShrinks ==
  ASSUME TypeOK, NEW p \in Proc, NEW o, o.at # "store", Goto(p, o)
  PROVE  Pending' \subseteq Pending
  BY DEF TypeOK, Goto, Pending

LEMMA PutEvictBounded ==
  ASSUME TypeOK, NEW p \in Proc, PutEvict(p)
  PROVE  OverrunBounded'
<1> DEFINE m == op[p].msg
           Others == {op[q].msg : q \in {r \in Proc \ {p} : op[r].at = "store"}}
<1>1. m \in Message
  BY OpFields DEF PutEvict, TypeOK
<1>2. Others \in SUBSET Message
  BY OpFields DEF TypeOK
<1>3. PICK K \in Kept(Size(m), limit) : Remove(rows \ K)
  BY DEF PutEvict
<1>4. K \in SUBSET Message /\ rows' = K
  BY <1>3 DEF Kept, Remove, TypeOK
<1>5. Bytes[K] + Bytes[{m}] <= limit
  <2>1. K = {} \/ Bytes[K] + Bytes[{m}] <= limit
    BY <1>3 DEF Kept, Size
  <2>2. Bytes[{m}] <= limit /\ limit \in Nat /\ Bytes[{m}] \in Nat
    BY <1>1, BytesAssumption, LimitAssumption DEF PutEvict, Size, TypeOK
  <2> QED
    BY <2>1, <2>2, BytesAssumption
<1>6. Pending' = {m} \cup Others
  BY DEF PutEvict, Goto, Pending, TypeOK
<1>7. Bytes[(rows \cup Pending)'] <= limit + Bytes[Others]
  <2>1. (rows \cup Pending)' = (K \cup {m}) \cup Others
    BY <1>4, <1>6
  <2>2. Bytes[(K \cup {m}) \cup Others] <= Bytes[K \cup {m}] + Bytes[Others]
    BY <1>1, <1>2, <1>4, BytesUnion
  <2>3. Bytes[K \cup {m}] <= Bytes[K] + Bytes[{m}]
    BY <1>1, <1>4, BytesUnion
  <2>4. /\ Bytes[K] \in Nat /\ Bytes[{m}] \in Nat /\ Bytes[Others] \in Nat
        /\ Bytes[K \cup {m}] \in Nat /\ Bytes[(K \cup {m}) \cup Others] \in Nat
    BY <1>1, <1>2, <1>4, BytesAssumption
  <2>5. limit \in Nat
    BY LimitAssumption DEF TypeOK
  <2>6. Bytes[(K \cup {m}) \cup Others] <= limit + Bytes[Others]
    <3> HIDE DEF m, Others
    <3> QED
      BY <1>5, <2>2, <2>3, <2>4, <2>5
  <2> QED
    BY <2>1, <2>6
<1>8. Cardinality(Others) < Cardinality(Proc)
  <2> DEFINE Q == {r \in Proc \ {p} : op[r].at = "store"}
  <2>1. IsFiniteSet(Proc \ {p}) /\ Cardinality(Proc \ {p}) = Cardinality(Proc) - 1
    BY ProcAssumption, FS_RemoveElement
  <2>2. IsFiniteSet(Q) /\ Cardinality(Q) <= Cardinality(Proc \ {p})
    BY <2>1, FS_Subset
  <2>3. IsFiniteSet(Others) /\ Cardinality(Others) <= Cardinality(Q)
    <3> DEFINE f == [q \in Q |-> op[q].msg]
    <3>1. f \in Surjection(Q, Others)
      BY DEF Surjection
    <3> HIDE DEF f, Others, Q
    <3> QED
      BY <2>2, <3>1, FS_Surjection
  <2>4. /\ Cardinality(Proc) \in Nat /\ Cardinality(Q) \in Nat
        /\ Cardinality(Others) \in Nat
    BY <2>2, <2>3, ProcAssumption, FS_CardinalityType
  <2> QED
    BY <2>1, <2>2, <2>3, <2>4
<1> QED
  BY <1>2, <1>7, <1>8 DEF OverrunBounded, TypeOK, PutEvict

LEMMA OverrunBoundedStep ==
  ASSUME TypeOK, OverrunBounded, [Next]_vars
  PROVE  OverrunBounded'
<1> SUFFICES \/ (rows \cup Pending)' \subseteq rows \cup Pending
             \/ \E p \in Proc : PutEvict(p)
  BY NoMoreThanBefore, PutEvictBounded
<1>i. Idle.at # "store" /\ \A m, b : Returned(m, b).at # "store"
  BY DEF Idle, Returned
<1>1. CASE Initialise \/ InitialiseFails \/ Tick \/ UNCHANGED vars
  BY <1>1 DEF Initialise, InitialiseFails, Tick, vars, store, Pending
<1>2. ASSUME NEW p \in Proc, Block(p), ~PutEvict(p)
      PROVE  (rows \cup Pending)' \subseteq rows \cup Pending
  <2>1. CASE PutStore(p)
    <3>1. rows' = rows \cup {op[p].msg} /\ op[p].msg \in Pending
      BY <2>1 DEF PutStore, Pending
    <3>2. Pending' \subseteq Pending
      BY <2>1, <1>i, PendingOnlyShrinks DEF PutStore, Finish
    <3> QED
      BY <3>1, <3>2
  <2>2. CASE Flush(p)
    <3>1. rows' \subseteq rows
      BY <2>2 DEF Flush, Remove
    <3>2. Pending' \subseteq Pending
      BY <2>2, <1>i, PendingOnlyShrinks DEF Flush, Finish
    <3> QED
      BY <3>1, <3>2
  <2>3. CASE SetLimit(p)
    <3>1. rows' = rows
      BY <2>3 DEF SetLimit, store
    <3>2. Pending' \subseteq Pending
      BY <2>3, <1>i, PendingOnlyShrinks DEF SetLimit, Finish
    <3> QED
      BY <3>1, <3>2
  <2>4. CASE Inactive(p) \/ GetMiss(p) \/ GetHit(p) \/ GetStale(p) \/ PutOversize(p)
    <3>1. rows' \subseteq rows
      BY <2>4 DEF Inactive, GetMiss, GetHit, GetStale, PutOversize, store
    <3>2. Pending' \subseteq Pending
      BY <2>4, <1>i, PendingOnlyShrinks
      DEF Inactive, GetMiss, GetHit, GetStale, PutOversize, Finish
    <3> QED
      BY <3>1, <3>2
  <2>5. CASE DeleteMessage(p) \/ FlushAddress(p) \/ FlushAll(p) \/ Shrink(p)
    <3>1. rows' \subseteq rows
      BY <2>5 DEF DeleteMessage, FlushAddress, FlushAll, Shrink, Remove, ClearAll
    <3>2. Pending' \subseteq Pending
      BY <2>5, <1>i, PendingOnlyShrinks
      DEF DeleteMessage, FlushAddress, FlushAll, Shrink, Finish
    <3> QED
      BY <3>1, <3>2
  <2> QED
    BY <1>2, <2>1, <2>2, <2>3, <2>4, <2>5 DEF Block
<1>3. ASSUME NEW p \in Proc,
             SetLimitFails(p) \/ BlockFails(p) \/ TakeResult(p)
               \/ \E call \in Calls : Call(p, call)
      PROVE  (rows \cup Pending)' \subseteq rows \cup Pending
  <2>1. rows' = rows
    BY <1>3 DEF SetLimitFails, BlockFails, TakeResult, Call, store
  <2>2. \A call \in Calls : call.at # "store"
    BY DEF Calls
  <2>3. Pending' \subseteq Pending
    BY <1>3, <1>i, <2>2, PendingOnlyShrinks
    DEF SetLimitFails, BlockFails, TakeResult, Call, Finish
  <2> QED
    BY <2>1, <2>3
<1>4. CASE Crash
  BY <1>4, <1>i DEF Crash, Pending
<1> QED
  BY <1>1, <1>2, <1>3, <1>4 DEF Next, CacheStep

(***************************************************************************)
(* Concurrent puts cannot grow the cache without bound: rows and pending   *)
(* bodies exceed a limit by at most one body per further activity.         *)
(***************************************************************************)
THEOREM OverrunAlwaysBounded == Spec => []OverrunBounded
<1>1. Init => OverrunBounded
  <2> SUFFICES ASSUME Init PROVE OverrunBounded
    OBVIOUS
  <2>1. Pending = {}
    BY DEF Init, Pending, Idle
  <2>2. Cardinality({}) = 0 /\ Cardinality(Proc) # 0 /\ Cardinality(Proc) \in Nat
    BY ProcAssumption, FS_EmptySet, FS_CardinalityType
  <2>3. Bytes[rows \cup Pending] = 0 /\ {} \in SUBSET Message /\ InitialLimit \in Nat
    BY <2>1, BytesAssumption, LimitAssumption DEF Init
  <2> QED
    BY <2>2, <2>3, BytesAssumption, LimitAssumption DEF OverrunBounded
<1> QED
  BY <1>1, OverrunBoundedStep, TypeCorrect, PTL DEF Spec

-----------------------------------------------------------------------------

(***************************************************************************)
(* One operation at a time, with nothing failing: what holds between its   *)
(* blocks. Room made by a put is still there when it stores, and a shrink  *)
(* runs for the limit that is in force.                                    *)
(***************************************************************************)
OneAtATime(p) == Proc = {p} /\ MaxFaults = 0 /\ MaxCrashes = 0

SequentialInv(p) ==
  /\ TypeOK
  /\ adapter # "failed"
  /\ adapter = "starting" =>
       savedLimit = None /\ op[p].at \notin {"store", "flushAddress", "shrink"}
  /\ op[p].at = "store" => limit > 0 /\ Bytes[rows \cup {op[p].msg}] <= limit
  /\ op[p].at = "shrink" => op[p].bytes = limit

LEMMA NothingFails ==
  ASSUME NEW p, OneAtATime(p), TypeOK
  PROVE  ~Fault /\ ~Crash
  BY DEF OneAtATime, TypeOK, Fault, Crash

LEMMA KeptFits ==
  ASSUME TypeOK, NEW incoming \in Nat, NEW max \in Nat, incoming <= max,
         NEW K \in Kept(incoming, max)
  PROVE  K \in SUBSET rows /\ K \in SUBSET Message /\ Bytes[K] + incoming <= max
<1>1. K \in SUBSET rows /\ (K = {} \/ Bytes[K] + incoming <= max)
  BY DEF Kept
<1> QED
  BY <1>1, BytesAssumption DEF TypeOK

LEMMA EvictionMakesRoom ==
  ASSUME TypeOK, NEW p \in Proc, PutEvict(p)
  PROVE  /\ limit' > 0
         /\ op'[p].at = "store" /\ op'[p].msg = op[p].msg
         /\ (Bytes[rows \cup {op[p].msg}] <= limit)'
         /\ rows' \subseteq rows
<1> DEFINE m == op[p].msg
<1>1. m \in Message
  BY OpFields DEF PutEvict, TypeOK
<1>2. PICK K \in Kept(Size(m), limit) : Remove(rows \ K)
  BY DEF PutEvict
<1>3. /\ limit \in Nat /\ Size(m) \in Nat /\ Size(m) <= limit
      /\ limit > 0 /\ limit' = limit
      /\ op' = [op EXCEPT ![p] = [at |-> "store", msg |-> m]]
  BY <1>1, BytesAssumption, LimitAssumption
  DEF PutEvict, Size, TypeOK, IsCacheActive, Goto
<1>4. /\ K \in SUBSET rows /\ K \in SUBSET Message
      /\ Bytes[K] + Size(m) <= limit
  BY <1>2, <1>3, KeptFits
<1>5. rows' = K
  BY <1>2, <1>4 DEF Remove
<1>6. Bytes[K \cup {m}] <= limit
  <2>1. Bytes[K \cup {m}] <= Bytes[K] + Bytes[{m}]
    BY <1>1, <1>4, BytesUnion
  <2>2. /\ Bytes[K \cup {m}] \in Nat /\ Bytes[K] \in Nat
        /\ Bytes[{m}] = Size(m)
    BY <1>1, <1>4, BytesAssumption DEF Size
  <2> HIDE DEF m
  <2> QED
    BY <1>3, <1>4, <2>1, <2>2
<1>7. op'[p].at = "store" /\ op'[p].msg = m
  BY <1>3 DEF TypeOK
<1> QED
  BY <1>3, <1>4, <1>5, <1>6, <1>7

LEMMA SequentialStep ==
  ASSUME NEW p \in Proc, OneAtATime(p), SequentialInv(p), [Next]_vars
  PROVE  SequentialInv(p)'
<1> DEFINE Rest == /\ adapter # "failed"
                   /\ adapter = "starting" =>
                        /\ savedLimit = None
                        /\ op[p].at \notin {"store", "flushAddress", "shrink"}
                   /\ op[p].at = "store" =>
                        limit > 0 /\ Bytes[rows \cup {op[p].msg}] <= limit
                   /\ op[p].at = "shrink" => op[p].bytes = limit
<1>t. TypeOK /\ TypeOK'
  BY TypeOKStep DEF SequentialInv
<1>n. ~Fault /\ ~Crash /\ Proc = {p}
  BY <1>t, NothingFails DEF OneAtATime
<1>r. Rest
  BY DEF SequentialInv
<1>o. op \in [Proc -> Op] /\ Idle.at = "idle" /\ \A m, b : Returned(m, b).at = "returned"
  BY <1>t DEF TypeOK, Idle, Returned
<1> SUFFICES Rest'
  BY <1>t DEF SequentialInv
<1>1. CASE Initialise
  BY <1>1, <1>r DEF Initialise, store
<1>2. CASE Inactive(p) \/ GetMiss(p) \/ GetHit(p) \/ PutOversize(p) \/ PutStore(p)
           \/ DeleteMessage(p) \/ FlushAddress(p) \/ FlushAll(p) \/ Shrink(p)
           \/ TakeResult(p) \/ GetStale(p)
  <2>1. op'[p].at \notin {"store", "flushAddress", "shrink"}
    BY <1>2, <1>o DEF Inactive, GetMiss, GetHit, PutOversize, PutStore, DeleteMessage,
       FlushAddress, FlushAll, Shrink, TakeResult, GetStale, Goto, Finish
  <2>2. UNCHANGED <<adapter, limit, savedLimit>>
    BY <1>2 DEF Inactive, GetMiss, GetHit, PutOversize, PutStore, DeleteMessage,
       FlushAddress, FlushAll, Shrink, TakeResult, GetStale
  <2> QED
    BY <2>1, <2>2, <1>r
<1>3. CASE PutEvict(p)
  <2>1. adapter' = adapter /\ adapter = "up"
    BY <1>3 DEF PutEvict, IsCacheActive
  <2>2. op'[p].at = "store"
    BY <1>3, <1>t, EvictionMakesRoom
  <2> QED
    BY <1>3, <1>t, <2>1, <2>2, EvictionMakesRoom
<1>4. CASE Flush(p)
  <2>1. adapter' = adapter /\ adapter = "up"
    BY <1>4 DEF Flush, IsCacheActive
  <2>2. op'[p].at \in {"idle", "flushAddress"}
    BY <1>4, <1>o DEF Flush, Goto, Finish
  <2> QED
    BY <2>1, <2>2
<1>5. CASE SetLimit(p)
  <2>1. adapter' = "up" /\ limit' = op[p].bytes
    BY <1>5, <1>r, <1>t DEF SetLimit, TypeOK
  <2>2. op'[p] = [at |-> "shrink", bytes |-> op[p].bytes]
    BY <1>5, <1>o, <2>1 DEF SetLimit, Goto
  <2> QED
    BY <2>1, <2>2
<1>6. ASSUME NEW call \in Calls, Call(p, call)
      PROVE  Rest'
  <2>1. op'[p] = call /\ UNCHANGED <<adapter, limit, savedLimit>>
    BY <1>6, <1>o DEF Call, Goto
  <2>2. call.at \notin {"store", "flushAddress", "shrink"}
    BY DEF Calls
  <2> QED
    BY <2>1, <2>2, <1>r
<1>7. CASE UNCHANGED vars \/ Tick
  BY <1>7, <1>r DEF vars, store, Tick
<1>8. ~InitialiseFails /\ ~SetLimitFails(p) /\ ~BlockFails(p)
  BY <1>n DEF InitialiseFails, SetLimitFails, BlockFails
<1> QED
  BY <1>n, <1>1, <1>2, <1>3, <1>4, <1>5, <1>6, <1>7, <1>8
  DEF Next, CacheStep, Block

(***************************************************************************)
(* Each step of the cache is a step of the abstract store, or a stutter.   *)
(***************************************************************************)
LEMMA PromiseStep ==
  ASSUME NEW p \in Proc, OneAtATime(p), SequentialInv(p), [Next]_vars
  PROVE  [Promise!Next]_(Promise!vars)
<1> DEFINE Shrinking == \E q \in Proc : op[q].at = "shrink"
<1>t. TypeOK
  BY DEF SequentialInv
<1>n. ~Fault /\ ~Crash /\ Proc = {p}
  BY <1>t, NothingFails DEF OneAtATime
<1>o. op \in [Proc -> Op] /\ Idle.at = "idle" /\ \A m, b : Returned(m, b).at = "returned"
  BY <1>t DEF TypeOK, Idle, Returned
<1>s. (Shrinking <=> op[p].at = "shrink") /\ (Shrinking' <=> op'[p].at = "shrink")
  BY <1>n
<1>1. CASE Initialise
  BY <1>1 DEF Initialise, SequentialInv, Promise!vars, store
<1>2. CASE Inactive(p) \/ GetMiss(p) \/ GetHit(p) \/ PutOversize(p) \/ TakeResult(p)
  <2>1. op[p].at # "shrink" /\ op'[p].at # "shrink"
    BY <1>2, <1>o DEF Inactive, GetMiss, GetHit, PutOversize, TakeResult, Goto, Finish
  <2>2. rows' = rows /\ limit' = limit
    BY <1>2 DEF Inactive, GetMiss, GetHit, PutOversize, TakeResult, store
  <2> QED
    BY <1>n, <2>1, <2>2 DEF Promise!vars
<1>3. CASE GetStale(p) \/ DeleteMessage(p) \/ Flush(p) \/ FlushAddress(p) \/ FlushAll(p)
  <2>1. op[p].at # "shrink" /\ op'[p].at # "shrink"
    BY <1>3, <1>o DEF GetStale, DeleteMessage, Flush, FlushAddress, FlushAll, Goto, Finish
  <2>2. rows' \in SUBSET rows /\ limit' = limit
    BY <1>3 DEF GetStale, DeleteMessage, Flush, FlushAddress, FlushAll, Remove, ClearAll
  <2> QED
    BY <1>n, <2>1, <2>2 DEF Promise!Next, Promise!Drop
<1>4. CASE PutEvict(p)
  <2>1. op[p].at # "shrink" /\ op'[p].at # "shrink"
    BY <1>4, <1>t, EvictionMakesRoom DEF PutEvict
  <2>2. rows' \in SUBSET rows /\ limit' = limit
    BY <1>4, <1>t, EvictionMakesRoom DEF PutEvict
  <2> QED
    BY <1>n, <2>1, <2>2 DEF Promise!Next, Promise!Drop
<1>5. CASE PutStore(p)
  <2>1. op[p].at = "store" /\ op'[p].at = "idle"
    BY <1>5, <1>o DEF PutStore, Goto, Finish
  <2>2. /\ op[p].msg \in Message /\ rows' = rows \cup {op[p].msg}
        /\ limit' = limit /\ limit > 0
        /\ Bytes[rows'] <= limit
    BY <1>5, <2>1, <1>o, OpFields DEF PutStore, SequentialInv
  <2>3. Promise!Store(op[p].msg)
    BY <1>n, <2>1, <2>2 DEF Promise!Store
  <2> QED
    BY <2>2, <2>3 DEF Promise!Next
<1>6. CASE SetLimit(p)
  <2>1. adapter = "up" /\ op[p].bytes \in Limit
    BY <1>6, <1>t, OpFields DEF SetLimit, SequentialInv, TypeOK
  <2>2. op'[p].at = "shrink" /\ limit' = op[p].bytes /\ rows' = rows
    BY <1>6, <2>1, <1>o DEF SetLimit, Goto, store
  <2>3. \E bytes \in Limit : Promise!SetLimit(bytes)
    BY <1>n, <2>1, <2>2 DEF Promise!SetLimit
  <2> QED
    BY <2>3 DEF Promise!Next
<1>7. CASE Shrink(p)
  <2>1. op[p].at = "shrink" /\ op'[p].at = "idle" /\ limit' = limit
    BY <1>7, <1>o DEF Shrink, Goto, Finish
  <2>2. op[p].bytes = limit /\ limit \in Nat
    BY <2>1, LimitAssumption DEF SequentialInv, TypeOK
  <2>3. rows' \in SUBSET rows /\ Bytes[rows'] <= limit /\ (limit = 0 => rows' = {})
    <3>1. CASE ClearAll
      BY <3>1, <2>2, BytesAssumption DEF ClearAll
    <3>2. ASSUME limit > 0, NEW K \in Kept(0, limit), Remove(rows \ K)
          PROVE  rows' \in SUBSET rows /\ Bytes[rows'] <= limit /\ (limit = 0 => rows' = {})
      <4>1. K \in SUBSET rows /\ K \in SUBSET Message /\ Bytes[K] + 0 <= limit
        BY <3>2, <1>t, <2>2, KeptFits
      <4>2. rows' = K
        BY <3>2, <4>1 DEF Remove
      <4> QED
        BY <3>2, <4>1, <4>2, <2>2, BytesAssumption
    <3> QED
      BY <1>7, <2>2, <3>1, <3>2 DEF Shrink
  <2>4. Promise!Shrink
    BY <1>n, <2>1, <2>3 DEF Promise!Shrink
  <2> QED
    BY <2>4 DEF Promise!Next
<1>8. ASSUME NEW call \in Calls, Call(p, call)
      PROVE  UNCHANGED Promise!vars
  <2>1. op[p].at # "shrink" /\ op'[p].at # "shrink"
    BY <1>8, <1>o DEF Call, Goto, Calls
  <2>2. rows' = rows /\ limit' = limit
    BY <1>8 DEF Call, store
  <2> QED
    BY <1>n, <2>1, <2>2 DEF Promise!vars
<1>9. CASE UNCHANGED vars \/ Tick
  BY <1>9 DEF vars, store, Tick, Promise!vars
<1>10. ~InitialiseFails /\ ~SetLimitFails(p) /\ ~BlockFails(p)
  BY <1>n DEF InitialiseFails, SetLimitFails, BlockFails
<1> QED
  BY <1>n, <1>1, <1>2, <1>3, <1>4, <1>5, <1>6, <1>7, <1>8, <1>9, <1>10
  DEF Next, CacheStep, Block

(***************************************************************************)
(* One operation at a time, with nothing failing, the cache implements the *)
(* store that emailMessageBodyCache.ts promises.                           *)
(***************************************************************************)
THEOREM CacheKeepsPromise ==
  ASSUME NEW p \in Proc, OneAtATime(p)
  PROVE  Spec => KeepsPromise
<1>1. Init => SequentialInv(p) /\ Promise!Init
  <2> SUFFICES ASSUME Init PROVE SequentialInv(p) /\ Promise!Init
    OBVIOUS
  <2>1. TypeOK
    BY LimitAssumption, BoundAssumption DEF Init, TypeOK, Op, Blob
  <2>2. \A q \in Proc : op[q].at = "idle"
    BY DEF Init, Idle
  <2> QED
    BY <2>1, <2>2 DEF Init, SequentialInv, Promise!Init
<1>2. SequentialInv(p) /\ [Next]_vars => SequentialInv(p)'
  BY SequentialStep
<1>3. SequentialInv(p) /\ [Next]_vars => [Promise!Next]_(Promise!vars)
  BY PromiseStep
<1> QED
  BY <1>1, <1>2, <1>3, PTL DEF Spec, KeepsPromise, Promise!Spec

(***************************************************************************)
(* The abstract store never exceeds its limit but while it shrinks, so     *)
(* neither does a cache that runs one operation at a time: the overrun     *)
(* comes from puts and limit changes that overlap, and from nothing else.  *)
(***************************************************************************)
LEMMA PromiseKeepsLimit ==
  ASSUME TypeOK, Promise!WithinLimit, [Promise!Next]_(Promise!vars)
  PROVE  Promise!WithinLimit'
<1> DEFINE Shrinking == \E q \in Proc : op[q].at = "shrink"
<1>l. limit \in Nat /\ rows \in SUBSET Message
  BY LimitAssumption DEF TypeOK
<1>1. ASSUME NEW m \in Message, Promise!Store(m)
      PROVE  Promise!WithinLimit'
  BY <1>1, <1>l DEF Promise!Store, Promise!WithinLimit
<1>2. CASE Promise!Drop
  <2>1. rows' \in SUBSET rows /\ limit' = limit /\ (Shrinking' <=> Shrinking)
    BY <1>2 DEF Promise!Drop
  <2>2. Bytes[rows'] <= Bytes[rows] /\ Bytes[rows'] \in Nat /\ Bytes[rows] \in Nat
    BY <2>1, <1>l, BytesMonotone, BytesAssumption
  <2>3. ~Shrinking => Bytes[rows'] <= limit
    BY <2>2, <1>l DEF Promise!WithinLimit
  <2> QED
    BY <2>1, <2>3 DEF Promise!WithinLimit
<1>3. ASSUME NEW bytes \in Limit, Promise!SetLimit(bytes)
      PROVE  Promise!WithinLimit'
  BY <1>3 DEF Promise!SetLimit, Promise!WithinLimit
<1>4. CASE Promise!Shrink
  BY <1>4 DEF Promise!Shrink, Promise!WithinLimit
<1>5. CASE UNCHANGED Promise!vars
  BY <1>5 DEF Promise!vars, Promise!WithinLimit
<1> QED
  BY <1>1, <1>2, <1>3, <1>4, <1>5 DEF Promise!Next

THEOREM WithinLimitOneAtATime ==
  ASSUME NEW p \in Proc, OneAtATime(p)
  PROVE  Spec => []TotalWithinLimit
<1>1. Init => Promise!WithinLimit
  BY BytesAssumption, LimitAssumption DEF Init, Promise!WithinLimit
<1>2. Init => SequentialInv(p)
  <2> SUFFICES ASSUME Init PROVE SequentialInv(p)
    OBVIOUS
  <2>1. TypeOK
    BY LimitAssumption, BoundAssumption DEF Init, TypeOK, Op, Blob
  <2>2. op[p].at = "idle"
    BY DEF Init, Idle
  <2> QED
    BY <2>1, <2>2 DEF Init, SequentialInv
<1>3. SequentialInv(p) /\ Promise!WithinLimit /\ [Next]_vars
        => SequentialInv(p)' /\ Promise!WithinLimit'
  BY SequentialStep, PromiseStep, PromiseKeepsLimit DEF SequentialInv
<1>4. Promise!WithinLimit => TotalWithinLimit
  BY DEF Promise!WithinLimit, TotalWithinLimit, AtRest
<1> QED
  BY <1>1, <1>2, <1>3, <1>4, PTL DEF Spec

-----------------------------------------------------------------------------
(* Eviction *)

\* Every set of naturals that is not empty has a least member.
LEMMA LeastNatural ==
  ASSUME NEW T \in SUBSET Nat, T # {}
  PROVE  \E x \in T : \A y \in T : x <= y
<1> DEFINE Smaller == {pair \in Nat \X Nat : pair[1] < pair[2]}
<1>1. IsWellFoundedOn(Smaller, Nat)
  BY NatLessThanWellFounded DEF OpToRel
<1>2. PICK x \in T : \A y \in T : <<y, x>> \notin Smaller
  BY <1>1, WFMin
<1>3. ASSUME NEW y \in T, y < x
      PROVE  FALSE
  <2>1. <<y, x>> \in Nat \X Nat
    OBVIOUS
  <2> QED
    BY <1>2, <1>3, <2>1
<1> QED
  BY <1>3

\* Some row has the oldest access.
LEMMA OldestThere ==
  ASSUME TypeOK, NEW V \in SUBSET rows, V # {}
  PROVE  \E v \in V : \A m \in V : accessedAt[v] <= accessedAt[m]
<1> DEFINE T == {accessedAt[v] : v \in V}
<1>1. T \in SUBSET Nat /\ T # {}
  BY BoundAssumption DEF TypeOK
<1>2. PICK t \in T : \A u \in T : t <= u
  BY <1>1, LeastNatural
<1> QED
  BY <1>2

\* victim lists the rows of V, each once, those with the older access first.
ByAccess(victim, n, V) ==
  /\ victim \in [1..n -> V]
  /\ \A v \in V : \E i \in 1..n : victim[i] = v
  /\ \A i, j \in 1..n : i < j =>
       victim[i] # victim[j] /\ accessedAt[victim[i]] <= accessedAt[victim[j]]

\* One older row goes in front.
LEMMA OlderFirst ==
  ASSUME TypeOK, NEW V \in SUBSET rows, NEW v \in V, NEW n \in Nat, NEW f,
         \A m \in V : accessedAt[v] <= accessedAt[m],
         ByAccess(f, n, V \ {v})
  PROVE  \E g : ByAccess(g, n + 1, V)
<1> DEFINE g == [i \in 1..(n + 1) |-> IF i = 1 THEN v ELSE f[i - 1]]
<1>f. /\ f \in [1..n -> V \ {v}]
      /\ \A w \in V \ {v} : \E i \in 1..n : f[i] = w
      /\ \A i, j \in 1..n : i < j =>
           f[i] # f[j] /\ accessedAt[f[i]] <= accessedAt[f[j]]
  BY DEF ByAccess
<1>1. g[1] = v
  OBVIOUS
<1>2. \A i \in 2..(n + 1) : i - 1 \in 1..n /\ g[i] = f[i - 1]
  OBVIOUS
<1>3. g \in [1..(n + 1) -> V]
  BY <1>f
<1>4. ASSUME NEW w \in V
      PROVE  \E i \in 1..(n + 1) : g[i] = w
  <2>1. CASE w = v
    BY <1>1, <2>1
  <2>2. CASE w # v
    <3>1. PICK i \in 1..n : f[i] = w
      BY <1>f, <2>2
    <3>2. i + 1 \in 1..(n + 1) /\ i + 1 \in 2..(n + 1) /\ (i + 1) - 1 = i
      OBVIOUS
    <3>3. g[i + 1] = w
      BY <1>2, <3>1, <3>2
    <3> QED
      BY <3>2, <3>3
  <2> QED
    BY <2>1, <2>2
<1>5. ASSUME NEW i \in 1..(n + 1), NEW j \in 1..(n + 1), i < j
      PROVE  g[i] # g[j] /\ accessedAt[g[i]] <= accessedAt[g[j]]
  <2>1. j \in 2..(n + 1) /\ j - 1 \in 1..n /\ g[j] = f[j - 1]
    BY <1>2, <1>5
  <2>2. CASE i = 1
    <3>1. f[j - 1] \in V \ {v}
      BY <1>f, <2>1
    <3> QED
      BY <1>1, <2>1, <2>2, <3>1
  <2>3. CASE i # 1
    <3>1. i \in 2..(n + 1) /\ i - 1 \in 1..n /\ g[i] = f[i - 1] /\ i - 1 < j - 1
      BY <1>2, <1>5, <2>3
    <3> HIDE DEF g
    <3> QED
      BY <1>f, <2>1, <3>1
  <2> QED
    BY <2>2, <2>3
<1> HIDE DEF g
<1> QED
  BY <1>3, <1>4, <1>5 DEF ByAccess

\* Finitely many rows can be put in the order of their accesses: there is no
\* least number of rows that cannot.
LEMMA OrderedByAccess ==
  ASSUME TypeOK, NEW V \in SUBSET rows, IsFiniteSet(V)
  PROVE  \E f : ByAccess(f, Cardinality(V), V)
<1> DEFINE Unordered(W) == IsFiniteSet(W) /\ ~\E f : ByAccess(f, Cardinality(W), W)
           T == {n \in Nat : \E W \in SUBSET rows : Unordered(W) /\ Cardinality(W) = n}
<1>1. SUFFICES ASSUME Unordered(V) PROVE FALSE
  OBVIOUS
<1>2. Cardinality(V) \in Nat
  BY FS_CardinalityType
<1>3. T \in SUBSET Nat /\ T # {}
  BY <1>1, <1>2
<1>4. PICK n \in T : \A k \in T : n <= k
  BY <1>3, LeastNatural
<1>5. PICK W \in SUBSET rows : Unordered(W) /\ Cardinality(W) = n
  OBVIOUS
<1>6. CASE W = {}
  <2>1. Cardinality(W) = 0
    BY <1>6, FS_EmptySet
  <2>2. 1..0 = {}
    OBVIOUS
  <2>3. ByAccess([i \in 1..0 |-> 0], 0, {})
    BY <2>2 DEF ByAccess
  <2> QED
    BY <1>5, <1>6, <2>1, <2>3
<1>7. CASE W # {}
  <2>1. PICK v \in W : \A m \in W : accessedAt[v] <= accessedAt[m]
    BY <1>7, OldestThere
  <2>2. IsFiniteSet(W \ {v}) /\ Cardinality(W \ {v}) = n - 1
    BY <1>5, FS_RemoveElement
  <2>3. n - 1 \in Nat /\ n \in Nat
    BY <2>2, FS_CardinalityType
  <2>4. n - 1 \notin T
    BY <1>4, <2>3
  <2>5. \E f : ByAccess(f, n - 1, W \ {v})
    BY <2>2, <2>3, <2>4
  <2>6. PICK f : ByAccess(f, n - 1, W \ {v})
    BY <2>5
  <2>7. \E g : ByAccess(g, (n - 1) + 1, W)
    BY <2>1, <2>3, <2>6, OlderFirst
  <2>8. (n - 1) + 1 = n
    BY <2>3
  <2> QED
    BY <1>5, <2>7, <2>8
<1> QED
  BY <1>6, <1>7

\* What the loop leaves is what Kept says: whoever goes is older than those who
\* go later and than those who stay, and the last one was one too many.
LEMMA LoopKeeps ==
  ASSUME TypeOK, NEW incoming \in Nat, NEW max \in Nat,
         NEW K \in EvictLoop(incoming, max)
  PROVE  K \in Kept(incoming, max)
<1>1. K \in SUBSET rows
  BY DEF EvictLoop
<1>0. PICK n \in 0..Cardinality(rows) : \E victim \in [1..n -> rows] :
        Left(victim, n) = K /\ Evicts(victim, n, incoming, max)
  BY DEF EvictLoop
<1>2. PICK victim \in [1..n -> rows] :
        Left(victim, n) = K /\ Evicts(victim, n, incoming, max)
  BY <1>0
<1>n. n \in Int /\ n >= 0
  OBVIOUS
<1>3. K = {} \/ Bytes[K] + incoming <= max
  BY <1>2 DEF Evicts
<1>4. ASSUME NEW i \in 1..n
      PROVE  /\ Bytes[Left(victim, i - 1)] + incoming > max
             /\ \A m \in Left(victim, i - 1) : accessedAt[victim[i]] <= accessedAt[m]
             /\ victim[i] \in Left(victim, i - 1)
  BY <1>2 DEF Evicts
<1>5. \A v \in rows \ K : \E i \in 1..n : victim[i] = v
  BY <1>2 DEF Left
<1>6. \A i \in 1..n : victim[i] \in rows \ K
  BY <1>2 DEF Left
<1>7. \A i \in 1..n : K \subseteq Left(victim, i - 1)
  BY <1>2, <1>n DEF Left
<1>8. ASSUME NEW v \in rows \ K, NEW k \in K
      PROVE  accessedAt[v] <= accessedAt[k]
  BY <1>4, <1>5, <1>7
<1>9. ASSUME rows \ K # {}
      PROVE  \E last \in rows \ K :
               /\ \A v \in rows \ K : accessedAt[v] <= accessedAt[last]
               /\ Bytes[K \cup {last}] + incoming > max
  <2>1. n \in 1..n
    BY <1>5, <1>9, <1>n
  <2>2. ASSUME NEW v \in rows \ K
        PROVE  accessedAt[v] <= accessedAt[victim[n]]
    <3>1. PICK i \in 1..n : victim[i] = v
      BY <1>5
    <3>2. Left(victim, n - 1) \subseteq Left(victim, i - 1)
      BY <1>n DEF Left
    <3> QED
      BY <1>4, <2>1, <3>1, <3>2
  <2>3. Left(victim, n - 1) = K \cup {victim[n]}
    <3>1. Left(victim, n - 1) \subseteq K \cup {victim[n]}
      BY <1>2, <1>n DEF Left
    <3> QED
      BY <1>4, <1>7, <2>1, <3>1
  <2> QED
    BY <1>4, <1>6, <2>1, <2>2, <2>3
<1> QED
  BY <1>1, <1>3, <1>8, <1>9 DEF Kept

\* What Kept allows the loop can leave: it takes the rows that go by their accesses,
\* the one that Kept calls the last at the end.
LEMMA KeptByLoop ==
  ASSUME TypeOK, IsFiniteSet(rows), NEW incoming \in Nat, NEW max \in Nat,
         NEW K \in Kept(incoming, max)
  PROVE  K \in EvictLoop(incoming, max)
<1> DEFINE V == rows \ K
<1>1. K \in SUBSET rows /\ rows \in SUBSET Message /\ (K = {} \/ Bytes[K] + incoming <= max)
  BY DEF Kept, TypeOK
<1>2. \A v \in V, k \in K : accessedAt[v] <= accessedAt[k]
  BY DEF Kept
<1>t. \A m \in rows : accessedAt[m] \in Nat
  BY BoundAssumption DEF TypeOK
<1>3. CASE V = {}
  <2>1. Cardinality(rows) \in Nat /\ 0 \in 0..Cardinality(rows) /\ 1..0 = {}
    BY FS_CardinalityType
  <2>2. [i \in 1..0 |-> 0] \in [1..0 -> rows] /\ K = rows
    BY <1>1, <1>3, <2>1
  <2>3. \A f : Left(f, 0) = rows
    BY <2>1 DEF Left
  <2>4. \A f : Evicts(f, 0, incoming, max)
    BY <1>1, <2>1, <2>2, <2>3 DEF Evicts
  <2> QED
    BY <1>1, <2>1, <2>2, <2>3, <2>4 DEF EvictLoop
<1>4. CASE V # {}
  <2>1. PICK last \in V : /\ \A v \in V : accessedAt[v] <= accessedAt[last]
                          /\ Bytes[K \cup {last}] + incoming > max
    BY <1>4 DEF Kept
  <2>2. IsFiniteSet(V) /\ Cardinality(V) <= Cardinality(rows)
    BY FS_Subset
  <2> DEFINE W == V \ {last}
             n == Cardinality(V)
  <2>3. IsFiniteSet(W) /\ Cardinality(W) = n - 1
    BY <2>2, FS_RemoveElement
  <2>4. n - 1 \in Nat /\ n \in Nat /\ n \in 0..Cardinality(rows)
    BY <2>2, <2>3, FS_CardinalityType
  <2>5. PICK f : ByAccess(f, n - 1, W)
    <3>1. W \in SUBSET rows
      OBVIOUS
    <3>2. \E f : ByAccess(f, Cardinality(W), W)
      BY <2>3, <3>1, OrderedByAccess
    <3> QED
      BY <2>3, <3>2
  <2> DEFINE victim == [i \in 1..n |-> IF i = n THEN last ELSE f[i]]
  <2> HIDE DEF W, n, V
  <2>6. /\ f \in [1..(n - 1) -> W]
        /\ \A v \in W : \E i \in 1..(n - 1) : f[i] = v
        /\ \A i, j \in 1..(n - 1) : i < j =>
             f[i] # f[j] /\ accessedAt[f[i]] <= accessedAt[f[j]]
    BY <2>5 DEF ByAccess
  <2>w. W = V \ {last} /\ V = rows \ K
    BY DEF W, V
  <2>7. /\ victim[n] = last /\ n \in 1..n
        /\ \A i \in 1..n : i # n => i \in 1..(n - 1) /\ victim[i] = f[i]
    <3>1. n # 0
      BY <2>4
    <3> QED
      BY <2>4, <3>1
  <2>8. victim \in [1..n -> V]
    BY <2>4, <2>6, <2>w
  <2>9. \A v \in V : \E i \in 1..n : victim[i] = v
    <3>1. \A i \in 1..(n - 1) : i \in 1..n /\ i # n
      BY <2>4
    <3> HIDE DEF victim
    <3> QED
      BY <2>6, <2>7, <2>w, <3>1
  <2> HIDE DEF victim
  <2>10. \A i, j \in 1..n : i < j =>
           victim[i] # victim[j] /\ accessedAt[victim[i]] <= accessedAt[victim[j]]
    <3> SUFFICES ASSUME NEW i \in 1..n, NEW j \in 1..n, i < j
                 PROVE  victim[i] # victim[j] /\ accessedAt[victim[i]] <= accessedAt[victim[j]]
      OBVIOUS
    <3>1. i # n
      BY <2>4
    <3>2. i \in 1..(n - 1) /\ victim[i] = f[i] /\ f[i] \in W
      BY <2>6, <2>7, <3>1
    <3>3. CASE j = n
      BY <2>1, <2>7, <2>w, <3>2, <3>3
    <3>4. CASE j # n
      BY <2>6, <2>7, <3>2, <3>4
    <3> QED
      BY <3>3, <3>4
  <2>11. Left(victim, n) = K
    BY <1>1, <2>8, <2>9, <2>w DEF Left
  <2>12. ASSUME NEW i \in 1..n
         PROVE  /\ Bytes[Left(victim, i - 1)] + incoming > max
                /\ victim[i] \in Left(victim, i - 1)
                /\ \A m \in Left(victim, i - 1) : accessedAt[victim[i]] <= accessedAt[m]
    <3>1. \A j \in 1..n : j \notin 1..(i - 1) => j = i \/ i < j
      BY <2>4
    <3>2. \A j \in 1..(i - 1) : j \in 1..n /\ j < i
      BY <2>4
    <3>3. \A j \in 1..n : j >= i => victim[j] \in Left(victim, i - 1)
      <4>1. \A j \in 1..n, k \in 1..(i - 1) : j >= i => k < j
        BY <2>4
      <4> QED
        BY <2>8, <2>10, <2>w, <3>2, <4>1 DEF Left
    <3>4. victim[i] \in Left(victim, i - 1)
      BY <3>3, <2>4
    <3>5. ASSUME NEW m \in Left(victim, i - 1)
          PROVE  accessedAt[victim[i]] <= accessedAt[m]
      <4>1. victim[i] \in V
        BY <2>8
      <4>2. CASE m \in K
        BY <1>2, <2>w, <4>1, <4>2 DEF V
      <4>3. CASE m \notin K
        <5>1. m \in V
          BY <2>w, <4>3 DEF Left
        <5>2. PICK j \in 1..n : victim[j] = m
          BY <2>9, <5>1
        <5>3. j \notin 1..(i - 1)
          BY <5>2 DEF Left
        <5>4. j = i \/ i < j
          BY <3>1, <5>3
        <5>5. CASE j = i
          BY <1>t, <2>w, <4>1, <5>2, <5>5
        <5>6. CASE i < j
          BY <2>10, <5>2, <5>6
        <5> QED
          BY <5>4, <5>5, <5>6
      <4> QED
        BY <4>2, <4>3
    <3>6. K \cup {last} \subseteq Left(victim, i - 1) /\ Left(victim, i - 1) \in SUBSET Message
      <4>1. K \subseteq Left(victim, i - 1)
        BY <1>1, <2>8, <2>w, <3>2 DEF Left
      <4>2. last \in Left(victim, i - 1)
        BY <2>7, <3>3, <2>4
      <4>3. Left(victim, i - 1) \subseteq rows
        BY DEF Left
      <4> QED
        BY <1>1, <4>1, <4>2, <4>3
    <3>7. K \cup {last} \in SUBSET Message
      BY <3>6
    <3>8. /\ Bytes[K \cup {last}] <= Bytes[Left(victim, i - 1)]
          /\ Bytes[K \cup {last}] \in Nat /\ Bytes[Left(victim, i - 1)] \in Nat
      BY <3>6, <3>7, BytesMonotone, BytesAssumption
    <3>9. Bytes[Left(victim, i - 1)] + incoming > max
      BY <2>1, <3>8
    <3> QED
      BY <3>4, <3>5, <3>9
  <2>13. Evicts(victim, n, incoming, max)
    BY <1>1, <2>11, <2>12 DEF Evicts
  <2>14. victim \in [1..n -> rows]
    BY <2>8, <2>w
  <2> QED
    BY <1>1, <2>4, <2>11, <2>13, <2>14 DEF EvictLoop
<1> QED
  BY <1>3, <1>4

\* Only a put adds a row, and one: there are finitely many.
LEMMA RowsFiniteStep ==
  ASSUME IsFiniteSet(rows), [Next]_vars
  PROVE  IsFiniteSet(rows')
<1>1. ASSUME NEW S, rows' = rows \ S
      PROVE  IsFiniteSet(rows')
  BY <1>1, FS_Subset
<1>2. ASSUME NEW m, rows' = rows \cup {m}
      PROVE  IsFiniteSet(rows')
  BY <1>2, FS_AddElement
<1>3. CASE rows' = {}
  BY <1>3, FS_EmptySet
<1>4. CASE rows' = rows
  BY <1>4
<1>5. ASSUME NEW S, Remove(S)
      PROVE  IsFiniteSet(rows')
  BY <1>1, <1>5 DEF Remove
<1>6. CASE ClearAll
  BY <1>3, <1>6 DEF ClearAll
<1>7. ASSUME NEW p \in Proc, Block(p)
      PROVE  IsFiniteSet(rows')
  <2>1. CASE Inactive(p) \/ GetMiss(p) \/ GetHit(p) \/ PutOversize(p) \/ SetLimit(p)
    BY <1>4, <2>1 DEF Inactive, GetMiss, GetHit, PutOversize, SetLimit, store
  <2>2. CASE GetStale(p)
    BY <1>1, <2>2 DEF GetStale
  <2>3. CASE PutEvict(p) \/ DeleteMessage(p) \/ Flush(p) \/ FlushAddress(p)
    BY <1>5, <2>3 DEF PutEvict, DeleteMessage, Flush, FlushAddress
  <2>4. CASE PutStore(p)
    BY <1>2, <2>4 DEF PutStore
  <2>5. CASE FlushAll(p) \/ Shrink(p)
    BY <1>5, <1>6, <2>5 DEF FlushAll, Shrink
  <2> QED
    BY <1>7, <2>1, <2>2, <2>3, <2>4, <2>5 DEF Block
<1>8. ASSUME NEW p \in Proc, SetLimitFails(p) \/ BlockFails(p) \/ TakeResult(p)
      PROVE  IsFiniteSet(rows')
  BY <1>4, <1>8 DEF SetLimitFails, BlockFails, TakeResult, store
<1>9. ASSUME NEW p \in Proc, NEW call \in Calls, Call(p, call)
      PROVE  IsFiniteSet(rows')
  BY <1>4, <1>9 DEF Call, store
<1>10. CASE Initialise \/ InitialiseFails \/ Crash \/ Tick \/ UNCHANGED vars
  BY <1>4, <1>10 DEF Initialise, InitialiseFails, Crash, Tick, vars, store
<1> QED
  BY <1>7, <1>8, <1>9, <1>10 DEF Next, CacheStep

\* In every state the condition that the actions use for eviction is what the loop
\* of evictLRU does, whatever the rows, their sizes and the times of their accesses.
THEOREM AlwaysEvictsLeastRecent == Spec => []EvictsLeastRecent
<1>1. TypeOK /\ IsFiniteSet(rows) => EvictsLeastRecent
  <2> SUFFICES ASSUME TypeOK, IsFiniteSet(rows),
                      NEW incoming \in {0} \cup {Size(m) : m \in Message}, NEW max \in Limit
               PROVE  Kept(incoming, max) = EvictLoop(incoming, max)
    BY DEF EvictsLeastRecent
  <2>1. incoming \in Nat /\ max \in Nat
    BY BytesAssumption, LimitAssumption DEF Size
  <2> QED
    BY <2>1, LoopKeeps, KeptByLoop
<1>2. Init => IsFiniteSet(rows)
  BY FS_EmptySet DEF Init
<1>3. IsFiniteSet(rows) /\ [Next]_vars => IsFiniteSet(rows)'
  BY RowsFiniteStep
<1> QED
  BY <1>1, <1>2, <1>3, TypeCorrect, PTL DEF Spec

\* Whatever is asked for, the eviction loop comes to an end.
EvictionEnds == \A incoming, max \in Nat : Kept(incoming, max) # {}

\* Rows in the order of their accesses go one by one; the first rest that fits, or
\* the empty one, is where the loop ends.
LEMMA RestFits ==
  ASSUME TypeOK, IsFiniteSet(rows), NEW incoming \in Nat, NEW max \in Nat
  PROVE  Kept(incoming, max) # {}
<1> DEFINE N == Cardinality(rows)
<1>1. N \in Nat
  BY FS_CardinalityType
<1>2. PICK f : ByAccess(f, N, rows)
  BY OrderedByAccess
<1> HIDE DEF N
<1>3. /\ f \in [1..N -> rows]
      /\ \A v \in rows : \E i \in 1..N : f[i] = v
      /\ \A i, j \in 1..N : i < j => f[i] # f[j] /\ accessedAt[f[i]] <= accessedAt[f[j]]
  BY <1>2 DEF ByAccess
<1>t. rows \in SUBSET Message /\ \A m \in rows : accessedAt[m] \in Nat
  BY BoundAssumption DEF TypeOK
<1> DEFINE Ends(k) == Left(f, k) = {} \/ Bytes[Left(f, k)] + incoming <= max
           T == {k \in 0..N : Ends(k)}
<1>4. N \in T
  <2>1. Left(f, N) = {}
    BY <1>3 DEF Left
  <2> QED
    BY <1>1, <2>1
<1>5. PICK k \in T : \A j \in T : k <= j
  <2>1. T \in SUBSET Nat /\ T # {}
    BY <1>1, <1>4
  <2> HIDE DEF T
  <2> QED
    BY <2>1, LeastNatural
<1>k. k \in Nat /\ k <= N /\ Ends(k)
  BY <1>1, <1>5
<1> DEFINE K == Left(f, k)
<1>6. K \in SUBSET rows
  BY DEF Left
<1>7. ASSUME NEW v \in rows \ K
      PROVE  \E i \in 1..N : i <= k /\ f[i] = v
  BY <1>1, <1>k DEF Left
<1>8. ASSUME NEW v \in K
      PROVE  \E j \in 1..N : j > k /\ f[j] = v
  <2>1. PICK j \in 1..N : f[j] = v
    BY <1>3, <1>6
  <2>2. j \notin 1..k
    BY <1>8, <2>1 DEF Left
  <2> QED
    BY <1>1, <1>k, <2>1, <2>2
<1>9. ASSUME NEW v \in rows \ K, NEW m \in K
      PROVE  accessedAt[v] <= accessedAt[m]
  <2>1. PICK i \in 1..N : i <= k /\ f[i] = v
    BY <1>7
  <2>2. PICK j \in 1..N : j > k /\ f[j] = m
    BY <1>8
  <2>3. i < j
    BY <1>1, <1>k, <2>1, <2>2
  <2> QED
    BY <1>3, <2>1, <2>2, <2>3
<1>10. ASSUME rows \ K # {}
       PROVE  \E last \in rows \ K :
                /\ \A v \in rows \ K : accessedAt[v] <= accessedAt[last]
                /\ Bytes[K \cup {last}] + incoming > max
  <2>1. PICK i \in 1..N : i <= k
    BY <1>7, <1>10
  <2>2. k \in 1..N /\ k \in 1..k /\ k - 1 \in 0..N
    BY <1>1, <1>k, <2>1
  <2>3. f[k] \in rows \ K
    BY <1>3, <2>2 DEF Left
  <2>4. ASSUME NEW v \in rows \ K
        PROVE  accessedAt[v] <= accessedAt[f[k]]
    <3>1. PICK j \in 1..N : j <= k /\ f[j] = v
      BY <1>7
    <3>2. CASE j = k
      BY <1>t, <2>3, <3>1, <3>2
    <3>3. CASE j # k
      <4>1. j < k
        BY <1>k, <3>1, <3>3
      <4> QED
        BY <1>3, <2>2, <3>1, <4>1
    <3> QED
      BY <3>2, <3>3
  <2>5. Left(f, k - 1) = K \cup {f[k]}
    <3>1. \A j \in 1..k : j \in 1..(k - 1) \/ j = k
      BY <1>k
    <3>2. \A j \in 1..(k - 1) : j \in 1..k /\ j \in 1..N /\ j < k
      BY <1>1, <1>k
    <3> QED
      BY <1>3, <2>2, <2>3, <3>1, <3>2 DEF Left
  <2>6. ~Ends(k - 1)
    <3>1. ~(k <= k - 1)
      BY <1>k
    <3> QED
      BY <1>5, <2>2, <3>1
  <2>7. Bytes[K \cup {f[k]}] \in Nat
    BY <1>6, <1>t, <2>3, BytesAssumption
  <2>8. ~(Bytes[K \cup {f[k]}] + incoming <= max)
    BY <2>5, <2>6
  <2> HIDE DEF K
  <2>9. Bytes[K \cup {f[k]}] + incoming > max
    BY <2>7, <2>8
  <2> QED
    BY <2>3, <2>4, <2>9
<1> HIDE DEF K
<1>11. K \in Kept(incoming, max)
  BY <1>6, <1>9, <1>10, <1>k DEF Kept, K
<1> QED
  BY <1>11

\* evictLRU always comes to an end, with whatever rows, sizes and limits: a put
\* that has to make room, or a lowered limit, never waits for it.
THEOREM EvictionAlwaysEnds == Spec => []EvictionEnds
<1>1. TypeOK /\ IsFiniteSet(rows) => EvictionEnds
  BY RestFits DEF EvictionEnds
<1>2. Init => IsFiniteSet(rows)
  BY FS_EmptySet DEF Init
<1>3. IsFiniteSet(rows) /\ [Next]_vars => IsFiniteSet(rows)'
  BY RowsFiniteStep
<1> QED
  BY <1>1, <1>2, <1>3, TypeCorrect, PTL DEF Spec

-----------------------------------------------------------------------------

\* The blocks an operation has before it, at most.
Blocks(o) ==
  CASE o.at \in {"put", "flush", "setLimit"} -> 2
    [] o.at \in {"get", "store", "delete", "flushAddress", "flushAll", "shrink"} -> 1
    [] OTHER -> 0

\* Until it has none, a step takes one from it or leaves it alone.
Advances(p) ==
  Blocks(op[p]) > 0 => op'[p] = op[p] \/ Blocks(op'[p]) < Blocks(op[p])

\* A block, or one that throws, takes one from the operation of its activity and
\* leaves the others where they are.
LEMMA BlockAdvances ==
  ASSUME TypeOK, NEW p \in Proc, Block(p) \/ SetLimitFails(p) \/ BlockFails(p)
  PROVE  /\ \A q \in Proc \ {p} : op'[q] = op[q]
         /\ Blocks(op'[p]) < Blocks(op[p])
<1>t. op \in [Proc -> Op] /\ op[p] \in Op
  BY DEF TypeOK
<1>i. Blocks(Idle) = 0 /\ \A m, b : Blocks(Returned(m, b)) = 0
  BY DEF Blocks, Idle, Returned
<1>1. CASE Inactive(p)
  BY <1>1, <1>t, <1>i DEF Inactive, Goto, Blocks
<1>2. CASE GetMiss(p) \/ GetHit(p) \/ GetStale(p)
  BY <1>2, <1>t, <1>i DEF GetMiss, GetHit, GetStale, Goto, Blocks
<1>3. CASE PutOversize(p) \/ PutStore(p) \/ DeleteMessage(p) \/ FlushAddress(p)
  BY <1>3, <1>t, <1>i
  DEF PutOversize, PutStore, DeleteMessage, FlushAddress, Finish, Goto, Blocks
<1>4. CASE PutEvict(p)
  BY <1>4, <1>t DEF PutEvict, Goto, Blocks
<1>5. CASE Flush(p)
  BY <1>5, <1>t, <1>i DEF Flush, Finish, Goto, Blocks
<1>6. CASE FlushAll(p) \/ Shrink(p)
  BY <1>6, <1>t, <1>i DEF FlushAll, Shrink, Finish, Goto, Blocks
<1>7. CASE SetLimit(p)
  BY <1>7, <1>t, <1>i DEF SetLimit, Finish, Goto, Blocks
<1>8. CASE SetLimitFails(p)
  BY <1>8, <1>t, <1>i DEF SetLimitFails, Finish, Goto, Blocks
<1>9. CASE BlockFails(p)
  <2>1. Blocks(op[p]) > 0
    BY <1>9, <1>t DEF BlockFails, Op, Idle, Blocks
  <2>2. Blocks(op'[p]) = 0 /\ \A q \in Proc \ {p} : op'[q] = op[q]
    BY <1>9, <1>t, <1>i DEF BlockFails, Goto
  <2> QED
    BY <2>1, <2>2
<1> QED
  BY <1>1, <1>2, <1>3, <1>4, <1>5, <1>6, <1>7, <1>8, <1>9 DEF Block

\* No operation of the cache takes more than two blocks, whatever happens beside
\* it: none is retried, none is sent back by a limit that was changed meanwhile.
THEOREM OperationsAdvance == Spec => [][\A p \in Proc : Advances(p)]_vars
<1>1. ASSUME TypeOK, [Next]_vars
      PROVE  [\A p \in Proc : Advances(p)]_vars
  <2>i. Blocks(Idle) = 0
    BY DEF Blocks, Idle
  <2>t. op \in [Proc -> Op] /\ Blocks(Idle) = 0
    BY <1>1, <2>i DEF TypeOK
  <2>1. ASSUME NEW p \in Proc, Block(p) \/ SetLimitFails(p) \/ BlockFails(p)
        PROVE  \A q \in Proc : Advances(q)
    <3>1. /\ \A q \in Proc \ {p} : op'[q] = op[q]
          /\ Blocks(op'[p]) < Blocks(op[p])
      BY <1>1, <2>1, BlockAdvances
    <3> QED
      BY <3>1 DEF Advances
  <2>2. ASSUME NEW p \in Proc, TakeResult(p) \/ \E call \in Calls : Call(p, call)
        PROVE  \A q \in Proc : Advances(q)
    <3>1. Blocks(op[p]) = 0
      BY <2>2, <2>t DEF TakeResult, Call, Blocks
    <3>2. \A q \in Proc : q # p => op'[q] = op[q]
      BY <2>2, <2>t DEF TakeResult, Call, Finish, Goto
    <3> QED
      BY <3>1, <3>2 DEF Advances
  <2>3. CASE Crash
    <3>1. \A q \in Proc : Blocks(op'[q]) = 0
      BY <2>3, <2>t DEF Crash
    <3> QED
      BY <3>1 DEF Advances
  <2>4. CASE Initialise \/ InitialiseFails \/ Tick
    BY <2>4 DEF Initialise, InitialiseFails, Tick, Advances
  <2> QED
    BY <1>1, <2>1, <2>2, <2>3, <2>4 DEF Next, CacheStep
<1> QED
  BY <1>1, TypeCorrect, PTL DEF Spec

-----------------------------------------------------------------------------
(* The cache inside the client *)

(***************************************************************************)
(* A client call and the cache operation of its activity: the activity of  *)
(* a call that is at the service or at S3 has none under way, and that of  *)
(* a read asking the cache has the get of its message.                     *)
(***************************************************************************)
Waiting == {"lookup", "download", "delete", "deleted", "deprovision", "deprovisioned"}

Uses(t, o) ==
  /\ t.at \in Waiting => o = Idle
  /\ t.at = "cache" => o.at \in {"get", "returned"} /\ o.msg = t.msg

UsesCache == \A p \in Proc : Uses(task[p], op[p])

ServiceTypes ==
  /\ exists \in SUBSET Message
  /\ events \in SUBSET Message
  /\ task \in [Proc -> Task]
  /\ result \in [Proc -> Result]
  /\ purged \in SUBSET Message
  /\ readable \in SUBSET Message

\* What a client call carries, from where it is.
LEMMA TaskFields ==
  ASSUME NEW t \in Task
  PROVE  /\ t.at \in {"none", "lookup", "cache", "download", "delete", "deleted",
                      "deprovision", "deprovisioned"}
         /\ t.at \in {"lookup", "cache", "download"} =>
              /\ t \in Read /\ t.msg \in Message /\ t.address \in Address
              /\ t.late \in BOOLEAN
         /\ t.at \in {"delete", "deleted"} => t.msg \in Message
         /\ t.at \in {"deprovision", "deprovisioned"} => t.address \in Address
         /\ t.at = "none" => t = NoTask
  BY DEF Task, Read, NoTask

\* A flush by address is one of the inputs flush accepts.
LEMMA AddressInput ==
  ASSUME NEW a \in Address, a # None
  PROVE  [sudo |-> None, address |-> a] \in FlushInput
  BY DEF FlushInput

(***************************************************************************)
(* Every step of the client is a step of the cache, or leaves it alone.    *)
(***************************************************************************)
LEMMA StepOfCache ==
  ASSUME TypeOK, ServiceTypes, UsesCache, [ServiceNext]_allVars
  PROVE  [Next]_vars
<1>t. \A p \in Proc : task[p] \in Task
  BY DEF ServiceTypes
<1>c. ASSUME NEW p \in Proc, op[p] = Idle, NEW c \in Calls, Goto(p, c), UNCHANGED cache
      PROVE  Next
  BY <1>c DEF Next, Call, cache
<1>f. ASSUME NEW p \in Proc, op[p].at = "returned", Finish(p), UNCHANGED cache
      PROVE  Next
  BY <1>f DEF Next, TakeResult, cache
<1>1. ASSUME NEW p \in Proc, Begins(p)
      PROVE  [Next]_vars
  <2>1. ASSUME NEW m \in Message, NEW a \in Address, ReadMessage(p, m, a)
        PROVE  [Next]_vars
    BY <2>1 DEF ReadMessage
  <2>2. ASSUME NEW m \in Message, DeleteMessages(p, m)
        PROVE  [Next]_vars
    BY <2>2 DEF DeleteMessages
  <2>3. ASSUME NEW m \in Message, DeletionEvent(p, m)
        PROVE  [Next]_vars
    <3>1. [at |-> "delete", msg |-> m] \in Calls
      BY DEF Calls
    <3> QED
      BY <2>3, <3>1, <1>c DEF DeletionEvent, Free
  <2>4. ASSUME NEW a \in Address, Deprovision(p, a)
        PROVE  [Next]_vars
    BY <2>4 DEF Deprovision
  <2>5. CASE UserCall(p)
    BY <2>5 DEF UserCall, Next
  <2>6. CASE Reset(p)
    <3>1. [at |-> "flushAll"] \in Calls
      BY DEF Calls
    <3> QED
      BY <2>6, <3>1 DEF Reset, Next
  <2> QED
    BY <1>1, <2>1, <2>2, <2>3, <2>4, <2>5, <2>6 DEF Begins
<1>2. ASSUME NEW p \in Proc, ReadStep(p)
      PROVE  [Next]_vars
  <2>1. CASE LookupUnknown(p) \/ LookupRejected(p) \/ DownloadMissing(p) \/ DownloadRejected(p)
    BY <2>1 DEF LookupUnknown, LookupRejected, DownloadMissing, DownloadRejected
  <2>2. CASE LookupFound(p)
    <3>1. op[p] = Idle /\ [at |-> "get", msg |-> task[p].msg] \in Calls
      BY <2>2, <1>t, TaskFields DEF LookupFound, UsesCache, Uses, Waiting, Calls
    <3> QED
      BY <2>2, <3>1, <1>c DEF LookupFound
  <2>3. CASE CacheHit(p)
    BY <2>3, <1>f DEF CacheHit
  <2>4. CASE CacheMiss(p)
    BY <2>4, <1>f DEF CacheMiss
  <2>5. CASE Downloaded(p)
    <3>1. op[p] = Idle /\ [at |-> "put", msg |-> task[p].msg] \in Calls
      BY <2>5, <1>t, TaskFields DEF Downloaded, UsesCache, Uses, Waiting, Calls
    <3> QED
      BY <2>5, <3>1, <1>c DEF Downloaded
  <2> QED
    BY <1>2, <2>1, <2>2, <2>3, <2>4, <2>5 DEF ReadStep
<1>3. ASSUME NEW p \in Proc, DeleteStep(p)
      PROVE  [Next]_vars
  <2>1. CASE ServiceDeletes(p) \/ DeleteRefused(p) \/ ServiceDeprovisions(p) \/ AnswerLost(p)
    BY <2>1 DEF ServiceDeletes, DeleteRefused, ServiceDeprovisions, AnswerLost
  <2>2. CASE DeleteAnswered(p)
    <3>1. op[p] = Idle /\ [at |-> "delete", msg |-> task[p].msg] \in Calls
      BY <2>2, <1>t, TaskFields DEF DeleteAnswered, UsesCache, Uses, Waiting, Calls
    <3> QED
      BY <2>2, <3>1, <1>c DEF DeleteAnswered
  <2>3. CASE DeprovisionAnswered(p)
    <3>1. op[p] = Idle /\ task[p].address \in Address
      BY <2>3, <1>t, TaskFields DEF DeprovisionAnswered, UsesCache, Uses, Waiting
    <3>2. [at |-> "flush", input |-> [sudo |-> None, address |-> task[p].address]] \in Calls
      BY <3>1, AddressInput, OwnerAssumption DEF Calls
    <3> QED
      BY <2>3, <3>1, <3>2, <1>c DEF DeprovisionAnswered
  <2> QED
    BY <1>3, <2>1, <2>2, <2>3 DEF DeleteStep
<1>4. ASSUME NEW p \in Proc, CacheBlock(p) \/ CacheFailure(p)
      PROVE  [Next]_vars
  BY <1>4 DEF CacheBlock, CacheFailure, Next, CacheStep
<1>5. ASSUME NEW m \in Message, DeletedElsewhere(m) \/ DeletionEventLost(m)
      PROVE  [Next]_vars
  BY <1>5 DEF DeletedElsewhere, DeletionEventLost
<1>6. CASE StartCache \/ KeysChange
  BY <1>6 DEF StartCache, KeysChange, Next, CacheStep
<1>7. CASE ClientCrash
  BY <1>7 DEF ClientCrash, Next
<1>8. CASE UNCHANGED allVars
  BY <1>8 DEF allVars
<1> QED
  BY <1>1, <1>2, <1>3, <1>4, <1>5, <1>6, <1>7, <1>8 DEF ServiceNext

(***************************************************************************)
(* The client's own state keeps its types.                                 *)
(***************************************************************************)
LEMMA ResolveType ==
  ASSUME ServiceTypes, NEW p \in Proc, NEW body \in Outcome,
         task[p].at \in {"lookup", "cache", "download"}, Resolve(p, body)
  PROVE  /\ task' = [task EXCEPT ![p] = NoTask] /\ task' \in [Proc -> Task]
         /\ result' = [result EXCEPT ![p] =
              [msg |-> task[p].msg, body |-> body, late |-> task[p].late]]
         /\ result' \in [Proc -> Result]
<1>1. task[p] \in Task /\ NoTask \in Task
  BY DEF ServiceTypes, Task
<1>2. [msg |-> task[p].msg, body |-> body, late |-> task[p].late] \in Result
  BY <1>1, TaskFields DEF Result
<1> QED
  BY <1>1, <1>2 DEF Resolve, Advance, ServiceTypes

LEMMA AdvanceType ==
  ASSUME ServiceTypes, NEW p \in Proc, NEW next \in Task, Advance(p, next)
  PROVE  task' \in [Proc -> Task]
  BY DEF Advance, ServiceTypes

LEMMA ServiceTypesStep ==
  ASSUME TypeOK, ServiceTypes, [ServiceNext]_allVars
  PROVE  ServiceTypes'
<1> USE DEF ServiceTypes
<1>n. NoTask \in Task
  BY DEF Task
<1>t. \A p \in Proc : task[p] \in Task
  OBVIOUS
<1>1. ASSUME NEW p \in Proc, Begins(p)
      PROVE  ServiceTypes'
  <2>1. ASSUME NEW m \in Message, NEW a \in Address, ReadMessage(p, m, a)
        PROVE  ServiceTypes'
    <3> DEFINE next == [at |-> "lookup", msg |-> m, address |-> a, late |-> m \notin exists]
    <3>1. next \in Task
      <4>1. (m \notin exists) \in BOOLEAN
        OBVIOUS
      <4>2. next \in Read
        BY <4>1 DEF Read
      <4> QED
        BY <4>2 DEF Task
    <3>2. task' = [task EXCEPT ![p] = next]
      BY <2>1 DEF ReadMessage, Begin
    <3>3. NoResult \in Result
      BY DEF Result
    <3> QED
      BY <2>1, <3>1, <3>2, <3>3 DEF ReadMessage
  <2>2. ASSUME NEW m \in Message, DeleteMessages(p, m)
        PROVE  ServiceTypes'
    <3>1. [at |-> "delete", msg |-> m] \in Task
      BY DEF Task
    <3> QED
      BY <2>2, <3>1 DEF DeleteMessages, Begin
  <2>3. ASSUME NEW m \in Message, DeletionEvent(p, m)
        PROVE  ServiceTypes'
    BY <2>3 DEF DeletionEvent
  <2>4. ASSUME NEW a \in Address, Deprovision(p, a)
        PROVE  ServiceTypes'
    <3>1. [at |-> "deprovision", address |-> a] \in Task
      BY DEF Task
    <3> QED
      BY <2>4, <3>1 DEF Deprovision, Begin
  <2>5. CASE UserCall(p)
    BY <2>5 DEF UserCall, service
  <2>6. CASE Reset(p)
    BY <2>6 DEF Reset
  <2> QED
    BY <1>1, <2>1, <2>2, <2>3, <2>4, <2>5, <2>6 DEF Begins
<1>2. ASSUME NEW p \in Proc, ReadStep(p)
      PROVE  ServiceTypes'
  <2>1. CASE LookupUnknown(p) \/ LookupRejected(p) \/ DownloadMissing(p) \/ DownloadRejected(p)
    BY <2>1, ResolveType
    DEF LookupUnknown, LookupRejected, DownloadMissing, DownloadRejected, Outcome
  <2>2. CASE LookupFound(p)
    <3>1. [task[p] EXCEPT !.at = "cache"] \in Task
      BY <2>2, <1>t, TaskFields DEF LookupFound, Task, Read
    <3> QED
      BY <2>2, <3>1, AdvanceType DEF LookupFound
  <2>3. CASE CacheHit(p)
    BY <2>3, ResolveType DEF CacheHit, Decoded, Outcome
  <2>4. CASE CacheMiss(p)
    <3>1. [task[p] EXCEPT !.at = "download"] \in Task
      BY <2>4, <1>t, TaskFields DEF CacheMiss, Task, Read
    <3> QED
      BY <2>4, <3>1, AdvanceType DEF CacheMiss
  <2>5. CASE Downloaded(p)
    BY <2>5, ResolveType DEF Downloaded, Decoded, Outcome
  <2> QED
    BY <1>2, <2>1, <2>2, <2>3, <2>4, <2>5 DEF ReadStep
<1>3. ASSUME NEW p \in Proc, DeleteStep(p)
      PROVE  ServiceTypes'
  <2>1. CASE ServiceDeletes(p)
    <3>1. /\ task[p].msg \in Message
          /\ [at |-> "deleted", msg |-> task[p].msg] \in Task
      BY <2>1, <1>t, TaskFields DEF ServiceDeletes, Task
    <3> QED
      BY <2>1, <3>1, AdvanceType DEF ServiceDeletes
  <2>2. CASE DeleteRefused(p) \/ AnswerLost(p)
    BY <2>2, <1>n, AdvanceType DEF DeleteRefused, AnswerLost
  <2>3. CASE DeleteAnswered(p)
    BY <2>3, <1>n, AdvanceType DEF DeleteAnswered
  <2>4. CASE ServiceDeprovisions(p)
    <3>1. [at |-> "deprovisioned", address |-> task[p].address] \in Task
      BY <2>4, <1>t, TaskFields DEF ServiceDeprovisions, Task
    <3> QED
      BY <2>4, <3>1, AdvanceType DEF ServiceDeprovisions
  <2>5. CASE DeprovisionAnswered(p)
    BY <2>5, <1>n, AdvanceType DEF DeprovisionAnswered
  <2> QED
    BY <1>3, <2>1, <2>2, <2>3, <2>4, <2>5 DEF DeleteStep
<1>4. ASSUME NEW p \in Proc, CacheBlock(p) \/ CacheFailure(p)
      PROVE  ServiceTypes'
  <2>1. CASE CacheFailure(p)
    BY <2>1 DEF CacheFailure, service
  <2>2. CASE CacheBlock(p)
    <3>1. PurgeScope(p) \ exists \subseteq Message \ exists
      <4>1. CASE op[p].at = "delete" /\ IsCacheActive
        BY <4>1, OpFields DEF PurgeScope, TypeOK
      <4> QED
        BY <4>1 DEF PurgeScope
    <3> QED
      BY <2>2, <3>1 DEF CacheBlock
  <2> QED
    BY <1>4, <2>1, <2>2
<1>5. ASSUME NEW m \in Message, DeletedElsewhere(m) \/ DeletionEventLost(m)
      PROVE  ServiceTypes'
  BY <1>5 DEF DeletedElsewhere, DeletionEventLost
<1>6. CASE StartCache \/ KeysChange
  BY <1>6 DEF StartCache, KeysChange, service
<1>7. CASE ClientCrash
  BY <1>7, <1>n DEF ClientCrash
<1>8. CASE UNCHANGED allVars
  BY <1>8 DEF allVars, service
<1> QED
  BY <1>1, <1>2, <1>3, <1>4, <1>5, <1>6, <1>7, <1>8 DEF ServiceNext

\* A get under way, failing or not, returns for its message and no other.
LEMMA GetReturns ==
  ASSUME TypeOK, NEW p \in Proc, op[p].at = "get", CacheBlock(p) \/ CacheFailure(p)
  PROVE  \E o \in Op : op' = [op EXCEPT ![p] = o] /\ o.at = "returned" /\ o.msg = op[p].msg
<1>1. op[p] \in Op /\ op[p].msg \in Message
  BY OpFields DEF TypeOK
<1>2. ASSUME NEW b, op' = [op EXCEPT ![p] = Returned(op[p].msg, b)], b \in Blob
      PROVE  \E o \in Op : op' = [op EXCEPT ![p] = o] /\ o.at = "returned" /\ o.msg = op[p].msg
  <2>1. Returned(op[p].msg, b) \in Op
    BY <1>1, <1>2 DEF Returned, Op
  <2> QED
    BY <1>2, <2>1 DEF Returned
<1>3. "absent" \in Blob /\ "whole" \in Blob /\ \A m \in Message : blob[m] \in Blob
  BY DEF TypeOK, Blob
<1>4. CASE CacheFailure(p)
  BY <1>2, <1>3, <1>4 DEF CacheFailure, SetLimitFails, BlockFails, Goto
<1>5. CASE CacheBlock(p)
  <2>1. Inactive(p) \/ GetMiss(p) \/ GetHit(p) \/ GetStale(p)
    BY <1>5 DEF CacheBlock, Block, PutOversize, PutEvict, PutStore, DeleteMessage,
                Flush, FlushAddress, FlushAll, SetLimit, Shrink
  <2> QED
    BY <1>1, <1>2, <1>3, <2>1 DEF Inactive, GetMiss, GetHit, GetStale, Goto
<1> QED
  BY <1>4, <1>5

LEMMA UsesCacheStep ==
  ASSUME TypeOK, ServiceTypes, UsesCache, [ServiceNext]_allVars
  PROVE  UsesCache'
<1>t. /\ op \in [Proc -> Op] /\ task \in [Proc -> Task]
      /\ \A p \in Proc : task[p] \in Task
  BY DEF TypeOK, ServiceTypes
<1>n. NoTask.at \notin Waiting /\ NoTask.at # "cache"
  BY DEF NoTask, Waiting
<1>o. ASSUME NEW p \in Proc, NEW t, NEW o,
             task' = [task EXCEPT ![p] = t], op' = [op EXCEPT ![p] = o], Uses(t, o)
      PROVE  UsesCache'
  BY <1>o, <1>t DEF UsesCache
<1>u. ASSUME NEW p \in Proc, NEW t,
             task' = [task EXCEPT ![p] = t], UNCHANGED op, Uses(t, op[p])
      PROVE  UsesCache'
  BY <1>u, <1>t DEF UsesCache
<1>p. ASSUME NEW p \in Proc, NEW o,
             op' = [op EXCEPT ![p] = o], UNCHANGED task, Uses(task[p], o)
      PROVE  UsesCache'
  BY <1>p, <1>t DEF UsesCache
<1>1. ASSUME NEW p \in Proc, Begins(p)
      PROVE  UsesCache'
  <2>1. ASSUME NEW m \in Message, NEW a \in Address, ReadMessage(p, m, a)
        PROVE  UsesCache'
    <3> DEFINE next == [at |-> "lookup", msg |-> m, address |-> a, late |-> m \notin exists]
    <3>1. op[p] = Idle /\ task' = [task EXCEPT ![p] = next] /\ UNCHANGED op
      BY <2>1 DEF ReadMessage, Begin, Free, vars
    <3>2. next.at = "lookup"
      OBVIOUS
    <3> HIDE DEF next
    <3> QED
      BY <3>1, <3>2, <1>u DEF Uses
  <2>2. ASSUME NEW m \in Message, DeleteMessages(p, m)
        PROVE  UsesCache'
    BY <2>2, <1>u DEF DeleteMessages, Begin, Free, Uses, vars
  <2>3. ASSUME NEW m \in Message, DeletionEvent(p, m)
        PROVE  UsesCache'
    BY <2>3, <1>n, <1>p DEF DeletionEvent, Free, Goto, Uses
  <2>4. ASSUME NEW a \in Address, Deprovision(p, a)
        PROVE  UsesCache'
    BY <2>4, <1>u DEF Deprovision, Begin, Free, Uses, vars
  <2>5. CASE UserCall(p)
    BY <2>5, <1>n, <1>p DEF UserCall, Call, Goto, Uses, service
  <2>6. CASE Reset(p)
    BY <2>6, <1>n, <1>p DEF Reset, Call, Goto, Uses
  <2> QED
    BY <1>1, <2>1, <2>2, <2>3, <2>4, <2>5, <2>6 DEF Begins
<1>2. ASSUME NEW p \in Proc, ReadStep(p)
      PROVE  UsesCache'
  <2>1. CASE LookupUnknown(p) \/ LookupRejected(p) \/ DownloadMissing(p) \/ DownloadRejected(p)
    BY <2>1, <1>n, <1>u DEF LookupUnknown, LookupRejected, DownloadMissing, DownloadRejected,
                            Resolve, Advance, Uses, vars
  <2>2. CASE LookupFound(p)
    <3>1. task[p] \in Read
      BY <2>2, <1>t, TaskFields DEF LookupFound
    <3>2. Uses([task[p] EXCEPT !.at = "cache"], [at |-> "get", msg |-> task[p].msg])
      BY <3>1 DEF Uses, Read, Waiting
    <3> QED
      BY <2>2, <3>2, <1>o DEF LookupFound, Advance, Goto
  <2>3. CASE CacheHit(p)
    BY <2>3, <1>n, <1>o DEF CacheHit, Resolve, Advance, Finish, Goto, Uses
  <2>4. CASE CacheMiss(p)
    <3>1. task[p] \in Read
      BY <2>4, <1>t, TaskFields DEF CacheMiss
    <3>2. Uses([task[p] EXCEPT !.at = "download"], Idle)
      BY <3>1 DEF Uses, Read
    <3> QED
      BY <2>4, <3>2, <1>o DEF CacheMiss, Advance, Finish, Goto
  <2>5. CASE Downloaded(p)
    BY <2>5, <1>n, <1>o DEF Downloaded, Resolve, Advance, Goto, Uses
  <2> QED
    BY <1>2, <2>1, <2>2, <2>3, <2>4, <2>5 DEF ReadStep
<1>3. ASSUME NEW p \in Proc, DeleteStep(p)
      PROVE  UsesCache'
  <2>1. CASE ServiceDeletes(p) \/ ServiceDeprovisions(p)
    <3>1. op[p] = Idle /\ UNCHANGED op
      BY <2>1 DEF ServiceDeletes, ServiceDeprovisions, UsesCache, Uses, Waiting, vars
    <3> QED
      BY <2>1, <3>1, <1>u DEF ServiceDeletes, ServiceDeprovisions, Advance, Uses
  <2>2. CASE DeleteRefused(p) \/ AnswerLost(p)
    BY <2>2, <1>n, <1>u DEF DeleteRefused, AnswerLost, Advance, Uses, vars
  <2>3. CASE DeleteAnswered(p) \/ DeprovisionAnswered(p)
    BY <2>3, <1>n, <1>o DEF DeleteAnswered, DeprovisionAnswered, Advance, Goto, Uses
  <2> QED
    BY <1>3, <2>1, <2>2, <2>3 DEF DeleteStep
<1>4. ASSUME NEW p \in Proc, CacheBlock(p) \/ CacheFailure(p)
      PROVE  UsesCache'
  <2>1. UNCHANGED task
    BY <1>4 DEF CacheBlock, CacheFailure, service
  <2>2. op[p].at \notin {"idle", "returned"} /\ op[p] # Idle
    BY <1>4 DEF CacheBlock, CacheFailure, BlockFails, SetLimitFails, Block, Inactive,
                GetMiss, GetHit, GetStale, PutOversize, PutEvict, PutStore,
                DeleteMessage, Flush, FlushAddress, FlushAll, SetLimit, Shrink, Idle
  <2>3. task[p].at \notin Waiting
    BY <2>2 DEF UsesCache, Uses
  <2>4. CASE op[p].at = "get"
    <3>1. PICK o \in Op : op' = [op EXCEPT ![p] = o] /\ o.at = "returned" /\ o.msg = op[p].msg
      BY <1>4, <2>4, GetReturns
    <3> QED
      BY <2>1, <2>3, <3>1, <1>p DEF UsesCache, Uses
  <2>5. CASE op[p].at # "get"
    <3>1. task[p].at # "cache"
      BY <2>2, <2>5 DEF UsesCache, Uses
    <3>2. \E o : op' = [op EXCEPT ![p] = o]
      BY <1>4 DEF CacheBlock, CacheFailure, BlockFails, SetLimitFails, Block, Inactive,
                  GetMiss, GetHit, GetStale, PutOversize, PutEvict, PutStore, DeleteMessage,
                  Flush, FlushAddress, FlushAll, SetLimit, Shrink, Goto, Finish
    <3> QED
      BY <2>1, <2>3, <3>1, <3>2, <1>p DEF Uses
  <2> QED
    BY <2>4, <2>5
<1>5. ASSUME NEW m \in Message, DeletedElsewhere(m) \/ DeletionEventLost(m)
      PROVE  UsesCache'
  BY <1>5 DEF DeletedElsewhere, DeletionEventLost, vars, UsesCache
<1>6. CASE StartCache \/ KeysChange
  BY <1>6 DEF StartCache, KeysChange, Initialise, InitialiseFails, service, vars, UsesCache
<1>7. CASE ClientCrash
  <2>1. op' = [p \in Proc |-> Idle] /\ task' = [p \in Proc |-> NoTask]
    BY <1>7 DEF ClientCrash, Crash
  <2> QED
    BY <2>1, <1>n DEF UsesCache, Uses
<1>8. CASE UNCHANGED allVars
  BY <1>8 DEF allVars, vars, service, UsesCache
<1> QED
  BY <1>1, <1>2, <1>3, <1>4, <1>5, <1>6, <1>7, <1>8 DEF ServiceNext

-----------------------------------------------------------------------------

LEMMA ClientInvariants == ServiceSpec => [](TypeOK /\ ServiceTypes /\ UsesCache)
<1>1. ServiceInit => TypeOK /\ ServiceTypes /\ UsesCache
  <2>1. NoTask \in Task /\ NoResult \in Result /\ NoTask.at \notin Waiting \cup {"cache"}
    BY DEF Task, Result, NoTask, Waiting
  <2>2. ServiceInit => ServiceTypes /\ UsesCache
    BY <2>1 DEF ServiceInit, ServiceTypes, UsesCache, Uses
  <2>3. Init => TypeOK
    BY InitTyped
  <2> QED
    BY <2>2, <2>3 DEF ServiceInit
<1>2. TypeOK /\ ServiceTypes /\ UsesCache /\ [ServiceNext]_allVars
        => (TypeOK /\ ServiceTypes /\ UsesCache)'
  BY StepOfCache, TypeOKStep, ServiceTypesStep, UsesCacheStep
<1> QED
  BY <1>1, <1>2, PTL DEF ServiceSpec

\* The cache, the service and the client calls stay of their types.
THEOREM ServiceTypeCorrect == ServiceSpec => []ServiceTypeOK
<1>1. TypeOK /\ ServiceTypes => ServiceTypeOK
  BY DEF ServiceTypes, ServiceTypeOK
<1> QED
  BY <1>1, ClientInvariants, PTL

\* Reads, deletions, deprovisioning, events and reset() use the cache as its
\* callers may: an activity has one operation under way, and takes its result.
THEOREM ClientUsesCache == ServiceSpec => Spec
<1>1. ServiceInit => Init
  BY DEF ServiceInit
<1>2. TypeOK /\ ServiceTypes /\ UsesCache /\ [ServiceNext]_allVars => [Next]_vars
  BY StepOfCache
<1> QED
  BY <1>1, <1>2, ClientInvariants, PTL DEF ServiceSpec, Spec

\* So the cache of a client never outgrows its limit by more than a body for
\* each further activity, whatever the client calls and the service do.
THEOREM ClientOverrunBounded == ServiceSpec => []OverrunBounded
  BY ClientUsesCache, OverrunAlwaysBounded, PTL

\* Without failures the files in the blobs directory are those of the rows.
THEOREM ClientBlobsMatchRows == ServiceSpec => []BlobsMatchRows
  BY ClientUsesCache, BlobsAlwaysMatchRows, PTL

\* A limit that the user sets in an application is the one its cache keeps to.
THEOREM ClientLimitInSync == ServiceSpec => []LimitInSync
  BY ClientUsesCache, LimitStaysInSync, PTL

\* The cache of a client evicts as evictLRU does.
THEOREM ClientEvictsLeastRecent == ServiceSpec => []EvictsLeastRecent
  BY ClientUsesCache, AlwaysEvictsLeastRecent, PTL

\* With one call at a time and nothing failing, the cache of a client is the store
\* that emailMessageBodyCache.ts promises.
THEOREM ClientKeepsPromise ==
  ASSUME NEW p \in Proc, OneAtATime(p)
  PROVE  ServiceSpec => KeepsPromise
  BY ClientUsesCache, CacheKeepsPromise, PTL

\* No operation that a client starts on its cache takes more than two blocks.
THEOREM ClientOperationsAdvance ==
  ServiceSpec => [][\A p \in Proc : Advances(p)]_vars
  BY ClientUsesCache, OperationsAdvance, PTL

-----------------------------------------------------------------------------
(* What reads may serve *)

\* A read that began after the deletion of its message has not got past the
\* service's answer: the message never comes back.
LateIsUnknown ==
  \A p \in Proc :
    task[p].at \in {"lookup", "cache", "download"} /\ task[p].late =>
      task[p].at = "lookup" /\ task[p].msg \notin exists

\* What is purged for good is gone from the service, so that no read can find it
\* there any more, and none that had found it before is still on its way.
PurgedForGood == \A m \in purged : m \notin exists /\ m \notin rows /\ ~InFlight(m)

LEMMA ReadsLateStep ==
  ASSUME ServiceTypes, LateIsUnknown, LateReadsServeNothing, [ServiceNext]_allVars
  PROVE  LateIsUnknown' /\ LateReadsServeNothing'
<1> USE DEF LateIsUnknown, LateReadsServeNothing
<1> DEFINE Reading == {"lookup", "cache", "download"}
           Early(t, there) == t.at \in Reading /\ t.late => t.at = "lookup" /\ t.msg \notin there
<1>t. /\ task \in [Proc -> Task] /\ result \in [Proc -> Result]
      /\ \A p \in Proc : task[p] \in Task
  BY DEF ServiceTypes
<1>n. NoTask.at \notin Reading
  BY DEF NoTask
<1>a. ASSUME NEW p \in Proc, NEW t, task' = [task EXCEPT ![p] = t],
             exists' \subseteq exists,
             UNCHANGED result \/ result' = [result EXCEPT ![p] = NoResult],
             Early(t, exists)
      PROVE  LateIsUnknown' /\ LateReadsServeNothing'
  BY <1>a, <1>t DEF NoResult
<1>r. ASSUME NEW p \in Proc, NEW body, Resolve(p, body), UNCHANGED exists,
             body = "served" => ~task[p].late
      PROVE  LateIsUnknown' /\ LateReadsServeNothing'
  BY <1>r, <1>t, <1>n DEF Resolve, Advance
<1>1. ASSUME NEW p \in Proc, Begins(p)
      PROVE  LateIsUnknown' /\ LateReadsServeNothing'
  <2>1. ASSUME NEW m \in Message, NEW a \in Address, ReadMessage(p, m, a)
        PROVE  LateIsUnknown' /\ LateReadsServeNothing'
    <3> DEFINE next == [at |-> "lookup", msg |-> m, address |-> a, late |-> m \notin exists]
    <3>1. Early(next, exists)
      OBVIOUS
    <3>2. /\ task' = [task EXCEPT ![p] = next] /\ UNCHANGED exists
          /\ result' = [result EXCEPT ![p] = NoResult]
      BY <2>1 DEF ReadMessage, Begin
    <3> HIDE DEF next, Early
    <3> QED
      BY <3>1, <3>2, <1>a
  <2>2. ASSUME NEW m \in Message, DeleteMessages(p, m)
        PROVE  LateIsUnknown' /\ LateReadsServeNothing'
    BY <2>2, <1>a DEF DeleteMessages, Begin
  <2>3. ASSUME NEW m \in Message, DeletionEvent(p, m)
        PROVE  LateIsUnknown' /\ LateReadsServeNothing'
    BY <2>3 DEF DeletionEvent
  <2>4. ASSUME NEW a \in Address, Deprovision(p, a)
        PROVE  LateIsUnknown' /\ LateReadsServeNothing'
    BY <2>4, <1>a DEF Deprovision, Begin
  <2>5. CASE UserCall(p)
    BY <2>5 DEF UserCall, service
  <2>6. CASE Reset(p)
    BY <2>6 DEF Reset
  <2> QED
    BY <1>1, <2>1, <2>2, <2>3, <2>4, <2>5, <2>6 DEF Begins
<1>2. ASSUME NEW p \in Proc, ReadStep(p)
      PROVE  LateIsUnknown' /\ LateReadsServeNothing'
  <2>1. CASE LookupUnknown(p) \/ LookupRejected(p) \/ DownloadMissing(p) \/ DownloadRejected(p)
    BY <2>1, <1>r DEF LookupUnknown, LookupRejected, DownloadMissing, DownloadRejected
  <2>2. CASE LookupFound(p)
    <3>1. task[p] \in Read /\ ~task[p].late
      BY <2>2, <1>t, TaskFields DEF LookupFound
    <3>2. ~[task[p] EXCEPT !.at = "cache"].late
      BY <3>1 DEF Read
    <3> QED
      BY <2>2, <3>2, <1>a DEF LookupFound, Advance
  <2>3. CASE CacheHit(p)
    BY <2>3, <1>r DEF CacheHit
  <2>4. CASE CacheMiss(p)
    <3>1. task[p] \in Read /\ ~task[p].late
      BY <2>4, <1>t, TaskFields DEF CacheMiss
    <3>2. ~[task[p] EXCEPT !.at = "download"].late
      BY <3>1 DEF Read
    <3> QED
      BY <2>4, <3>2, <1>a DEF CacheMiss, Advance
  <2>5. CASE Downloaded(p)
    BY <2>5, <1>r DEF Downloaded
  <2> QED
    BY <1>2, <2>1, <2>2, <2>3, <2>4, <2>5 DEF ReadStep
<1>3. ASSUME NEW p \in Proc, DeleteStep(p)
      PROVE  LateIsUnknown' /\ LateReadsServeNothing'
  <2>1. CASE ServiceDeletes(p)
    BY <2>1, <1>a DEF ServiceDeletes, Advance
  <2>2. CASE ServiceDeprovisions(p)
    BY <2>2, <1>a DEF ServiceDeprovisions, Advance
  <2>3. CASE DeleteRefused(p) \/ DeleteAnswered(p) \/ DeprovisionAnswered(p) \/ AnswerLost(p)
    BY <2>3, <1>a, <1>n DEF DeleteRefused, DeleteAnswered, DeprovisionAnswered, AnswerLost,
                            Advance
  <2> QED
    BY <1>3, <2>1, <2>2, <2>3 DEF DeleteStep
<1>4. ASSUME NEW p \in Proc, CacheBlock(p) \/ CacheFailure(p)
      PROVE  LateIsUnknown' /\ LateReadsServeNothing'
  BY <1>4 DEF CacheBlock, CacheFailure, service
<1>5. ASSUME NEW m \in Message, DeletedElsewhere(m) \/ DeletionEventLost(m)
      PROVE  LateIsUnknown' /\ LateReadsServeNothing'
  BY <1>5 DEF DeletedElsewhere, DeletionEventLost
<1>6. CASE StartCache \/ KeysChange
  BY <1>6 DEF StartCache, KeysChange, service
<1>7. CASE ClientCrash
  BY <1>7, <1>n DEF ClientCrash
<1>8. CASE UNCHANGED allVars
  BY <1>8 DEF allVars, service
<1> QED
  BY <1>1, <1>2, <1>3, <1>4, <1>5, <1>6, <1>7, <1>8 DEF ServiceNext

\* A read of a message that is already deleted serves no body, whatever is left
\* of it in the cache.
THEOREM LateReadsNeverServe == ServiceSpec => []LateReadsServeNothing
<1>1. ServiceInit => LateIsUnknown /\ LateReadsServeNothing
  BY DEF ServiceInit, LateIsUnknown, LateReadsServeNothing, NoTask, NoResult
<1>2. TypeOK /\ ServiceTypes /\ UsesCache /\ LateIsUnknown /\ LateReadsServeNothing
        /\ [ServiceNext]_allVars => (LateIsUnknown /\ LateReadsServeNothing)'
  BY ReadsLateStep
<1> QED
  BY <1>1, <1>2, ClientInvariants, PTL DEF ServiceSpec

\* What purges a message for good leaves neither a row of it nor a read.
LEMMA PurgeRemoves ==
  ASSUME TypeOK, NEW p \in Proc, Block(p), NEW m \in PurgeScope(p)
  PROVE  m \notin rows' /\ op[p].at \in {"delete", "flush", "flushAll"}
         /\ (op'[p] = Idle \/ op'[p].at = "flushAddress")
<1>t. op \in [Proc -> Op] /\ rows \subseteq Message
  BY DEF TypeOK
<1>1. CASE op[p].at = "delete" /\ IsCacheActive
  <2>1. DeleteMessage(p) /\ m = op[p].msg
    BY <1>1 DEF Block, Inactive, GetMiss, GetHit, GetStale, PutOversize, PutEvict,
                PutStore, DeleteMessage, Flush, FlushAddress, FlushAll, SetLimit, Shrink,
                PurgeScope
  <2> QED
    BY <1>1, <1>t, <2>1 DEF DeleteMessage, Remove, Finish, Goto
<1>2. CASE op[p].at = "flush" /\ IsCacheActive /\ op[p].input.sudo = None
  <2>1. Flush(p) /\ m \in Message /\ AddressOf[m] = op[p].input.address
    BY <1>2 DEF Block, Inactive, GetMiss, GetHit, GetStale, PutOversize, PutEvict,
                PutStore, DeleteMessage, Flush, FlushAddress, FlushAll, SetLimit, Shrink,
                PurgeScope
  <2> QED
    BY <1>2, <1>t, <2>1 DEF Flush, Flushed, Addressed, Remove, Finish, Goto
<1>3. CASE op[p].at = "flushAll" /\ IsCacheActive
  <2>1. FlushAll(p)
    BY <1>3 DEF Block, Inactive, GetMiss, GetHit, GetStale, PutOversize, PutEvict,
                PutStore, DeleteMessage, Flush, FlushAddress, FlushAll, SetLimit, Shrink
  <2> QED
    BY <1>3, <1>t, <2>1 DEF FlushAll, ClearAll, Finish, Goto
<1> QED
  BY <1>1, <1>2, <1>3 DEF PurgeScope

\* A row that a block of p adds was being stored by p, and so was or is what it
\* stores next.
LEMMA BlockStores ==
  ASSUME TypeOK, NEW p \in Proc, Block(p) \/ SetLimitFails(p) \/ BlockFails(p)
  PROVE  /\ rows' \subseteq rows \cup {m \in {op[p].msg} : op[p].at = "store"}
         /\ \A q \in Proc : q # p => op'[q] = op[q]
         /\ op'[p].at = "put" => op'[p] = op[p]
         /\ op'[p].at = "store" =>
              op[p].at = "put" /\ op'[p].msg = op[p].msg /\ IsCacheActive
<1>t. op \in [Proc -> Op] /\ \A b : Returned(op[p].msg, b).at = "returned"
  BY DEF TypeOK, Returned
<1>1. CASE Block(p)
  <2>1. CASE Inactive(p) \/ GetMiss(p) \/ GetHit(p) \/ GetStale(p) \/ PutOversize(p)
    BY <2>1, <1>t DEF Inactive, GetMiss, GetHit, GetStale, PutOversize, Finish, Goto,
                      store, Idle
  <2>2. CASE PutEvict(p)
    BY <2>2, <1>t DEF PutEvict, Remove, Goto
  <2>3. CASE PutStore(p)
    BY <2>3, <1>t DEF PutStore, Finish, Goto, Idle
  <2>4. CASE DeleteMessage(p) \/ Flush(p) \/ FlushAddress(p)
    BY <2>4, <1>t DEF DeleteMessage, Flush, FlushAddress, Remove, Finish, Goto, Idle
  <2>5. CASE FlushAll(p)
    BY <2>5, <1>t DEF FlushAll, ClearAll, Finish, Goto, Idle
  <2>7. CASE Shrink(p)
    <3>1. rows' \subseteq rows
      BY <2>7 DEF Shrink, ClearAll, Remove
    <3>2. op' = [op EXCEPT ![p] = Idle]
      BY <2>7 DEF Shrink, Finish, Goto
    <3> QED
      BY <3>1, <3>2, <1>t DEF Idle
  <2>6. CASE SetLimit(p)
    BY <2>6, <1>t DEF SetLimit, Finish, Goto, store, Idle
  <2> QED
    BY <1>1, <2>1, <2>2, <2>3, <2>4, <2>5, <2>6, <2>7 DEF Block
<1>2. CASE SetLimitFails(p) \/ BlockFails(p)
  BY <1>2, <1>t DEF SetLimitFails, BlockFails, Finish, Goto, store, Idle
<1> QED
  BY <1>1, <1>2

LEMMA PurgedForGoodStep ==
  ASSUME TypeOK, ServiceTypes, UsesCache, PurgedForGood, [ServiceNext]_allVars
  PROVE  PurgedForGood'
<1> DEFINE Stores(t, o, m) == \/ t.at \in {"cache", "download"} /\ t.msg = m
                              \/ o.at \in {"put", "store"} /\ o.msg = m
<1> USE DEF PurgedForGood
<1>t. /\ op \in [Proc -> Op] /\ task \in [Proc -> Task]
      /\ \A p \in Proc : task[p] \in Task
  BY DEF TypeOK, ServiceTypes
<1>n. /\ NoTask.at \notin {"cache", "download"}
      /\ Idle.at \notin {"put", "store"}
      /\ \A m, b : Returned(m, b).at \notin {"put", "store"}
  BY DEF NoTask, Idle, Returned
<1>i. \A m : InFlight(m) <=> \E p \in Proc : Stores(task[p], op[p], m)
  BY DEF InFlight
<1>j. \A m : InFlight(m)' <=> \E p \in Proc : Stores(task'[p], op'[p], m)
  BY DEF InFlight
<1>a. ASSUME NEW p \in Proc, NEW t, NEW o,
             task' = [task EXCEPT ![p] = t], op' = [op EXCEPT ![p] = o],
             exists' \subseteq exists, UNCHANGED <<rows, purged>>,
             \A m \in purged : Stores(t, o, m) => Stores(task[p], op[p], m) \/ m \in exists
      PROVE  PurgedForGood'
  <2> SUFFICES ASSUME NEW m \in purged
               PROVE  m \notin exists' /\ m \notin rows' /\ ~InFlight(m)'
    BY <1>a
  <2>1. \A q \in Proc : Stores(task'[q], op'[q], m) => Stores(task[q], op[q], m)
    BY <1>a, <1>t
  <2> HIDE DEF Stores
  <2> QED
    BY <1>a, <1>i, <1>j, <2>1
<1> HIDE DEF Stores
<1>u. ASSUME NEW p \in Proc, NEW t,
             task' = [task EXCEPT ![p] = t], UNCHANGED op,
             exists' \subseteq exists, UNCHANGED <<rows, purged>>,
             t.at \notin {"cache", "download"}
      PROVE  PurgedForGood'
  <2>1. op' = [op EXCEPT ![p] = op[p]]
    BY <1>u, <1>t
  <2>2. \A m \in purged : Stores(t, op[p], m) => Stores(task[p], op[p], m)
    BY <1>u DEF Stores
  <2> QED
    BY <1>a, <1>u, <2>1, <2>2
<1>o. ASSUME NEW p \in Proc, NEW o,
             op' = [op EXCEPT ![p] = o], UNCHANGED task,
             exists' \subseteq exists, UNCHANGED <<rows, purged>>,
             o.at \notin {"put", "store"}
      PROVE  PurgedForGood'
  <2>1. task' = [task EXCEPT ![p] = task[p]]
    BY <1>o, <1>t
  <2>2. \A m \in purged : Stores(task[p], o, m) => Stores(task[p], op[p], m)
    BY <1>o DEF Stores
  <2> QED
    BY <1>a, <1>o, <2>1, <2>2
<1>1. ASSUME NEW p \in Proc, Begins(p)
      PROVE  PurgedForGood'
  <2>1. ASSUME NEW m \in Message, NEW a \in Address, ReadMessage(p, m, a)
        PROVE  PurgedForGood'
    <3> DEFINE next == [at |-> "lookup", msg |-> m, address |-> a, late |-> m \notin exists]
    <3>1. task' = [task EXCEPT ![p] = next] /\ UNCHANGED <<op, rows, exists, purged>>
      BY <2>1 DEF ReadMessage, Begin, vars, store
    <3>2. next.at = "lookup"
      OBVIOUS
    <3> HIDE DEF next
    <3> QED
      BY <3>1, <3>2, <1>u
  <2>2. ASSUME NEW m \in Message, DeleteMessages(p, m)
        PROVE  PurgedForGood'
    BY <2>2, <1>u DEF DeleteMessages, Begin, vars, store
  <2>3. ASSUME NEW m \in Message, DeletionEvent(p, m)
        PROVE  PurgedForGood'
    BY <2>3, <1>o DEF DeletionEvent, Goto, cache, store
  <2>4. ASSUME NEW a \in Address, Deprovision(p, a)
        PROVE  PurgedForGood'
    BY <2>4, <1>u DEF Deprovision, Begin, vars, store
  <2>5. CASE UserCall(p)
    BY <2>5, <1>o DEF UserCall, Call, Goto, service, store
  <2>6. CASE Reset(p)
    BY <2>6, <1>o DEF Reset, Call, Goto, store
  <2> QED
    BY <1>1, <2>1, <2>2, <2>3, <2>4, <2>5, <2>6 DEF Begins
<1>2. ASSUME NEW p \in Proc, ReadStep(p)
      PROVE  PurgedForGood'
  <2>1. CASE LookupUnknown(p) \/ LookupRejected(p) \/ DownloadMissing(p) \/ DownloadRejected(p)
    BY <2>1, <1>n, <1>u DEF LookupUnknown, LookupRejected, DownloadMissing, DownloadRejected,
                            Resolve, Advance, vars, store
  <2>2. CASE LookupFound(p)
    <3>1. task[p] \in Read /\ task[p].msg \in exists
      BY <2>2, <1>t, TaskFields DEF LookupFound
    <3>2. \A m : Stores([task[p] EXCEPT !.at = "cache"], [at |-> "get", msg |-> task[p].msg], m)
                   => m \in exists
      BY <3>1 DEF Stores, Read
    <3> QED
      BY <2>2, <3>2, <1>a DEF LookupFound, Advance, Goto, cache, store
  <2>3. CASE CacheHit(p)
    <3>1. \A m : ~Stores(NoTask, Idle, m)
      BY <1>n DEF Stores
    <3> QED
      BY <2>3, <3>1, <1>a DEF CacheHit, Resolve, Advance, Finish, Goto, cache, store
  <2>4. CASE CacheMiss(p)
    <3>1. task[p] \in Read /\ task[p].at = "cache"
      BY <2>4, <1>t, TaskFields DEF CacheMiss
    <3>2. \A m : Stores([task[p] EXCEPT !.at = "download"], Idle, m)
                   => Stores(task[p], op[p], m)
      BY <3>1, <1>n DEF Stores, Read
    <3> QED
      BY <2>4, <3>2, <1>a DEF CacheMiss, Advance, Finish, Goto, cache, store
  <2>5. CASE Downloaded(p)
    <3>1. \A m : Stores(NoTask, [at |-> "put", msg |-> task[p].msg], m)
                   => Stores(task[p], op[p], m)
      BY <2>5, <1>n DEF Stores, Downloaded
    <3> QED
      BY <2>5, <3>1, <1>a DEF Downloaded, Resolve, Advance, Goto, cache, store
  <2> QED
    BY <1>2, <2>1, <2>2, <2>3, <2>4, <2>5 DEF ReadStep
<1>3. ASSUME NEW p \in Proc, DeleteStep(p)
      PROVE  PurgedForGood'
  <2>1. CASE ServiceDeletes(p) \/ ServiceDeprovisions(p)
    BY <2>1, <1>u DEF ServiceDeletes, ServiceDeprovisions, Advance, vars, store
  <2>2. CASE DeleteRefused(p) \/ AnswerLost(p)
    BY <2>2, <1>n, <1>u DEF DeleteRefused, AnswerLost, Advance, vars, store
  <2>3. CASE DeleteAnswered(p)
    <3>1. \A m : ~Stores(NoTask, [at |-> "delete", msg |-> task[p].msg], m)
      BY <1>n DEF Stores
    <3> QED
      BY <2>3, <3>1, <1>a DEF DeleteAnswered, Advance, Goto, cache, store
  <2>4. CASE DeprovisionAnswered(p)
    <3> DEFINE flush == [at |-> "flush", input |-> [sudo |-> None, address |-> task[p].address]]
    <3>1. \A m : ~Stores(NoTask, flush, m)
      BY <1>n DEF Stores
    <3> QED
      BY <2>4, <3>1, <1>a DEF DeprovisionAnswered, Advance, Goto, cache, store
  <2> QED
    BY <1>3, <2>1, <2>2, <2>3, <2>4 DEF DeleteStep
<1>4. ASSUME NEW p \in Proc, CacheBlock(p) \/ CacheFailure(p)
      PROVE  PurgedForGood'
  <2>1. UNCHANGED <<task, exists>> /\ (Block(p) \/ SetLimitFails(p) \/ BlockFails(p))
    BY <1>4 DEF CacheBlock, CacheFailure, service
  <2>2. \A m : \A q \in Proc : Stores(task'[q], op'[q], m) => InFlight(m)
    BY <2>1, <1>i, BlockStores DEF Stores
  <2>3. \A m : InFlight(m)' => InFlight(m)
    BY <2>2, <1>j
  <2>4. rows' \subseteq rows \cup {m \in {op[p].msg} : InFlight(m)}
    BY <2>1, <1>i, BlockStores DEF Stores
  <2>5. ASSUME NEW m \in purged'
        PROVE  m \notin exists /\ m \notin rows' /\ ~InFlight(m)
    <3>1. CASE m \in purged
      BY <2>4, <3>1
    <3>2. CASE m \notin purged
      <4>1. Block(p) /\ m \in PurgeScope(p) \ exists /\ ~InFlight(m)
        BY <1>4, <3>2, <2>5 DEF CacheBlock, CacheFailure, service
      <4> QED
        BY <4>1, PurgeRemoves
    <3> QED
      BY <3>1, <3>2
  <2> QED
    BY <2>1, <2>3, <2>5
<1>5. ASSUME NEW m \in Message, DeletedElsewhere(m) \/ DeletionEventLost(m)
      PROVE  PurgedForGood'
  BY <1>5 DEF DeletedElsewhere, DeletionEventLost, vars, store, InFlight
<1>6. CASE StartCache \/ KeysChange
  BY <1>6 DEF StartCache, KeysChange, Initialise, InitialiseFails, service, vars, store, InFlight
<1>7. CASE ClientCrash
  <2>1. /\ op' = [p \in Proc |-> Idle] /\ task' = [p \in Proc |-> NoTask]
        /\ UNCHANGED <<exists, rows, purged>>
    BY <1>7 DEF ClientCrash, Crash
  <2> QED
    BY <2>1, <1>n, <1>j DEF Stores
<1>8. CASE UNCHANGED allVars
  BY <1>8 DEF allVars, vars, service, store, InFlight
<1> QED
  BY <1>1, <1>2, <1>3, <1>4, <1>5, <1>6, <1>7, <1>8 DEF ServiceNext

\* A body that was purged once its message was deleted, with no read of it on the
\* way, is never in the cache again.
THEOREM PurgedNeverReturns == ServiceSpec => []PurgedStaysGone
<1>1. ServiceInit => PurgedForGood
  BY DEF ServiceInit, PurgedForGood
<1>2. TypeOK /\ ServiceTypes /\ UsesCache /\ PurgedForGood /\ [ServiceNext]_allVars
        => PurgedForGood'
  BY PurgedForGoodStep
<1>3. PurgedForGood => PurgedStaysGone
  BY DEF PurgedForGood, PurgedStaysGone
<1> QED
  BY <1>1, <1>2, <1>3, ClientInvariants, PTL DEF ServiceSpec

(***************************************************************************)
(* One failure and one call at a time: what a read goes on to store is not *)
(* in the cache, or the cache is out of use and will not store it.         *)
(***************************************************************************)
Missed(m) == m \notin rows \/ (adapter # "starting" /\ ~IsCacheActive)

Anew(t, o) ==
  /\ t.at = "cache" /\ o.at = "returned" /\ o.body = "absent" => Missed(t.msg)
  /\ t.at = "download" => Missed(t.msg)
  /\ o.at = "put" => Missed(o.msg)
  /\ o.at = "store" => o.msg \notin rows

\* Until something fails, what a put stores has no row yet.
StoresAnew ==
  faults + crashes = 0 => \A p \in Proc : Anew(task[p], op[p])

\* So the first failure cuts no file short that a row names.
NoneCutShort ==
  faults + crashes <= 1 =>
    /\ \A m \in rows : Large(m) => blob[m] # "partial"
    /\ \A p \in Proc : op[p].at = "returned" => op[p].body # "partial"
    /\ CacheNeverBreaksRetrieval

OneProc == \A p, q \in Proc : p = q

\* The counts only grow.
LEMMA CountsGrow ==
  ASSUME TypeOK, [Next]_vars
  PROVE  /\ faults \in Nat /\ crashes \in Nat /\ faults' \in Nat /\ crashes' \in Nat
         /\ faults <= faults' /\ crashes <= crashes'
         /\ Fault => faults' = faults + 1
<1> USE BoundAssumption
<1>t. faults \in Nat /\ crashes \in Nat
  BY DEF TypeOK
<1>r. \A S : Remove(S) \/ ClearAll => faults' = faults \/ faults' = faults + 1
  BY DEF Remove, ClearAll, Fault
<1> SUFFICES /\ faults' = faults \/ faults' = faults + 1
             /\ crashes' = crashes \/ crashes' = crashes + 1
  BY <1>t DEF Fault
<1>1. CASE Initialise \/ InitialiseFails \/ Tick \/ Crash \/ UNCHANGED vars
  BY <1>1 DEF Initialise, InitialiseFails, Tick, Crash, Fault, vars
<1>2. ASSUME NEW p \in Proc, Block(p)
      PROVE  /\ faults' = faults \/ faults' = faults + 1
             /\ crashes' = crashes
  <2>1. CASE Inactive(p) \/ GetMiss(p) \/ GetHit(p) \/ GetStale(p) \/ PutOversize(p)
             \/ PutStore(p) \/ SetLimit(p)
    BY <2>1 DEF Inactive, GetMiss, GetHit, GetStale, PutOversize, PutStore, SetLimit, Fault
  <2>2. CASE PutEvict(p) \/ DeleteMessage(p)
    BY <2>2, <1>r DEF PutEvict, DeleteMessage
  <2>3. CASE Flush(p) \/ FlushAddress(p) \/ FlushAll(p)
    BY <2>3, <1>r DEF Flush, FlushAddress, FlushAll
  <2>4. CASE Shrink(p)
    BY <2>4, <1>r DEF Shrink
  <2> QED
    BY <1>2, <2>1, <2>2, <2>3, <2>4 DEF Block
<1>3. ASSUME NEW p \in Proc, SetLimitFails(p) \/ BlockFails(p) \/ TakeResult(p)
                             \/ \E call \in Calls : Call(p, call)
      PROVE  /\ faults' = faults \/ faults' = faults + 1
             /\ crashes' = crashes
  BY <1>3 DEF SetLimitFails, BlockFails, TakeResult, Call, Fault
<1> QED
  BY <1>1, <1>2, <1>3 DEF Next, CacheStep

LEMMA StoresAnewStep ==
  ASSUME OneProc, TypeOK, ServiceTypes, UsesCache, StoresAnew, [ServiceNext]_allVars
  PROVE  StoresAnew'
<1>g. [Next]_vars
  BY StepOfCache
<1> SUFFICES ASSUME faults' + crashes' = 0
             PROVE  \A p \in Proc : Anew(task[p], op[p])'
  BY DEF StoresAnew
<1>z. faults + crashes = 0 /\ faults' = faults /\ crashes' = crashes /\ ~Fault
  BY <1>g, CountsGrow
<1>s. \A p \in Proc : Anew(task[p], op[p])
  BY <1>z DEF StoresAnew
<1>t. /\ op \in [Proc -> Op] /\ task \in [Proc -> Task] /\ \A p \in Proc : task[p] \in Task
      /\ \A p \in Proc : Uses(task[p], op[p])
  BY DEF TypeOK, ServiceTypes, UsesCache
<1>n. NoTask.at = "none" /\ Idle.at = "idle"
      /\ \A m, b : Returned(m, b).at = "returned" /\ Returned(m, b).msg = m
                   /\ Returned(m, b).body = b
  BY DEF NoTask, Idle, Returned
<1>a. ASSUME NEW p \in Proc, NEW t, NEW o,
             task' = [task EXCEPT ![p] = t], op' = [op EXCEPT ![p] = o],
             UNCHANGED <<adapter, limit, rows>>, Anew(t, o)
      PROVE  \A q \in Proc : Anew(task[q], op[q])'
  BY <1>a, <1>t DEF OneProc, Anew, Missed, IsCacheActive
<1>b. ASSUME NEW p \in Proc, UNCHANGED task, Anew(task[p], op[p])'
      PROVE  \A q \in Proc : Anew(task[q], op[q])'
  BY <1>b DEF OneProc
<1>1. ASSUME NEW p \in Proc, Begins(p)
      PROVE  \A q \in Proc : Anew(task[q], op[q])'
  <2>1. ASSUME NEW m \in Message, NEW a \in Address, ReadMessage(p, m, a)
        PROVE  \A q \in Proc : Anew(task[q], op[q])'
    <3> DEFINE next == [at |-> "lookup", msg |-> m, address |-> a, late |-> m \notin exists]
    <3>1. /\ task' = [task EXCEPT ![p] = next] /\ op' = [op EXCEPT ![p] = Idle]
          /\ UNCHANGED <<adapter, limit, rows>>
      BY <2>1, <1>t DEF ReadMessage, Begin, Free, vars, store
    <3>2. next.at = "lookup"
      OBVIOUS
    <3> HIDE DEF next
    <3>3. Anew(next, Idle)
      BY <3>2, <1>n DEF Anew
    <3> QED
      BY <3>1, <3>3, <1>a
  <2>2. ASSUME NEW next, next.at \notin {"cache", "download"}, Begin(p, next), UNCHANGED vars
        PROVE  \A q \in Proc : Anew(task[q], op[q])'
    <3>1. Anew(next, Idle)
      BY <2>2, <1>n DEF Anew
    <3>2. op' = [op EXCEPT ![p] = Idle]
      BY <2>2, <1>t DEF Begin, Free, vars
    <3> QED
      BY <2>2, <3>1, <3>2, <1>a DEF Begin, vars, store
  <2>3. ASSUME NEW m \in Message, DeletionEvent(p, m)
        PROVE  \A q \in Proc : Anew(task[q], op[q])'
    <3>1. task' = [task EXCEPT ![p] = NoTask]
      BY <2>3, <1>t DEF DeletionEvent, Free
    <3>2. Anew(NoTask, [at |-> "delete", msg |-> m])
      BY <1>n DEF Anew
    <3> QED
      BY <2>3, <3>1, <3>2, <1>a DEF DeletionEvent, Goto, cache, store
  <2>4. CASE UserCall(p)
    <3>1. PICK call \in Calls : call.at \in {"flush", "setLimit"} /\ Call(p, call)
      BY <2>4 DEF UserCall
    <3>2. Anew(NoTask, call) /\ task' = [task EXCEPT ![p] = NoTask]
      BY <2>4, <3>1, <1>n, <1>t DEF Anew, UserCall, service
    <3> QED
      BY <3>1, <3>2, <1>a DEF Call, Goto, store
  <2>5. CASE Reset(p)
    <3>1. Anew(NoTask, [at |-> "flushAll"]) /\ task' = [task EXCEPT ![p] = NoTask]
      BY <2>5, <1>n, <1>t DEF Anew, Reset
    <3> QED
      BY <2>5, <3>1, <1>a DEF Reset, Call, Goto, store
  <2> QED
    BY <1>1, <2>1, <2>2, <2>3, <2>4, <2>5 DEF Begins, DeleteMessages, Deprovision
<1>2. ASSUME NEW p \in Proc, ReadStep(p)
      PROVE  \A q \in Proc : Anew(task[q], op[q])'
  <2>1. CASE LookupUnknown(p) \/ LookupRejected(p) \/ DownloadMissing(p) \/ DownloadRejected(p)
    <3> USE DEF LookupUnknown, LookupRejected, DownloadMissing, DownloadRejected
    <3>1. op' = [op EXCEPT ![p] = Idle] /\ Anew(NoTask, Idle)
      BY <2>1, <1>n, <1>t DEF vars, Uses, Waiting, Anew
    <3> QED
      BY <2>1, <3>1, <1>a DEF Resolve, Advance, vars, store
  <2>2. CASE LookupFound(p)
    <3>1. Anew([task[p] EXCEPT !.at = "cache"], [at |-> "get", msg |-> task[p].msg])
      <4>1. task[p] \in Read
        BY <2>2, <1>t, TaskFields DEF LookupFound
      <4> QED
        BY <4>1 DEF Anew, Read
    <3> QED
      BY <2>2, <3>1, <1>a DEF LookupFound, Advance, Goto, cache, store
  <2>3. CASE CacheHit(p)
    <3>1. Anew(NoTask, Idle)
      BY <1>n DEF Anew
    <3> QED
      BY <2>3, <3>1, <1>a DEF CacheHit, Resolve, Advance, Finish, Goto, cache, store
  <2>4. CASE CacheMiss(p)
    <3>1. task[p] \in Read /\ Missed(task[p].msg)
      BY <2>4, <1>t, <1>s, TaskFields DEF CacheMiss, Anew
    <3>2. Anew([task[p] EXCEPT !.at = "download"], Idle)
      BY <3>1, <1>n DEF Anew, Read
    <3> QED
      BY <2>4, <3>2, <1>a DEF CacheMiss, Advance, Finish, Goto, cache, store
  <2>5. CASE Downloaded(p)
    <3>1. Missed(task[p].msg)
      BY <2>5, <1>s DEF Downloaded, Anew
    <3>2. Anew(NoTask, [at |-> "put", msg |-> task[p].msg])
      BY <3>1, <1>n DEF Anew
    <3> QED
      BY <2>5, <3>2, <1>a DEF Downloaded, Resolve, Advance, Goto, cache, store
  <2> QED
    BY <1>2, <2>1, <2>2, <2>3, <2>4, <2>5 DEF ReadStep
<1>3. ASSUME NEW p \in Proc, DeleteStep(p)
      PROVE  \A q \in Proc : Anew(task[q], op[q])'
  <2>1. ASSUME NEW next, next.at \notin {"cache", "download"}, Advance(p, next), UNCHANGED vars
        PROVE  \A q \in Proc : Anew(task[q], op[q])'
    <3>1. op' = [op EXCEPT ![p] = op[p]] /\ Anew(next, op[p])
      BY <2>1, <1>s, <1>t DEF Anew, vars
    <3> QED
      BY <2>1, <3>1, <1>a DEF Advance, vars, store
  <2>2. ASSUME NEW o, o.at \notin {"returned", "put", "store"}, Advance(p, NoTask), Goto(p, o),
               UNCHANGED cache
        PROVE  \A q \in Proc : Anew(task[q], op[q])'
    <3>1. Anew(NoTask, o)
      BY <2>2, <1>n DEF Anew
    <3> QED
      BY <2>2, <3>1, <1>a DEF Advance, Goto, cache, store
  <2>3. CASE ServiceDeletes(p) \/ ServiceDeprovisions(p)
    BY <2>1, <2>3 DEF ServiceDeletes, ServiceDeprovisions
  <2>4. CASE DeleteRefused(p) \/ AnswerLost(p)
    BY <2>1, <2>4, <1>n DEF DeleteRefused, AnswerLost
  <2>5. CASE DeleteAnswered(p)
    BY <2>2, <2>5 DEF DeleteAnswered
  <2>6. CASE DeprovisionAnswered(p)
    BY <2>2, <2>6 DEF DeprovisionAnswered
  <2> QED
    BY <1>3, <2>3, <2>4, <2>5, <2>6 DEF DeleteStep
<1>4. ASSUME NEW p \in Proc, CacheBlock(p) \/ CacheFailure(p)
      PROVE  \A q \in Proc : Anew(task[q], op[q])'
  <2>1. UNCHANGED task /\ Block(p)
    BY <1>4, <1>z DEF CacheBlock, CacheFailure, service, SetLimitFails, BlockFails
  <2>u. task[p].at # "download"
    BY <2>1, <1>n, <1>t DEF Block, Inactive, GetMiss, GetHit, GetStale, PutOversize, PutEvict,
                       PutStore, DeleteMessage, Flush, FlushAddress, FlushAll, SetLimit,
                       Shrink, Uses, Waiting
  <2> SUFFICES Anew(task[p], op[p])'
    BY <2>1, <1>b
  <2>2. CASE Inactive(p)
    BY <2>1, <2>2, <2>u, <1>n, <1>t
       DEF Inactive, Goto, Anew, Missed, IsCacheActive, Uses, store
  <2>3. CASE GetMiss(p) \/ GetStale(p)
    BY <2>1, <2>3, <2>u, <1>n, <1>t, <1>z
       DEF GetMiss, GetStale, Goto, Anew, Missed, IsCacheActive, Uses, store
  <2>4. CASE GetHit(p)
    <3>1. op'[p] = Returned(op[p].msg, IF Large(op[p].msg) THEN blob[op[p].msg] ELSE "whole")
      BY <2>4, <1>t DEF GetHit, Goto
    <3>2. op'[p].at = "returned" /\ op'[p].body # "absent"
      BY <2>4, <3>1, <1>n DEF GetHit
    <3> QED
      BY <2>1, <2>u, <3>2 DEF Anew
  <2>5. CASE PutEvict(p)
    <3>1. op[p].msg \notin rows
      BY <2>5, <1>s DEF PutEvict, Anew, Missed
    <3>2. op'[p] = [at |-> "store", msg |-> op[p].msg] /\ rows' \subseteq rows
      BY <2>5, <1>t DEF PutEvict, Remove, Goto
    <3> QED
      BY <2>1, <2>u, <3>1, <3>2 DEF Anew
  <2>6. CASE PutOversize(p) \/ PutStore(p) \/ DeleteMessage(p) \/ Flush(p) \/ FlushAddress(p)
             \/ FlushAll(p) \/ SetLimit(p) \/ Shrink(p)
    <3>1. op'[p].at \in {"idle", "flushAddress", "shrink"}
      BY <2>6, <1>n, <1>t DEF PutOversize, PutStore, DeleteMessage, Flush, FlushAddress,
                              FlushAll, SetLimit, Shrink, Finish, Goto
    <3> QED
      BY <2>1, <2>u, <3>1 DEF Anew
  <2> QED
    BY <2>1, <2>2, <2>3, <2>4, <2>5, <2>6 DEF Block
<1>5. ASSUME NEW m \in Message, DeletedElsewhere(m) \/ DeletionEventLost(m)
      PROVE  \A q \in Proc : Anew(task[q], op[q])'
  BY <1>5, <1>s DEF DeletedElsewhere, DeletionEventLost, vars, store, Anew, Missed,
                    IsCacheActive
<1>6. CASE StartCache \/ KeysChange
  BY <1>6, <1>s, <1>z DEF StartCache, KeysChange, Initialise, InitialiseFails, service, vars,
                          store, Anew, Missed, IsCacheActive
<1>7. CASE ClientCrash
  BY <1>7, <1>g, <1>z, CountsGrow DEF ClientCrash, Crash
<1>8. CASE UNCHANGED allVars
  BY <1>8, <1>s DEF allVars, vars, service, store, Anew, Missed, IsCacheActive
<1> QED
  BY <1>1, <1>2, <1>3, <1>4, <1>5, <1>6, <1>7, <1>8 DEF ServiceNext

\* What p's next block may leave on disk: it cuts short no file but the one it
\* was storing.
LEMMA TearCuts ==
  ASSUME TypeOK, NEW p \in Proc, Tear(p), NEW m \in Message, blob'[m] = "partial"
  PROVE  blob[m] = "partial" \/ (op[p].at = "store" /\ op[p].msg = m)
<1>1. \A S : \A b \in PartlyUnlinked(S) : b[m] = "partial" => blob[m] = "partial"
  BY DEF PartlyUnlinked, WithoutBlobs
<1> QED
  BY <1>1 DEF Tear, TypeOK

LEMMA RemoveCuts ==
  ASSUME TypeOK, NEW S, Remove(S) \/ ClearAll, NEW m \in Message, blob'[m] = "partial"
  PROVE  blob[m] = "partial"
  BY DEF Remove, ClearAll, PartlyUnlinked, WithoutBlobs

LEMMA NoneCutShortStep ==
  ASSUME OneProc, TypeOK, ServiceTypes, UsesCache, StoresAnew, NoneCutShort,
         [ServiceNext]_allVars
  PROVE  NoneCutShort'
<1>g. [Next]_vars
  BY StepOfCache
<1> SUFFICES ASSUME faults' + crashes' <= 1
             PROVE  /\ (\A m \in rows : Large(m) => blob[m] # "partial")'
                    /\ (\A p \in Proc : op[p].at = "returned" => op[p].body # "partial")'
                    /\ CacheNeverBreaksRetrieval'
  BY DEF NoneCutShort
<1>z. /\ faults + crashes <= 1
      /\ Fault \/ crashes' = crashes + 1 => faults + crashes = 0
  BY <1>g, CountsGrow
<1>s. /\ \A m \in rows : Large(m) => blob[m] # "partial"
      /\ \A p \in Proc : op[p].at = "returned" => op[p].body # "partial"
      /\ \A p \in Proc : result[p].body # "cut"
  BY <1>z DEF NoneCutShort, CacheNeverBreaksRetrieval
<1>t. /\ op \in [Proc -> Op] /\ task \in [Proc -> Task] /\ \A p \in Proc : op[p] \in Op
      /\ result \in [Proc -> Result] /\ rows \subseteq Message /\ blob \in [Message -> Blob]
  BY DEF TypeOK, ServiceTypes
<1>n. Idle.at = "idle" /\ \A m, b : Returned(m, b).at = "returned" /\ Returned(m, b).body = b
  BY DEF Idle, Returned
<1>f. ASSUME NEW p \in Proc, Fault \/ crashes' = crashes + 1, op[p].at = "store"
      PROVE  op[p].msg \notin rows
  BY <1>f, <1>z DEF StoresAnew, Anew
<1> USE DEF Large, Size
<1>r. ASSUME UNCHANGED <<rows, blob>>
      PROVE  (\A m \in rows : Large(m) => blob[m] # "partial")'
  BY <1>r, <1>s
<1>1. (\A m \in rows : Large(m) => blob[m] # "partial")'
  <2>1. ASSUME NEW S, Remove(S) \/ ClearAll
        PROVE  (\A m \in rows : Large(m) => blob[m] # "partial")'
    BY <2>1, <1>s, <1>t, RemoveCuts DEF Remove, ClearAll
  <2>2. ASSUME NEW p \in Proc, Tear(p), Fault \/ crashes' = crashes + 1, UNCHANGED rows
        PROVE  (\A m \in rows : Large(m) => blob[m] # "partial")'
    BY <2>2, <1>s, <1>t, <1>f, TearCuts
  <2>3. ASSUME NEW p \in Proc, Block(p)
        PROVE  (\A m \in rows : Large(m) => blob[m] # "partial")'
    <3>1. CASE Inactive(p) \/ GetMiss(p) \/ PutOversize(p) \/ SetLimit(p)
      BY <3>1, <1>r DEF Inactive, GetMiss, PutOversize, SetLimit, store
    <3>2. CASE GetHit(p) \/ GetStale(p)
      BY <3>2, <1>s DEF GetHit, GetStale
    <3>3. CASE PutStore(p)
      <4>1. op[p].msg \in Message
        BY <3>3, <1>t, OpFields DEF PutStore
      <4>2. ASSUME NEW m \in rows', Large(m)
            PROVE  blob'[m] # "partial"
        <5>1. CASE m = op[p].msg
          BY <3>3, <4>1, <4>2, <5>1, <1>t DEF PutStore
        <5>2. CASE m # op[p].msg
          BY <3>3, <4>1, <4>2, <5>2, <1>s, <1>t DEF PutStore
        <5> QED
          BY <5>1, <5>2
      <4> QED
        BY <4>2
    <3>4. CASE PutEvict(p) \/ DeleteMessage(p)
      BY <3>4, <2>1 DEF PutEvict, DeleteMessage
    <3>5. CASE Flush(p) \/ FlushAddress(p) \/ FlushAll(p)
      BY <3>5, <2>1 DEF Flush, FlushAddress, FlushAll
    <3>6. CASE Shrink(p)
      BY <3>6, <2>1 DEF Shrink
    <3> QED
      BY <2>3, <3>1, <3>2, <3>3, <3>4, <3>5, <3>6 DEF Block
  <2>4. CASE Crash
    <3>1. CASE UNCHANGED blob
      BY <2>4, <3>1, <1>r DEF Crash
    <3>2. CASE \E p \in Proc : Tear(p)
      BY <2>4, <3>2, <2>2 DEF Crash
    <3> QED
      BY <2>4, <3>1, <3>2 DEF Crash
  <2>5. ASSUME NEW p \in Proc, SetLimitFails(p) \/ BlockFails(p)
        PROVE  (\A m \in rows : Large(m) => blob[m] # "partial")'
    BY <2>5, <2>2, <1>r DEF SetLimitFails, BlockFails, store
  <2>6. CASE Initialise \/ InitialiseFails \/ Tick \/ UNCHANGED vars
    BY <2>6, <1>r DEF Initialise, InitialiseFails, Tick, vars, store
  <2>7. ASSUME NEW p \in Proc, TakeResult(p) \/ \E call \in Calls : Call(p, call)
        PROVE  (\A m \in rows : Large(m) => blob[m] # "partial")'
    BY <2>7, <1>r DEF TakeResult, Call, store
  <2> QED
    BY <1>g, <2>3, <2>4, <2>5, <2>6, <2>7 DEF Next, CacheStep
<1>2. (\A p \in Proc : op[p].at = "returned" => op[p].body # "partial")'
  <2>1. ASSUME NEW p \in Proc, NEW o, Goto(p, o), o.at = "returned" => o.body # "partial"
        PROVE  (\A q \in Proc : op[q].at = "returned" => op[q].body # "partial")'
    BY <2>1, <1>s, <1>t DEF Goto
  <2>2. ASSUME NEW p \in Proc, Block(p)
        PROVE  (\A q \in Proc : op[q].at = "returned" => op[q].body # "partial")'
    <3>1. CASE Inactive(p) \/ GetMiss(p) \/ GetStale(p)
      BY <3>1, <2>1, <1>n DEF Inactive, GetMiss, GetStale
    <3>2. CASE GetHit(p)
      <4>1. (IF Large(op[p].msg) THEN blob[op[p].msg] ELSE "whole") # "partial"
        BY <3>2, <1>s DEF GetHit
      <4> QED
        BY <3>2, <4>1, <2>1, <1>n DEF GetHit
    <3>3. CASE PutOversize(p) \/ PutEvict(p) \/ PutStore(p) \/ DeleteMessage(p)
      BY <3>3, <2>1, <1>n DEF PutOversize, PutEvict, PutStore, DeleteMessage, Finish
    <3>4. CASE Flush(p) \/ FlushAddress(p) \/ FlushAll(p) \/ Shrink(p)
      BY <3>4, <2>1, <1>n DEF Flush, FlushAddress, FlushAll, Shrink, Finish
    <3>5. CASE SetLimit(p)
      BY <3>5, <2>1, <1>n DEF SetLimit, Finish
    <3> QED
      BY <2>2, <3>1, <3>2, <3>3, <3>4, <3>5 DEF Block
  <2>3. ASSUME NEW p \in Proc, SetLimitFails(p) \/ BlockFails(p) \/ TakeResult(p)
                               \/ \E call \in Calls : Call(p, call)
        PROVE  (\A q \in Proc : op[q].at = "returned" => op[q].body # "partial")'
    <3>1. \A call \in Calls : call.at # "returned"
      BY DEF Calls
    <3> QED
      BY <2>3, <3>1, <2>1, <1>n DEF SetLimitFails, BlockFails, TakeResult, Call, Finish
  <2>4. CASE Crash
    BY <2>4, <1>n DEF Crash
  <2>5. CASE Initialise \/ InitialiseFails \/ Tick \/ UNCHANGED vars
    BY <2>5, <1>s DEF Initialise, InitialiseFails, Tick, vars
  <2> QED
    BY <1>g, <2>2, <2>3, <2>4, <2>5 DEF Next, CacheStep
<1>3. CacheNeverBreaksRetrieval'
  <2> USE DEF CacheNeverBreaksRetrieval
  <2>1. CASE UNCHANGED result
    BY <2>1, <1>s
  <2>2. ASSUME NEW p \in Proc, NEW body, body # "cut", Resolve(p, body)
        PROVE  CacheNeverBreaksRetrieval'
    BY <2>2, <1>s, <1>t DEF Resolve
  <2>3. ASSUME NEW p \in Proc, ReadStep(p)
        PROVE  CacheNeverBreaksRetrieval'
    <3>1. CASE CacheHit(p)
      <4>1. op[p].body \in Blob
        BY <3>1, <1>t DEF CacheHit, Op, Idle
      <4>2. op[p].body = "whole"
        BY <3>1, <4>1, <1>s DEF CacheHit, Blob
      <4> QED
        BY <3>1, <4>2, <2>2 DEF CacheHit, Decoded
    <3>2. CASE LookupUnknown(p) \/ LookupRejected(p) \/ DownloadMissing(p) \/ DownloadRejected(p)
      BY <3>2, <2>2 DEF LookupUnknown, LookupRejected, DownloadMissing, DownloadRejected
    <3>4. CASE Downloaded(p)
      BY <3>4, <2>2 DEF Downloaded, Decoded
    <3>3. CASE LookupFound(p) \/ CacheMiss(p)
      BY <3>3, <2>1 DEF LookupFound, CacheMiss
    <3> QED
      BY <2>3, <3>1, <3>2, <3>3, <3>4 DEF ReadStep
  <2>7. ASSUME NEW p \in Proc, NEW m \in Message, NEW a \in Address, ReadMessage(p, m, a)
        PROVE  CacheNeverBreaksRetrieval'
    BY <2>7, <1>s, <1>t DEF ReadMessage, NoResult
  <2>4. ASSUME NEW p \in Proc, Begins(p) \/ DeleteStep(p) \/ CacheBlock(p) \/ CacheFailure(p),
               \A m \in Message, a \in Address : ~ReadMessage(p, m, a)
        PROVE  UNCHANGED result
    BY <2>4 DEF Begins, DeleteMessages, DeletionEvent, Deprovision, UserCall, Reset,
                DeleteStep, ServiceDeletes, DeleteRefused, DeleteAnswered, ServiceDeprovisions,
                DeprovisionAnswered, AnswerLost, CacheBlock, CacheFailure, service
  <2>5. ASSUME NEW m \in Message, DeletedElsewhere(m) \/ DeletionEventLost(m)
        PROVE  UNCHANGED result
    BY <2>5 DEF DeletedElsewhere, DeletionEventLost
  <2>6. CASE StartCache \/ KeysChange \/ ClientCrash \/ UNCHANGED allVars
    BY <2>6, <2>1 DEF StartCache, KeysChange, ClientCrash, allVars, service
  <2> QED
    BY <2>1, <2>3, <2>4, <2>5, <2>6, <2>7 DEF ServiceNext
<1> QED
  BY <1>1, <1>2, <1>3

\* With one call at a time, one failing call or one crash never makes a read
\* fail, wherever in a cache operation it falls and whatever the cache held.
THEOREM OneFailureIsTolerated ==
  ASSUME OneProc
  PROVE  ServiceSpec => []OneFailureTolerated
<1>1. ServiceInit => StoresAnew /\ NoneCutShort
  BY DEF ServiceInit, Init, StoresAnew, Anew, NoneCutShort, CacheNeverBreaksRetrieval,
         NoTask, NoResult, Idle
<1>2. TypeOK /\ ServiceTypes /\ UsesCache /\ StoresAnew /\ NoneCutShort
        /\ [ServiceNext]_allVars => (StoresAnew /\ NoneCutShort)'
  BY StoresAnewStep, NoneCutShortStep
<1>3. NoneCutShort => OneFailureTolerated
  BY DEF NoneCutShort, OneFailureTolerated
<1> QED
  BY <1>1, <1>2, <1>3, ClientInvariants, PTL DEF ServiceSpec

-----------------------------------------------------------------------------
(* The cache does not show *)

\* What is asked of the mailbox while a call of the client is where t is.
Reading == {"lookup", "cache", "download"}

Asks(t) ==
  IF t.at \in Reading
  THEN [msg |-> t.msg, address |-> t.address, late |-> t.late]
  ELSE [msg |-> None, address |-> None, late |-> FALSE]

Asked == [p \in Proc |-> Asks(task[p])]

\* A read that got past the lookup was for the address its message belongs to.
ReadsOwned ==
  \A p \in Proc :
    task[p].at \in {"cache", "download"} => AddressOf[task[p].msg] = task[p].address

\* As long as nothing has failed, the cache returns bodies whole.
ReturnsWhole ==
  faults = 0 /\ crashes = 0 =>
    \A p \in Proc : op[p].at = "returned" => op[p].body # "partial"

\* A get that hits while nothing has failed finds the whole file; nothing else
\* returns a body.
LEMMA ReturnsWholeStep ==
  ASSUME TypeOK, BlobsMatchRows, ReturnsWhole, [Next]_vars
  PROVE  ReturnsWhole'
<1> DEFINE Whole == \A p \in Proc : op[p].at = "returned" => op[p].body # "partial"
<1> SUFFICES ASSUME faults' = 0 /\ crashes' = 0
             PROVE  Whole'
  BY DEF ReturnsWhole
<1>z. faults = 0 /\ crashes = 0
  BY CountsGrow
<1>s. /\ \A p \in Proc : op[p].at = "returned" => op[p].body # "partial"
      /\ \A m \in rows : Large(m) => blob[m] = "whole"
  BY <1>z DEF ReturnsWhole, BlobsMatchRows, TypeOK
<1>t. op \in [Proc -> Op]
  BY DEF TypeOK
<1>n. Idle.at = "idle" /\ \A m, b : Returned(m, b).at = "returned" /\ Returned(m, b).body = b
  BY DEF Idle, Returned
<1>g. ASSUME NEW p \in Proc, NEW o, Goto(p, o), o.at = "returned" => o.body # "partial"
      PROVE  Whole'
  BY <1>g, <1>s, <1>t DEF Goto
<1> HIDE DEF Whole
<1>1. ASSUME NEW p \in Proc, Block(p)
      PROVE  Whole'
  <2>1. CASE Inactive(p) \/ GetMiss(p) \/ GetStale(p)
    BY <2>1, <1>g, <1>n DEF Inactive, GetMiss, GetStale
  <2>2. CASE GetHit(p)
    <3>1. (IF Large(op[p].msg) THEN blob[op[p].msg] ELSE "whole") # "partial"
      BY <2>2, <1>s DEF GetHit
    <3> QED
      BY <2>2, <3>1, <1>g, <1>n DEF GetHit
  <2>3. CASE PutOversize(p) \/ PutEvict(p) \/ PutStore(p) \/ DeleteMessage(p)
    BY <2>3, <1>g, <1>n DEF PutOversize, PutEvict, PutStore, DeleteMessage, Finish
  <2>4. CASE Flush(p) \/ FlushAddress(p) \/ FlushAll(p) \/ Shrink(p)
    BY <2>4, <1>g, <1>n DEF Flush, FlushAddress, FlushAll, Shrink, Finish
  <2>5. CASE SetLimit(p)
    BY <2>5, <1>g, <1>n DEF SetLimit, Finish
  <2> QED
    BY <1>1, <2>1, <2>2, <2>3, <2>4, <2>5 DEF Block
<1>2. ASSUME NEW p \in Proc, SetLimitFails(p) \/ BlockFails(p) \/ TakeResult(p)
                             \/ \E call \in Calls : Call(p, call)
      PROVE  Whole'
  <2>1. \A call \in Calls : call.at # "returned"
    BY DEF Calls
  <2> QED
    BY <1>2, <2>1, <1>g, <1>n DEF SetLimitFails, BlockFails, TakeResult, Call, Finish
<1>3. CASE Crash
  BY <1>3, <1>n DEF Crash, Whole
<1>4. CASE Initialise \/ InitialiseFails \/ Tick \/ UNCHANGED vars
  BY <1>4, <1>s DEF Initialise, InitialiseFails, Tick, vars, Whole
<1> QED
  BY <1>1, <1>2, <1>3, <1>4 DEF Next, CacheStep

\* Only the lookup lets a read past, and it knows whose the message is.
LEMMA ReadsOwnedStep ==
  ASSUME ServiceTypes, ReadsOwned, [ServiceNext]_allVars
  PROVE  ReadsOwned'
<1>t. task \in [Proc -> Task] /\ \A p \in Proc : task[p] \in Task
  BY DEF ServiceTypes
<1>a. ASSUME NEW p \in Proc, NEW t, task' = [task EXCEPT ![p] = t],
             t.at \in {"cache", "download"} => AddressOf[t.msg] = t.address
      PROVE  ReadsOwned'
  BY <1>a, <1>t DEF ReadsOwned
<1>n. NoTask.at \notin {"cache", "download"}
  BY DEF NoTask
<1>u. ASSUME UNCHANGED task
      PROVE  ReadsOwned'
  BY <1>u DEF ReadsOwned
<1>1. ASSUME NEW p \in Proc, Begins(p)
      PROVE  ReadsOwned'
  <2>1. ASSUME NEW m \in Message, NEW a \in Address, ReadMessage(p, m, a)
        PROVE  ReadsOwned'
    <3> DEFINE next == [at |-> "lookup", msg |-> m, address |-> a, late |-> m \notin exists]
    <3>1. task' = [task EXCEPT ![p] = next] /\ next.at \notin {"cache", "download"}
      BY <2>1 DEF ReadMessage, Begin
    <3> HIDE DEF next
    <3> QED
      BY <3>1, <1>a
  <2>2. ASSUME NEW m \in Message, DeleteMessages(p, m)
        PROVE  ReadsOwned'
    BY <2>2, <1>a DEF DeleteMessages, Begin
  <2>3. ASSUME NEW m \in Message, DeletionEvent(p, m)
        PROVE  ReadsOwned'
    BY <2>3, <1>u DEF DeletionEvent
  <2>4. ASSUME NEW a \in Address, Deprovision(p, a)
        PROVE  ReadsOwned'
    BY <2>4, <1>a DEF Deprovision, Begin
  <2>5. CASE UserCall(p)
    BY <2>5, <1>u DEF UserCall, service
  <2>6. CASE Reset(p)
    BY <2>6, <1>u DEF Reset
  <2> QED
    BY <1>1, <2>1, <2>2, <2>3, <2>4, <2>5, <2>6 DEF Begins
<1>2. ASSUME NEW p \in Proc, ReadStep(p)
      PROVE  ReadsOwned'
  <2>1. CASE \/ LookupUnknown(p) \/ LookupRejected(p) \/ CacheHit(p)
             \/ Downloaded(p) \/ DownloadMissing(p) \/ DownloadRejected(p)
    BY <2>1, <1>a, <1>n DEF LookupUnknown, LookupRejected, CacheHit, Downloaded,
                            DownloadMissing, DownloadRejected, Resolve, Advance
  <2>2. CASE LookupFound(p)
    <3>1. task[p] \in Read
      BY <2>2, <1>t, TaskFields DEF LookupFound
    <3>2. /\ [task[p] EXCEPT !.at = "cache"].msg = task[p].msg
          /\ [task[p] EXCEPT !.at = "cache"].address = task[p].address
      BY <3>1 DEF Read
    <3> QED
      BY <2>2, <3>2, <1>a DEF LookupFound, Advance
  <2>3. CASE CacheMiss(p)
    <3>1. task[p] \in Read
      BY <2>3, <1>t, TaskFields DEF CacheMiss
    <3>2. /\ [task[p] EXCEPT !.at = "download"].msg = task[p].msg
          /\ [task[p] EXCEPT !.at = "download"].address = task[p].address
      BY <3>1 DEF Read
    <3>3. AddressOf[task[p].msg] = task[p].address
      BY <2>3 DEF CacheMiss, ReadsOwned
    <3> QED
      BY <2>3, <3>2, <3>3, <1>a DEF CacheMiss, Advance
  <2> QED
    BY <1>2, <2>1, <2>2, <2>3 DEF ReadStep
<1>3. ASSUME NEW p \in Proc, DeleteStep(p)
      PROVE  ReadsOwned'
  BY <1>3, <1>a, <1>n
  DEF DeleteStep, ServiceDeletes, DeleteRefused, DeleteAnswered, ServiceDeprovisions,
      DeprovisionAnswered, AnswerLost, Advance
<1>4. ASSUME NEW p \in Proc, CacheBlock(p) \/ CacheFailure(p)
      PROVE  ReadsOwned'
  BY <1>4, <1>u DEF CacheBlock, CacheFailure, service
<1>5. ASSUME NEW m \in Message, DeletedElsewhere(m) \/ DeletionEventLost(m)
      PROVE  ReadsOwned'
  BY <1>5, <1>u DEF DeletedElsewhere, DeletionEventLost
<1>6. CASE StartCache \/ KeysChange \/ UNCHANGED allVars
  BY <1>6, <1>u DEF StartCache, KeysChange, allVars, service
<1>7. CASE ClientCrash
  BY <1>7, <1>n DEF ClientCrash, ReadsOwned
<1> QED
  BY <1>1, <1>2, <1>3, <1>4, <1>5, <1>6, <1>7 DEF ServiceNext

\* A call to getEmailMessageWithBody asks the mailbox for a body.
LEMMA UncachedBegin ==
  ASSUME NEW p \in Proc, NEW m \in Message, NEW a \in Address,
         Asked[p] = Asks(NoTask),
         Asked' = [Asked EXCEPT ![p] = [msg |-> m, address |-> a, late |-> m \notin exists]],
         result' = [result EXCEPT ![p] = NoResult],
         UNCHANGED <<exists, readable, faults, crashes>>
  PROVE  Uncached!Next
<1> USE DEF Asked, Asks, Reading, NoTask
<1>1. Uncached!Begin(p, m, a)
  BY DEF Uncached!Begin, Uncached!NoRead, Uncached!NoResult, NoResult
<1> QED
  BY <1>1 DEF Uncached!Next

\* The body, nothing or an error ends what was asked for.
LEMMA UncachedEnd ==
  ASSUME NEW p \in Proc, NEW body \in Outcome,
         Asked[p] # Asks(NoTask),
         Asked' = [Asked EXCEPT ![p] = Asks(NoTask)],
         result' = [result EXCEPT ![p] =
           [msg |-> Asked[p].msg, body |-> body, late |-> Asked[p].late]],
         body \in {"served", "unreadable"} =>
           /\ ~Asked[p].late /\ AddressOf[Asked[p].msg] = Asked[p].address
           /\ body = "served" <=> Asked[p].msg \in readable,
         body = "undefined" =>
           Asked[p].msg \notin exists \/ AddressOf[Asked[p].msg] # Asked[p].address,
         body = "cut" => faults + crashes > 0,
         UNCHANGED <<exists, readable, faults, crashes>>
  PROVE  Uncached!Next
<1> USE DEF Asked, Asks, Reading, NoTask
<1>1. Uncached!Resolve(p, body)
  BY DEF Uncached!Resolve, Uncached!NoRead
<1>2. CASE body = "served"
  <2>1. Uncached!Serve(p)
    BY <1>1, <1>2 DEF Uncached!Serve, Uncached!NoRead
  <2> QED
    BY <2>1 DEF Uncached!Next
<1>3. CASE body = "undefined"
  <2>1. Uncached!FindNothing(p)
    BY <1>1, <1>3 DEF Uncached!FindNothing, Uncached!NoRead
  <2> QED
    BY <2>1 DEF Uncached!Next
<1>4. CASE body = "cut"
  <2>1. Uncached!Fail(p)
    BY <1>1, <1>4 DEF Uncached!Fail, Uncached!NoRead
  <2> QED
    BY <2>1 DEF Uncached!Next
<1>5. CASE body = "rejected"
  <2>1. Uncached!Reject(p)
    BY <1>1, <1>5 DEF Uncached!Reject, Uncached!NoRead
  <2> QED
    BY <2>1 DEF Uncached!Next
<1>6. CASE body = "unreadable"
  <2>1. Uncached!Undecodable(p)
    BY <1>1, <1>6 DEF Uncached!Undecodable, Uncached!NoRead
  <2> QED
    BY <2>1 DEF Uncached!Next
<1> QED
  BY <1>2, <1>3, <1>4, <1>5, <1>6 DEF Outcome

\* The mailbox loses messages while reads go on.
LEMMA UncachedDelete ==
  ASSUME exists' \in SUBSET exists, UNCHANGED <<readable, Asked, result, faults, crashes>>
  PROVE  Uncached!Next
<1>1. Uncached!Delete
  BY DEF Uncached!Delete, Asked, Asks, Reading
<1> QED
  BY <1>1 DEF Uncached!Next

\* Keys come and go while reads go on.
LEMMA UncachedKeys ==
  ASSUME readable' \in SUBSET Message, UNCHANGED <<exists, Asked, result, faults, crashes>>
  PROVE  Uncached!Next
<1>1. Uncached!KeysChange
  BY DEF Uncached!KeysChange, Asked, Asks, Reading
<1> QED
  BY <1>1 DEF Uncached!Next

\* A failure, which the reads outlive or not.
LEMMA UncachedFailure ==
  ASSUME faults' + crashes' > faults + crashes,
         Asked' = Asked \/ Asked' = [p \in Proc |-> Asks(NoTask)],
         UNCHANGED <<exists, readable, result>>
  PROVE  Uncached!Next
<1>1. Uncached!Failure
  BY DEF Uncached!Failure, Uncached!NoRead, Asked, Asks, Reading, NoTask
<1> QED
  BY <1>1 DEF Uncached!Next

\* A step that leaves the messages, the reads and their results alone does not show.
LEMMA UncachedStutter ==
  ASSUME UNCHANGED <<exists, readable, Asked, result, faults, crashes>>
  PROVE  UNCHANGED Uncached!vars
  BY DEF Uncached!vars, Asked, Asks, Reading

\* Every step of the client is one of the mailbox without a cache, or does not show.
LEMMA TransparentStep ==
  ASSUME TypeOK, ServiceTypes, UsesCache, LateIsUnknown, ReadsOwned, ReturnsWhole,
         [ServiceNext]_allVars
  PROVE  [Uncached!Next]_(Uncached!vars)
<1>g. [Next]_vars
  BY StepOfCache
<1>t. /\ task \in [Proc -> Task] /\ exists \in SUBSET Message /\ readable \in SUBSET Message
      /\ \A p \in Proc : task[p] \in Task /\ op[p] \in Op
  BY DEF TypeOK, ServiceTypes
<1>n. NoTask.at \notin Reading
  BY DEF NoTask, Reading
<1>a. ASSUME NEW p \in Proc, NEW t, task' = [task EXCEPT ![p] = t]
      PROVE  /\ Asked' = [Asked EXCEPT ![p] = Asks(t)]
             /\ Asks(t) = Asks(task[p]) => UNCHANGED Asked
  BY <1>a, <1>t DEF Asked
<1>s. ASSUME UNCHANGED task
      PROVE  UNCHANGED Asked
  BY <1>s DEF Asked
<1>r. ASSUME NEW p \in Proc, task[p].at \in Reading
      PROVE  /\ Asked[p] = [msg |-> task[p].msg, address |-> task[p].address,
                            late |-> task[p].late]
             /\ Asked[p] # Asks(NoTask)
  <2>1. task[p].address # None
    BY <1>r, <1>t, TaskFields, OwnerAssumption DEF Reading
  <2> QED
    BY <1>r, <1>n, <2>1 DEF Asked, Asks
<1>o. ASSUME NEW t, t.at \notin Reading
      PROVE  Asks(t) = Asks(NoTask)
  BY <1>o, <1>n DEF Asks
<1>e. ASSUME NEW p \in Proc, NEW body \in Outcome,
             task[p].at \in Reading, Resolve(p, body),
             body \in {"served", "unreadable"} =>
               /\ ~task[p].late /\ AddressOf[task[p].msg] = task[p].address
               /\ body = "served" <=> task[p].msg \in readable,
             body = "undefined" =>
               task[p].msg \notin exists \/ AddressOf[task[p].msg] # task[p].address,
             body = "cut" => faults + crashes > 0,
             UNCHANGED <<exists, readable, faults, crashes>>
      PROVE  Uncached!Next
  <2>1. Asked' = [Asked EXCEPT ![p] = Asks(NoTask)]
    BY <1>e, <1>a DEF Resolve, Advance
  <2>2. /\ Asked[p] # Asks(NoTask) /\ Asked[p].msg = task[p].msg
        /\ Asked[p].address = task[p].address /\ Asked[p].late = task[p].late
    <3>1. task[p].at \in Reading
      BY <1>e
    <3>2. /\ Asked[p] = [msg |-> task[p].msg, address |-> task[p].address,
                         late |-> task[p].late]
          /\ Asked[p] # Asks(NoTask)
      BY <3>1, <1>r
    <3> QED
      BY <3>2
  <2>3. result' = [result EXCEPT ![p] =
          [msg |-> Asked[p].msg, body |-> body, late |-> Asked[p].late]]
    BY <1>e, <2>2 DEF Resolve
  <2> QED
    BY <1>e, <2>1, <2>2, <2>3, UncachedEnd
<1>q. ASSUME NEW p \in Proc, task[p].at \in {"cache", "download"}
      PROVE  ~task[p].late /\ AddressOf[task[p].msg] = task[p].address
  BY <1>q DEF LateIsUnknown, ReadsOwned
<1>1. ASSUME NEW p \in Proc, Begins(p)
      PROVE  [Uncached!Next]_(Uncached!vars)
  <2>0. ASSUME NEW t, task' = [task EXCEPT ![p] = t], t.at \notin Reading,
               task[p] = NoTask, UNCHANGED <<exists, readable, result, faults, crashes>>
        PROVE  [Uncached!Next]_(Uncached!vars)
    BY <2>0, <1>a, <1>o, UncachedStutter
  <2>1. ASSUME NEW m \in Message, NEW a \in Address, ReadMessage(p, m, a)
        PROVE  [Uncached!Next]_(Uncached!vars)
    <3> DEFINE next == [at |-> "lookup", msg |-> m, address |-> a, late |-> m \notin exists]
    <3>1. task' = [task EXCEPT ![p] = next] /\ task[p] = NoTask
          /\ result' = [result EXCEPT ![p] = NoResult]
          /\ UNCHANGED <<exists, readable, faults, crashes>>
      BY <2>1 DEF ReadMessage, Begin, Free, vars
    <3>2. Asks(next) = [msg |-> m, address |-> a, late |-> m \notin exists]
      BY DEF Asks, Reading
    <3>3. Asked[p] = Asks(NoTask)
      BY <3>1 DEF Asked
    <3> HIDE DEF next
    <3>4. Asked' = [Asked EXCEPT ![p] = Asks(next)]
      BY <3>1, <1>a
    <3> QED
      BY <3>1, <3>2, <3>3, <3>4, UncachedBegin
  <2>2. ASSUME NEW m \in Message, DeleteMessages(p, m)
        PROVE  [Uncached!Next]_(Uncached!vars)
    BY <2>2, <2>0 DEF DeleteMessages, Begin, Free, vars, Reading
  <2>3. ASSUME NEW m \in Message, DeletionEvent(p, m)
        PROVE  [Uncached!Next]_(Uncached!vars)
    BY <2>3, <1>s, UncachedStutter DEF DeletionEvent, cache
  <2>4. ASSUME NEW a \in Address, Deprovision(p, a)
        PROVE  [Uncached!Next]_(Uncached!vars)
    BY <2>4, <2>0 DEF Deprovision, Begin, Free, vars, Reading
  <2>5. CASE UserCall(p)
    BY <2>5, <1>s, UncachedStutter DEF UserCall, Call, service
  <2>6. CASE Reset(p)
    BY <2>6, <1>s, UncachedKeys DEF Reset, Call
  <2> QED
    BY <1>1, <2>1, <2>2, <2>3, <2>4, <2>5, <2>6 DEF Begins
<1>2. ASSUME NEW p \in Proc, ReadStep(p)
      PROVE  [Uncached!Next]_(Uncached!vars)
  <2>1. CASE LookupUnknown(p)
    BY <2>1, <1>e DEF LookupUnknown, Reading, vars, Outcome
  <2>2. CASE DownloadMissing(p)
    BY <2>2, <1>e DEF DownloadMissing, Reading, vars, Outcome
  <2>6. CASE LookupRejected(p) \/ DownloadRejected(p)
    BY <2>6, <1>e DEF LookupRejected, DownloadRejected, Reading, vars, Outcome
  <2>3. CASE LookupFound(p) \/ CacheMiss(p)
    <3>1. PICK at \in {"cache", "download"} :
            /\ task' = [task EXCEPT ![p] = [task[p] EXCEPT !.at = at]]
            /\ task[p].at \in Reading
            /\ UNCHANGED <<exists, readable, result, faults, crashes>>
      BY <2>3 DEF LookupFound, CacheMiss, Advance, Reading, cache
    <3>2. task[p] \in Read
      BY <3>1, <1>t, TaskFields DEF Reading
    <3>3. Asks([task[p] EXCEPT !.at = at]) = Asks(task[p])
      BY <3>1, <3>2 DEF Asks, Read, Reading
    <3> QED
      BY <3>1, <3>3, <1>a, UncachedStutter
  <2>4. CASE CacheHit(p)
    <3>1. op[p].body \in Blob /\ op[p].body # "absent"
      BY <2>4, <1>t DEF CacheHit, Op, Idle
    <3>2. /\ task[p].at \in Reading /\ UNCHANGED <<exists, readable, faults, crashes>>
          /\ Resolve(p, Decoded(task[p].msg, op[p].body))
      BY <2>4 DEF CacheHit, Reading, cache
    <3>3. ~task[p].late /\ AddressOf[task[p].msg] = task[p].address
      BY <2>4, <1>q DEF CacheHit
    <3>4. Decoded(task[p].msg, op[p].body) = "cut" => faults + crashes > 0
      <4>1. op[p].at = "returned"
        BY <2>4 DEF CacheHit
      <4>2. Decoded(task[p].msg, op[p].body) = "cut" => op[p].body = "partial"
        BY <3>1 DEF Decoded, Blob
      <4> QED
        BY <4>1, <4>2, <1>g, CountsGrow DEF ReturnsWhole
    <3>5. /\ Decoded(task[p].msg, op[p].body) \in Outcome \ {"undefined"}
          /\ Decoded(task[p].msg, op[p].body) = "served" => task[p].msg \in readable
          /\ Decoded(task[p].msg, op[p].body) = "unreadable" => task[p].msg \notin readable
      BY DEF Decoded, Outcome
    <3> QED
      BY <3>2, <3>3, <3>4, <3>5, <1>e
  <2>5. CASE Downloaded(p)
    <3>1. /\ task[p].at \in Reading /\ UNCHANGED <<exists, readable, faults, crashes>>
          /\ Resolve(p, Decoded(task[p].msg, "whole"))
      BY <2>5 DEF Downloaded, Reading, cache
    <3>2. ~task[p].late /\ AddressOf[task[p].msg] = task[p].address
      BY <2>5, <1>q DEF Downloaded
    <3>3. /\ Decoded(task[p].msg, "whole") \in {"served", "unreadable"}
          /\ Decoded(task[p].msg, "whole") = "served" <=> task[p].msg \in readable
      BY DEF Decoded
    <3> QED
      BY <3>1, <3>2, <3>3, <1>e DEF Outcome
  <2> QED
    BY <1>2, <2>1, <2>2, <2>3, <2>4, <2>5, <2>6 DEF ReadStep
<1>3. ASSUME NEW p \in Proc, DeleteStep(p)
      PROVE  [Uncached!Next]_(Uncached!vars)
  <2>1. /\ UNCHANGED <<result, faults, crashes>> /\ exists' \in SUBSET exists
        /\ UNCHANGED readable \/ (UNCHANGED exists /\ readable' \in SUBSET Message)
    BY <1>3, <1>t DEF DeleteStep, ServiceDeletes, DeleteRefused, DeleteAnswered,
                ServiceDeprovisions, DeprovisionAnswered, AnswerLost, cache, vars
  <2>2. \E t : task' = [task EXCEPT ![p] = t] /\ t.at \notin Reading
    BY <1>3, <1>n DEF DeleteStep, ServiceDeletes, DeleteRefused, DeleteAnswered,
                ServiceDeprovisions, DeprovisionAnswered, AnswerLost, Advance, Reading
  <2>3. task[p].at \notin Reading
    BY <1>3 DEF DeleteStep, ServiceDeletes, DeleteRefused, DeleteAnswered,
                ServiceDeprovisions, DeprovisionAnswered, AnswerLost, Reading
  <2>4. UNCHANGED Asked
    <3>1. PICK t : task' = [task EXCEPT ![p] = t] /\ t.at \notin Reading
      BY <2>2
    <3>2. Asks(t) = Asks(NoTask)
      BY <3>1, <1>o
    <3>3. Asks(task[p]) = Asks(NoTask)
      BY <2>3, <1>o
    <3> QED
      BY <3>1, <3>2, <3>3, <1>a
  <2> QED
    BY <2>1, <2>4, UncachedDelete, UncachedKeys
<1>4. ASSUME UNCHANGED <<task, exists, readable, result>>, faults' + crashes' >= faults + crashes
      PROVE  [Uncached!Next]_(Uncached!vars)
  <2>1. UNCHANGED Asked
    BY <1>4, <1>s
  <2>2. CASE faults' + crashes' > faults + crashes
    BY <1>4, <2>1, <2>2, UncachedFailure
  <2>3. CASE ~(faults' + crashes' > faults + crashes)
    <3>1. faults' = faults /\ crashes' = crashes
      BY <1>g, <2>3, CountsGrow
    <3> QED
      BY <1>4, <2>1, <3>1, UncachedStutter
  <2> QED
    BY <2>2, <2>3
<1>c. faults' + crashes' >= faults + crashes
  BY <1>g, CountsGrow
<1>5. ASSUME NEW p \in Proc, CacheBlock(p) \/ CacheFailure(p)
      PROVE  [Uncached!Next]_(Uncached!vars)
  BY <1>5, <1>4, <1>c DEF CacheBlock, CacheFailure, service
<1>6. ASSUME NEW m \in Message, DeletedElsewhere(m)
      PROVE  [Uncached!Next]_(Uncached!vars)
  BY <1>6, <1>s, UncachedDelete DEF DeletedElsewhere, vars
<1>7. ASSUME NEW m \in Message, DeletionEventLost(m)
      PROVE  [Uncached!Next]_(Uncached!vars)
  BY <1>7, <1>4, <1>c DEF DeletionEventLost
<1>8. CASE StartCache \/ UNCHANGED allVars
  BY <1>8, <1>4, <1>c DEF StartCache, allVars, service
<1>9. CASE ClientCrash
  <2>1. /\ Asked' = [p \in Proc |-> Asks(NoTask)]
        /\ UNCHANGED <<exists, readable, result>>
    BY <1>9 DEF ClientCrash, Asked
  <2>2. faults' + crashes' > faults + crashes
    BY <1>9, <1>g, CountsGrow DEF ClientCrash, Crash
  <2> QED
    BY <2>1, <2>2, UncachedFailure
<1>10. CASE KeysChange
  BY <1>10, <1>s, UncachedKeys DEF KeysChange, vars
<1> QED
  BY <1>1, <1>2, <1>3, <1>5, <1>6, <1>7, <1>8, <1>9, <1>10 DEF ServiceNext

\* Reads through the cache come to what reads of a mailbox without one come to,
\* however many calls, failures, restarts, purges, deletions and key losses go on
\* meanwhile: the cache adds to the ways in which a read may throw only the body cut
\* short, and that only once a cache call or the process has failed.
THEOREM CacheIsNeverSeen == ServiceSpec => CacheIsTransparent
<1>1. ServiceInit => /\ LateIsUnknown /\ LateReadsServeNothing
                     /\ ReadsOwned /\ BlobsMatchRows /\ ReturnsWhole
  BY DEF ServiceInit, Init, LateIsUnknown, LateReadsServeNothing, ReadsOwned,
         BlobsMatchRows, ReturnsWhole, NoTask, NoResult, Idle
<1>2. ServiceInit => Uncached!Init
  BY DEF ServiceInit, Init, NoTask, NoResult, Uncached!Init, Uncached!NoRead,
         Uncached!NoResult
<1>3. TypeOK /\ ServiceTypes /\ UsesCache
        /\ (LateIsUnknown /\ LateReadsServeNothing /\ ReadsOwned
              /\ BlobsMatchRows /\ ReturnsWhole)
        /\ [ServiceNext]_allVars
        => (LateIsUnknown /\ LateReadsServeNothing /\ ReadsOwned
              /\ BlobsMatchRows /\ ReturnsWhole)'
  BY ReadsLateStep, ReadsOwnedStep, BlobsMatchRowsStep, ReturnsWholeStep, StepOfCache
<1>4. TypeOK /\ ServiceTypes /\ UsesCache
        /\ (LateIsUnknown /\ LateReadsServeNothing /\ ReadsOwned
              /\ BlobsMatchRows /\ ReturnsWhole)
        /\ [ServiceNext]_allVars
        => [Uncached!Next]_(Uncached!vars)
  BY TransparentStep
<1> QED
  BY <1>1, <1>2, <1>3, <1>4, ClientInvariants, PTL
  DEF ServiceSpec, CacheIsTransparent, Uncached!Spec

-----------------------------------------------------------------------------

\* The steps a read has before it, at most: the answer of the service, that of the
\* cache, what is made of it, and the download.
StepsLeft(t, o) ==
  CASE t.at = "lookup" -> 4
    [] t.at = "cache" /\ o.at = "get" -> 3
    [] t.at = "cache" /\ o.at = "returned" -> 2
    [] t.at = "download" -> 1
    [] OTHER -> 0

\* Until the read of p is over, a step takes one from it or leaves it alone.
ReadAdvances(p) ==
  StepsLeft(task[p], op[p]) > 0 =>
    \/ task'[p] = task[p] /\ op'[p] = op[p]
    \/ StepsLeft(task'[p], op'[p]) < StepsLeft(task[p], op[p])

\* Each step of a read and of the get it waits for takes one; a step of another
\* activity leaves it alone; and a crash ends it.
LEMMA ReadAdvancesStep ==
  ASSUME TypeOK, ServiceTypes, UsesCache, [ServiceNext]_allVars, NEW p \in Proc
  PROVE  ReadAdvances(p)
<1>t. /\ op \in [Proc -> Op] /\ task \in [Proc -> Task]
      /\ \A q \in Proc : task[q] \in Task
  BY DEF TypeOK, ServiceTypes
<1>n. \A o : StepsLeft(NoTask, o) = 0
  BY DEF StepsLeft, NoTask
<1>e. ASSUME NEW q \in Proc, NEW t, NEW o,
             task' = [task EXCEPT ![q] = t], op' = [op EXCEPT ![q] = o],
             StepsLeft(task[q], op[q]) > 0 => StepsLeft(t, o) < StepsLeft(task[q], op[q])
      PROVE  ReadAdvances(p)
  BY <1>e, <1>t DEF ReadAdvances
<1>u. ASSUME NEW q \in Proc, NEW t, task' = [task EXCEPT ![q] = t], UNCHANGED op,
             StepsLeft(task[q], op[q]) > 0 => StepsLeft(t, op[q]) < StepsLeft(task[q], op[q])
      PROVE  ReadAdvances(p)
  BY <1>u, <1>t DEF ReadAdvances
<1>p. ASSUME NEW q \in Proc, NEW o, op' = [op EXCEPT ![q] = o], UNCHANGED task,
             StepsLeft(task[q], op[q]) > 0 => StepsLeft(task[q], o) < StepsLeft(task[q], op[q])
      PROVE  ReadAdvances(p)
  BY <1>p, <1>t DEF ReadAdvances
<1>s. ASSUME UNCHANGED <<task, op>>
      PROVE  ReadAdvances(p)
  BY <1>s DEF ReadAdvances
<1>1. ASSUME NEW q \in Proc, Begins(q)
      PROVE  ReadAdvances(p)
  <2>1. task[q] = NoTask
    BY <1>1 DEF Begins, ReadMessage, DeleteMessages, DeletionEvent, Deprovision, UserCall,
                Reset, Begin, Free
  <2>2. ~(StepsLeft(task[q], op[q]) > 0)
    BY <2>1, <1>n
  <2>3. CASE \E t : task' = [task EXCEPT ![q] = t] /\ UNCHANGED op
    BY <2>2, <2>3, <1>u
  <2>4. CASE \E o : op' = [op EXCEPT ![q] = o] /\ UNCHANGED task
    BY <2>2, <2>4, <1>p
  <2>5. ASSUME NEW m \in Message, NEW a \in Address, ReadMessage(q, m, a)
        PROVE  ReadAdvances(p)
    BY <2>3, <2>5 DEF ReadMessage, Begin, vars
  <2>6. ASSUME NEW m \in Message, DeleteMessages(q, m)
        PROVE  ReadAdvances(p)
    BY <2>3, <2>6 DEF DeleteMessages, Begin, vars
  <2>7. ASSUME NEW a \in Address, Deprovision(q, a)
        PROVE  ReadAdvances(p)
    BY <2>3, <2>7 DEF Deprovision, Begin, vars
  <2>8. ASSUME NEW m \in Message, DeletionEvent(q, m)
        PROVE  ReadAdvances(p)
    BY <2>4, <2>8 DEF DeletionEvent, Goto
  <2>9. CASE UserCall(q) \/ Reset(q)
    BY <2>4, <2>9 DEF UserCall, Reset, Call, Goto, service
  <2> QED
    BY <1>1, <2>5, <2>6, <2>7, <2>8, <2>9 DEF Begins
<1>2. ASSUME NEW q \in Proc, ReadStep(q)
      PROVE  ReadAdvances(p)
  <2>1. CASE LookupUnknown(q) \/ LookupRejected(q) \/ DownloadMissing(q) \/ DownloadRejected(q)
    BY <2>1, <1>n, <1>u DEF LookupUnknown, LookupRejected, DownloadMissing, DownloadRejected,
                            Resolve, Advance, vars
  <2>2. CASE LookupFound(q)
    <3>1. task[q] \in Read
      BY <2>2, <1>t, TaskFields DEF LookupFound
    <3>2. StepsLeft([task[q] EXCEPT !.at = "cache"], [at |-> "get", msg |-> task[q].msg]) = 3
      BY <3>1 DEF StepsLeft, Read
    <3>3. StepsLeft(task[q], op[q]) = 4
      BY <2>2 DEF LookupFound, StepsLeft
    <3>4. /\ task' = [task EXCEPT ![q] = [task[q] EXCEPT !.at = "cache"]]
          /\ op' = [op EXCEPT ![q] = [at |-> "get", msg |-> task[q].msg]]
      BY <2>2 DEF LookupFound, Advance, Goto
    <3>5. StepsLeft([task[q] EXCEPT !.at = "cache"], [at |-> "get", msg |-> task[q].msg])
            < StepsLeft(task[q], op[q])
      BY <3>2, <3>3
    <3> QED
      BY <3>4, <3>5, <1>e
  <2>3. CASE CacheHit(q)
    BY <2>3, <1>n, <1>e DEF CacheHit, Resolve, Advance, Finish, Goto
  <2>4. CASE CacheMiss(q)
    <3>1. task[q] \in Read
      BY <2>4, <1>t, TaskFields DEF CacheMiss
    <3>2. StepsLeft([task[q] EXCEPT !.at = "download"], Idle) = 1
      BY <3>1 DEF StepsLeft, Read
    <3>3. StepsLeft(task[q], op[q]) = 2
      BY <2>4 DEF CacheMiss, StepsLeft
    <3>4. /\ task' = [task EXCEPT ![q] = [task[q] EXCEPT !.at = "download"]]
          /\ op' = [op EXCEPT ![q] = Idle]
      BY <2>4 DEF CacheMiss, Advance, Finish, Goto
    <3>5. StepsLeft([task[q] EXCEPT !.at = "download"], Idle) < StepsLeft(task[q], op[q])
      BY <3>2, <3>3
    <3> QED
      BY <3>4, <3>5, <1>e
  <2>5. CASE Downloaded(q)
    BY <2>5, <1>n, <1>e DEF Downloaded, Resolve, Advance, Goto
  <2> QED
    BY <1>2, <2>1, <2>2, <2>3, <2>4, <2>5 DEF ReadStep
<1>3. ASSUME NEW q \in Proc, DeleteStep(q)
      PROVE  ReadAdvances(p)
  <2>1. StepsLeft(task[q], op[q]) = 0
    BY <1>3 DEF DeleteStep, ServiceDeletes, DeleteRefused, DeleteAnswered,
                ServiceDeprovisions, DeprovisionAnswered, AnswerLost, StepsLeft
  <2>2. CASE ServiceDeletes(q) \/ ServiceDeprovisions(q) \/ DeleteRefused(q) \/ AnswerLost(q)
    BY <2>1, <2>2, <1>u DEF ServiceDeletes, ServiceDeprovisions, DeleteRefused, AnswerLost,
                            Advance, vars
  <2>3. CASE DeleteAnswered(q) \/ DeprovisionAnswered(q)
    BY <2>1, <2>3, <1>e DEF DeleteAnswered, DeprovisionAnswered, Advance, Goto
  <2> QED
    BY <1>3, <2>2, <2>3 DEF DeleteStep
<1>4. ASSUME NEW q \in Proc, CacheBlock(q) \/ CacheFailure(q)
      PROVE  ReadAdvances(p)
  <2>1. UNCHANGED task
    BY <1>4 DEF CacheBlock, CacheFailure, service
  <2>2. CASE op[q].at = "get"
    <3>1. PICK o \in Op : op' = [op EXCEPT ![q] = o] /\ o.at = "returned"
      BY <1>4, <2>2, GetReturns
    <3>2. StepsLeft(task[q], op[q]) > 0 => StepsLeft(task[q], o) < StepsLeft(task[q], op[q])
      <4>1. task[q].at \notin {"lookup", "download"}
        BY <2>2 DEF UsesCache, Uses, Waiting, Idle
      <4> QED
        BY <2>2, <3>1, <4>1 DEF StepsLeft
    <3> QED
      BY <2>1, <3>1, <3>2, <1>p
  <2>3. CASE op[q].at # "get"
    <3>1. op[q].at \notin {"idle", "returned"} /\ op[q] # Idle
      BY <1>4 DEF CacheBlock, CacheFailure, BlockFails, SetLimitFails, Block, Inactive,
                  GetMiss, GetHit, GetStale, PutOversize, PutEvict, PutStore,
                  DeleteMessage, Flush, FlushAddress, FlushAll, SetLimit, Shrink, Idle
    <3>2. task[q].at \notin {"lookup", "cache", "download"}
      BY <2>3, <3>1 DEF UsesCache, Uses, Waiting
    <3>3. StepsLeft(task[q], op[q]) = 0
      BY <3>2 DEF StepsLeft
    <3>4. \E o : op' = [op EXCEPT ![q] = o]
      BY <1>4 DEF CacheBlock, CacheFailure, BlockFails, SetLimitFails, Block, Inactive,
                  GetMiss, GetHit, GetStale, PutOversize, PutEvict, PutStore, DeleteMessage,
                  Flush, FlushAddress, FlushAll, SetLimit, Shrink, Goto, Finish
    <3>5. ~(StepsLeft(task[q], op[q]) > 0)
      BY <3>3
    <3> QED
      BY <2>1, <3>4, <3>5, <1>p
  <2> QED
    BY <2>2, <2>3
<1>5. ASSUME NEW m \in Message, DeletedElsewhere(m) \/ DeletionEventLost(m)
      PROVE  ReadAdvances(p)
  BY <1>5, <1>s DEF DeletedElsewhere, DeletionEventLost, vars
<1>6. CASE StartCache \/ KeysChange \/ UNCHANGED allVars
  BY <1>6, <1>s DEF StartCache, KeysChange, Initialise, InitialiseFails, allVars, vars, service
<1>7. CASE ClientCrash
  BY <1>7, <1>n DEF ClientCrash, ReadAdvances
<1> QED
  BY <1>1, <1>2, <1>3, <1>4, <1>5, <1>6, <1>7 DEF ServiceNext

\* A read takes four steps at most, whatever happens beside it: no miss, stale row,
\* failing call or deletion sends it back. With the fairness of FairServiceSpec this
\* is why reads end.
THEOREM ReadsAdvance == ServiceSpec => [][\A p \in Proc : ReadAdvances(p)]_allVars
<1>1. TypeOK /\ ServiceTypes /\ UsesCache /\ [ServiceNext]_allVars
        => [\A p \in Proc : ReadAdvances(p)]_allVars
  BY ReadAdvancesStep
<1> QED
  BY <1>1, ClientInvariants, PTL DEF ServiceSpec
=============================================================================
