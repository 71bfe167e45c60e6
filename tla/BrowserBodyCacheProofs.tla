------------------------ MODULE BrowserBodyCacheProofs ------------------------
(***************************************************************************)
(* What the cache of a page promises, and what the next page finds of it,  *)
(* for any pages, messages, sizes, limits and purges.                      *)
(***************************************************************************)
EXTENDS BrowserBodyCache, SubsequencesProofs

-----------------------------------------------------------------------------
(* The inductive invariant *)

Op ==
  [at : {"closed", "initialise", "idle", "shrink"}]
    \cup [at : {"store"}, msg : Message]
    \cup [at : {"purge"}, left : Seq(SUBSET Message), purged : SUBSET Message]

Image == [rows : Seq(Message), settings : Limit \cup {None}]

PageState ==
  [op : Op, rows : Seq(Message), settings : Limit \cup {None}, limit : Limit,
   disabled : BOOLEAN, saves : Seq(Image), waits : Nat]

Typed ==
  /\ page \in [Page -> PageState]
  /\ image \in Image
  /\ gone \in SUBSET Message

\* A put that has made room still fits when it comes to store.
StoresWithin ==
  \A p \in Page : page[p].op.at = "store" =>
    /\ page[p].limit > 0
    /\ Bytes[ToSet(page[p].rows) \cup {page[p].op.msg}] <= page[p].limit

ClosedSavesNothing == \A p \in Page : ~Open(p) => page[p].saves = <<>>

OneOpen == ~shared => \A p, q \in Page : Open(p) /\ Open(q) => p = q

\* A page that saves no more has left the image behind.
DisabledIsStale == ~shared => \A p \in Page : Open(p) /\ page[p].disabled => stale

Export(s) == [rows |-> s.rows, settings |-> s.settings]

\* The last export is of the database as it is.
LastIsCurrent ==
  \A p \in Page : Open(p) /\ ~page[p].disabled /\ page[p].saves # <<>> =>
    page[p].saves[Len(page[p].saves)] = Export(page[p])

ImageIsCurrent ==
  ~shared /\ ~stale =>
    \A p \in Page : Open(p) /\ page[p].saves = <<>> => image = Export(page[p])

\* None of S is in the database of a page, or in an export from the n-th on.
Absent(s, S, n) ==
  /\ S \cap ToSet(s.rows) = {}
  /\ ~s.disabled =>
       \A i \in DOMAIN s.saves : i >= n => S \cap ToSet(s.saves[i].rows) = {}

GoneIsAbsent ==
  ~shared =>
    /\ \A p \in Page : Open(p) => Absent(page[p], gone, 0)
    /\ ~stale => gone \cap ToSet(image.rows) = {}

\* What a purge has deleted so far.
Deleted(op) == op.purged \ UNION ToSet(op.left)

\* A purge resolves when the export after its last deletion is saved.
DeletedIsAbsent ==
  ~shared => \A p \in Page : page[p].op.at = "purge" =>
    /\ Absent(page[p], Deleted(page[p].op), page[p].waits)
    /\ ~stale /\ page[p].waits = 0 => Deleted(page[p].op) \cap ToSet(image.rows) = {}

IInv ==
  /\ Typed
  /\ StoresWithin
  /\ ClosedSavesNothing
  /\ OneOpen
  /\ DisabledIsStale
  /\ LastIsCurrent
  /\ ImageIsCurrent
  /\ GoneIsAbsent
  /\ DeletedIsAbsent

-----------------------------------------------------------------------------
(* Rows *)

LEMMA WithoutRemoves ==
  ASSUME NEW rows \in Seq(Message), NEW S
  PROVE  /\ Without(rows, S) \in Seq(Message)
         /\ ToSet(Without(rows, S)) = ToSet(rows) \ S
<1> DEFINE I == {i \in DOMAIN rows : rows[i] \notin S}
<1>1. I \in SUBSET DOMAIN rows
  OBVIOUS
<1>2. Without(rows, S) = Pick(rows, I)
  BY DEF Without
<1>3. {rows[i] : i \in I} = ToSet(rows) \ S
  BY DEF ToSet
<1> HIDE DEF I
<1> QED
  BY <1>1, <1>2, <1>3, Picked

\* The values of a sequence that something is appended to.
LEMMA AppendValues ==
  ASSUME NEW S, NEW s \in Seq(S), NEW x \in S
  PROVE  /\ Append(s, x) \in Seq(S)
         /\ Len(Append(s, x)) = Len(s) + 1
         /\ \A i \in DOMAIN s : Append(s, x)[i] = s[i]
         /\ Append(s, x)[Len(s) + 1] = x
         /\ DOMAIN Append(s, x) = 1..(Len(s) + 1)
         /\ ToSet(Append(s, x)) = ToSet(s) \cup {x}
<1>1. /\ Append(s, x) \in Seq(S)
      /\ Len(Append(s, x)) = Len(s) + 1
      /\ \A i \in 1..Len(s) : Append(s, x)[i] = s[i]
      /\ Append(s, x)[Len(s) + 1] = x
  BY AppendProperties
<1>2. /\ Len(s) \in Nat /\ DOMAIN s = 1..Len(s)
      /\ DOMAIN Append(s, x) = 1..(Len(s) + 1)
  BY <1>1, LenProperties
<1>3. ASSUME NEW y \in ToSet(Append(s, x))
      PROVE  y \in ToSet(s) \cup {x}
  <2>1. PICK i \in 1..(Len(s) + 1) : y = Append(s, x)[i]
    BY <1>2 DEF ToSet
  <2>2. i = Len(s) + 1 \/ i \in 1..Len(s)
    BY <1>2
  <2> QED
    BY <1>1, <1>2, <2>1, <2>2 DEF ToSet
<1>4. ASSUME NEW y \in ToSet(s) \cup {x}
      PROVE  y \in ToSet(Append(s, x))
  <2>1. CASE y = x
    <3>1. Len(s) + 1 \in 1..(Len(s) + 1)
      BY <1>2
    <3> QED
      BY <1>1, <1>2, <2>1, <3>1 DEF ToSet
  <2>2. CASE y \in ToSet(s)
    <3>1. PICK i \in 1..Len(s) : y = s[i]
      BY <1>2, <2>2 DEF ToSet
    <3>2. i \in 1..(Len(s) + 1)
      BY <1>2
    <3> QED
      BY <1>1, <1>2, <3>1, <3>2 DEF ToSet
  <2> QED
    BY <2>1, <2>2
<1> QED
  BY <1>1, <1>2, <1>3, <1>4

LEMMA TouchAdds ==
  ASSUME NEW rows \in Seq(Message), NEW m \in Message
  PROVE  /\ Touch(rows, m) \in Seq(Message)
         /\ ToSet(Touch(rows, m)) = ToSet(rows) \cup {m}
<1>1. /\ Without(rows, {m}) \in Seq(Message)
      /\ ToSet(Without(rows, {m})) = ToSet(rows) \ {m}
  BY WithoutRemoves
<1> DEFINE rest == Without(rows, {m})
<1>2. Touch(rows, m) = Append(rest, m)
  BY DEF Touch
<1> HIDE DEF rest
<1>3. rest \in Seq(Message) /\ ToSet(rest) = ToSet(rows) \ {m}
  BY <1>1 DEF rest
<1> QED
  BY <1>2, <1>3, AppendValues

\* The values of a sequence without its first.
LEMMA TailValues ==
  ASSUME NEW S, NEW s \in Seq(S), s # <<>>
  PROVE  /\ Len(s) \in Nat \ {0} /\ DOMAIN s = 1..Len(s)
         /\ Head(s) \in S /\ Head(s) = s[1]
         /\ Tail(s) \in Seq(S) /\ Len(Tail(s)) = Len(s) - 1
         /\ DOMAIN Tail(s) = 1..(Len(s) - 1)
         /\ \A i \in 1..(Len(s) - 1) : i + 1 \in DOMAIN s /\ Tail(s)[i] = s[i + 1]
         /\ ToSet(s) = ToSet(Tail(s)) \cup {Head(s)}
<1>1. /\ Len(s) \in Nat \ {0} /\ DOMAIN s = 1..Len(s)
      /\ Head(s) \in S /\ Head(s) = s[1]
      /\ Tail(s) \in Seq(S) /\ Len(Tail(s)) = Len(s) - 1
      /\ \A i \in 1..(Len(s) - 1) : Tail(s)[i] = s[i + 1]
  BY HeadTailProperties, LenProperties, EmptySeq
<1>2. DOMAIN Tail(s) = 1..(Len(s) - 1)
  BY <1>1, LenProperties
<1>3. \A i \in 1..(Len(s) - 1) : i + 1 \in 1..Len(s)
  BY <1>1
<1>4. ASSUME NEW i \in 1..Len(s)
      PROVE  s[i] \in ToSet(Tail(s)) \cup {Head(s)}
  <2>1. CASE i = 1
    BY <1>1, <2>1
  <2>2. CASE i # 1
    <3>1. i - 1 \in 1..(Len(s) - 1) /\ (i - 1) + 1 = i
      BY <1>1, <2>2
    <3>2. Tail(s)[i - 1] = s[i]
      BY <1>1, <3>1
    <3> QED
      BY <1>2, <3>1, <3>2 DEF ToSet
  <2> QED
    BY <2>1, <2>2
<1>5. ASSUME NEW y \in ToSet(Tail(s)) \cup {Head(s)}
      PROVE  y \in ToSet(s)
  <2>1. 1 \in 1..Len(s)
    BY <1>1
  <2>2. CASE y = Head(s)
    BY <1>1, <2>1, <2>2 DEF ToSet
  <2>3. CASE y \in ToSet(Tail(s))
    <3>1. PICK i \in 1..(Len(s) - 1) : y = Tail(s)[i]
      BY <1>2, <2>3 DEF ToSet
    <3> QED
      BY <1>1, <1>3, <3>1 DEF ToSet
  <2> QED
    BY <2>2, <2>3
<1>6. ToSet(s) = ToSet(Tail(s)) \cup {Head(s)}
  <2>1. \A y \in ToSet(s) : y \in ToSet(Tail(s)) \cup {Head(s)}
    BY <1>1, <1>4 DEF ToSet
  <2> QED
    BY <1>5, <2>1
<1> QED
  BY <1>1, <1>2, <1>3, <1>6

-----------------------------------------------------------------------------
(* The memory of a page *)

\* A page is changed and exports its database, if it still does.
Writes(s, t) ==
  /\ t.disabled = s.disabled
  /\ s.disabled => t.saves = s.saves
  /\ ~s.disabled => t.saves = Append(s.saves, Export(t))

\* Its operation goes on when that export is saved.
Awaits(s, t) == ~s.disabled => t.waits = Len(s.saves) + 1

LEMMA PersistEffect ==
  ASSUME NEW s \in PageState
  PROVE  /\ Persist(s) \in PageState
         /\ Persist(s).op = s.op /\ Persist(s).rows = s.rows
         /\ Persist(s).settings = s.settings /\ Persist(s).limit = s.limit
         /\ Writes(s, Persist(s)) /\ Awaits(s, Persist(s))
<1> DEFINE x == [rows |-> s.rows, settings |-> s.settings]
           t == [s EXCEPT !.saves = Append(s.saves, x), !.waits = Len(s.saves) + 1]
<1>1. x \in Image /\ s.saves \in Seq(Image)
  BY DEF PageState, Image
<1>2. Append(s.saves, x) \in Seq(Image) /\ Len(s.saves) + 1 \in Nat
  BY <1>1, AppendValues, LenProperties
<1>3. CASE s.disabled
  <2>1. Persist(s) = s
    BY <1>3 DEF Persist
  <2> QED
    BY <1>3, <2>1 DEF Writes, Awaits
<1>4. CASE ~s.disabled
  <2>1. Persist(s) = t
    BY <1>4 DEF Persist
  <2>2. t \in PageState
    BY <1>2 DEF PageState
  <2>3. /\ t.op = s.op /\ t.rows = s.rows /\ t.settings = s.settings /\ t.limit = s.limit
        /\ t.saves = Append(s.saves, x) /\ t.waits = Len(s.saves) + 1
    BY DEF PageState
  <2>4. t.disabled = s.disabled
    BY DEF PageState
  <2>5. Export(t) = x
    BY <2>3 DEF Export
  <2> HIDE DEF t, x
  <2> QED
    BY <1>4, <2>1, <2>2, <2>3, <2>4, <2>5 DEF Writes, Awaits
<1> QED
  BY <1>3, <1>4

LEMMA DeleteEffect ==
  ASSUME NEW s \in PageState, NEW S
  PROVE  /\ Delete(s, S) \in PageState
         /\ Delete(s, S).op = s.op /\ ToSet(Delete(s, S).rows) = ToSet(s.rows) \ S
         /\ Delete(s, S).limit = s.limit
         /\ Writes(s, Delete(s, S)) /\ Awaits(s, Delete(s, S))
<1> DEFINE t == [s EXCEPT !.rows = Without(s.rows, S)]
<1>1. Without(s.rows, S) \in Seq(Message) /\ ToSet(Without(s.rows, S)) = ToSet(s.rows) \ S
  BY WithoutRemoves DEF PageState
<1>2. t \in PageState
  BY <1>1 DEF PageState
<1>3. /\ t.op = s.op /\ t.rows = Without(s.rows, S) /\ t.limit = s.limit
      /\ t.saves = s.saves /\ t.disabled = s.disabled
  BY DEF PageState
<1>4. Delete(s, S) = Persist(t)
  BY DEF Delete
<1> HIDE DEF t
<1>5. /\ Persist(t) \in PageState
      /\ Persist(t).op = t.op /\ Persist(t).rows = t.rows /\ Persist(t).limit = t.limit
      /\ Writes(t, Persist(t)) /\ Awaits(t, Persist(t))
  BY <1>2, PersistEffect
<1> QED
  BY <1>1, <1>3, <1>4, <1>5 DEF Writes, Awaits

\* Eviction leaves a part of the rows that fits beside what comes in, or none.
LEMMA EvictEffect ==
  ASSUME NEW s \in PageState, NEW incoming \in Nat
  PROVE  LET t == Evict(s, incoming) IN
           /\ t \in PageState
           /\ t.op = s.op /\ ToSet(t.rows) \subseteq ToSet(s.rows) /\ t.limit = s.limit
           /\ t.rows = <<>> \/ Bytes[ToSet(t.rows)] + incoming <= t.limit
           /\ Writes(s, t) /\ Awaits(s, t)
<1> DEFINE rest(k) == SubSeq(s.rows, k + 1, Len(s.rows))
           fits == {k \in 0..Len(s.rows) :
                      rest(k) = <<>> \/ Bytes[ToSet(rest(k))] + incoming <= s.limit}
           e == [s EXCEPT !.rows = rest(Min(fits))]
<1>1. s.rows \in Seq(Message) /\ Len(s.rows) \in Nat /\ DOMAIN s.rows = 1..Len(s.rows)
  BY LenProperties DEF PageState
<1>2. ASSUME NEW k \in 0..Len(s.rows)
      PROVE  rest(k) \in Seq(Message) /\ ToSet(rest(k)) \subseteq ToSet(s.rows)
  <2>1. k + 1 \in 1..(Len(s.rows) + 1) /\ Len(s.rows) \in 0..Len(s.rows)
    BY <1>1
  <2>2. /\ rest(k) \in Seq(Message)
        /\ Len(rest(k)) = Len(s.rows) - k
        /\ \A i \in 1..(Len(s.rows) - k) : rest(k)[i] = s.rows[k + i]
    <3>1. IF k + 1 <= Len(s.rows) THEN Len(rest(k)) = Len(s.rows) - (k + 1) + 1
                                  ELSE Len(rest(k)) = 0
      BY <1>1, <2>1, SubSeqProperties
    <3>2. \A i \in 1..(Len(s.rows) - (k + 1) + 1) : rest(k)[i] = s.rows[(k + 1) + i - 1]
      BY <1>1, <2>1, SubSeqProperties
    <3>3. rest(k) \in Seq(Message)
      BY <1>1, <2>1, SubSeqProperties
    <3> HIDE DEF rest
    <3> QED
      BY <1>1, <3>1, <3>2, <3>3
  <2>3. DOMAIN rest(k) = 1..(Len(s.rows) - k)
    BY <2>2, LenProperties
  <2>4. \A i \in 1..(Len(s.rows) - k) : k + i \in 1..Len(s.rows)
    BY <1>1
  <2> HIDE DEF rest
  <2> QED
    BY <1>1, <2>2, <2>3, <2>4 DEF ToSet
<1>3. Len(s.rows) \in fits
  <2>1. rest(Len(s.rows)) = <<>>
    BY <1>1, SubSeqEmpty
  <2> QED
    BY <1>1, <2>1
<1>4. Min(fits) \in fits
  <2>1. fits \in SUBSET Nat
    BY <1>1
  <2> HIDE DEF fits
  <2>2. \E x \in fits : \A y \in fits : x <= y
    BY <1>3, <2>1, LeastNatural
  <2> QED
    BY <2>2 DEF Min
<1>5. Evict(s, incoming) = Persist(e)
  BY DEF Evict
<1>6. PICK k \in fits : k = Min(fits)
  BY <1>4
<1>7. k \in 0..Len(s.rows) /\ (rest(k) = <<>> \/ Bytes[ToSet(rest(k))] + incoming <= s.limit)
  OBVIOUS
<1>8. e = [s EXCEPT !.rows = rest(k)]
  BY <1>6
<1>9. rest(k) \in Seq(Message) /\ ToSet(rest(k)) \subseteq ToSet(s.rows)
  BY <1>2, <1>7
<1> HIDE DEF rest, fits
<1>10. /\ e \in PageState /\ e.op = s.op /\ e.rows = rest(k) /\ e.limit = s.limit
       /\ e.saves = s.saves /\ e.disabled = s.disabled
  BY <1>8, <1>9 DEF PageState
<1> HIDE DEF e
<1>11. /\ Persist(e) \in PageState
       /\ Persist(e).op = e.op /\ Persist(e).rows = e.rows /\ Persist(e).limit = e.limit
       /\ Writes(e, Persist(e)) /\ Awaits(e, Persist(e))
  BY <1>10, PersistEffect
<1> QED
  BY <1>5, <1>7, <1>9, <1>10, <1>11 DEF Writes, Awaits

-----------------------------------------------------------------------------
(* What each step does to the page it is of *)

Keeps(s, t) ==
  /\ t.rows = s.rows /\ t.settings = s.settings
  /\ t.saves = s.saves /\ t.disabled = s.disabled

\* A step of page p that others see nothing of yet.
Changes(p, t) ==
  /\ Open(p) /\ t \in PageState /\ t.op.at # "closed"
  /\ page' = [page EXCEPT ![p] = t]
  /\ stale' = (stale \/ t.disabled)
  /\ UNCHANGED <<image, shared>>
  /\ gone' \in SUBSET Message
  /\ Writes(page[p], t) \/ Keeps(page[p], t)

LEMMA OpFields ==
  ASSUME NEW op \in Op
  PROVE  /\ op.at \in {"closed", "initialise", "idle", "shrink", "store", "purge"}
         /\ op.at = "store" => op.msg \in Message
         /\ op.at = "purge" => op.left \in Seq(SUBSET Message) /\ op.purged \in SUBSET Message
  BY DEF Op

LEMMA PageFields ==
  ASSUME Typed, NEW p \in Page
  PROVE  /\ page[p] \in PageState /\ page[p].op \in Op
         /\ page[p].rows \in Seq(Message) /\ ToSet(page[p].rows) \in SUBSET Message
         /\ page[p].limit \in Limit /\ page[p].limit \in Nat
         /\ page[p].settings \in Limit \cup {None}
         /\ page[p].saves \in Seq(Image) /\ page[p].waits \in Nat
<1>1. page[p] \in PageState
  BY DEF Typed
<1>2. page[p].rows \in Seq(Message)
  BY <1>1 DEF PageState
<1>3. ToSet(page[p].rows) \in SUBSET Message
  BY <1>2, ElementOfSeq, LenProperties DEF ToSet
<1> QED
  BY <1>1, <1>2, <1>3, LimitAssumption DEF PageState

LEMMA InitialiseEffect ==
  ASSUME Typed, NEW p \in Page, Initialise(p)
  PROVE  /\ page[p].op.at = "initialise" /\ gone' = gone
         /\ \E t : Changes(p, t) /\ t.op = Idle /\ t.rows = page[p].rows
<1> DEFINE s == [page[p] EXCEPT !.op = Idle]
           s1 == [s EXCEPT !.settings = s.limit]
           s2 == [s EXCEPT !.limit = s.settings]
<1>1. page[p] \in PageState /\ Idle \in Op /\ Idle.at = "idle"
  BY DEF Typed, Idle, Op
<1>2. /\ s \in PageState /\ s.op = Idle /\ s.rows = page[p].rows /\ s.limit \in Limit
      /\ s.settings = page[p].settings /\ s.saves = page[p].saves
      /\ s.disabled = page[p].disabled /\ s.settings \in Limit \cup {None}
  BY <1>1 DEF PageState
<1>3. page[p].op.at = "initialise" /\ UNCHANGED <<image, gone, shared>>
  BY DEF Initialise, Resumes
<1>4. CASE s.settings = None
  <2>1. Becomes(p, Persist(s1))
    BY <1>4 DEF Initialise
  <2> HIDE DEF s
  <2>2. /\ s1 \in PageState /\ s1.op = s.op /\ s1.rows = s.rows
        /\ s1.saves = s.saves /\ s1.disabled = s.disabled
    BY <1>2 DEF PageState
  <2> HIDE DEF s1
  <2>3. /\ Persist(s1) \in PageState /\ Persist(s1).op = s1.op /\ Persist(s1).rows = s1.rows
        /\ Writes(s1, Persist(s1))
    BY <2>2, PersistEffect
  <2>4. Writes(page[p], Persist(s1))
    BY <1>2, <2>2, <2>3 DEF Writes
  <2> QED
    BY <1>1, <1>2, <1>3, <2>1, <2>2, <2>3, <2>4 DEF Changes, Becomes, Open, Typed
<1>5. CASE s.settings # None
  <2>1. Becomes(p, s2)
    BY <1>5 DEF Initialise
  <2> HIDE DEF s
  <2>2. /\ s2 \in PageState /\ s2.op = s.op /\ s2.rows = s.rows
        /\ s2.settings = s.settings /\ s2.saves = s.saves /\ s2.disabled = s.disabled
    BY <1>2, <1>5 DEF PageState
  <2> HIDE DEF s2
  <2>3. Keeps(page[p], s2)
    BY <1>2, <2>2 DEF Keeps
  <2> QED
    BY <1>1, <1>2, <1>3, <2>1, <2>2, <2>3 DEF Changes, Becomes, Open, Typed
<1> QED
  BY <1>3, <1>4, <1>5

LEMMA GetEffect ==
  ASSUME Typed, NEW p \in Page, NEW m \in Message, Get(p, m)
  PROVE  /\ gone' = gone
         /\ \E t : /\ Changes(p, t) /\ t.op = page[p].op /\ t.limit = page[p].limit
                   /\ t.waits = page[p].waits /\ Writes(page[p], t)
                   /\ ToSet(t.rows) = ToSet(page[p].rows)
<1> DEFINE s == [page[p] EXCEPT !.rows = Touch(page[p].rows, m)]
           t == [Persist(s) EXCEPT !.waits = page[p].waits]
<1>1. /\ page[p] \in PageState /\ page[p].rows \in Seq(Message) /\ page[p].waits \in Nat
  BY PageFields
<1>2. /\ Touch(page[p].rows, m) \in Seq(Message)
      /\ ToSet(Touch(page[p].rows, m)) = ToSet(page[p].rows) \cup {m}
  BY <1>1, TouchAdds
<1>3. m \in ToSet(page[p].rows) /\ UNCHANGED <<image, gone, shared>> /\ Open(p)
  BY DEF Get, Up, Open
<1>4. /\ s \in PageState /\ s.op = page[p].op /\ s.limit = page[p].limit
      /\ s.rows = Touch(page[p].rows, m) /\ s.saves = page[p].saves
      /\ s.disabled = page[p].disabled
  BY <1>1, <1>2 DEF PageState
<1>5. Becomes(p, t)
  BY DEF Get
<1> HIDE DEF s
<1>6. /\ Persist(s) \in PageState /\ Persist(s).op = s.op /\ Persist(s).rows = s.rows
      /\ Persist(s).limit = s.limit /\ Persist(s).settings = s.settings
      /\ Writes(s, Persist(s))
  BY <1>4, PersistEffect
<1>7. /\ t \in PageState /\ t.op = s.op /\ t.rows = s.rows /\ t.limit = s.limit
      /\ t.saves = Persist(s).saves /\ t.disabled = Persist(s).disabled
      /\ t.waits = page[p].waits /\ t.settings = Persist(s).settings
  BY <1>1, <1>6 DEF PageState
<1> HIDE DEF t
<1>8. Writes(page[p], t)
  BY <1>4, <1>6, <1>7 DEF Writes, Export
<1>9. ToSet(t.rows) = ToSet(page[p].rows)
  BY <1>2, <1>3, <1>4, <1>7
<1> QED
  BY <1>3, <1>4, <1>5, <1>7, <1>8, <1>9 DEF Changes, Becomes, Open, Typed

LEMMA PutEffect ==
  ASSUME Typed, NEW p \in Page, NEW m \in Message, Put(p, m)
  PROVE  /\ page[p].op.at = "idle" /\ gone' = gone
         /\ page[p].limit > 0 /\ Bytes[{m}] <= page[p].limit
         /\ \E t : /\ Changes(p, t) /\ t.op = [at |-> "store", msg |-> m]
                   /\ t.limit = page[p].limit /\ ToSet(t.rows) \subseteq ToSet(page[p].rows)
                   /\ t.rows = <<>> \/ Bytes[ToSet(t.rows)] + Bytes[{m}] <= t.limit
<1> DEFINE o == [at |-> "store", msg |-> m]
           s == [page[p] EXCEPT !.op = o]
           t == Evict(s, Bytes[{m}])
<1>1. page[p] \in PageState /\ o \in Op /\ o.at = "store"
  BY DEF Typed, Op
<1>2. /\ page[p].op.at = "idle" /\ UNCHANGED <<image, gone, shared>>
      /\ page[p].limit > 0 /\ Bytes[{m}] <= page[p].limit
      /\ Becomes(p, t)
  BY DEF Put, Resumes
<1> HIDE DEF o
<1>3. /\ s \in PageState /\ s.op = o /\ s.rows = page[p].rows /\ s.limit = page[p].limit
      /\ s.saves = page[p].saves /\ s.disabled = page[p].disabled
  BY <1>1 DEF PageState
<1>4. Bytes[{m}] \in Nat
  BY BytesAssumption
<1> HIDE DEF s
<1>5. /\ t \in PageState /\ t.op = s.op /\ ToSet(t.rows) \subseteq ToSet(s.rows)
      /\ t.limit = s.limit /\ Writes(s, t)
      /\ t.rows = <<>> \/ Bytes[ToSet(t.rows)] + Bytes[{m}] <= t.limit
  BY <1>3, <1>4, EvictEffect
<1> HIDE DEF t
<1>6. Writes(page[p], t)
  BY <1>3, <1>5 DEF Writes
<1> QED
  BY <1>1, <1>2, <1>3, <1>5, <1>6 DEF Changes, Becomes, Open, Typed, o

LEMMA PutEntryEffect ==
  ASSUME Typed, NEW p \in Page, PutEntry(p)
  PROVE  /\ page[p].op.at = "store" /\ page[p].op.msg \in Message
         /\ gone' = gone \ {page[p].op.msg}
         /\ \E t : /\ Changes(p, t) /\ t.op = Idle /\ t.limit = page[p].limit
                   /\ ToSet(t.rows) = ToSet(page[p].rows) \cup {page[p].op.msg}
<1> DEFINE m == page[p].op.msg
           s == [page[p] EXCEPT !.op = Idle, !.rows = Touch(page[p].rows, m)]
<1>1. /\ page[p].op.at = "store" /\ UNCHANGED <<image, shared>> /\ gone' = gone \ {m}
      /\ Becomes(p, Persist(s))
  BY DEF PutEntry, Resumes
<1>2. page[p] \in PageState /\ m \in Message /\ Idle \in Op /\ Idle.at = "idle"
  BY <1>1, PageFields, OpFields DEF Idle, Op
<1> HIDE DEF m
<1>3. /\ Touch(page[p].rows, m) \in Seq(Message)
      /\ ToSet(Touch(page[p].rows, m)) = ToSet(page[p].rows) \cup {m}
  BY <1>2, PageFields, TouchAdds
<1>4. /\ s \in PageState /\ s.op = Idle /\ s.limit = page[p].limit
      /\ s.rows = Touch(page[p].rows, m) /\ s.saves = page[p].saves
      /\ s.disabled = page[p].disabled
  BY <1>2, <1>3 DEF PageState
<1> HIDE DEF s
<1>5. /\ Persist(s) \in PageState /\ Persist(s).op = s.op /\ Persist(s).rows = s.rows
      /\ Persist(s).limit = s.limit /\ Writes(s, Persist(s))
  BY <1>4, PersistEffect
<1>6. Writes(page[p], Persist(s))
  BY <1>4, <1>5 DEF Writes
<1>7. Changes(p, Persist(s))
  BY <1>1, <1>2, <1>4, <1>5, <1>6 DEF Changes, Becomes, Open, Typed
<1> QED
  BY <1>1, <1>2, <1>3, <1>4, <1>5, <1>7 DEF m

\* The sets a purge deletes one after another.
LEMMA PurgesTyped ==
  ASSUME NEW sets \in Purges
  PROVE  sets \in Seq(SUBSET Message) /\ sets # <<>> /\ UNION ToSet(sets) \in SUBSET Message
<1>1. sets \in Seq(SUBSET Message) /\ sets # <<>>
  <2>1. ASSUME NEW m \in Message, sets = <<{m}>>
        PROVE  sets \in Seq(SUBSET Message) /\ sets # <<>>
    BY <2>1
  <2>2. CASE sets = <<Message>>
    BY <2>2
  <2>3. CASE sets \in Flush
    BY <2>3, BytesAssumption
  <2> QED
    BY <2>1, <2>2, <2>3 DEF Purges
<1>2. ToSet(sets) \in SUBSET (SUBSET Message)
  BY <1>1, ElementOfSeq, LenProperties DEF ToSet
<1> QED
  BY <1>1, <1>2

LEMMA PurgeEffect ==
  ASSUME Typed, NEW p \in Page, NEW sets \in Purges, Purge(p, sets)
  PROVE  /\ page[p].op.at = "idle" /\ gone' = gone
         /\ \E t : /\ Changes(p, t) /\ Writes(page[p], t) /\ Awaits(page[p], t)
                   /\ t.op = [at |-> "purge", left |-> Tail(sets), purged |-> UNION ToSet(sets)]
                   /\ t.limit = page[p].limit
                   /\ ToSet(t.rows) = ToSet(page[p].rows) \ Head(sets)
<1> DEFINE o == [at |-> "purge", left |-> Tail(sets), purged |-> UNION ToSet(sets)]
           s == [page[p] EXCEPT !.op = o]
           t == Delete(s, Head(sets))
<1>1. page[p] \in PageState /\ o \in Op /\ o.at = "purge"
  <2>1. Tail(sets) \in Seq(SUBSET Message) /\ UNION ToSet(sets) \in SUBSET Message
    BY PurgesTyped, TailValues
  <2> QED
    BY <2>1 DEF Typed, Op
<1>2. page[p].op.at = "idle" /\ UNCHANGED <<image, gone, shared>> /\ Becomes(p, t)
  BY DEF Purge, Resumes
<1> HIDE DEF o
<1>3. /\ s \in PageState /\ s.op = o /\ s.rows = page[p].rows /\ s.limit = page[p].limit
      /\ s.saves = page[p].saves /\ s.disabled = page[p].disabled
  BY <1>1 DEF PageState
<1> HIDE DEF s
<1>4. /\ t \in PageState /\ t.op = s.op /\ ToSet(t.rows) = ToSet(s.rows) \ Head(sets)
      /\ t.limit = s.limit /\ Writes(s, t) /\ Awaits(s, t)
  BY <1>3, DeleteEffect
<1> HIDE DEF t
<1>5. Writes(page[p], t) /\ Awaits(page[p], t)
  BY <1>3, <1>4 DEF Writes, Awaits
<1> QED
  BY <1>1, <1>2, <1>3, <1>4, <1>5 DEF Changes, Becomes, Open, Typed, o

LEMMA PurgeGoesOnEffect ==
  ASSUME Typed, NEW p \in Page, PurgeGoesOn(p)
  PROVE  /\ page[p].op.at = "purge" /\ page[p].waits = 0
         /\ page[p].op.left \in Seq(SUBSET Message) /\ page[p].op.purged \in SUBSET Message
         /\ \/ /\ page[p].op.left # <<>> /\ gone' = gone
               /\ \E t : /\ Changes(p, t) /\ Writes(page[p], t) /\ Awaits(page[p], t)
                         /\ t.op = [page[p].op EXCEPT !.left = Tail(page[p].op.left)]
                         /\ t.limit = page[p].limit
                         /\ ToSet(t.rows) = ToSet(page[p].rows) \ Head(page[p].op.left)
            \/ /\ page[p].op.left = <<>>
               /\ gone' = IF shared THEN {} ELSE gone \cup page[p].op.purged
               /\ \E t : /\ Changes(p, t) /\ Keeps(page[p], t) /\ t.op = Idle
                         /\ t.limit = page[p].limit
<1>1. /\ page[p] \in PageState /\ page[p].op \in Op
      /\ page[p].op.at = "purge" /\ page[p].waits = 0 /\ UNCHANGED <<image, shared>>
  BY PageFields DEF PurgeGoesOn, Resumes
<1>2. page[p].op.left \in Seq(SUBSET Message) /\ page[p].op.purged \in SUBSET Message
  BY <1>1, OpFields
<1>3. CASE page[p].op.left # <<>>
  <2> DEFINE o == [page[p].op EXCEPT !.left = Tail(page[p].op.left)]
             s == [page[p] EXCEPT !.op = o]
             t == Delete(s, Head(page[p].op.left))
  <2>1. gone' = gone /\ Becomes(p, t)
    BY <1>3 DEF PurgeGoesOn
  <2>2. o \in Op /\ o.at = "purge"
    <3>1. Tail(page[p].op.left) \in Seq(SUBSET Message)
      BY <1>2, <1>3, TailValues
    <3>2. page[p].op \in [at : {"purge"}, left : Seq(SUBSET Message), purged : SUBSET Message]
      BY <1>1 DEF Op
    <3>3. o \in [at : {"purge"}, left : Seq(SUBSET Message), purged : SUBSET Message]
      BY <3>1, <3>2
    <3> QED
      BY <3>3 DEF Op
  <2> HIDE DEF o
  <2>3. /\ s \in PageState /\ s.op = o /\ s.rows = page[p].rows /\ s.limit = page[p].limit
        /\ s.saves = page[p].saves /\ s.disabled = page[p].disabled
    BY <1>1, <2>2 DEF PageState
  <2> HIDE DEF s
  <2>4. /\ t \in PageState /\ t.op = s.op
        /\ ToSet(t.rows) = ToSet(s.rows) \ Head(page[p].op.left)
        /\ t.limit = s.limit /\ Writes(s, t) /\ Awaits(s, t)
    BY <2>3, DeleteEffect
  <2> HIDE DEF t
  <2>5. Writes(page[p], t) /\ Awaits(page[p], t)
    BY <2>3, <2>4 DEF Writes, Awaits
  <2>6. Changes(p, t)
    BY <1>1, <2>1, <2>2, <2>3, <2>4, <2>5 DEF Changes, Becomes, Open, Typed
  <2> QED
    BY <1>1, <1>2, <1>3, <2>1, <2>3, <2>4, <2>5, <2>6 DEF o
<1>4. CASE page[p].op.left = <<>>
  <2> DEFINE t == [page[p] EXCEPT !.op = Idle]
  <2>1. gone' = (IF shared THEN {} ELSE gone \cup page[p].op.purged) /\ Becomes(p, t)
    BY <1>4 DEF PurgeGoesOn
  <2>2. Idle \in Op /\ Idle.at = "idle"
    BY DEF Idle, Op
  <2>3. /\ t \in PageState /\ t.op = Idle /\ t.limit = page[p].limit /\ Keeps(page[p], t)
    BY <1>1, <2>2 DEF PageState, Keeps
  <2> HIDE DEF t
  <2>4. Changes(p, t)
    BY <1>1, <1>2, <2>1, <2>2, <2>3 DEF Changes, Becomes, Open, Typed
  <2> QED
    BY <1>1, <1>2, <1>4, <2>1, <2>3, <2>4
<1> QED
  BY <1>3, <1>4

LEMMA SetLimitEffect ==
  ASSUME Typed, NEW p \in Page, NEW bytes \in Limit, SetLimit(p, bytes)
  PROVE  /\ page[p].op.at = "idle" /\ gone' = gone
         /\ \E t : /\ Changes(p, t) /\ t.op = [at |-> "shrink"] /\ t.limit = bytes
                   /\ t.rows = page[p].rows
<1> DEFINE o == [at |-> "shrink"]
           s == [page[p] EXCEPT !.op = o, !.limit = bytes, !.settings = bytes]
<1>1. page[p] \in PageState /\ o \in Op /\ o.at = "shrink"
  BY DEF Typed, Op
<1>2. /\ page[p].op.at = "idle" /\ UNCHANGED <<image, gone, shared>>
      /\ Becomes(p, Persist(s))
  BY DEF SetLimit, Resumes
<1> HIDE DEF o
<1>3. /\ s \in PageState /\ s.op = o /\ s.rows = page[p].rows /\ s.limit = bytes
      /\ s.saves = page[p].saves /\ s.disabled = page[p].disabled
  BY <1>1 DEF PageState
<1> HIDE DEF s
<1>4. /\ Persist(s) \in PageState /\ Persist(s).op = s.op /\ Persist(s).rows = s.rows
      /\ Persist(s).limit = s.limit /\ Writes(s, Persist(s))
  BY <1>3, PersistEffect
<1>5. Writes(page[p], Persist(s))
  BY <1>3, <1>4 DEF Writes
<1>6. Changes(p, Persist(s))
  BY <1>1, <1>2, <1>3, <1>4, <1>5 DEF Changes, Becomes, Open, Typed
<1> QED
  BY <1>2, <1>3, <1>4, <1>6 DEF o

LEMMA ShrinkEffect ==
  ASSUME Typed, NEW p \in Page, Shrink(p)
  PROVE  /\ page[p].op.at = "shrink" /\ gone' = gone
         /\ \E t : /\ Changes(p, t) /\ Writes(page[p], t) /\ Awaits(page[p], t)
                   /\ t.op = [at |-> "purge", left |-> <<>>,
                              purged |-> IF page[p].limit = 0 THEN Message ELSE {}]
                   /\ t.limit = page[p].limit /\ ToSet(t.rows) \subseteq ToSet(page[p].rows)
                   /\ t.limit = 0 => ToSet(t.rows) = {}
                   /\ t.rows = <<>> \/ Bytes[ToSet(t.rows)] <= t.limit
<1> DEFINE all == page[p].limit = 0
           o == [at |-> "purge", left |-> <<>>, purged |-> IF all THEN Message ELSE {}]
           s == [page[p] EXCEPT !.op = o]
           t == IF all THEN Delete(s, Message) ELSE Evict(s, 0)
<1>1. page[p] \in PageState /\ o \in Op /\ o.at = "purge"
  <2>1. <<>> \in Seq(SUBSET Message)
    OBVIOUS
  <2> QED
    BY <2>1 DEF Typed, Op
<1>2. page[p].op.at = "shrink" /\ UNCHANGED <<image, gone, shared>> /\ Becomes(p, t)
  BY DEF Shrink, Resumes
<1> HIDE DEF o
<1>3. /\ s \in PageState /\ s.op = o /\ s.rows = page[p].rows /\ s.limit = page[p].limit
      /\ s.saves = page[p].saves /\ s.disabled = page[p].disabled
  BY <1>1 DEF PageState
<1> HIDE DEF s
<1>4. /\ ToSet(page[p].rows) \in SUBSET Message /\ page[p].limit \in Nat
  BY PageFields
<1>5. /\ t \in PageState /\ t.op = s.op /\ t.limit = s.limit /\ Writes(s, t) /\ Awaits(s, t)
      /\ ToSet(t.rows) \subseteq ToSet(page[p].rows)
      /\ t.limit = 0 => ToSet(t.rows) = {}
      /\ t.rows = <<>> \/ Bytes[ToSet(t.rows)] <= t.limit
  <2>1. CASE all
    <3>1. t = Delete(s, Message)
      BY <2>1
    <3> HIDE DEF t
    <3>2. /\ t \in PageState /\ t.op = s.op /\ ToSet(t.rows) = ToSet(s.rows) \ Message
          /\ t.limit = s.limit /\ Writes(s, t) /\ Awaits(s, t)
      BY <1>3, <3>1, DeleteEffect
    <3>3. ToSet(t.rows) = {}
      BY <1>3, <1>4, <3>2
    <3> QED
      BY <1>3, <2>1, <3>2, <3>3, BytesAssumption
  <2>2. CASE ~all
    <3>1. t = Evict(s, 0)
      BY <2>2
    <3> HIDE DEF t
    <3>2. /\ t \in PageState /\ t.op = s.op /\ ToSet(t.rows) \subseteq ToSet(s.rows)
          /\ t.limit = s.limit /\ Writes(s, t) /\ Awaits(s, t)
          /\ t.rows = <<>> \/ Bytes[ToSet(t.rows)] + 0 <= t.limit
      BY <1>3, <3>1, EvictEffect
    <3>3. Bytes[ToSet(t.rows)] \in Nat
      BY <1>3, <1>4, <3>2, BytesAssumption
    <3> QED
      BY <1>3, <2>2, <3>2, <3>3
  <2> QED
    BY <2>1, <2>2
<1> HIDE DEF t
<1>6. Writes(page[p], t) /\ Awaits(page[p], t)
  BY <1>3, <1>5 DEF Writes, Awaits
<1>7. Changes(p, t)
  BY <1>1, <1>2, <1>3, <1>5, <1>6 DEF Changes, Becomes, Open, Typed
<1> QED
  BY <1>2, <1>3, <1>5, <1>6, <1>7 DEF o

LEMMA OpenPageEffect ==
  ASSUME Typed, NEW p \in Page, OpenPage(p)
  PROVE  /\ ~Open(p) /\ image' = image
         /\ shared' = (shared \/ \E q \in Page : Open(q))
         /\ gone' = (IF stale \/ shared' THEN {} ELSE gone)
         /\ \E t \in PageState :
              /\ page' = [page EXCEPT ![p] = t]
              /\ t.op = [at |-> "initialise"] /\ ~t.disabled /\ t.saves = <<Export(t)>>
              /\ ToSet(t.rows) \subseteq ToSet(image.rows)
<1> DEFINE o == [at |-> "initialise"]
           s(x) == [Closed EXCEPT !.op = o, !.rows = x.rows, !.settings = x.settings]
<1>1. PICK loaded \in {image, NoImage} : page' = [page EXCEPT ![p] = Persist(s(loaded))]
  BY DEF OpenPage
<1>2. loaded \in Image /\ ToSet(loaded.rows) \subseteq ToSet(image.rows)
  <2>1. NoImage \in Image /\ ToSet(NoImage.rows) = {}
    BY DEF NoImage, Image, ToSet
  <2> QED
    BY <2>1 DEF Typed
<1>3. o \in Op
  BY DEF Op
<1> HIDE DEF o
<1>4. /\ s(loaded) \in PageState /\ s(loaded).op = o /\ s(loaded).saves = <<>>
      /\ s(loaded).rows = loaded.rows
  <2>1. Closed \in PageState /\ Closed.saves = <<>>
    BY LimitAssumption DEF Closed, PageState, Op
  <2>2. loaded.rows \in Seq(Message) /\ loaded.settings \in Limit \cup {None}
    BY <1>2 DEF Image
  <2> DEFINE c == Closed
  <2>3. c \in PageState /\ c.saves = <<>>
    BY <2>1
  <2>4. s(loaded) = [c EXCEPT !.op = o, !.rows = loaded.rows, !.settings = loaded.settings]
    OBVIOUS
  <2> HIDE DEF c, s
  <2> QED
    BY <1>3, <2>2, <2>3, <2>4 DEF PageState
<1>5. ~s(loaded).disabled
  BY DEF Closed
<1> HIDE DEF s
<1> DEFINE t == Persist(s(loaded))
<1>6. /\ t \in PageState /\ t.op = o /\ t.rows = loaded.rows /\ Writes(s(loaded), t)
  BY <1>4, PersistEffect
<1> HIDE DEF t
<1>7. ~t.disabled /\ t.saves = Append(<<>>, Export(t))
  BY <1>4, <1>5, <1>6 DEF Writes
<1>8. t.saves = <<Export(t)>>
  BY <1>7
<1>9. page' = [page EXCEPT ![p] = t]
  BY <1>1 DEF t
<1>10. /\ ~Open(p) /\ image' = image
       /\ shared' = (shared \/ \E q \in Page : Open(q))
       /\ gone' = (IF stale \/ shared' THEN {} ELSE gone)
  BY DEF OpenPage
<1> QED
  BY <1>2, <1>6, <1>7, <1>8, <1>9, <1>10 DEF o

LEMMA ClosePageEffect ==
  ASSUME Typed, NEW p \in Page, ClosePage(p)
  PROVE  /\ Open(p) /\ Closed \in PageState /\ Closed.op.at = "closed" /\ Closed.saves = <<>>
         /\ page' = [page EXCEPT ![p] = Closed]
         /\ UNCHANGED <<gone, stale, shared>>
         /\ image' \in Image
         /\ image' = image \/ \E i \in DOMAIN page[p].saves : image' = page[p].saves[i]
<1>1. Closed \in PageState /\ Closed.op.at = "closed" /\ Closed.saves = <<>>
  BY LimitAssumption DEF Closed, PageState, Op
<1>2. PICK n \in 0..Len(page[p].saves) : image' = IF n = 0 THEN image ELSE page[p].saves[n]
  BY DEF ClosePage
<1>3. /\ page[p].saves \in Seq(Image) /\ Len(page[p].saves) \in Nat
      /\ DOMAIN page[p].saves = 1..Len(page[p].saves)
  BY PageFields, LenProperties
<1>4. image' = image \/ \E i \in DOMAIN page[p].saves : image' = page[p].saves[i]
  <2>1. n = 0 \/ n \in 1..Len(page[p].saves)
    BY <1>3
  <2> QED
    BY <1>2, <1>3, <2>1
<1>5. image' \in Image
  BY <1>3, <1>4, ElementOfSeq DEF Typed
<1> QED
  BY <1>1, <1>4, <1>5 DEF ClosePage

\* The oldest export is settled.
Settles(s, t) ==
  /\ s.saves # <<>>
  /\ t \in PageState
  /\ t.op = s.op /\ t.rows = s.rows /\ t.settings = s.settings /\ t.limit = s.limit
  /\ t.saves = Tail(s.saves)
  /\ t.waits = IF s.waits = 0 THEN 0 ELSE s.waits - 1

LEMMA SettledEffect ==
  ASSUME NEW s \in PageState, s.saves # <<>>
  PROVE  Settles(s, Settled(s)) /\ Settled(s).disabled = s.disabled
<1> DEFINE n == IF s.waits = 0 THEN 0 ELSE s.waits - 1
           t == [s EXCEPT !.saves = Tail(s.saves), !.waits = n]
<1>1. Settled(s) = t
  BY DEF Settled
<1>2. n \in Nat /\ Tail(s.saves) \in Seq(Image)
  BY TailValues DEF PageState
<1> HIDE DEF n
<1>3. /\ t \in PageState
      /\ t.op = s.op /\ t.rows = s.rows /\ t.settings = s.settings /\ t.limit = s.limit
      /\ t.saves = Tail(s.saves) /\ t.waits = n /\ t.disabled = s.disabled
  BY <1>2 DEF PageState
<1> QED
  BY <1>1, <1>3 DEF Settles, n

LEMMA SavedEffect ==
  ASSUME Typed, NEW p \in Page, Saved(p)
  PROVE  /\ image' = page[p].saves[1] /\ image' \in Image
         /\ stale' = page[p].disabled /\ UNCHANGED <<gone, shared>>
         /\ \E t \in PageState : /\ page' = [page EXCEPT ![p] = t]
                                 /\ Settles(page[p], t) /\ t.disabled = page[p].disabled
<1>1. page[p].saves # <<>> /\ page[p] \in PageState /\ page[p].saves \in Seq(Image)
  BY PageFields DEF Saved
<1>2. image' = page[p].saves[1] /\ image' \in Image
  BY <1>1, TailValues DEF Saved
<1>3. Settles(page[p], Settled(page[p])) /\ Settled(page[p]).disabled = page[p].disabled
  BY <1>1, SettledEffect
<1> QED
  BY <1>2, <1>3 DEF Saved, Settles

LEMMA NotSavedEffect ==
  ASSUME Typed, NEW p \in Page, NotSaved(p)
  PROVE  /\ stale' = TRUE /\ UNCHANGED <<image, gone, shared>>
         /\ \E t \in PageState : /\ page' = [page EXCEPT ![p] = t]
                                 /\ Settles(page[p], t)
                                 /\ page[p].disabled => t.disabled
<1>1. page[p].saves # <<>> /\ page[p] \in PageState
  BY PageFields DEF NotSaved
<1> DEFINE s == Settled(page[p])
<1>2. Settles(page[p], s) /\ s.disabled = page[p].disabled /\ s \in PageState
  BY <1>1, SettledEffect DEF Settles
<1>3. PICK rejected \in BOOLEAN :
        page' = [page EXCEPT ![p] = [s EXCEPT !.disabled = s.disabled \/ rejected]]
  BY DEF NotSaved
<1> HIDE DEF s
<1> DEFINE t == [s EXCEPT !.disabled = s.disabled \/ rejected]
<1>4. /\ t \in PageState
      /\ t.op = s.op /\ t.rows = s.rows /\ t.settings = s.settings /\ t.limit = s.limit
      /\ t.saves = s.saves /\ t.waits = s.waits
  BY <1>2 DEF PageState
<1>5. s.disabled => t.disabled
  BY <1>2 DEF PageState
<1>6. Settles(page[p], t)
  BY <1>2, <1>4 DEF Settles
<1>7. page[p].disabled => t.disabled
  BY <1>2, <1>5
<1>8. page' = [page EXCEPT ![p] = t]
  BY <1>3
<1> HIDE DEF t
<1>9. stale' = TRUE /\ UNCHANGED <<image, gone, shared>>
  BY DEF NotSaved
<1> QED
  BY <1>4, <1>6, <1>7, <1>8, <1>9

-----------------------------------------------------------------------------
(* The steps there are *)

\* A step of one page alone, of its opening or closing, or of IndexedDB for it.
LEMMA StepCases ==
  ASSUME Typed, [Next]_vars
  PROVE  \/ \E p \in Page : Initialise(p)
         \/ \E p \in Page, m \in Message : Get(p, m)
         \/ \E p \in Page, m \in Message : Put(p, m)
         \/ \E p \in Page : PutEntry(p)
         \/ \E p \in Page, sets \in Purges : Purge(p, sets)
         \/ \E p \in Page : PurgeGoesOn(p)
         \/ \E p \in Page, bytes \in Limit : SetLimit(p, bytes)
         \/ \E p \in Page : Shrink(p)
         \/ \E p \in Page : OpenPage(p)
         \/ \E p \in Page : ClosePage(p)
         \/ \E p \in Page : Saved(p)
         \/ \E p \in Page : NotSaved(p)
         \/ UNCHANGED vars
  BY DEF Next

\* What a step of a page alone makes of the pages.
LEMMA ChangedPages ==
  ASSUME Typed, NEW p \in Page, NEW t, page' = [page EXCEPT ![p] = t]
  PROVE  page'[p] = t /\ \A q \in Page : q # p => page'[q] = page[q]
  BY DEF Typed

LEMMA ChangesTyped ==
  ASSUME Typed, NEW p \in Page, NEW t, Changes(p, t)
  PROVE  Typed'
<1>1. page' \in [Page -> PageState]
  BY DEF Changes, Typed
<1>2. image' = image /\ gone' \in SUBSET Message
  BY DEF Changes
<1> QED
  BY <1>1, <1>2 DEF Typed

LEMMA TypedStep ==
  ASSUME Typed, [Next]_vars
  PROVE  Typed'
<1>1. ASSUME NEW p \in Page, Initialise(p) PROVE Typed'
  BY <1>1, InitialiseEffect, ChangesTyped
<1>2. ASSUME NEW p \in Page, NEW m \in Message, Get(p, m) PROVE Typed'
  BY <1>2, GetEffect, ChangesTyped
<1>3. ASSUME NEW p \in Page, NEW m \in Message, Put(p, m) PROVE Typed'
  BY <1>3, PutEffect, ChangesTyped
<1>4. ASSUME NEW p \in Page, PutEntry(p) PROVE Typed'
  BY <1>4, PutEntryEffect, ChangesTyped
<1>5. ASSUME NEW p \in Page, NEW sets \in Purges, Purge(p, sets) PROVE Typed'
  BY <1>5, PurgeEffect, ChangesTyped
<1>6. ASSUME NEW p \in Page, PurgeGoesOn(p) PROVE Typed'
  BY <1>6, PurgeGoesOnEffect, ChangesTyped
<1>7. ASSUME NEW p \in Page, NEW bytes \in Limit, SetLimit(p, bytes) PROVE Typed'
  BY <1>7, SetLimitEffect, ChangesTyped
<1>8. ASSUME NEW p \in Page, Shrink(p) PROVE Typed'
  BY <1>8, ShrinkEffect, ChangesTyped
<1>9. ASSUME NEW p \in Page, OpenPage(p) PROVE Typed'
  <2>1. PICK t \in PageState : page' = [page EXCEPT ![p] = t]
    BY <1>9, OpenPageEffect
  <2>2. image' = image /\ gone' \in {gone, {}}
    BY <1>9, OpenPageEffect
  <2> QED
    BY <2>1, <2>2 DEF Typed
<1>10. ASSUME NEW p \in Page, ClosePage(p) PROVE Typed'
  BY <1>10, ClosePageEffect DEF Typed
<1>11. ASSUME NEW p \in Page, Saved(p) PROVE Typed'
  BY <1>11, SavedEffect DEF Typed, Settles
<1>12. ASSUME NEW p \in Page, NotSaved(p) PROVE Typed'
  BY <1>12, NotSavedEffect DEF Typed
<1>13. CASE UNCHANGED vars
  BY <1>13 DEF Typed, vars
<1> QED
  BY <1>1, <1>2, <1>3, <1>4, <1>5, <1>6, <1>7, <1>8, <1>9, <1>10, <1>11, <1>12, <1>13, StepCases

-----------------------------------------------------------------------------
(* A put that has made room still fits *)

LEMMA OneMore ==
  ASSUME NEW S \in SUBSET Message, NEW m \in Message
  PROVE  /\ Bytes[S \cup {m}] \in Nat /\ Bytes[S] \in Nat /\ Bytes[{m}] \in Nat
         /\ Bytes[S \cup {m}] <= Bytes[S] + Bytes[{m}]
<1>1. Bytes[S \cup {m}] \in Nat /\ Bytes[S] \in Nat /\ Bytes[{m}] \in Nat
  BY BytesAssumption
<1>2. CASE m \in S
  <2>1. S \cup {m} = S
    BY <1>2
  <2>2. Bytes[S \cup {m}] = Bytes[S]
    BY <2>1
  <2> HIDE <2>1
  <2> DEFINE a == Bytes[S \cup {m}]
             b == Bytes[S]
             c == Bytes[{m}]
  <2>3. a \in Nat /\ b \in Nat /\ c \in Nat /\ a = b
    BY <1>1, <2>2
  <2> HIDE DEF a, b, c
  <2>4. a <= b + c
    BY <2>3
  <2> QED
    BY <1>1, <2>4 DEF a, b, c
<1>3. CASE m \notin S
  <2>1. S \cap {m} = {} /\ {m} \in SUBSET Message
    BY <1>3
  <2>2. Bytes[S \cup {m}] = Bytes[S] + Bytes[{m}]
    BY <2>1, BytesAssumption
  <2> QED
    BY <1>1, <2>2
<1> QED
  BY <1>2, <1>3

LEMMA StoresWithinStep ==
  ASSUME Typed, StoresWithin, [Next]_vars
  PROVE  StoresWithin'
<1> DEFINE Fits(s) == s.op.at = "store" =>
                        s.limit > 0 /\ Bytes[ToSet(s.rows) \cup {s.op.msg}] <= s.limit
<1>1. ASSUME NEW p \in Page, NEW t, page' = [page EXCEPT ![p] = t], Fits(t)
      PROVE  StoresWithin'
  <2>1. page'[p] = t /\ \A q \in Page : q # p => page'[q] = page[q]
    BY <1>1, ChangedPages
  <2>2. ASSUME NEW q \in Page, page'[q].op.at = "store"
        PROVE  /\ page'[q].limit > 0
               /\ Bytes[ToSet(page'[q].rows) \cup {page'[q].op.msg}] <= page'[q].limit
    <3>1. CASE q = p
      BY <1>1, <2>1, <2>2, <3>1
    <3>2. CASE q # p
      BY <2>1, <2>2, <3>2 DEF StoresWithin
    <3> QED
      BY <3>1, <3>2
  <2> QED
    BY <2>2 DEF StoresWithin
<1>2. ASSUME NEW p \in Page, NEW t, page' = [page EXCEPT ![p] = t],
             t.op = page[p].op, t.limit = page[p].limit, ToSet(t.rows) = ToSet(page[p].rows)
      PROVE  StoresWithin'
  <2>1. Fits(t)
    BY <1>2 DEF StoresWithin
  <2> QED
    BY <1>1, <1>2, <2>1
<1>3. ASSUME NEW p \in Page, NEW t, page' = [page EXCEPT ![p] = t], t.op.at # "store"
      PROVE  StoresWithin'
  BY <1>1, <1>3
<1> HIDE DEF Fits
<1>4. Idle.at # "store"
  BY DEF Idle
<1>5. ASSUME NEW p \in Page, Initialise(p) PROVE StoresWithin'
  BY <1>3, <1>4, <1>5, InitialiseEffect DEF Changes
<1>6. ASSUME NEW p \in Page, NEW m \in Message, Get(p, m) PROVE StoresWithin'
  BY <1>2, <1>6, GetEffect DEF Changes
<1>7. ASSUME NEW p \in Page, NEW m \in Message, Put(p, m) PROVE StoresWithin'
  <2>1. page[p].limit > 0 /\ Bytes[{m}] <= page[p].limit
    BY <1>7, PutEffect
  <2>2. PICK t : /\ Changes(p, t) /\ t.op = [at |-> "store", msg |-> m]
                 /\ t.limit = page[p].limit /\ ToSet(t.rows) \subseteq ToSet(page[p].rows)
                 /\ t.rows = <<>> \/ Bytes[ToSet(t.rows)] + Bytes[{m}] <= t.limit
    BY <1>7, PutEffect
  <2>3. ToSet(t.rows) \in SUBSET Message /\ t.limit \in Nat /\ t.op.msg = m
    BY <2>2, PageFields
  <2>4. Bytes[ToSet(t.rows) \cup {m}] <= t.limit
    <3>1. CASE t.rows = <<>>
      <4>1. ToSet(t.rows) \cup {m} = {m}
        BY <3>1 DEF ToSet
      <4> QED
        BY <2>1, <2>2, <4>1
    <3>2. CASE Bytes[ToSet(t.rows)] + Bytes[{m}] <= t.limit
      BY <2>3, <3>2, OneMore
    <3> QED
      BY <2>2, <3>1, <3>2
  <2>5. Fits(t)
    BY <2>1, <2>2, <2>3, <2>4 DEF Fits
  <2> QED
    BY <1>1, <2>2, <2>5 DEF Changes
<1>8. ASSUME NEW p \in Page, PutEntry(p) PROVE StoresWithin'
  BY <1>3, <1>4, <1>8, PutEntryEffect DEF Changes
<1>9. ASSUME NEW p \in Page, NEW sets \in Purges, Purge(p, sets) PROVE StoresWithin'
  <2>1. PICK t : Changes(p, t) /\ t.op = [at |-> "purge", left |-> Tail(sets),
                                          purged |-> UNION ToSet(sets)]
    BY <1>9, PurgeEffect
  <2>2. t.op.at # "store"
    BY <2>1
  <2> QED
    BY <1>3, <2>1, <2>2 DEF Changes
<1>10. ASSUME NEW p \in Page, PurgeGoesOn(p) PROVE StoresWithin'
  <2>1. PICK t : /\ Changes(p, t)
                 /\ t.op = [page[p].op EXCEPT !.left = Tail(page[p].op.left)] \/ t.op = Idle
    BY <1>10, PurgeGoesOnEffect
  <2>2. t.op.at # "store"
    <3>1. page[p].op \in Op /\ page[p].op.at = "purge"
      BY <1>10, PageFields, PurgeGoesOnEffect
    <3> DEFINE rest == Tail(page[p].op.left)
               o == [page[p].op EXCEPT !.left = rest]
    <3> HIDE DEF rest
    <3>2. o.at = "purge"
      BY <3>1 DEF Op
    <3>3. t.op = o \/ t.op = Idle
      BY <2>1 DEF rest
    <3> HIDE DEF o
    <3>4. Idle.at = "idle"
      BY DEF Idle
    <3> QED
      BY <3>2, <3>3, <3>4
  <2> QED
    BY <1>3, <2>1, <2>2 DEF Changes
<1>11. ASSUME NEW p \in Page, NEW bytes \in Limit, SetLimit(p, bytes) PROVE StoresWithin'
  <2>1. PICK t : Changes(p, t) /\ t.op.at = "shrink"
    BY <1>11, SetLimitEffect
  <2> QED
    BY <1>3, <2>1 DEF Changes
<1>12. ASSUME NEW p \in Page, Shrink(p) PROVE StoresWithin'
  <2>1. PICK t : Changes(p, t) /\ t.op = [at |-> "purge", left |-> <<>>,
                                          purged |-> IF page[p].limit = 0 THEN Message ELSE {}]
    BY <1>12, ShrinkEffect
  <2>2. t.op.at # "store"
    BY <2>1
  <2> QED
    BY <1>3, <2>1, <2>2 DEF Changes
<1>13. ASSUME NEW p \in Page, OpenPage(p) PROVE StoresWithin'
  <2>1. PICK t \in PageState : page' = [page EXCEPT ![p] = t] /\ t.op.at = "initialise"
    BY <1>13, OpenPageEffect
  <2> QED
    BY <1>3, <2>1
<1>14. ASSUME NEW p \in Page, ClosePage(p) PROVE StoresWithin'
  BY <1>3, <1>14, ClosePageEffect
<1>15. ASSUME NEW p \in Page, Saved(p) PROVE StoresWithin'
  BY <1>2, <1>15, SavedEffect DEF Settles
<1>16. ASSUME NEW p \in Page, NotSaved(p) PROVE StoresWithin'
  BY <1>2, <1>16, NotSavedEffect DEF Settles
<1>17. CASE UNCHANGED vars
  BY <1>17 DEF StoresWithin, vars
<1> QED
  BY <1>5, <1>6, <1>7, <1>8, <1>9, <1>10, <1>11, <1>12, <1>13, <1>14, <1>15, <1>16, <1>17,
     StepCases

-----------------------------------------------------------------------------
(* What is absent from a page and its exports *)

\* A change of a page brings back only what it puts in the rows.
LEMMA AbsentKept ==
  ASSUME NEW s \in PageState, NEW t \in PageState, Writes(s, t) \/ Keeps(s, t),
         NEW n \in Nat, NEW S, NEW R \in SUBSET S,
         Absent(s, S, n), R \cap ToSet(t.rows) = {}
  PROVE  Absent(t, R, n)
<1>1. s.saves \in Seq(Image) /\ t \in PageState
  BY DEF PageState
<1>2. ASSUME ~t.disabled, NEW i \in DOMAIN t.saves, i >= n
      PROVE  R \cap ToSet(t.saves[i].rows) = {}
  <2>1. ~s.disabled /\ t.disabled = s.disabled
    BY <1>2 DEF Writes, Keeps
  <2>2. \A j \in DOMAIN s.saves : j >= n => S \cap ToSet(s.saves[j].rows) = {}
    BY <2>1 DEF Absent
  <2>3. CASE Keeps(s, t)
    BY <1>2, <2>2, <2>3 DEF Keeps
  <2>4. CASE Writes(s, t)
    <3>1. t.saves = Append(s.saves, Export(t)) /\ Export(t) \in Image
      BY <2>1, <2>4 DEF Writes, Export, PageState, Image
    <3>2. /\ \A j \in DOMAIN s.saves : t.saves[j] = s.saves[j]
          /\ t.saves[Len(s.saves) + 1] = Export(t)
          /\ DOMAIN t.saves = 1..(Len(s.saves) + 1)
      BY <1>1, <3>1, AppendValues
    <3>3. i = Len(s.saves) + 1 \/ i \in DOMAIN s.saves
      BY <1>1, <1>2, <3>2, LenProperties
    <3>4. Export(t).rows = t.rows
      BY DEF Export
    <3>5. CASE i \in DOMAIN s.saves
      BY <1>2, <2>2, <3>2, <3>5
    <3>6. CASE i = Len(s.saves) + 1
      BY <3>2, <3>4, <3>6
    <3> QED
      BY <3>3, <3>5, <3>6
  <2> QED
    BY <2>3, <2>4
<1> QED
  BY <1>2 DEF Absent

\* What is not in the rows is not in the export that is awaited for them.
LEMMA AbsentSince ==
  ASSUME NEW s \in PageState, NEW t \in PageState, Writes(s, t), Awaits(s, t),
         NEW S, S \cap ToSet(t.rows) = {}
  PROVE  Absent(t, S, t.waits) /\ (t.disabled \/ t.waits # 0)
<1>1. s.saves \in Seq(Image) /\ Len(s.saves) \in Nat
  BY LenProperties DEF PageState
<1>2. ASSUME ~t.disabled
      PROVE  t.waits # 0 /\ \A i \in DOMAIN t.saves : i >= t.waits => t.saves[i].rows = t.rows
  <2>1. ~s.disabled
    BY <1>2 DEF Writes
  <2>2. t.saves = Append(s.saves, Export(t)) /\ t.waits = Len(s.saves) + 1
    BY <2>1 DEF Writes, Awaits
  <2>3. Export(t) \in Image /\ Export(t).rows = t.rows
    BY DEF Export, PageState, Image
  <2>4. /\ t.saves[Len(s.saves) + 1] = Export(t)
        /\ DOMAIN t.saves = 1..(Len(s.saves) + 1)
    BY <1>1, <2>2, <2>3, AppendValues
  <2>5. \A i \in 1..(Len(s.saves) + 1) : i >= Len(s.saves) + 1 => i = Len(s.saves) + 1
    BY <1>1
  <2> QED
    BY <1>1, <2>2, <2>3, <2>4, <2>5
<1> QED
  BY <1>2 DEF Absent

\* A settled export leaves the others one place nearer.
LEMMA AbsentSettled ==
  ASSUME NEW s \in PageState, NEW t \in PageState, Settles(s, t), s.disabled => t.disabled,
         NEW n \in Nat, NEW k \in Nat, n <= k + 1, NEW S, Absent(s, S, n)
  PROVE  Absent(t, S, k)
<1>1. s.saves \in Seq(Image) /\ s.saves # <<>> /\ t.saves = Tail(s.saves) /\ t.rows = s.rows
  BY DEF PageState, Settles
<1>2. /\ Len(s.saves) \in Nat \ {0}
      /\ DOMAIN t.saves = 1..(Len(s.saves) - 1)
      /\ \A i \in 1..(Len(s.saves) - 1) : i + 1 \in DOMAIN s.saves /\ t.saves[i] = s.saves[i + 1]
  BY <1>1, TailValues
<1>3. ASSUME ~t.disabled, NEW i \in DOMAIN t.saves, i >= k
      PROVE  S \cap ToSet(t.saves[i].rows) = {}
  <2>1. ~s.disabled
    BY <1>3
  <2>2. i + 1 >= n /\ i + 1 \in DOMAIN s.saves /\ t.saves[i] = s.saves[i + 1]
    BY <1>2, <1>3
  <2> QED
    BY <2>1, <2>2 DEF Absent
<1> QED
  BY <1>1, <1>3 DEF Absent

-----------------------------------------------------------------------------
(* What the next page will find *)

Lasting ==
  /\ ClosedSavesNothing
  /\ OneOpen
  /\ DisabledIsStale
  /\ LastIsCurrent
  /\ ImageIsCurrent
  /\ GoneIsAbsent

LEMMA LastingAfterChange ==
  ASSUME Typed, Lasting, NEW p \in Page, NEW t, Changes(p, t),
         ~shared => Absent(t, gone', 0),
         ~shared /\ ~stale => gone' \cap ToSet(image.rows) = {}
  PROVE  Lasting'
<1>1. /\ Open(p) /\ t \in PageState /\ t.op.at # "closed" /\ page' = [page EXCEPT ![p] = t]
      /\ stale' = (stale \/ t.disabled) /\ image' = image /\ shared' = shared
      /\ Writes(page[p], t) \/ Keeps(page[p], t)
  BY DEF Changes
<1>2. page'[p] = t /\ \A q \in Page : q # p => page'[q] = page[q]
  BY <1>1, ChangedPages
<1>3. \A q \in Page : page'[q].op.at # "closed" <=> Open(q)
  BY <1>1, <1>2 DEF Open
<1>4. ~shared => \A q \in Page : Open(q) => q = p
  BY <1>1 DEF Lasting, OneOpen
<1>5. page[p].saves \in Seq(Image) /\ page[p] \in PageState
  BY PageFields
<1>6. ClosedSavesNothing'
  <2>1. \A q \in Page : ~Open(q) => page'[q].saves = <<>>
    BY <1>1, <1>2 DEF Lasting, ClosedSavesNothing
  <2> QED
    BY <1>3, <2>1 DEF ClosedSavesNothing, Open
<1>7. OneOpen'
  BY <1>1, <1>3 DEF Lasting, OneOpen, Open
<1>8. DisabledIsStale'
  <2>1. ~shared => \A q \in Page : Open(q) /\ page'[q].disabled => t.disabled
    BY <1>2, <1>4
  <2>2. t.disabled => stale'
    BY <1>1
  <2> QED
    BY <1>1, <1>3, <2>1, <2>2 DEF DisabledIsStale, Open
<1>9. LastIsCurrent'
  <2>1. ASSUME ~t.disabled, t.saves # <<>>
        PROVE  t.saves[Len(t.saves)] = Export(t)
    <3>1. ~page[p].disabled
      BY <1>1, <2>1 DEF Writes, Keeps
    <3>2. CASE Keeps(page[p], t)
      BY <1>1, <2>1, <3>1, <3>2 DEF Lasting, LastIsCurrent, Keeps, Export
    <3>3. CASE Writes(page[p], t)
      <4>1. t.saves = Append(page[p].saves, Export(t)) /\ Export(t) \in Image
        BY <1>1, <3>1, <3>3 DEF Writes, Export, PageState, Image
      <4> QED
        BY <1>5, <4>1, AppendValues
    <3> QED
      BY <1>1, <3>2, <3>3
  <2>2. ASSUME NEW q \in Page, page'[q].op.at # "closed", ~page'[q].disabled,
               page'[q].saves # <<>>
        PROVE  page'[q].saves[Len(page'[q].saves)] = Export(page'[q])
    <3>1. CASE q = p
      BY <1>2, <2>1, <2>2, <3>1
    <3>2. CASE q # p
      BY <1>2, <1>3, <2>2, <3>2 DEF Lasting, LastIsCurrent
    <3> QED
      BY <3>1, <3>2
  <2> QED
    BY <2>2 DEF LastIsCurrent, Open, Export
<1>10. ImageIsCurrent'
  <2> SUFFICES ASSUME ~shared', ~stale', NEW q \in Page, page'[q].op.at # "closed",
                      page'[q].saves = <<>>
               PROVE  image' = Export(page'[q])
    BY DEF ImageIsCurrent, Open, Export
  <2>1. q = p /\ ~stale /\ ~t.disabled
    BY <1>1, <1>3, <1>4
  <2>2. t.saves = <<>> /\ page'[q] = t
    BY <1>2, <2>1
  <2>3. Keeps(page[p], t)
    <3>1. SUFFICES ASSUME Writes(page[p], t) PROVE FALSE
      BY <1>1
    <3>2. ~page[p].disabled
      BY <2>1, <3>1 DEF Writes
    <3>3. t.saves = Append(page[p].saves, Export(t)) /\ Export(t) \in Image
      BY <1>1, <3>1, <3>2 DEF Writes, Export, PageState, Image
    <3>4. t.saves # <<>>
      BY <1>5, <3>3, AppendProperties
    <3> QED
      BY <2>2, <3>4
  <2>4. image = Export(page[p])
    BY <1>1, <2>1, <2>2, <2>3 DEF Lasting, ImageIsCurrent, Keeps
  <2>5. Export(t) = Export(page[p])
    BY <2>3 DEF Keeps, Export
  <2> QED
    BY <1>1, <2>2, <2>4, <2>5
<1>11. GoneIsAbsent'
  <2>1. ASSUME ~shared'
        PROVE  \A q \in Page : page'[q].op.at # "closed" => Absent(page'[q], gone', 0)
    BY <1>1, <1>2, <1>3, <1>4, <2>1
  <2>2. ASSUME ~shared', ~stale'
        PROVE  gone' \cap ToSet(image'.rows) = {}
    BY <1>1, <2>2
  <2> QED
    BY <2>1, <2>2 DEF GoneIsAbsent, Open, Absent, ToSet
<1> QED
  BY <1>6, <1>7, <1>8, <1>9, <1>10, <1>11 DEF Lasting

\* Where nothing new is gone, it is enough that nothing gone is in the rows.
LEMMA LastingAfterWrite ==
  ASSUME Typed, Lasting, NEW p \in Page, NEW t, Changes(p, t), gone' \subseteq gone,
         ~shared => gone' \cap ToSet(t.rows) = {}
  PROVE  Lasting'
<1>1. /\ Open(p) /\ t \in PageState /\ page[p] \in PageState
      /\ Writes(page[p], t) \/ Keeps(page[p], t)
  BY PageFields DEF Changes
<1>2. ~shared => Absent(page[p], gone, 0)
  BY <1>1 DEF Lasting, GoneIsAbsent
<1>3. ~shared => Absent(t, gone', 0)
  BY <1>1, <1>2, AbsentKept
<1>4. ~shared /\ ~stale => gone' \cap ToSet(image.rows) = {}
  BY DEF Lasting, GoneIsAbsent
<1> QED
  BY <1>3, <1>4, LastingAfterChange

LEMMA LastingAfterOpen ==
  ASSUME Typed, Lasting, NEW p \in Page, OpenPage(p)
  PROVE  Lasting'
<1>1. /\ ~Open(p) /\ image' = image
      /\ shared' = (shared \/ \E q \in Page : Open(q))
      /\ gone' = (IF stale \/ shared' THEN {} ELSE gone)
  BY OpenPageEffect
<1>2. PICK t \in PageState :
        /\ page' = [page EXCEPT ![p] = t]
        /\ t.op = [at |-> "initialise"] /\ ~t.disabled /\ t.saves = <<Export(t)>>
        /\ ToSet(t.rows) \subseteq ToSet(image.rows)
  BY OpenPageEffect
<1>3. page'[p] = t /\ \A q \in Page : q # p => page'[q] = page[q]
  BY <1>2, ChangedPages
<1>4. t.op.at # "closed"
  BY <1>2
<1>5. ~shared' => ~shared /\ \A q \in Page : page'[q].op.at # "closed" => q = p
  BY <1>1, <1>3 DEF Open
<1>6. /\ t.saves # <<>> /\ Len(t.saves) = 1 /\ DOMAIN t.saves = 1..1
      /\ t.saves[1] = Export(t)
  BY <1>2
<1>7. ClosedSavesNothing'
  <2>1. \A q \in Page : page'[q].op.at = "closed" => page'[q].saves = <<>>
    BY <1>3, <1>4 DEF Lasting, ClosedSavesNothing, Open
  <2> QED
    BY <2>1 DEF ClosedSavesNothing, Open
<1>8. OneOpen'
  BY <1>5 DEF OneOpen, Open
<1>9. DisabledIsStale'
  BY <1>2, <1>3, <1>5 DEF DisabledIsStale, Open
<1>10. LastIsCurrent'
  <2>1. ASSUME NEW q \in Page, page'[q].op.at # "closed", ~page'[q].disabled,
               page'[q].saves # <<>>
        PROVE  page'[q].saves[Len(page'[q].saves)] = Export(page'[q])
    <3>1. CASE q = p
      BY <1>3, <1>6, <3>1
    <3>2. CASE q # p
      <4>1. page'[q] = page[q]
        BY <1>3, <3>2
      <4> QED
        BY <2>1, <4>1 DEF Lasting, LastIsCurrent, Open
    <3> QED
      BY <3>1, <3>2
  <2> QED
    BY <2>1 DEF LastIsCurrent, Open, Export
<1>11. ImageIsCurrent'
  <2>1. ~shared' => \A q \in Page : page'[q].op.at # "closed" => page'[q].saves # <<>>
    BY <1>3, <1>5, <1>6
  <2> QED
    BY <2>1 DEF ImageIsCurrent, Open
<1>12. GoneIsAbsent'
  <2>1. ~shared' => gone' \cap ToSet(image.rows) = {}
    BY <1>1, <1>5 DEF Lasting, GoneIsAbsent
  <2>2. ~shared' => Absent(t, gone', 0)
    <3>1. Export(t).rows = t.rows
      BY DEF Export
    <3>2. \A i \in DOMAIN t.saves : t.saves[i].rows = t.rows
      BY <1>6, <3>1
    <3> QED
      BY <1>2, <2>1, <3>2 DEF Absent
  <2>3. ~shared' => \A q \in Page : page'[q].op.at # "closed" => Absent(page'[q], gone', 0)
    BY <1>3, <1>5, <2>2
  <2> QED
    BY <1>1, <2>1, <2>3 DEF GoneIsAbsent, Open, Absent, ToSet
<1> QED
  BY <1>7, <1>8, <1>9, <1>10, <1>11, <1>12 DEF Lasting

LEMMA LastingAfterClose ==
  ASSUME Typed, Lasting, NEW p \in Page, ClosePage(p)
  PROVE  Lasting'
<1>1. /\ Open(p) /\ Closed.op.at = "closed" /\ Closed.saves = <<>>
      /\ page' = [page EXCEPT ![p] = Closed]
      /\ UNCHANGED <<gone, stale, shared>>
      /\ image' = image \/ \E i \in DOMAIN page[p].saves : image' = page[p].saves[i]
  BY ClosePageEffect
<1>2. page'[p] = Closed /\ \A q \in Page : q # p => page'[q] = page[q]
  BY <1>1, ChangedPages
<1>3. \A q \in Page : page'[q].op.at # "closed" => Open(q) /\ q # p /\ page'[q] = page[q]
  BY <1>1, <1>2 DEF Open
<1>4. ~shared => \A q \in Page : page'[q].op.at = "closed"
  BY <1>1, <1>3 DEF Lasting, OneOpen
<1>5. ClosedSavesNothing'
  <2>1. \A q \in Page : page'[q].op.at = "closed" => page'[q].saves = <<>>
    BY <1>1, <1>2 DEF Lasting, ClosedSavesNothing, Open
  <2> QED
    BY <2>1 DEF ClosedSavesNothing, Open
<1>6. OneOpen' /\ DisabledIsStale' /\ ImageIsCurrent'
  BY <1>1, <1>4 DEF OneOpen, DisabledIsStale, ImageIsCurrent, Open
<1>7. LastIsCurrent'
  <2>1. \A q \in Page : page'[q].op.at # "closed" /\ ~page'[q].disabled /\ page'[q].saves # <<>>
          => page'[q].saves[Len(page'[q].saves)] = Export(page'[q])
    BY <1>3 DEF Lasting, LastIsCurrent
  <2> QED
    BY <2>1 DEF LastIsCurrent, Open, Export
<1>8. GoneIsAbsent'
  <2>1. ASSUME ~shared, ~stale
        PROVE  gone \cap ToSet(image'.rows) = {}
    <3>1. gone \cap ToSet(image.rows) = {} /\ Absent(page[p], gone, 0) /\ ~page[p].disabled
      BY <1>1, <2>1 DEF Lasting, GoneIsAbsent, DisabledIsStale
    <3>2. \A i \in DOMAIN page[p].saves : i >= 0
      BY PageFields, LenProperties
    <3>3. \A i \in DOMAIN page[p].saves : gone \cap ToSet(page[p].saves[i].rows) = {}
      BY <3>1, <3>2 DEF Absent
    <3> QED
      BY <1>1, <3>1, <3>3
  <2> QED
    BY <1>1, <1>4, <2>1 DEF GoneIsAbsent, Open, ToSet
<1> QED
  BY <1>5, <1>6, <1>7, <1>8 DEF Lasting

\* What holds when IndexedDB has answered, whatever is in the image then.
LEMMA LastingAfterSettling ==
  ASSUME Typed, Lasting, NEW p \in Page, NEW t, page' = [page EXCEPT ![p] = t],
         Settles(page[p], t), page[p].disabled => t.disabled,
         UNCHANGED <<gone, shared>>, t.disabled => stale',
         ~shared /\ ~stale' => /\ gone \cap ToSet(image'.rows) = {}
                               /\ t.saves = <<>> => image' = Export(t)
  PROVE  Lasting'
<1>1. page'[p] = t /\ \A q \in Page : q # p => page'[q] = page[q]
  BY ChangedPages
<1>2. /\ t.op = page[p].op /\ t.rows = page[p].rows /\ t.settings = page[p].settings
      /\ t.saves = Tail(page[p].saves) /\ page[p].saves # <<>> /\ t \in PageState
  BY DEF Settles
<1>3. page[p].saves \in Seq(Image) /\ page[p] \in PageState
  BY PageFields
<1>4. Open(p)
  BY <1>2 DEF Lasting, ClosedSavesNothing
<1>5. \A q \in Page : page'[q].op.at # "closed" <=> Open(q)
  BY <1>1, <1>2 DEF Open
<1>6. ~shared => \A q \in Page : Open(q) => q = p
  BY <1>4 DEF Lasting, OneOpen
<1>7. ClosedSavesNothing'
  <2>1. \A q \in Page : ~Open(q) => page'[q].saves = <<>>
    BY <1>1, <1>4 DEF Lasting, ClosedSavesNothing
  <2> QED
    BY <1>5, <2>1 DEF ClosedSavesNothing, Open
<1>8. OneOpen'
  BY <1>5 DEF Lasting, OneOpen, Open
<1>9. DisabledIsStale'
  <2>1. ~shared => \A q \in Page : Open(q) /\ page'[q].disabled => t.disabled
    BY <1>1, <1>6
  <2> QED
    BY <1>5, <2>1 DEF DisabledIsStale, Open
<1>10. LastIsCurrent'
  <2>1. ASSUME ~t.disabled, t.saves # <<>>
        PROVE  t.saves[Len(t.saves)] = Export(t)
    <3>1. page[p].saves[Len(page[p].saves)] = Export(page[p])
      BY <1>2, <1>4, <2>1 DEF Lasting, LastIsCurrent
    <3>2. /\ Len(page[p].saves) \in Nat \ {0} /\ Len(t.saves) = Len(page[p].saves) - 1
          /\ t.saves \in Seq(Image)
          /\ \A i \in 1..(Len(page[p].saves) - 1) : t.saves[i] = page[p].saves[i + 1]
      BY <1>2, <1>3, TailValues
    <3>3. Len(t.saves) # 0
      BY <2>1, <3>2, EmptySeq
    <3>4. Len(t.saves) \in 1..(Len(page[p].saves) - 1) /\ Len(t.saves) + 1 = Len(page[p].saves)
      <4> DEFINE a == Len(t.saves)
                 b == Len(page[p].saves)
      <4>1. b \in Nat \ {0} /\ a = b - 1 /\ a # 0
        BY <3>2, <3>3
      <4> HIDE DEF a, b
      <4>2. a \in 1..(b - 1) /\ a + 1 = b
        BY <4>1
      <4> QED
        BY <4>2 DEF a, b
    <3>5. t.saves[Len(t.saves)] = page[p].saves[Len(page[p].saves)]
      <4>1. \A i \in 1..(Len(page[p].saves) - 1) : t.saves[i] = page[p].saves[i + 1]
        BY <3>2
      <4>2. t.saves[Len(t.saves)] = page[p].saves[Len(t.saves) + 1]
        BY <3>4, <4>1
      <4> QED
        BY <3>4, <4>2
    <3> QED
      BY <1>2, <3>1, <3>5 DEF Export
  <2>2. ASSUME NEW q \in Page, page'[q].op.at # "closed", ~page'[q].disabled,
               page'[q].saves # <<>>
        PROVE  page'[q].saves[Len(page'[q].saves)] = Export(page'[q])
    <3>1. CASE q = p
      BY <1>1, <2>1, <2>2, <3>1
    <3>2. CASE q # p
      BY <1>1, <1>5, <2>2, <3>2 DEF Lasting, LastIsCurrent
    <3> QED
      BY <3>1, <3>2
  <2> QED
    BY <2>2 DEF LastIsCurrent, Open, Export
<1>11. ImageIsCurrent'
  <2>1. ~shared /\ ~stale' => \A q \in Page : Open(q) /\ page'[q].saves = <<>> =>
          image' = Export(page'[q])
    BY <1>1, <1>6
  <2> QED
    BY <1>5, <2>1 DEF ImageIsCurrent, Open, Export
<1>12. GoneIsAbsent'
  <2>1. ~shared => Absent(t, gone, 0)
    <3>1. ~shared => Absent(page[p], gone, 0)
      BY <1>4 DEF Lasting, GoneIsAbsent
    <3> QED
      BY <1>2, <1>3, <3>1, AbsentSettled
  <2>2. ~shared => \A q \in Page : Open(q) => Absent(page'[q], gone, 0)
    BY <1>1, <1>6, <2>1
  <2> QED
    BY <1>5, <2>2 DEF GoneIsAbsent, Open, Absent, ToSet
<1> QED
  BY <1>7, <1>8, <1>9, <1>10, <1>11, <1>12 DEF Lasting

LEMMA LastingStep ==
  ASSUME Typed, Lasting, DeletedIsAbsent, [Next]_vars
  PROVE  Lasting'
<1>1. ASSUME NEW p \in Page, NEW t, Changes(p, t), gone' \subseteq gone,
             ToSet(t.rows) \subseteq ToSet(page[p].rows)
      PROVE  Lasting'
  <2>1. ~shared => gone \cap ToSet(page[p].rows) = {}
    BY <1>1 DEF Changes, Lasting, GoneIsAbsent, Absent
  <2>2. ~shared => gone' \cap ToSet(t.rows) = {}
    BY <1>1, <2>1
  <2> QED
    BY <1>1, <2>2, LastingAfterWrite
<1>2. ASSUME NEW p \in Page, Initialise(p) PROVE Lasting'
  BY <1>1, <1>2, InitialiseEffect
<1>3. ASSUME NEW p \in Page, NEW m \in Message, Get(p, m) PROVE Lasting'
  BY <1>1, <1>3, GetEffect
<1>4. ASSUME NEW p \in Page, NEW m \in Message, Put(p, m) PROVE Lasting'
  BY <1>1, <1>4, PutEffect
<1>5. ASSUME NEW p \in Page, PutEntry(p) PROVE Lasting'
  <2>1. PICK t : /\ Changes(p, t)
                 /\ ToSet(t.rows) = ToSet(page[p].rows) \cup {page[p].op.msg}
    BY <1>5, PutEntryEffect
  <2>2. gone' = gone \ {page[p].op.msg}
    BY <1>5, PutEntryEffect
  <2>3. ~shared => gone \cap ToSet(page[p].rows) = {}
    BY <2>1 DEF Changes, Lasting, GoneIsAbsent, Absent
  <2>4. ~shared => gone' \cap ToSet(t.rows) = {}
    BY <2>1, <2>2, <2>3
  <2>5. gone' \subseteq gone
    BY <2>2
  <2> QED
    BY <2>1, <2>4, <2>5, LastingAfterWrite
<1>6. ASSUME NEW p \in Page, NEW sets \in Purges, Purge(p, sets) PROVE Lasting'
  <2>1. PICK t : Changes(p, t) /\ ToSet(t.rows) = ToSet(page[p].rows) \ Head(sets)
    BY <1>6, PurgeEffect
  <2>2. gone' = gone
    BY <1>6, PurgeEffect
  <2> QED
    BY <1>1, <2>1, <2>2
<1>7. ASSUME NEW p \in Page, PurgeGoesOn(p) PROVE Lasting'
  <2>1. /\ page[p].op.at = "purge" /\ page[p].waits = 0
        /\ page[p] \in PageState /\ page[p].op.purged \in SUBSET Message
    BY <1>7, PageFields, PurgeGoesOnEffect
  <2>2. CASE page[p].op.left # <<>>
    <3>1. PICK t : /\ Changes(p, t)
                   /\ ToSet(t.rows) = ToSet(page[p].rows) \ Head(page[p].op.left)
      BY <1>7, <2>2, PurgeGoesOnEffect
    <3>2. gone' = gone
      BY <1>7, <2>2, PurgeGoesOnEffect
    <3> QED
      BY <1>1, <3>1, <3>2
  <2>3. CASE page[p].op.left = <<>>
    <3> DEFINE purged == page[p].op.purged
    <3>1. PICK t : Changes(p, t) /\ Keeps(page[p], t)
      BY <1>7, <2>3, PurgeGoesOnEffect
    <3>2. gone' = IF shared THEN {} ELSE gone \cup purged
      BY <1>7, <2>3, PurgeGoesOnEffect
    <3>3. Deleted(page[p].op) = purged
      BY <2>3 DEF Deleted, ToSet
    <3> HIDE DEF purged
    <3>4. ~shared => /\ Absent(page[p], purged, 0)
                     /\ ~stale => purged \cap ToSet(image.rows) = {}
      BY <2>1, <3>3 DEF DeletedIsAbsent
    <3>5. ~shared => /\ Absent(page[p], gone, 0)
                     /\ ~stale => gone \cap ToSet(image.rows) = {}
      BY <3>1 DEF Changes, Lasting, GoneIsAbsent
    <3>6. ~shared => Absent(page[p], gone \cup purged, 0)
      BY <3>4, <3>5 DEF Absent
    <3>7. ~shared => Absent(t, gone', 0)
      <4>1. t \in PageState
        BY <3>1 DEF Changes
      <4>2. ~shared => (gone \cup purged) \cap ToSet(t.rows) = {}
        BY <3>1, <3>6 DEF Absent, Keeps
      <4>3. ~shared => Absent(t, gone \cup purged, 0)
        BY <2>1, <3>1, <3>6, <4>1, <4>2, AbsentKept
      <4> QED
        BY <3>2, <4>3
    <3>8. ~shared /\ ~stale => gone' \cap ToSet(image.rows) = {}
      BY <3>2, <3>4, <3>5
    <3> QED
      BY <3>1, <3>7, <3>8, LastingAfterChange
  <2> QED
    BY <2>2, <2>3
<1>8. ASSUME NEW p \in Page, NEW bytes \in Limit, SetLimit(p, bytes) PROVE Lasting'
  BY <1>1, <1>8, SetLimitEffect
<1>9. ASSUME NEW p \in Page, Shrink(p) PROVE Lasting'
  <2>1. PICK t : Changes(p, t) /\ ToSet(t.rows) \subseteq ToSet(page[p].rows)
    BY <1>9, ShrinkEffect
  <2>2. gone' = gone
    BY <1>9, ShrinkEffect
  <2> QED
    BY <1>1, <2>1, <2>2
<1>10. ASSUME NEW p \in Page, OpenPage(p) PROVE Lasting'
  BY <1>10, LastingAfterOpen
<1>11. ASSUME NEW p \in Page, ClosePage(p) PROVE Lasting'
  BY <1>11, LastingAfterClose
<1>12. ASSUME NEW p \in Page, Saved(p) PROVE Lasting'
  <2>1. /\ image' = page[p].saves[1] /\ stale' = page[p].disabled
        /\ UNCHANGED <<gone, shared>>
    BY <1>12, SavedEffect
  <2>2. PICK t \in PageState : /\ page' = [page EXCEPT ![p] = t]
                               /\ Settles(page[p], t) /\ t.disabled = page[p].disabled
    BY <1>12, SavedEffect
  <2>3. page[p].saves # <<>> /\ page[p].saves \in Seq(Image)
    BY <2>2, PageFields DEF Settles
  <2>4. Open(p)
    BY <2>3 DEF Lasting, ClosedSavesNothing
  <2>5. ASSUME ~shared, ~page[p].disabled
        PROVE  gone \cap ToSet(page[p].saves[1].rows) = {}
    <3>1. Absent(page[p], gone, 0)
      BY <2>4, <2>5 DEF Lasting, GoneIsAbsent
    <3>2. 1 \in DOMAIN page[p].saves
      BY <2>3, TailValues
    <3> QED
      BY <2>5, <3>1, <3>2 DEF Absent
  <2>6. ASSUME ~page[p].disabled, t.saves = <<>>
        PROVE  page[p].saves[1] = Export(t)
    <3>1. page[p].saves[Len(page[p].saves)] = Export(page[p])
      BY <2>3, <2>4, <2>6 DEF Lasting, LastIsCurrent
    <3>2. Len(page[p].saves) = 1
      <4>1. /\ Len(page[p].saves) \in Nat \ {0}
            /\ Len(t.saves) = Len(page[p].saves) - 1
        BY <2>2, <2>3, TailValues DEF Settles
      <4>2. Len(t.saves) = 0
        BY <2>6
      <4> DEFINE a == Len(t.saves)
                 b == Len(page[p].saves)
      <4>3. b \in Nat \ {0} /\ a = b - 1 /\ a = 0
        BY <4>1, <4>2
      <4> HIDE DEF a, b
      <4>4. b = 1
        BY <4>3
      <4> QED
        BY <4>4 DEF b
    <3>3. Export(t) = Export(page[p])
      BY <2>2 DEF Export, Settles
    <3> QED
      BY <3>1, <3>2, <3>3
  <2> QED
    BY <2>1, <2>2, <2>5, <2>6, LastingAfterSettling
<1>13. ASSUME NEW p \in Page, NotSaved(p) PROVE Lasting'
  <2>1. PICK t \in PageState : /\ page' = [page EXCEPT ![p] = t]
                               /\ Settles(page[p], t)
                               /\ page[p].disabled => t.disabled
    BY <1>13, NotSavedEffect
  <2>2. stale' /\ UNCHANGED <<gone, shared>>
    BY <1>13, NotSavedEffect
  <2> QED
    BY <2>1, <2>2, LastingAfterSettling
<1>14. CASE UNCHANGED vars
  BY <1>14 DEF vars, Lasting, ClosedSavesNothing, OneOpen, DisabledIsStale, LastIsCurrent,
               ImageIsCurrent, GoneIsAbsent, Open, Export, Absent, ToSet
<1> QED
  BY <1>2, <1>3, <1>4, <1>5, <1>6, <1>7, <1>8, <1>9, <1>10, <1>11, <1>12, <1>13, <1>14, StepCases

-----------------------------------------------------------------------------
(* What a purge has deleted stays deleted *)

LEMMA DeletedIsAbsentStep ==
  ASSUME Typed, Lasting, DeletedIsAbsent, [Next]_vars
  PROVE  DeletedIsAbsent'
<1> DEFINE Done(s) == s.op.at = "purge" =>
             /\ Absent(s, Deleted(s.op), s.waits)
             /\ ~stale' /\ s.waits = 0 => Deleted(s.op) \cap ToSet(image'.rows) = {}
<1>1. ASSUME NEW p \in Page, NEW t, page' = [page EXCEPT ![p] = t], ~shared' => Done(t),
             ~shared' => \A q \in Page : page'[q].op.at = "purge" => q = p
      PROVE  DeletedIsAbsent'
  <2>1. page'[p] = t
    BY <1>1, ChangedPages
  <2>2. ~shared' => \A q \in Page : Done(page'[q])
    BY <1>1, <2>1
  <2> QED
    BY <2>2 DEF DeletedIsAbsent, Absent, Deleted, ToSet
<1>2. ASSUME NEW p \in Page, NEW t, Changes(p, t), ~shared => Done(t)
      PROVE  DeletedIsAbsent'
  <2>1. page' = [page EXCEPT ![p] = t] /\ shared' = shared /\ Open(p)
    BY <1>2 DEF Changes
  <2>2. \A q \in Page : q # p => page'[q] = page[q]
    BY <2>1, ChangedPages
  <2>3. ~shared => \A q \in Page : page'[q].op.at = "purge" => q = p
    BY <2>1, <2>2 DEF Lasting, OneOpen, Open
  <2> QED
    BY <1>1, <1>2, <2>1, <2>3
<1>3. ASSUME NEW p \in Page, NEW t, Changes(p, t), Writes(page[p], t), Awaits(page[p], t),
             ~shared => Deleted(t.op) \cap ToSet(t.rows) = {}
      PROVE  DeletedIsAbsent'
  <2>1. t \in PageState /\ page[p] \in PageState /\ stale' = (stale \/ t.disabled)
    BY <1>3, PageFields DEF Changes
  <2>2. ~shared => Absent(t, Deleted(t.op), t.waits) /\ (t.disabled \/ t.waits # 0)
    BY <1>3, <2>1, AbsentSince
  <2>3. t.disabled => stale'
    BY <2>1
  <2>4. ~shared => Done(t)
    BY <2>2, <2>3
  <2> QED
    BY <1>2, <1>3, <2>4
<1>4. ASSUME NEW p \in Page, NEW t, Changes(p, t), t.op.at # "purge"
      PROVE  DeletedIsAbsent'
  BY <1>2, <1>4
<1>5. ASSUME NEW p \in Page, NEW t, page' = [page EXCEPT ![p] = t], Settles(page[p], t),
             page[p].disabled => t.disabled, shared' = shared,
             stale' \/ (image' = page[p].saves[1] /\ ~page[p].disabled)
      PROVE  DeletedIsAbsent'
  <2>1. /\ t.op = page[p].op /\ page[p].saves # <<>> /\ t \in PageState
        /\ t.waits = IF page[p].waits = 0 THEN 0 ELSE page[p].waits - 1
    BY <1>5 DEF Settles
  <2>2. page[p] \in PageState /\ page[p].waits \in Nat /\ page[p].saves \in Seq(Image)
    BY PageFields
  <2>3. Open(p)
    BY <2>1 DEF Lasting, ClosedSavesNothing
  <2>4. \A q \in Page : q # p => page'[q] = page[q]
    BY <1>5, ChangedPages
  <2>5. ~shared => \A q \in Page : page'[q].op.at = "purge" => q = p
    BY <2>3, <2>4 DEF Lasting, OneOpen, Open
  <2>6. ASSUME ~shared, t.op.at = "purge"
        PROVE  /\ Absent(t, Deleted(t.op), t.waits)
               /\ ~stale' /\ t.waits = 0 => Deleted(t.op) \cap ToSet(image'.rows) = {}
    <3>1. Absent(page[p], Deleted(t.op), page[p].waits)
      BY <2>1, <2>6 DEF DeletedIsAbsent
    <3>2. t.waits \in Nat /\ page[p].waits <= t.waits + 1
      BY <2>1, <2>2
    <3>3. Absent(t, Deleted(t.op), t.waits)
      BY <1>5, <2>1, <2>2, <3>1, <3>2, AbsentSettled
    <3>4. ASSUME ~stale', t.waits = 0
          PROVE  Deleted(t.op) \cap ToSet(image'.rows) = {}
      <4>1. image' = page[p].saves[1] /\ ~page[p].disabled
        BY <1>5, <3>4
      <4>2. 1 \in DOMAIN page[p].saves
        BY <2>1, <2>2, TailValues
      <4>3. 1 >= page[p].waits
        BY <2>2, <3>2, <3>4
      <4> QED
        BY <3>1, <4>1, <4>2, <4>3 DEF Absent
    <3> QED
      BY <3>3, <3>4
  <2> QED
    BY <1>1, <1>5, <2>5, <2>6
<1> HIDE DEF Done
<1>6. Idle.at # "purge"
  BY DEF Idle
<1>7. ASSUME NEW p \in Page, Initialise(p) PROVE DeletedIsAbsent'
  BY <1>4, <1>6, <1>7, InitialiseEffect
<1>8. ASSUME NEW p \in Page, NEW m \in Message, Get(p, m) PROVE DeletedIsAbsent'
  <2>1. PICK t : /\ Changes(p, t) /\ t.op = page[p].op
                 /\ t.waits = page[p].waits /\ Writes(page[p], t)
                 /\ ToSet(t.rows) = ToSet(page[p].rows)
    BY <1>8, GetEffect
  <2>2. /\ t \in PageState /\ page[p] \in PageState /\ page[p].waits \in Nat
        /\ stale' = (stale \/ t.disabled) /\ image' = image
    BY <2>1, PageFields DEF Changes
  <2>3. ASSUME ~shared, t.op.at = "purge"
        PROVE  /\ Absent(t, Deleted(t.op), t.waits)
               /\ ~stale' /\ t.waits = 0 => Deleted(t.op) \cap ToSet(image'.rows) = {}
    <3> DEFINE S == Deleted(t.op)
    <3>1. /\ Absent(page[p], S, page[p].waits)
          /\ ~stale /\ page[p].waits = 0 => S \cap ToSet(image.rows) = {}
      BY <2>1, <2>3 DEF DeletedIsAbsent
    <3> HIDE DEF S
    <3>2. S \cap ToSet(t.rows) = {}
      BY <2>1, <3>1 DEF Absent
    <3>3. Absent(t, S, t.waits)
      BY <2>1, <2>2, <3>1, <3>2, AbsentKept
    <3>4. ~stale' => ~stale
      BY <2>2
    <3> QED
      BY <2>1, <2>2, <3>1, <3>3, <3>4 DEF S
  <2>4. ~shared => Done(t)
    BY <2>3 DEF Done
  <2> QED
    BY <1>2, <2>1, <2>4
<1>9. ASSUME NEW p \in Page, NEW m \in Message, Put(p, m) PROVE DeletedIsAbsent'
  <2>1. PICK t : /\ Changes(p, t) /\ t.op = [at |-> "store", msg |-> m]
                 /\ t.limit = page[p].limit /\ ToSet(t.rows) \subseteq ToSet(page[p].rows)
    BY <1>9, PutEffect
  <2>2. t.op.at # "purge"
    BY <2>1
  <2> QED
    BY <1>4, <2>1, <2>2
<1>10. ASSUME NEW p \in Page, PutEntry(p) PROVE DeletedIsAbsent'
  BY <1>4, <1>6, <1>10, PutEntryEffect
<1>11. ASSUME NEW p \in Page, NEW sets \in Purges, Purge(p, sets) PROVE DeletedIsAbsent'
  <2>1. PICK t : /\ Changes(p, t) /\ Writes(page[p], t) /\ Awaits(page[p], t)
                 /\ t.op = [at |-> "purge", left |-> Tail(sets), purged |-> UNION ToSet(sets)]
                 /\ ToSet(t.rows) = ToSet(page[p].rows) \ Head(sets)
    BY <1>11, PurgeEffect
  <2>2. ToSet(sets) = ToSet(Tail(sets)) \cup {Head(sets)}
    BY PurgesTyped, TailValues
  <2>3. Deleted(t.op) = (UNION ToSet(sets)) \ UNION ToSet(Tail(sets))
    BY <2>1 DEF Deleted
  <2>4. Deleted(t.op) \subseteq Head(sets)
    BY <2>2, <2>3
  <2> QED
    BY <1>3, <2>1, <2>4
<1>12. ASSUME NEW p \in Page, PurgeGoesOn(p) PROVE DeletedIsAbsent'
  <2>1. /\ page[p].op.at = "purge" /\ page[p].op \in Op
        /\ page[p].op.left \in Seq(SUBSET Message) /\ page[p].op.purged \in SUBSET Message
    BY <1>12, PageFields, PurgeGoesOnEffect
  <2>2. CASE page[p].op.left = <<>>
    BY <1>4, <1>6, <1>12, <2>2, PurgeGoesOnEffect
  <2>3. CASE page[p].op.left # <<>>
    <3> DEFINE left == page[p].op.left
    <3>1. PICK t : /\ Changes(p, t) /\ Writes(page[p], t) /\ Awaits(page[p], t)
                   /\ t.op = [page[p].op EXCEPT !.left = Tail(left)]
                   /\ ToSet(t.rows) = ToSet(page[p].rows) \ Head(left)
      BY <1>12, <2>3, PurgeGoesOnEffect
    <3>2. ToSet(left) = ToSet(Tail(left)) \cup {Head(left)}
      BY <2>1, <2>3, TailValues
    <3>3. t.op.left = Tail(left) /\ t.op.purged = page[p].op.purged
      BY <2>1, <3>1 DEF Op
    <3>4. Deleted(t.op) \subseteq Deleted(page[p].op) \cup Head(left)
      BY <3>2, <3>3 DEF Deleted
    <3>5. ~shared => Deleted(page[p].op) \cap ToSet(page[p].rows) = {}
      BY <2>1 DEF DeletedIsAbsent, Absent
    <3>6. ~shared => Deleted(t.op) \cap ToSet(t.rows) = {}
      BY <3>1, <3>4, <3>5
    <3> QED
      BY <1>3, <3>1, <3>6
  <2> QED
    BY <2>2, <2>3
<1>13. ASSUME NEW p \in Page, NEW bytes \in Limit, SetLimit(p, bytes) PROVE DeletedIsAbsent'
  <2>1. PICK t : Changes(p, t) /\ t.op = [at |-> "shrink"]
    BY <1>13, SetLimitEffect
  <2>2. t.op.at # "purge"
    BY <2>1
  <2> QED
    BY <1>4, <2>1, <2>2
<1>14. ASSUME NEW p \in Page, Shrink(p) PROVE DeletedIsAbsent'
  <2>1. PICK t : /\ Changes(p, t) /\ Writes(page[p], t) /\ Awaits(page[p], t)
                 /\ t.op = [at |-> "purge", left |-> <<>>,
                            purged |-> IF page[p].limit = 0 THEN Message ELSE {}]
                 /\ t.limit = page[p].limit
                 /\ t.limit = 0 => ToSet(t.rows) = {}
    BY <1>14, ShrinkEffect
  <2>2. Deleted(t.op) \subseteq IF page[p].limit = 0 THEN Message ELSE {}
    BY <2>1 DEF Deleted
  <2>3. Deleted(t.op) \cap ToSet(t.rows) = {}
    BY <2>1, <2>2
  <2> QED
    BY <1>3, <2>1, <2>3
<1>15. ASSUME NEW p \in Page, OpenPage(p) PROVE DeletedIsAbsent'
  <2>1. PICK t \in PageState : /\ page' = [page EXCEPT ![p] = t]
                               /\ t.op = [at |-> "initialise"]
    BY <1>15, OpenPageEffect
  <2>2. shared' = (shared \/ \E q \in Page : Open(q))
    BY <1>15, OpenPageEffect
  <2>3. \A q \in Page : q # p => page'[q] = page[q]
    BY <2>1, ChangedPages
  <2>4. ~shared' => \A q \in Page : page'[q].op.at = "purge" => q = p
    BY <2>2, <2>3 DEF Open
  <2>5. Done(t)
    BY <2>1 DEF Done
  <2> QED
    BY <1>1, <2>1, <2>4, <2>5
<1>16. ASSUME NEW p \in Page, ClosePage(p) PROVE DeletedIsAbsent'
  <2>1. /\ page' = [page EXCEPT ![p] = Closed] /\ Closed.op.at = "closed"
        /\ Open(p) /\ shared' = shared
    BY <1>16, ClosePageEffect
  <2>2. \A q \in Page : q # p => page'[q] = page[q]
    BY <2>1, ChangedPages
  <2>3. ~shared => \A q \in Page : page'[q].op.at = "purge" => q = p
    BY <2>1, <2>2 DEF Lasting, OneOpen, Open
  <2>4. Done(Closed)
    BY <2>1 DEF Done
  <2> QED
    BY <1>1, <2>1, <2>3, <2>4
<1>17. ASSUME NEW p \in Page, Saved(p) PROVE DeletedIsAbsent'
  <2>1. /\ image' = page[p].saves[1] /\ stale' = page[p].disabled /\ shared' = shared
    BY <1>17, SavedEffect
  <2>2. PICK t \in PageState : /\ page' = [page EXCEPT ![p] = t]
                               /\ Settles(page[p], t) /\ t.disabled = page[p].disabled
    BY <1>17, SavedEffect
  <2> QED
    BY <1>5, <2>1, <2>2
<1>18. ASSUME NEW p \in Page, NotSaved(p) PROVE DeletedIsAbsent'
  <2>1. PICK t \in PageState : /\ page' = [page EXCEPT ![p] = t]
                               /\ Settles(page[p], t)
                               /\ page[p].disabled => t.disabled
    BY <1>18, NotSavedEffect
  <2>2. stale' /\ shared' = shared
    BY <1>18, NotSavedEffect
  <2> QED
    BY <1>5, <2>1, <2>2
<1>19. CASE UNCHANGED vars
  BY <1>19 DEF vars, DeletedIsAbsent, Absent, Deleted, ToSet
<1> QED
  BY <1>7, <1>8, <1>9, <1>10, <1>11, <1>12, <1>13, <1>14, <1>15, <1>16, <1>17, <1>18, <1>19,
     StepCases

-----------------------------------------------------------------------------
(* Theorems *)

LEMMA InitIInv == Init => IInv
<1> SUFFICES ASSUME Init PROVE IInv
  OBVIOUS
<1>1. Closed \in PageState /\ Closed.op.at = "closed" /\ Closed.saves = <<>>
  BY LimitAssumption DEF Closed, PageState, Op
<1>2. \A p \in Page : page[p] = Closed
  BY DEF Init
<1>3. \A p \in Page : ~Open(p) /\ page[p].saves = <<>>
  BY <1>1, <1>2 DEF Open
<1>4. Typed
  BY <1>1 DEF Init, Typed, Image, NoImage
<1>5. StoresWithin /\ DeletedIsAbsent
  <2>1. \A p \in Page : page[p].op.at = "closed"
    BY <1>1, <1>2
  <2> QED
    BY <2>1 DEF StoresWithin, DeletedIsAbsent
<1>6. gone \cap ToSet(image.rows) = {}
  BY DEF Init
<1> QED
  BY <1>3, <1>4, <1>5, <1>6
     DEF IInv, ClosedSavesNothing, OneOpen, DisabledIsStale, LastIsCurrent, ImageIsCurrent,
         GoneIsAbsent

\* Every reachable state has all the parts of the inductive invariant.
THEOREM Inductive == Spec => []IInv
<1>1. IInv /\ [Next]_vars => IInv'
  BY TypedStep, StoresWithinStep, LastingStep, DeletedIsAbsentStep DEF IInv, Lasting
<1> QED
  BY <1>1, InitIInv, PTL DEF Spec

\* A page that has the cache to itself leaves behind what the next page finds,
\* and no body comes back whose purge has resolved.
THEOREM AlwaysReloadsAsLeft == Spec => []ReloadsAsLeft
<1>1. IInv => ReloadsAsLeft
  BY DEF IInv, GoneIsAbsent, ImageIsCurrent, Export, ReloadsAsLeft
<1> QED
  BY <1>1, Inductive, PTL

LEMMA PromiseOfStep ==
  ASSUME Typed, StoresWithin, [Next]_vars, NEW q \in Page, Up(q), Up(q)'
  PROVE  Promise(q)!Next \/ UNCHANGED Promise(q)!vars
<1> DEFINE Kept == Promise(q)!Next \/ UNCHANGED Promise(q)!vars
<1>1. page[q].op.at \notin {"closed", "initialise"} /\ page'[q].op.at \notin {"closed", "initialise"}
  BY DEF Up
<1>2. ToSet(page[q].rows) \in SUBSET Message /\ page[q].limit \in Nat
  BY PageFields
\* A step that leaves rows and limit as they are.
<1>3. ASSUME ToSet(page'[q].rows) = ToSet(page[q].rows), page'[q].limit = page[q].limit,
             page'[q].op.at = "shrink" <=> page[q].op.at = "shrink"
      PROVE  Kept
  <2>1. (page'[q].op.at = "shrink") = (page[q].op.at = "shrink")
    BY <1>3
  <2>2. UNCHANGED Promise(q)!vars
    BY <1>3, <2>1 DEF Promise!vars, ToSet
  <2> QED
    BY <2>2
\* A step that only drops rows.
<1>4. ASSUME ToSet(page'[q].rows) \subseteq ToSet(page[q].rows), page'[q].limit = page[q].limit,
             page'[q].op.at # "shrink", page[q].op.at # "shrink"
      PROVE  Kept
  <2>1. (page'[q].op.at = "shrink") = (page[q].op.at = "shrink")
    BY <1>4
  <2>2. Promise(q)!Drop
    BY <1>4, <2>1 DEF Promise!Drop, ToSet
  <2> QED
    BY <2>2 DEF Promise!Next
<1>5. ASSUME page'[q] = page[q] PROVE Kept
  BY <1>3, <1>5
<1>6. ASSUME NEW p \in Page, p # q, NEW t, page' = [page EXCEPT ![p] = t]
      PROVE  Kept
  BY <1>6, <1>5, ChangedPages
<1>7. ASSUME NEW p \in Page, p # q, NEW t, Changes(p, t)
      PROVE  Kept
  BY <1>6, <1>7 DEF Changes
<1>8. ASSUME NEW t, Changes(q, t)
      PROVE  page'[q] = t
  BY <1>8, ChangedPages DEF Changes
<1> HIDE DEF Kept
<1>9. Idle.at = "idle"
  BY DEF Idle
<1>10. ASSUME NEW p \in Page, Initialise(p) PROVE Kept
  <2>1. p # q
    BY <1>1, <1>10, InitialiseEffect
  <2> QED
    BY <1>7, <1>10, <2>1, InitialiseEffect
<1>11. ASSUME NEW p \in Page, NEW m \in Message, Get(p, m) PROVE Kept
  <2>1. PICK t : /\ Changes(p, t) /\ t.op = page[p].op /\ t.limit = page[p].limit
                 /\ ToSet(t.rows) = ToSet(page[p].rows)
    BY <1>11, GetEffect
  <2> QED
    BY <1>3, <1>7, <1>8, <2>1
<1>12. ASSUME NEW p \in Page, NEW m \in Message, Put(p, m) PROVE Kept
  <2>1. PICK t : /\ Changes(p, t) /\ t.op = [at |-> "store", msg |-> m]
                 /\ t.limit = page[p].limit /\ ToSet(t.rows) \subseteq ToSet(page[p].rows)
    BY <1>12, PutEffect
  <2>2. page[p].op.at = "idle"
    BY <1>12, PutEffect
  <2>3. t.op.at # "shrink"
    BY <2>1
  <2> QED
    BY <1>4, <1>7, <1>8, <2>1, <2>2, <2>3
<1>13. ASSUME NEW p \in Page, PutEntry(p) PROVE Kept
  <2>1. PICK t : /\ Changes(p, t) /\ t.op = Idle /\ t.limit = page[p].limit
                 /\ ToSet(t.rows) = ToSet(page[p].rows) \cup {page[p].op.msg}
    BY <1>13, PutEntryEffect
  <2>2. page[p].op.at = "store" /\ page[p].op.msg \in Message
    BY <1>13, PutEntryEffect
  <2>3. CASE p = q
    <3> DEFINE m == page[q].op.msg
    <3>1. page'[q] = t
      BY <1>8, <2>1, <2>3
    <3>2. page[q].limit > 0 /\ Bytes[ToSet(page[q].rows) \cup {m}] <= page[q].limit
      BY <2>2, <2>3 DEF StoresWithin
    <3>3. /\ ToSet(page'[q].rows) = ToSet(page[q].rows) \cup {m}
          /\ page'[q].limit = page[q].limit
      BY <2>1, <2>3, <3>1
    <3>4. page'[q].op.at # "shrink" /\ page[q].op.at # "shrink"
      BY <1>9, <2>1, <2>2, <2>3, <3>1
    <3>5. m \in Message
      BY <2>2, <2>3
    <3> HIDE DEF m
    <3>6. Bytes[ToSet(page'[q].rows)] <= page[q].limit
      BY <3>2, <3>3
    <3>7. (page'[q].op.at = "shrink") = (page[q].op.at = "shrink")
      BY <3>4
    <3>8. Promise(q)!Store(m)
      BY <3>2, <3>3, <3>4, <3>6, <3>7 DEF Promise!Store, ToSet
    <3> QED
      BY <3>5, <3>8 DEF Promise!Next, Kept
  <2> QED
    BY <1>7, <2>1, <2>3
<1>14. ASSUME NEW p \in Page, NEW sets \in Purges, Purge(p, sets) PROVE Kept
  <2>1. PICK t : /\ Changes(p, t)
                 /\ t.op = [at |-> "purge", left |-> Tail(sets), purged |-> UNION ToSet(sets)]
                 /\ t.limit = page[p].limit
                 /\ ToSet(t.rows) = ToSet(page[p].rows) \ Head(sets)
    BY <1>14, PurgeEffect
  <2>2. t.op.at # "shrink" /\ page[p].op.at = "idle"
    BY <1>14, <2>1, PurgeEffect
  <2> QED
    BY <1>4, <1>7, <1>8, <2>1, <2>2
<1>15. ASSUME NEW p \in Page, PurgeGoesOn(p) PROVE Kept
  <2>1. page[p].op.at = "purge" /\ page[p].op \in Op
    BY <1>15, PageFields, PurgeGoesOnEffect
  <2>2. CASE page[p].op.left # <<>>
    <3> DEFINE rest == Tail(page[p].op.left)
    <3>1. PICK t : /\ Changes(p, t) /\ t.op = [page[p].op EXCEPT !.left = rest]
                   /\ t.limit = page[p].limit
                   /\ ToSet(t.rows) = ToSet(page[p].rows) \ Head(page[p].op.left)
      BY <1>15, <2>2, PurgeGoesOnEffect
    <3> HIDE DEF rest
    <3>2. t.op.at # "shrink"
      BY <2>1, <3>1 DEF Op
    <3> QED
      BY <1>4, <1>7, <1>8, <2>1, <3>1, <3>2
  <2>3. CASE page[p].op.left = <<>>
    <3>1. PICK t : /\ Changes(p, t) /\ Keeps(page[p], t) /\ t.op = Idle
                   /\ t.limit = page[p].limit
      BY <1>15, <2>3, PurgeGoesOnEffect
    <3>2. t.op.at # "shrink" /\ t.rows = page[p].rows
      BY <1>9, <3>1 DEF Keeps
    <3> QED
      BY <1>4, <1>7, <1>8, <2>1, <3>1, <3>2
  <2> QED
    BY <2>2, <2>3
<1>16. ASSUME NEW p \in Page, NEW bytes \in Limit, SetLimit(p, bytes) PROVE Kept
  <2>1. PICK t : /\ Changes(p, t) /\ t.op = [at |-> "shrink"] /\ t.limit = bytes
                 /\ t.rows = page[p].rows
    BY <1>16, SetLimitEffect
  <2>2. CASE p = q
    <3>1. page'[q].limit = bytes /\ page'[q].op.at = "shrink" /\ page'[q].rows = page[q].rows
      BY <1>8, <2>1, <2>2
    <3>2. (page'[q].op.at = "shrink") = TRUE
      BY <3>1
    <3>3. Promise(q)!SetLimit(bytes)
      BY <3>1, <3>2 DEF Promise!SetLimit, ToSet
    <3> QED
      BY <3>3 DEF Promise!Next, Kept
  <2> QED
    BY <1>7, <2>1, <2>2
<1>17. ASSUME NEW p \in Page, Shrink(p) PROVE Kept
  <2>1. PICK t : /\ Changes(p, t)
                 /\ t.op = [at |-> "purge", left |-> <<>>,
                            purged |-> IF page[p].limit = 0 THEN Message ELSE {}]
                 /\ t.limit = page[p].limit /\ ToSet(t.rows) \subseteq ToSet(page[p].rows)
                 /\ t.limit = 0 => ToSet(t.rows) = {}
                 /\ t.rows = <<>> \/ Bytes[ToSet(t.rows)] <= t.limit
    BY <1>17, ShrinkEffect
  <2>2. page[p].op.at = "shrink"
    BY <1>17, ShrinkEffect
  <2>3. CASE p = q
    <3>1. page'[q] = t
      BY <1>8, <2>1, <2>3
    <3>2. /\ ToSet(page'[q].rows) \subseteq ToSet(page[q].rows)
          /\ page'[q].limit = page[q].limit
          /\ page[q].limit = 0 => ToSet(page'[q].rows) = {}
          /\ page[q].op.at = "shrink" /\ page'[q].op.at # "shrink"
      BY <2>1, <2>2, <2>3, <3>1
    <3>3. Bytes[ToSet(page'[q].rows)] <= page[q].limit
      <4>1. CASE t.rows = <<>>
        <5>1. ToSet(t.rows) = {}
          BY <4>1 DEF ToSet
        <5> QED
          BY <1>2, <3>1, <5>1, BytesAssumption
      <4>2. CASE Bytes[ToSet(t.rows)] <= t.limit
        BY <2>1, <2>3, <3>1, <4>2
      <4> QED
        BY <2>1, <4>1, <4>2
    <3>4. (page'[q].op.at = "shrink") = FALSE
      BY <3>2
    <3>5. Promise(q)!Shrink
      BY <3>2, <3>3, <3>4 DEF Promise!Shrink, ToSet
    <3> QED
      BY <3>5 DEF Promise!Next, Kept
  <2> QED
    BY <1>7, <2>1, <2>3
<1>18. ASSUME NEW p \in Page, OpenPage(p) PROVE Kept
  <2>1. PICK t \in PageState : page' = [page EXCEPT ![p] = t]
    BY <1>18, OpenPageEffect
  <2>2. p # q
    BY <1>1, <1>18, OpenPageEffect DEF Open
  <2> QED
    BY <1>6, <2>1, <2>2
<1>19. ASSUME NEW p \in Page, ClosePage(p) PROVE Kept
  <2>1. page' = [page EXCEPT ![p] = Closed] /\ Closed.op.at = "closed"
    BY <1>19, ClosePageEffect
  <2>2. p # q
    BY <1>1, <2>1, ChangedPages
  <2> QED
    BY <1>6, <2>1, <2>2
<1>20. ASSUME NEW p \in Page, Saved(p) \/ NotSaved(p) PROVE Kept
  <2>1. PICK t \in PageState : page' = [page EXCEPT ![p] = t] /\ Settles(page[p], t)
    BY <1>20, SavedEffect, NotSavedEffect
  <2>2. CASE p = q
    <3>1. page'[q] = t
      BY <2>1, <2>2, ChangedPages
    <3> QED
      BY <1>3, <2>1, <2>2, <3>1 DEF Settles
  <2> QED
    BY <1>6, <2>1, <2>2
<1>21. CASE UNCHANGED vars
  <2>1. page'[q] = page[q]
    BY <1>21 DEF vars
  <2> QED
    BY <1>5, <2>1 DEF Kept
<1> QED
  BY <1>10, <1>11, <1>12, <1>13, <1>14, <1>15, <1>16, <1>17, <1>18, <1>19, <1>20, <1>21,
     StepCases DEF Kept

\* Each page, from its opening to its closing, implements the store that the
\* interface of the cache describes, whatever becomes of its saves and whatever
\* other pages do.
THEOREM PagesKeepPromise == Spec => PageKeepsPromise
<1> DEFINE Kept == \A p \in Page : Up(p) /\ Up(p)' => Promise(p)!Next \/ UNCHANGED Promise(p)!vars
<1>1. Typed /\ StoresWithin /\ [Next]_vars => Kept
  BY PromiseOfStep
<1> HIDE DEF Kept
<1>2. IInv => Typed /\ StoresWithin
  BY DEF IInv
<1>3. [][Kept]_vars => PageKeepsPromise
  BY PTL DEF PageKeepsPromise, Kept
<1> QED
  BY <1>1, <1>2, <1>3, Inductive, PTL DEF Spec

\* A set of messages is no smaller than its subsets.
LEMMA BytesMonotone ==
  ASSUME NEW S \in SUBSET Message, NEW T \in SUBSET Message, S \subseteq T
  PROVE  Bytes[S] <= Bytes[T]
<1>1. T = S \cup (T \ S) /\ S \cap (T \ S) = {} /\ T \ S \in SUBSET Message
  OBVIOUS
<1>2. Bytes[T] = Bytes[S] + Bytes[T \ S]
  BY <1>1, BytesAssumption
<1>3. Bytes[S] \in Nat /\ Bytes[T \ S] \in Nat
  BY <1>1, BytesAssumption
<1> QED
  BY <1>2, <1>3

\* A page that is within its limit stays so, like the store it implements.
LEMMA PromiseKeepsLimit ==
  ASSUME Typed, Typed', NEW q \in Page, Promise(q)!WithinLimit,
         Promise(q)!Next \/ UNCHANGED Promise(q)!vars
  PROVE  Promise(q)!WithinLimit'
<1> DEFINE Within == Promise(q)!WithinLimit'
<1>1. /\ page[q] \in PageState /\ page'[q] \in PageState
      /\ ToSet(page[q].rows) \in SUBSET Message /\ ToSet(page'[q].rows) \in SUBSET Message
      /\ page[q].limit \in Nat /\ page'[q].limit \in Nat
  <2>1. page[q] \in PageState /\ page'[q] \in PageState
    BY DEF Typed
  <2>2. \A s \in PageState : s.rows \in Seq(Message) /\ s.limit \in Nat
    BY LimitAssumption DEF PageState
  <2>3. \A rows \in Seq(Message) : ToSet(rows) \in SUBSET Message
    BY DEF ToSet
  <2> QED
    BY <2>1, <2>2, <2>3
<1>2. ASSUME NEW m \in Message, Promise(q)!Store(m)
      PROVE  Within
  BY <1>1, <1>2 DEF Promise!Store, Promise!WithinLimit
<1>3. CASE Promise(q)!Drop
  <2>1. /\ ToSet(page'[q].rows) \in SUBSET ToSet(page[q].rows)
        /\ page'[q].limit = page[q].limit
        /\ (page'[q].op.at = "shrink") = (page[q].op.at = "shrink")
    BY <1>3 DEF Promise!Drop
  <2>2. /\ Bytes[ToSet(page'[q].rows)] <= Bytes[ToSet(page[q].rows)]
        /\ Bytes[ToSet(page'[q].rows)] \in Nat /\ Bytes[ToSet(page[q].rows)] \in Nat
    BY <1>1, <2>1, BytesMonotone, BytesAssumption
  <2>3. CASE page[q].op.at = "shrink"
    BY <2>1, <2>3 DEF Promise!WithinLimit
  <2>4. CASE page[q].op.at # "shrink"
    <3>1. /\ Bytes[ToSet(page[q].rows)] <= page[q].limit
          /\ page[q].limit = 0 => ToSet(page[q].rows) = {}
      BY <2>4 DEF Promise!WithinLimit
    <3>2. Bytes[ToSet(page'[q].rows)] <= page'[q].limit
      BY <1>1, <2>1, <2>2, <3>1
    <3>3. page'[q].limit = 0 => ToSet(page'[q].rows) = {}
      BY <2>1, <3>1
    <3> QED
      BY <3>2, <3>3 DEF Promise!WithinLimit
  <2> QED
    BY <2>3, <2>4
<1>4. ASSUME NEW bytes \in Limit, Promise(q)!SetLimit(bytes)
      PROVE  Within
  BY <1>4 DEF Promise!SetLimit, Promise!WithinLimit
<1>5. CASE Promise(q)!Shrink
  BY <1>5 DEF Promise!Shrink, Promise!WithinLimit
<1>6. CASE UNCHANGED Promise(q)!vars
  BY <1>6 DEF Promise!vars, Promise!WithinLimit
<1> QED
  BY <1>2, <1>3, <1>4, <1>5, <1>6 DEF Promise!Next

\* An open page within its limit never outgrows it, whatever it is asked for in
\* whatever order and whatever becomes of its saves: no put, purge or change of the
\* limit takes it over but until the eviction that a change of the limit calls for.
\* (A page may be opened over its limit: the image may have been saved before that
\* eviction.)
THEOREM PagesStayWithinLimit ==
  Spec => [][\A p \in Page : Up(p) /\ Up(p)' /\ Promise(p)!WithinLimit
               => Promise(p)!WithinLimit']_vars
<1> DEFINE Stays == \A p \in Page : Up(p) /\ Up(p)' /\ Promise(p)!WithinLimit
                                      => Promise(p)!WithinLimit'
<1>1. Typed /\ StoresWithin /\ [Next]_vars => Typed'
  BY TypedStep
<1>2. Typed /\ StoresWithin /\ [Next]_vars => Stays
  BY <1>1, PromiseOfStep, PromiseKeepsLimit
<1>3. IInv => Typed /\ StoresWithin
  BY DEF IInv
<1>4. Typed /\ StoresWithin /\ [Next]_vars => [Stays]_vars
  BY <1>2
<1> HIDE DEF Stays
<1>5. Spec => [][Stays]_vars
  BY <1>3, <1>4, Inductive, PTL DEF Spec
<1> QED
  BY <1>5 DEF Stays
=============================================================================
