---------------------------- MODULE CaptureProofs ----------------------------
(***************************************************************************)
(* Theorems about Capture, for any source entries, streams, transactions   *)
(* and number of restarts.                                                 *)
(***************************************************************************)
EXTENDS Capture, FiniteSetTheorems, SequenceTheorems, TLAPS

-----------------------------------------------------------------------------
(* Ranks in finite sets.                                                   *)

\* In a total order of a finite set, given by what is not above each element, the
\* ranks are the numbers from 1 on.
LEMMA Ranks ==
  ASSUME NEW S, IsFiniteSet(S), NEW below, \A r \in S : below[r] \subseteq S /\ r \in below[r],
         \A q, r \in S : q # r => \/ below[q] \subseteq below[r] /\ r \notin below[q]
                                  \/ below[r] \subseteq below[q] /\ q \notin below[r]
  PROVE  /\ \A r \in S : IsFiniteSet(below[r]) /\ Cardinality(below[r]) \in 1..Cardinality(S)
         /\ \A q, r \in S : Cardinality(below[q]) = Cardinality(below[r]) => q = r
         /\ \A n \in 1..Cardinality(S) : \E r \in S : Cardinality(below[r]) = n
<1>1. Cardinality(S) \in Nat
  BY FS_CardinalityType
<1>2. ASSUME NEW r \in S
      PROVE  IsFiniteSet(below[r]) /\ Cardinality(below[r]) \in 1..Cardinality(S)
  <2>1. IsFiniteSet(below[r]) /\ Cardinality(below[r]) <= Cardinality(S)
    BY FS_Subset
  <2>2. Cardinality(below[r]) \in Nat /\ Cardinality(below[r]) # 0
    BY <2>1, FS_CardinalityType, FS_EmptySet
  <2> QED
    BY <1>1, <2>1, <2>2
<1>3. ASSUME NEW q \in S, NEW r \in S, below[q] \subseteq below[r], r \notin below[q]
      PROVE  Cardinality(below[q]) # Cardinality(below[r])
  <2>1. below[q] # below[r]
    BY <1>3
  <2> QED
    BY <1>2, <1>3, <2>1, FS_Subset
<1>4. ASSUME NEW q \in S, NEW r \in S, Cardinality(below[q]) = Cardinality(below[r])
      PROVE  q = r
  BY <1>3, <1>4
<1>5. \A n \in 1..Cardinality(S) : \E r \in S : Cardinality(below[r]) = n
  <2> DEFINE T == 1..Cardinality(S)
             f == [r \in S |-> Cardinality(below[r])]
  <2>1. f \in [S -> T] /\ \A q, r \in S : f[q] = f[r] => q = r
    BY <1>2, <1>4
  <2>2. IsFiniteSet(T) /\ Cardinality(T) = Cardinality(S)
    <3>1. 1 \in Int /\ Cardinality(S) \in Int
      BY <1>1
    <3>2. IsFiniteSet(T) /\ Cardinality(T) =
            IF 1 > Cardinality(S) THEN 0 ELSE Cardinality(S) - 1 + 1
      BY <3>1, FS_Interval
    <3> QED
      BY <1>1, <3>2
  <2>3. \A r \in S : f[r] = Cardinality(below[r])
    OBVIOUS
  <2> HIDE DEF f, T
  <2>4. f \in Injection(S, T)
    BY <2>1 DEF Injection, IsInjective
  <2>5. f \in Surjection(S, T)
    BY <2>2, <2>4, FS_Injection
  <2>6. \A n \in T : \E r \in S : f[r] = n
    BY <2>5 DEF Surjection
  <2> QED
    BY <2>3, <2>6 DEF T
<1> QED
  BY <1>2, <1>4, <1>5

\* A finite set of numbers has a greatest one.
LEMMA NewestIsGreatest ==
  ASSUME NEW S \in SUBSET Nat, IsFiniteSet(S), S # {}
  PROVE  Newest(S) \in S /\ \A d \in S : d <= Newest(S)
<1> DEFINE below == [r \in S |-> {d \in S : d <= r}]
<1>1. \A r \in S : below[r] = {d \in S : d <= r}
  OBVIOUS
<1> HIDE DEF below
<1>2. \A r \in S : below[r] \subseteq S /\ r \in below[r]
  BY <1>1
<1>3. \A q, r \in S : q # r => \/ below[q] \subseteq below[r] /\ r \notin below[q]
                               \/ below[r] \subseteq below[q] /\ q \notin below[r]
  <2> SUFFICES ASSUME NEW q \in S, NEW r \in S, q < r
               PROVE  below[q] \subseteq below[r] /\ r \notin below[q]
    OBVIOUS
  <2>1. \A d \in S : d \in Nat
    OBVIOUS
  <2>2. \A d \in S : d <= q => d <= r
    BY <2>1
  <2>3. ~(r <= q)
    BY <2>1
  <2> QED
    BY <1>1, <2>2, <2>3
<1>4. Cardinality(S) \in 1..Cardinality(S)
  <2>1. Cardinality(S) \in Nat /\ Cardinality(S) # 0
    BY FS_CardinalityType, FS_EmptySet
  <2> QED
    BY <2>1
<1>5. PICK r \in S : Cardinality(below[r]) = Cardinality(S)
  <2>1. \A n \in 1..Cardinality(S) : \E r \in S : Cardinality(below[r]) = n
    BY <1>2, <1>3, Ranks
  <2> QED
    BY <1>4, <2>1
<1>6. below[r] = S
  BY <1>2, <1>5, FS_Subset
<1>7. \A d \in S : d <= r
  BY <1>1, <1>6
<1> QED
  BY <1>7 DEF Newest

-----------------------------------------------------------------------------
(* The collector: NoSilentGap and SnapshotBounded.                         *)

Records == [entry : Entries, at : Nat]

Data == Entries \ Ignored

CollectorTypes ==
  /\ delivered \subseteq Entries /\ IsFiniteSet(delivered)
  /\ \A e \in delivered, d \in Entries : d < e => d \in delivered
  /\ lastId \in [Keys -> Nat]
  /\ buffer \in Seq(Entries)
  /\ stage \in {"take", "publish", "commit"}
  /\ stage # "take" => current \in Data
  /\ captured \in Seq(Records)
  /\ offset \in Entries \cup {0}
  /\ run \in Nat

InHand(e) == stage = "publish" /\ current = e

\* An entry that was read is on the bus, in hand or waiting in the buffer, however
\* many streams it was read among.
ReadKept ==
  \A e \in Data :
    e <= lastId[StreamOf[e]] =>
      e \in Published \/ InHand(e) \/ \E m \in 1..Len(buffer) : buffer[m] = e

\* No entry waits in front of an earlier one of its stream.
BufferInOrder ==
  \A n \in 1..Len(buffer), e \in Data :
    StreamOf[e] = StreamOf[buffer[n]] /\ e < buffer[n] =>
      e \in Published \/ InHand(e) \/ \E m \in 1..(n - 1) : buffer[m] = e

\* What is being published and committed comes after all of its stream before it.
CurrentInOrder ==
  /\ stage # "take" =>
       \A e \in Data : StreamOf[e] = StreamOf[current] /\ e < current => e \in Published
  /\ stage = "commit" => current \in Published

\* A snapshot that was left has its end recorded.
SnapshotLeft == starting # None /\ phase # "snapshot" => boundary # None

SnapshotInv == CollectorTypes /\ SnapshotLeft
GapInv == CollectorTypes /\ ReadKept /\ BufferInOrder /\ CurrentInOrder /\ NoSilentGap

LEMMA UnreadFinite ==
  ASSUME CollectorTypes, NEW k
  PROVE  /\ Unread(k) \subseteq delivered /\ IsFiniteSet(Unread(k))
         /\ Batch(k) \subseteq Unread(k) /\ IsFiniteSet(Batch(k)) /\ Batch(k) \subseteq Nat
<1>1. Unread(k) \subseteq delivered /\ Batch(k) \subseteq Unread(k)
  BY DEF Unread, Batch
<1>2. IsFiniteSet(Unread(k)) /\ IsFiniteSet(Batch(k))
  BY <1>1, FS_Subset DEF CollectorTypes
<1> QED
  BY <1>1, <1>2, CollectorAssumption DEF CollectorTypes

\* What an XREAD returns of a stream has no hole.
LEMMA BatchIsPrefix ==
  ASSUME CollectorTypes, NEW k, NEW l \in Batch(k), NEW e \in Entries, StreamOf[e] = k,
         lastId[k] < e, e <= l
  PROVE  e \in Batch(k)
<1>1. l \in Unread(k) /\ l \in delivered /\ Cardinality({d \in Unread(k) : d <= l}) <= Count
  BY DEF Batch, Unread
<1>2. e \in delivered
  BY <1>1, CollectorAssumption DEF CollectorTypes
<1>3. e \in Unread(k)
  BY <1>2 DEF Unread
<1> DEFINE A == {d \in Unread(k) : d <= e}
           B == {d \in Unread(k) : d <= l}
<1>4. A \subseteq B
  <2>1. \A d \in Unread(k) : d \in Nat
    BY CollectorAssumption DEF CollectorTypes, Unread
  <2>2. l \in Nat /\ e \in Nat
    BY <1>1, <2>1, CollectorAssumption
  <2> QED
    BY <2>1, <2>2
<1>5. IsFiniteSet(B)
  BY UnreadFinite, FS_Subset
<1> HIDE DEF A, B
<1>6. IsFiniteSet(A) /\ Cardinality(A) <= Cardinality(B)
  BY <1>4, <1>5, FS_Subset
<1>7. Cardinality(A) \in Nat /\ Cardinality(B) \in Nat
  BY <1>5, <1>6, FS_CardinalityType
<1>8. Cardinality(A) <= Count
  BY <1>1, <1>6, <1>7, CollectorAssumption DEF B
<1> QED
  BY <1>3, <1>8 DEF Batch, A

LEMMA ReplyPairs ==
  ASSUME NEW r
  PROVE  r \in Reply <=> \E i \in 1..Len(StreamKeys) : \E e \in Batch(StreamKeys[i]) : r = <<i, e>>
BY DEF Reply

LEMMA ReplyFinite ==
  ASSUME CollectorTypes
  PROVE  IsFiniteSet(Reply)
<1> DEFINE I == 1..Len(StreamKeys)
<1>1. Len(StreamKeys) \in Nat
  BY CollectorAssumption
<1>2. IsFiniteSet(I)
  BY <1>1, FS_Interval
<1>3. IsFiniteSet(I \X delivered)
  BY <1>2, FS_Product DEF CollectorTypes
<1>4. Reply \subseteq I \X delivered
  BY ReplyPairs, UnreadFinite
<1> QED
  BY <1>3, <1>4, FS_Subset

\* The reply is taken into the buffer whole, in the order of the places.
LEMMA ReplyPlaces ==
  ASSUME CollectorTypes
  PROVE  /\ \A r \in Reply : Place(r) \in 1..Cardinality(Reply)
         /\ \A q, r \in Reply : Place(q) = Place(r) => q = r
         /\ \A n \in 1..Cardinality(Reply) : \E r \in Reply : Place(r) = n
         /\ \A q, r \in Reply : q[1] = r[1] /\ q[2] < r[2] => Place(q) < Place(r)
<1> DEFINE S == Reply
           below == [r \in S |-> {q \in S : q[1] < r[1] \/ (q[1] = r[1] /\ q[2] <= r[2])}]
<1>1. \A r \in S : /\ below[r] = {q \in S : q[1] < r[1] \/ (q[1] = r[1] /\ q[2] <= r[2])}
                   /\ Place(r) = Cardinality(below[r])
  BY DEF Place
<1>2. \A r \in S : r[1] \in Nat /\ r[2] \in Nat /\ r = <<r[1], r[2]>>
  BY ReplyPairs, UnreadFinite
<1>3. IsFiniteSet(S)
  BY ReplyFinite
<1> HIDE DEF S, below
<1>4. \A r \in S : below[r] \subseteq S /\ r \in below[r]
  BY <1>1, <1>2
<1>5. ASSUME NEW q \in S, NEW r \in S, q[1] < r[1] \/ (q[1] = r[1] /\ q[2] < r[2])
      PROVE  below[q] \subseteq below[r] /\ r \notin below[q]
  BY <1>1, <1>2, <1>5
<1>6. \A q, r \in S : q # r => \/ below[q] \subseteq below[r] /\ r \notin below[q]
                               \/ below[r] \subseteq below[q] /\ q \notin below[r]
  <2> SUFFICES ASSUME NEW q \in S, NEW r \in S, q # r
               PROVE  \/ below[q] \subseteq below[r] /\ r \notin below[q]
                      \/ below[r] \subseteq below[q] /\ q \notin below[r]
    OBVIOUS
  <2>1. q[1] # r[1] \/ q[2] # r[2]
    BY <1>2
  <2>2. \/ q[1] < r[1] \/ (q[1] = r[1] /\ q[2] < r[2])
        \/ r[1] < q[1] \/ (r[1] = q[1] /\ r[2] < q[2])
    BY <1>2, <2>1
  <2> QED
    BY <1>5, <2>2
<1>7. /\ \A r \in S : IsFiniteSet(below[r]) /\ Cardinality(below[r]) \in 1..Cardinality(S)
      /\ \A q, r \in S : Cardinality(below[q]) = Cardinality(below[r]) => q = r
      /\ \A n \in 1..Cardinality(S) : \E r \in S : Cardinality(below[r]) = n
  BY <1>3, <1>4, <1>6, Ranks
<1>8. \A q, r \in S : q[1] = r[1] /\ q[2] < r[2] => Place(q) < Place(r)
  <2> SUFFICES ASSUME NEW q \in S, NEW r \in S, q[1] = r[1], q[2] < r[2]
               PROVE  Place(q) < Place(r)
    OBVIOUS
  <2>1. below[q] \subseteq below[r] /\ r \notin below[q] /\ r \in below[r]
    BY <1>4, <1>5
  <2>2. Cardinality(below[q]) <= Cardinality(below[r])
    BY <1>7, <2>1, FS_Subset
  <2>3. Cardinality(below[q]) # Cardinality(below[r])
    BY <1>7, <2>1
  <2>4. Cardinality(below[q]) \in Nat /\ Cardinality(below[r]) \in Nat
    BY <1>7
  <2> QED
    BY <1>1, <2>2, <2>3, <2>4
<1> QED
  BY <1>1, <1>7, <1>8 DEF S

LEMMA FillsBuffer ==
  ASSUME CollectorTypes, Fill
  PROVE  /\ buffer' \in Seq(Entries)
         /\ \A k \in Keys : \A e \in Batch(k) : \E m \in 1..Len(buffer') : buffer'[m] = e
         /\ \A n \in 1..Len(buffer') :
              /\ buffer'[n] \in Batch(StreamOf[buffer'[n]])
              /\ \A d \in Batch(StreamOf[buffer'[n]]) :
                   d < buffer'[n] => \E m \in 1..(n - 1) : buffer'[m] = d
<1> DEFINE c == Cardinality(Reply)
           at(n) == CHOOSE r \in Reply : Place(r) = n
           f == [n \in 1..c |-> at(n)[2]]
<1>1. buffer' = f
  BY DEF Fill
<1>2. c \in Nat
  BY ReplyFinite, FS_CardinalityType
<1>3. ASSUME NEW n \in 1..c PROVE at(n) \in Reply /\ Place(at(n)) = n
  BY ReplyPlaces
<1>4. ASSUME NEW r \in Reply PROVE Place(r) \in 1..c /\ at(Place(r)) = r
  <2>1. Place(r) \in 1..c
    BY ReplyPlaces
  <2>2. at(Place(r)) \in Reply /\ Place(at(Place(r))) = Place(r)
    BY <1>3, <2>1
  <2> HIDE DEF at
  <2> QED
    BY <2>1, <2>2, ReplyPlaces
<1> HIDE DEF c, at
<1>5. \A n \in 1..c : f[n] = at(n)[2]
  OBVIOUS
<1>6. ASSUME NEW n \in 1..c
      PROVE  \E i \in 1..Len(StreamKeys) : \E e \in Batch(StreamKeys[i]) :
               at(n) = <<i, e>> /\ StreamKeys[i] = StreamOf[e] /\ e \in Entries /\ f[n] = e
  <2>0. PICK i \in 1..Len(StreamKeys) : \E e \in Batch(StreamKeys[i]) : at(n) = <<i, e>>
    BY <1>3, ReplyPairs
  <2>1. PICK e \in Batch(StreamKeys[i]) : at(n) = <<i, e>>
    BY <2>0
  <2>2. e \in Entries /\ StreamOf[e] = StreamKeys[i]
    BY DEF Batch, Unread, CollectorTypes
  <2> QED
    BY <1>5, <2>1, <2>2
<1>7. f \in Seq(Entries) /\ Len(f) = c
  BY <1>2, <1>6
<1> HIDE DEF f
<1>8. ASSUME NEW i \in 1..Len(StreamKeys), NEW e \in Batch(StreamKeys[i])
      PROVE  Place(<<i, e>>) \in 1..c /\ f[Place(<<i, e>>)] = e
  <2>1. <<i, e>> \in Reply
    BY ReplyPairs
  <2> QED
    BY <1>4, <1>5, <2>1
<1>9. ASSUME NEW k \in Keys, NEW e \in Batch(k) PROVE \E m \in 1..c : f[m] = e
  <2>1. PICK i \in 1..Len(StreamKeys) : k = StreamKeys[i]
    BY DEF Keys
  <2> QED
    BY <1>8, <2>1
<1>10. ASSUME NEW n \in 1..c, NEW d \in Batch(StreamOf[f[n]]), d < f[n]
       PROVE  \E m \in 1..(n - 1) : f[m] = d
  <2>1. PICK i \in 1..Len(StreamKeys) : \E e \in Batch(StreamKeys[i]) :
          at(n) = <<i, e>> /\ StreamKeys[i] = StreamOf[e] /\ f[n] = e
    BY <1>6
  <2>2. at(n) = <<i, f[n]>> /\ d \in Batch(StreamKeys[i])
    BY <2>1
  <2>3. <<i, d>> \in Reply /\ at(n) \in Reply /\ Place(at(n)) = n
    BY <1>3, <2>2, ReplyPairs
  <2>4. Place(<<i, d>>) < Place(at(n))
    BY <1>10, <2>2, <2>3, ReplyPlaces
  <2>5. Place(<<i, d>>) \in 1..c /\ f[Place(<<i, d>>)] = d
    BY <1>8, <2>2
  <2>6. Place(<<i, d>>) \in 1..(n - 1)
    BY <1>2, <2>3, <2>4, <2>5
  <2> QED
    BY <2>5, <2>6
<1>11. \A n \in 1..c : f[n] \in Batch(StreamOf[f[n]])
  BY <1>6
<1> QED
  BY <1>1, <1>7, <1>9, <1>10, <1>11

\* Publishing adds one entry to those on the bus.
LEMMA PublishedGrows ==
  ASSUME CollectorTypes, NEW e \in Entries, captured' = Append(captured, Record(e))
  PROVE  captured' \in Seq(Records) /\ Published' = Published \cup {e}
<1> DEFINE n == Len(captured)
<1>1. captured \in Seq(Records) /\ Record(e) \in Records /\ Record(e).entry = e /\ n \in Nat
  BY DEF CollectorTypes, Record, Records
<1>2. /\ captured' \in Seq(Records) /\ Len(captured') = n + 1 /\ captured'[n + 1] = Record(e)
      /\ \A i \in 1..n : captured'[i] = captured[i]
  BY <1>1, AppendProperties
<1> HIDE DEF n
<1>3. /\ Published' = {captured'[i].entry : i \in 1..(n + 1)}
      /\ Published = {captured[i].entry : i \in 1..n}
  BY <1>2 DEF Published, n
<1>4. \A i \in 1..(n + 1) : i \in 1..n \/ i = n + 1
  BY <1>1
<1>5. \A i \in 1..n : i \in 1..(n + 1)
  BY <1>1
<1>6. n + 1 \in 1..(n + 1)
  BY <1>1
<1>7. Published' \subseteq Published \cup {e}
  BY <1>1, <1>2, <1>3, <1>4
<1>8. Published \subseteq Published' /\ e \in Published'
  BY <1>1, <1>2, <1>3, <1>5, <1>6
<1> QED
  BY <1>2, <1>7, <1>8

LEMMA TypesKept ==
  ASSUME CollectorTypes, CollectorNext
  PROVE  CollectorTypes'
<1> USE CollectorAssumption
<1>1. CASE \E e \in Entries : Deliver(e)
  <2>1. PICK e \in Entries : Deliver(e)
    BY <1>1
  <2>2. IsFiniteSet(delivered \cup {e})
    BY FS_AddElement DEF CollectorTypes
  <2>3. \A d \in delivered \cup {e}, c \in Entries : c < d => c \in delivered \cup {e}
    BY <2>1 DEF Deliver, CollectorTypes
  <2> QED
    BY <2>1, <2>2, <2>3 DEF Deliver, reader, CollectorTypes
<1>2. CASE Fill
  <2>1. buffer' \in Seq(Entries)
    BY <1>2, FillsBuffer
  <2>2. ASSUME NEW k \in Keys, Batch(k) # {}
        PROVE  Newest(Batch(k)) \in Nat
    BY <2>2, UnreadFinite, NewestIsGreatest
  <2>3. lastId' = [k \in Keys |-> IF Batch(k) = {} THEN lastId[k] ELSE Newest(Batch(k))]
    BY <1>2 DEF Fill
  <2>4. lastId' \in [Keys -> Nat]
    BY <2>2, <2>3 DEF CollectorTypes
  <2> QED
    BY <1>2, <2>1, <2>4 DEF Fill, CollectorTypes
<1>3. CASE Take
  <2>1. buffer \in Seq(Entries) /\ buffer # <<>> /\ buffer' = Tail(buffer)
    BY <1>3 DEF Take, CollectorTypes
  <2>2. buffer' \in Seq(Entries) /\ Head(buffer) \in Entries
    BY <2>1
  <2> QED
    BY <1>3, <2>2 DEF Take, CollectorTypes, Data
<1>4. CASE Publish
  <2>1. captured' \in Seq(Records)
    <3>1. CASE captured' = captured
      BY <3>1 DEF CollectorTypes
    <3>2. CASE captured' = Append(captured, Record(current))
      BY <1>4, <3>2, PublishedGrows DEF Publish, CollectorTypes, Data
    <3> QED
      BY <1>4, <3>1, <3>2 DEF Publish
  <2> QED
    BY <1>4, <2>1 DEF Publish, Throw, Done, reader, CollectorTypes
<1>5. CASE Commit
  BY <1>5 DEF Commit, Throw, Done, reader, CollectorTypes, Data
<1>6. CASE RestartCollector
  BY <1>6 DEF RestartCollector, Done, StartId, CollectorTypes
<1> QED
  BY <1>1, <1>2, <1>3, <1>4, <1>5, <1>6 DEF CollectorNext, Step

LEMMA FillKeeps ==
  ASSUME GapInv, Fill
  PROVE  GapInv'
<1>1. /\ CollectorTypes /\ ReadKept /\ NoSilentGap /\ stage = "take" /\ buffer = <<>>
      /\ UNCHANGED <<delivered, stage, current, captured, offset, run>>
      /\ lastId' = [k \in Keys |-> IF Batch(k) = {} THEN lastId[k] ELSE Newest(Batch(k))]
  BY DEF Fill, GapInv
<1>2. /\ buffer' \in Seq(Entries)
      /\ \A k \in Keys : \A e \in Batch(k) : \E m \in 1..Len(buffer') : buffer'[m] = e
      /\ \A n \in 1..Len(buffer') :
           /\ buffer'[n] \in Batch(StreamOf[buffer'[n]])
           /\ \A d \in Batch(StreamOf[buffer'[n]]) :
                d < buffer'[n] => \E m \in 1..(n - 1) : buffer'[m] = d
  BY <1>1, FillsBuffer
<1>3. ASSUME NEW k \in Keys, Batch(k) # {}
      PROVE  Newest(Batch(k)) \in Batch(k) /\ Newest(Batch(k)) \in Nat
  BY <1>1, <1>3, UnreadFinite, NewestIsGreatest
<1>4. CollectorTypes'
  BY TypesKept DEF CollectorNext, Step, GapInv
<1>5. ASSUME NEW e \in Data, e <= lastId[StreamOf[e]] PROVE e \in Published
  <2>1. Len(buffer) = 0
    BY <1>1
  <2> QED
    BY <1>1, <1>5, <2>1 DEF ReadKept, InHand
<1>6. ASSUME NEW e \in Data, NEW l \in Batch(StreamOf[e]), e <= l
      PROVE  e \in Published \/ e \in Batch(StreamOf[e])
  <2>1. e \in Entries /\ e \in Nat /\ StreamOf[e] \in Keys /\ lastId[StreamOf[e]] \in Nat
    BY <1>1, CollectorAssumption DEF Data, CollectorTypes
  <2>2. CASE e <= lastId[StreamOf[e]]
    BY <1>5, <2>2
  <2>3. CASE lastId[StreamOf[e]] < e
    BY <1>1, <1>6, <2>1, <2>3, BatchIsPrefix
  <2> QED
    BY <2>1, <2>2, <2>3
<1>7. ReadKept'
  <2> SUFFICES ASSUME NEW e \in Data, e <= lastId'[StreamOf[e]]
               PROVE  e \in Published \/ \E m \in 1..Len(buffer') : buffer'[m] = e
    <3>1. Published' = Published
      BY <1>1 DEF Published
    <3> QED
      BY <3>1 DEF ReadKept
  <2>1. StreamOf[e] \in Keys
    BY CollectorAssumption DEF Data
  <2>2. CASE Batch(StreamOf[e]) = {}
    BY <1>1, <1>5, <2>1, <2>2
  <2>3. CASE Batch(StreamOf[e]) # {}
    <3>1. lastId'[StreamOf[e]] \in Batch(StreamOf[e])
      BY <1>1, <1>3, <2>1, <2>3
    <3> QED
      BY <1>2, <1>6, <2>1, <3>1
  <2> QED
    BY <2>2, <2>3
<1>8. BufferInOrder'
  <2> SUFFICES ASSUME NEW n \in 1..Len(buffer'), NEW e \in Data,
                      StreamOf[e] = StreamOf[buffer'[n]], e < buffer'[n]
               PROVE  e \in Published \/ \E m \in 1..(n - 1) : buffer'[m] = e
    BY <1>1 DEF BufferInOrder, Published
  <2>1. buffer'[n] \in Batch(StreamOf[e])
    BY <1>2
  <2>2. buffer'[n] \in Nat /\ e \in Nat
    BY <1>1, <2>1, UnreadFinite, CollectorAssumption DEF Data
  <2>3. e \in Published \/ e \in Batch(StreamOf[e])
    <3>1. e <= buffer'[n]
      BY <2>2
    <3> QED
      BY <1>6, <2>1, <3>1
  <2> QED
    BY <1>2, <2>3
<1>9. CurrentInOrder' /\ NoSilentGap'
  BY <1>1 DEF CurrentInOrder, NoSilentGap, Published
<1> QED
  BY <1>4, <1>7, <1>8, <1>9 DEF GapInv

LEMMA TakeKeeps ==
  ASSUME GapInv, Take
  PROVE  GapInv'
<1> DEFINE h == Head(buffer)
           n == Len(buffer)
<1>1. /\ CollectorTypes /\ ReadKept /\ BufferInOrder /\ NoSilentGap /\ stage = "take"
      /\ buffer # <<>> /\ buffer' = Tail(buffer)
      /\ UNCHANGED <<delivered, lastId, captured, offset, run>>
      /\ IF h \in Ignored THEN UNCHANGED <<stage, current>>
                          ELSE stage' = "publish" /\ current' = h
  BY DEF Take, GapInv
<1>2. /\ buffer \in Seq(Entries) /\ n \in Nat /\ n # 0 /\ h = buffer[1] /\ h \in Entries
      /\ buffer' \in Seq(Entries) /\ Len(buffer') = n - 1
      /\ \A m \in 1..(n - 1) : buffer'[m] = buffer[m + 1]
  BY <1>1 DEF CollectorTypes
<1>3. Published' = Published
  BY <1>1 DEF Published
<1> HIDE DEF h, n
<1>4. ASSUME NEW e, NEW j \in 1..n, buffer[j] = e, e \in Data
      PROVE  InHand(e)' \/ \E m \in 1..(j - 1) : m \in 1..Len(buffer') /\ buffer'[m] = e
  <2>1. CASE j = 1
    BY <1>1, <1>2, <1>4, <2>1 DEF InHand, Data
  <2>2. CASE j # 1
    <3>1. j - 1 \in 1..(n - 1) /\ j - 1 + 1 = j /\ j - 1 \in 1..(j - 1)
      BY <1>2, <2>2
    <3> QED
      BY <1>2, <1>4, <3>1
  <2> QED
    BY <2>1, <2>2
<1>5. CollectorTypes'
  BY TypesKept DEF CollectorNext, Step, GapInv
<1>6. ReadKept'
  <2> SUFFICES ASSUME NEW e \in Data, e <= lastId[StreamOf[e]]
               PROVE  e \in Published \/ InHand(e)' \/ \E m \in 1..Len(buffer') : buffer'[m] = e
    BY <1>1, <1>3 DEF ReadKept
  <2>1. e \in Published \/ \E m \in 1..n : buffer[m] = e
    BY <1>1 DEF ReadKept, InHand, n
  <2> QED
    BY <1>4, <2>1
<1>7. ASSUME NEW j \in 1..n, NEW e \in Data, StreamOf[e] = StreamOf[buffer[j]], e < buffer[j]
      PROVE  e \in Published \/ \E m \in 1..(j - 1) : buffer[m] = e
  BY <1>1, <1>7 DEF BufferInOrder, InHand, n
<1>8. BufferInOrder'
  <2> SUFFICES ASSUME NEW j \in 1..Len(buffer'), NEW e \in Data,
                      StreamOf[e] = StreamOf[buffer'[j]], e < buffer'[j]
               PROVE  e \in Published \/ InHand(e)' \/ \E m \in 1..(j - 1) : buffer'[m] = e
    BY <1>3 DEF BufferInOrder
  <2>1. j + 1 \in 1..n /\ buffer'[j] = buffer[j + 1]
    BY <1>2
  <2>2. e \in Published \/ \E m \in 1..(j + 1 - 1) : buffer[m] = e
    BY <1>7, <2>1
  <2>3. ASSUME NEW m \in 1..(j + 1 - 1), buffer[m] = e
        PROVE  InHand(e)' \/ \E i \in 1..(j - 1) : buffer'[i] = e
    <3>1. m \in 1..n /\ m <= j
      BY <1>2, <2>1
    <3>2. InHand(e)' \/ \E i \in 1..(m - 1) : i \in 1..Len(buffer') /\ buffer'[i] = e
      BY <1>4, <2>3, <3>1
    <3>3. \A i \in 1..(m - 1) : i \in 1..(j - 1)
      BY <3>1
    <3> QED
      BY <3>2, <3>3
  <2> QED
    BY <2>2, <2>3
<1>9. CurrentInOrder'
  <2>1. CASE h \in Ignored
    BY <1>1, <2>1 DEF CurrentInOrder
  <2>2. CASE h \notin Ignored
    <3>1. \A e \in Data : StreamOf[e] = StreamOf[h] /\ e < h => e \in Published
      <4>1. 1 \in 1..n /\ ~ \E m \in 1..(1 - 1) : buffer[m] = buffer[m]
        BY <1>2
      <4> QED
        BY <1>2, <1>7, <4>1
    <3> QED
      BY <1>1, <1>3, <2>2, <3>1 DEF CurrentInOrder
  <2> QED
    BY <2>1, <2>2
<1>10. NoSilentGap'
  BY <1>1, <1>3 DEF NoSilentGap
<1> QED
  BY <1>5, <1>6, <1>8, <1>9, <1>10 DEF GapInv

LEMMA PublishKeeps ==
  ASSUME GapInv, Publish, "publish_fails" \notin Faults
  PROVE  GapInv'
<1>1. /\ CollectorTypes /\ ReadKept /\ BufferInOrder /\ CurrentInOrder /\ NoSilentGap
      /\ stage = "publish" /\ current \in Data
      /\ captured' = Append(captured, Record(current))
      /\ \/ stage' = "commit" /\ current' = current
         \/ stage' = "take"
      /\ UNCHANGED <<delivered, lastId, buffer, offset, run>>
  BY DEF Publish, Throw, Done, reader, GapInv, CollectorTypes
<1>2. Published' = Published \cup {current}
  BY <1>1, PublishedGrows DEF Data
<1>3. \A e : InHand(e) => e \in Published'
  BY <1>2 DEF InHand
<1>4. CollectorTypes'
  BY TypesKept DEF CollectorNext, Step, GapInv
<1>5. ReadKept'
  BY <1>1, <1>2, <1>3 DEF ReadKept
<1>6. BufferInOrder'
  BY <1>1, <1>2, <1>3 DEF BufferInOrder
<1>7. CurrentInOrder'
  BY <1>1, <1>2 DEF CurrentInOrder
<1>8. NoSilentGap'
  BY <1>1, <1>2 DEF NoSilentGap
<1> QED
  BY <1>4, <1>5, <1>6, <1>7, <1>8 DEF GapInv

\* The offset moves to an entry that everything before it in its stream precedes.
LEMMA CommitKeeps ==
  ASSUME GapInv, Commit
  PROVE  GapInv'
<1>1. /\ CollectorTypes /\ ReadKept /\ BufferInOrder /\ CurrentInOrder /\ NoSilentGap
      /\ stage = "commit" /\ stage' = "take" /\ current \in Data
      /\ offset' \in {offset, current}
      /\ UNCHANGED <<delivered, lastId, buffer, captured, run>>
  BY DEF Commit, Throw, Done, reader, GapInv, CollectorTypes
<1>2. Published' = Published /\ \A e : ~InHand(e)
  BY <1>1 DEF Published, InHand
<1>3. CollectorTypes'
  BY TypesKept DEF CollectorNext, Step, GapInv
<1>4. ReadKept' /\ BufferInOrder' /\ CurrentInOrder'
  BY <1>1, <1>2 DEF ReadKept, BufferInOrder, CurrentInOrder
<1>5. NoSilentGap'
  <2>1. CASE offset' = offset
    BY <1>1, <1>2, <2>1 DEF NoSilentGap
  <2>2. CASE offset' = current
    <3> SUFFICES ASSUME NEW e \in Data, StreamOf[e] = StreamOf[current], e <= current
                 PROVE  e \in Published
      BY <1>2, <2>2 DEF NoSilentGap, Data
    <3>1. e = current \/ e < current
      BY <1>1, CollectorAssumption DEF Data
    <3> QED
      BY <1>1, <3>1 DEF CurrentInOrder
  <2> QED
    BY <1>1, <2>1, <2>2
<1> QED
  BY <1>3, <1>4, <1>5 DEF GapInv

\* Every step of the collector keeps the stream order from the reply to the offset.
LEMMA GapInvKept ==
  ASSUME GapInv, CollectorNext, "publish_fails" \notin Faults
  PROVE  GapInv'
<1>1. CASE \E e \in Entries : Deliver(e)
  <2>1. UNCHANGED <<lastId, buffer, stage, current, captured, offset>>
    BY <1>1 DEF Deliver, reader
  <2>2. Published' = Published /\ \A e : InHand(e)' <=> InHand(e)
    BY <2>1 DEF Published, InHand
  <2>3. ReadKept' /\ BufferInOrder' /\ CurrentInOrder' /\ NoSilentGap'
    BY <2>1, <2>2 DEF GapInv, ReadKept, BufferInOrder, CurrentInOrder, NoSilentGap
  <2> QED
    BY <2>3, TypesKept DEF GapInv
<1>2. CASE RestartCollector
  <2>1. /\ lastId' = [k \in Keys |-> 0] /\ buffer' = <<>> /\ stage' = "take"
        /\ UNCHANGED <<captured, offset>>
    BY <1>2 DEF RestartCollector, Done, StartId
  <2>2. Published' = Published
    BY <2>1 DEF Published
  <2>3. \A e \in Data : StreamOf[e] \in Keys /\ ~(e <= 0)
    BY CollectorAssumption DEF Data
  <2>4. ReadKept'
    BY <2>1, <2>3 DEF ReadKept
  <2>5. BufferInOrder'
    BY <2>1 DEF BufferInOrder
  <2>6. CurrentInOrder' /\ NoSilentGap'
    BY <2>1, <2>2 DEF CurrentInOrder, GapInv, NoSilentGap
  <2> QED
    BY <2>4, <2>5, <2>6, TypesKept DEF GapInv
<1> QED
  BY <1>1, <1>2, FillKeeps, TakeKeeps, PublishKeeps, CommitKeeps DEF CollectorNext, Step

LEMMA CollectorStart ==
  ASSUME CollectorInit
  PROVE  GapInv /\ SnapshotLeft
<1> USE CollectorAssumption
<1>1. CollectorTypes
  BY FS_EmptySet DEF CollectorInit, CollectorTypes
<1>2. \A e \in Data : StreamOf[e] \in Keys /\ ~(e <= 0)
  BY DEF Data
<1>3. ReadKept
  BY <1>2 DEF CollectorInit, ReadKept
<1>4. BufferInOrder /\ CurrentInOrder /\ NoSilentGap /\ SnapshotLeft
  BY DEF CollectorInit, BufferInOrder, CurrentInOrder, NoSilentGap, SnapshotLeft
<1> QED
  BY <1>1, <1>3, <1>4 DEF GapInv

LEMMA SnapshotLeftKept ==
  ASSUME CollectorTypes, SnapshotLeft, CollectorNext
  PROVE  SnapshotLeft'
<1>1. CASE Commit
  <2>1. current # None /\ PhaseOf[current] \in {"snapshot", "handoff", "streaming"}
    BY <1>1, CollectorAssumption DEF Commit, CollectorTypes, Data, Phases
  <2>2. CASE UNCHANGED handoff
    BY <2>2 DEF handoff, SnapshotLeft
  <2>3. CASE Observe(PhaseOf[current], current)
    BY <2>1, <2>3 DEF Observe, SnapshotLeft
  <2> QED
    BY <1>1, <2>2, <2>3 DEF Commit
<1>2. CASE RestartCollector
  BY <1>2 DEF RestartCollector, SnapshotLeft
<1>3. CASE UNCHANGED handoff
  BY <1>3 DEF handoff, SnapshotLeft
<1> QED
  BY <1>1, <1>2, <1>3 DEF CollectorNext, Step, Deliver, Fill, Take, Publish

\* When no publish is lost, the committed offset leaves no gap: whatever the restarts,
\* the size of a reply and the answers lost, every change up to the offset in its
\* stream is on the bus (source-stream.ts, collector.ts, offsets.ts).
THEOREM OffsetLeavesNoGap ==
  ASSUME "publish_fails" \notin Faults
  PROVE  Spec => []NoSilentGap
<1>1. Init => GapInv
  BY CollectorStart DEF Init
<1>2. GapInv /\ [Next]_vars => GapInv'
  <2>1. GapInv /\ CollectorNext => GapInv'
    BY GapInvKept
  <2>2. GapInv /\ UNCHANGED cvars => GapInv'
    BY DEF cvars, reader, GapInv, CollectorTypes, ReadKept, BufferInOrder, CurrentInOrder,
           NoSilentGap, Published, InHand
  <2> QED
    BY <2>1, <2>2 DEF Next, vars
<1>3. GapInv => NoSilentGap
  BY DEF GapInv
<1> QED
  BY <1>1, <1>2, <1>3, PTL DEF Spec

\* A snapshot that was left for streaming has its end recorded, whether or not its last
\* event was marked, and whatever publishes and commits failed (handoff.ts).
THEOREM SnapshotEndRecorded == Spec => []SnapshotBounded
<1>1. Init => SnapshotInv
  BY CollectorStart DEF Init, GapInv, SnapshotInv
<1>2. SnapshotInv /\ [Next]_vars => SnapshotInv'
  <2>1. SnapshotInv /\ CollectorNext => SnapshotInv'
    BY TypesKept, SnapshotLeftKept DEF SnapshotInv
  <2>2. SnapshotInv /\ UNCHANGED cvars => SnapshotInv'
    BY DEF cvars, reader, handoff, SnapshotInv, CollectorTypes, SnapshotLeft
  <2> QED
    BY <2>1, <2>2 DEF Next, vars
<1>3. SnapshotInv => SnapshotBounded
  BY DEF SnapshotInv, SnapshotLeft, SnapshotBounded
<1> QED
  BY <1>1, <1>2, <1>3, PTL DEF Spec

-----------------------------------------------------------------------------
(* The normalizer: EmittedOnce, RowsChained and LossesNamed.               *)

Hashes == [tx : N!Txs, changes : Seq(Entries), at : Nat]
Groups == Seq(Records) \ {<<>>}
Cces   == [hash : Hashes, prev : Seq(Hashes), by : Nat]

LoopTypes ==
  /\ position \in Nat /\ batchEnd \in Nat
  /\ position <= batchEnd /\ batchEnd <= Len(captured)
  /\ taken \subseteq 1..position
  /\ group \in Seq(Records)
  /\ pending \in Seq(Groups)
  /\ await \in {"none"} \cup N!Outcomes
  /\ await = "none" => pending = <<>>

GuardTypes ==
  /\ seen \in [N!Txs -> Hashes \cup {None}]
  /\ lastRow \in Seq(Hashes)
  /\ cces \in Seq(Cces)
  /\ incarnation \in Nat
  /\ \A i \in 1..Len(cces) : cces[i].by <= incarnation

\* What this process emitted its guard knows.
OwnKnown ==
  \A i \in 1..Len(cces) : cces[i].by = incarnation => seen[cces[i].hash.tx] # None

\* The places in a stream of the events a process emitted.
Own(stream, k) == {i \in 1..Len(stream) : stream[i].by = k}

\* N!Covers, of a given stream and given hashes of rejected groups.
Chains(row, stream, S, lost) ==
  /\ \A i \in S : /\ Len(stream[i].prev) + 1 \in 1..Len(row)
                  /\ row[Len(stream[i].prev) + 1] = stream[i].hash
  /\ \A k \in 1..Len(row) : \/ \E i \in S : Len(stream[i].prev) + 1 = k
                            \/ row[k] \in lost

Lost == {N!EventHash(g) : g \in rejected}

\* The row hash chained so far is that of what this process emitted and lost.
RowFollows == Chains(lastRow, cces, Own(cces, incarnation), Lost)

\* What the guard knows is in the stream, or a rejected emit lost it.
KnownEmitted ==
  \A t \in N!Txs :
    seen[t] # None => \/ \E i \in 1..Len(cces) : cces[i].hash = seen[t]
                      \/ \E g \in rejected \cap Groups : N!EventHash(g) = seen[t]

\* What a step does to the guard and to the stream: nothing, or finalize one group.
GuardLeft == UNCHANGED <<seen, lastRow, cces>> /\ rejected \subseteq rejected'
FinalizedOne(g) == (\E o \in N!Outcomes : N!Emit(g, o = "ok")) \/ N!Settle(g)

LEMMA HashOfGroup ==
  ASSUME NEW g \in Groups
  PROVE  /\ N!EventHash(g) \in Hashes /\ N!EventHash(g) # None
         /\ N!TxOfGroup(g) \in N!Txs /\ N!EventHash(g).tx = N!TxOfGroup(g)
         /\ Len(N!EventHash(g).changes) = Len(g)
         /\ \A i \in 1..Len(g) : N!EventHash(g).changes[i] = g[i].entry
<1>1. g \in Seq(Records) /\ Len(g) \in Nat /\ 1 \in 1..Len(g)
  BY DEF Groups
<1>2. ASSUME NEW i \in 1..Len(g) PROVE g[i].entry \in Entries /\ g[i].at \in Nat
  <2>1. g[i] \in Records
    BY <1>1
  <2> QED
    BY <2>1 DEF Records
<1>3. /\ N!Changes(g) \in Seq(Entries) /\ Len(N!Changes(g)) = Len(g)
      /\ \A i \in 1..Len(g) : N!Changes(g)[i] = g[i].entry
  BY <1>1, <1>2 DEF N!Changes
<1>4. N!TxOfGroup(g) \in N!Txs
  BY <1>1, <1>2 DEF N!TxOfGroup, N!Txs
<1>5. N!EventHash(g) = [tx |-> N!TxOfGroup(g), changes |-> N!Changes(g), at |-> g[1].at]
  BY DEF N!EventHash
<1>6. N!EventHash(g) \in Hashes
  BY <1>1, <1>2, <1>3, <1>4, <1>5 DEF Hashes
<1>7. None \notin Hashes
  BY CaptureAssumption DEF Hashes, N!Txs
<1> QED
  BY <1>3, <1>4, <1>5, <1>6, <1>7

\* What process() leaves grouped after record r completed the groups done.
GroupAfter(r, done) ==
  IF r.entry \in {e \in Entries : PhaseOf[e] # "streaming"} THEN <<>>
  ELSE IF done = <<>> THEN Append(group, r) ELSE <<r>>

\* Every record of the group, and r, is in a completed group or in the group left.
Regroups(r, done, next) ==
  /\ done \in Seq(Groups) /\ next \in Seq(Records)
  /\ \A q \in N!RecordsOf(group) \cup {r} :
       q \in N!RecordsOf(next) \/ \E i \in 1..Len(done) : q \in N!RecordsOf(done[i])

\* The groups a record completes, and the group it leaves, hold what was grouped and it.
LEMMA CompletedGroups ==
  ASSUME group \in Seq(Records), NEW r \in Records, NEW done, done = N!Completed(r.entry, r),
         NEW next, next = GroupAfter(r, done)
  PROVE  Regroups(r, done, next)
<1> DEFINE snapshot == r.entry \in {e \in Entries : PhaseOf[e] # "streaming"}
           apart == group # <<>> /\ N!TxOfGroup(group) # TxOf[r.entry]
           before == IF apart THEN <<group>> ELSE <<>>
           joined == IF before = <<>> THEN Append(group, r) ELSE <<r>>
<1>0. next = IF snapshot THEN <<>> ELSE IF done = <<>> THEN Append(group, r) ELSE <<r>>
  BY DEF GroupAfter
<1>1. done = IF snapshot THEN Append(before, joined) ELSE before
  BY DEF N!Completed
<1>2. /\ Append(group, r) \in Groups /\ <<r>> \in Groups /\ (apart => group \in Groups)
      /\ joined \in Groups
  BY DEF Groups
<1>3. before = <<>> <=> ~apart
  OBVIOUS
<1>4. /\ r \in N!RecordsOf(<<r>>) /\ r \in N!RecordsOf(Append(group, r))
      /\ N!RecordsOf(group) \subseteq N!RecordsOf(Append(group, r))
  <2> DEFINE n == Len(group)
             g == Append(group, r)
  <2>1. /\ n \in Nat /\ Len(g) = n + 1 /\ g[n + 1] = r /\ n + 1 \in 1..(n + 1)
        /\ \A i \in 1..n : g[i] = group[i] /\ i \in 1..(n + 1)
    OBVIOUS
  <2>2. Len(<<r>>) = 1 /\ <<r>>[1] = r /\ 1 \in 1..1
    OBVIOUS
  <2> HIDE DEF n, g
  <2>3. N!RecordsOf(g) = {g[i] : i \in 1..(n + 1)} /\ N!RecordsOf(group) = {group[i] : i \in 1..n}
    BY <2>1 DEF N!RecordsOf, n
  <2>4. r \in N!RecordsOf(g) /\ N!RecordsOf(group) \subseteq N!RecordsOf(g)
    BY <2>1, <2>3
  <2>5. r \in N!RecordsOf(<<r>>)
    BY <2>2 DEF N!RecordsOf
  <2> QED
    BY <2>4, <2>5 DEF g
<1>5. group = <<>> => N!RecordsOf(group) = {}
  BY DEF N!RecordsOf
<1> HIDE DEF snapshot
<1>6. CASE ~snapshot /\ ~apart
  BY <1>0, <1>1, <1>2, <1>3, <1>4, <1>6 DEF Groups, Regroups
<1>7. CASE ~snapshot /\ apart
  <2>1. done = <<group>> /\ next = <<r>>
    BY <1>0, <1>1, <1>7
  <2>2. done \in Seq(Groups) /\ 1 \in 1..Len(done) /\ done[1] = group
    BY <1>2, <1>7, <2>1
  <2>3. next \in Seq(Records) /\ r \in N!RecordsOf(next)
    <3>1. <<r>> \in Seq(Records)
      OBVIOUS
    <3> QED
      BY <1>4, <2>1, <3>1
  <2>4. N!RecordsOf(done[1]) = N!RecordsOf(group)
    BY <2>2
  <2> HIDE DEF apart
  <2> QED
    BY <2>2, <2>3, <2>4 DEF Regroups
<1>8. CASE snapshot /\ ~apart
  <2>1. PICK h \in Groups : h = Append(group, r)
    BY <1>2
  <2>2. before = <<>> /\ joined = h /\ next = <<>>
    BY <1>0, <1>3, <1>8, <2>1
  <2>3. done = Append(<<>>, h)
    BY <1>1, <1>8, <2>2
  <2>4. done \in Seq(Groups) /\ 1 \in 1..Len(done) /\ done[1] = h
    BY <2>3
  <2>5. N!RecordsOf(group) \cup {r} \subseteq N!RecordsOf(h)
    BY <1>4, <2>1
  <2>6. N!RecordsOf(h) = N!RecordsOf(done[1])
    BY <2>4
  <2> HIDE DEF before, joined, apart
  <2> QED
    BY <2>2, <2>4, <2>5, <2>6 DEF Regroups
<1>9. CASE snapshot /\ apart
  <2>1. PICK h \in Groups, h2 \in Groups : h = group /\ h2 = <<r>>
    BY <1>2, <1>9
  <2>2. before = <<h>> /\ joined = h2 /\ next = <<>>
    BY <1>0, <1>3, <1>9, <2>1
  <2>3. done = Append(<<h>>, h2)
    BY <1>1, <1>9, <2>2
  <2>4. done \in Seq(Groups) /\ {1, 2} \subseteq 1..Len(done) /\ done[1] = h /\ done[2] = h2
    BY <2>3
  <2>5. r \in N!RecordsOf(h2)
    BY <1>4, <2>1
  <2>6. N!RecordsOf(group) = N!RecordsOf(done[1]) /\ N!RecordsOf(h2) = N!RecordsOf(done[2])
    BY <2>1, <2>4
  <2> HIDE DEF before, joined, apart
  <2> QED
    BY <2>2, <2>4, <2>5, <2>6 DEF Regroups
<1> QED
  BY <1>6, <1>7, <1>8, <1>9

LEMMA FinalizesFirst ==
  ASSUME NEW gs \in Seq(Groups), gs # <<>>, N!FinalizeFirst(gs)
  PROVE  /\ Head(gs) \in Groups /\ FinalizedOne(Head(gs))
         /\ pending' = Tail(gs) /\ pending' \in Seq(Groups)
         /\ await' \in {"none"} \cup N!Outcomes
         /\ await' = "none" => pending' = <<>>
<1>1. Head(gs) \in Groups /\ Tail(gs) \in Seq(Groups)
  OBVIOUS
<1>2. "ok" \in N!Outcomes /\ "none" \notin N!Outcomes
  BY DEF N!Outcomes
<1>3. pending' = Tail(gs)
  BY DEF N!FinalizeFirst
<1>4. CASE \E o \in N!Outcomes : N!Emit(Head(gs), o = "ok") /\ await' = o
  BY <1>1, <1>2, <1>3, <1>4 DEF FinalizedOne
<1>5. CASE N!Settle(Head(gs)) /\ await' = IF Tail(gs) = <<>> THEN "none" ELSE "ok"
  BY <1>1, <1>2, <1>3, <1>5 DEF FinalizedOne
<1> QED
  BY <1>4, <1>5 DEF N!FinalizeFirst

\* The next record of a batch is on the bus.
LEMMA NextRecord ==
  ASSUME CollectorTypes, LoopTypes, position < batchEnd
  PROVE  /\ position + 1 \in 1..Len(captured) /\ captured[position + 1] \in Records
         /\ position + 1 <= batchEnd
BY DEF CollectorTypes, LoopTypes

\* The loop: what it holds are groups, and a step finalizes at most one of them.
LEMMA LoopKept ==
  ASSUME CollectorTypes, LoopTypes, N!NormalizerNext, UNCHANGED captured
  PROVE  /\ LoopTypes'
         /\ \/ GuardLeft /\ UNCHANGED incarnation
            \/ \E g \in Groups : FinalizedOne(g) /\ UNCHANGED incarnation
            \/ N!RestartNormalizer
<1>0. Len(captured) \in Nat
  BY DEF CollectorTypes
<1>1. CASE N!Read
  <2>1. PICK n \in 1..ReadCount : n <= Len(captured) - position /\ batchEnd' = position + n
    BY <1>1 DEF N!Read
  <2>2. n \in Nat
    BY CaptureAssumption
  <2> QED
    BY <1>0, <1>1, <2>1, <2>2 DEF N!Read, N!guard, LoopTypes, GuardLeft, N!Outcomes
<1>2. CASE N!Process
  <2> DEFINE r == captured[position + 1]
             done == N!Completed(r.entry, r)
  <2>1. /\ await = "none" /\ position < batchEnd /\ position' = position + 1
        /\ taken' = taken \cup {position + 1}
        /\ UNCHANGED <<batchEnd, incarnation, captured>>
    BY <1>2 DEF N!Process
  <2>2. r \in Records /\ position + 1 <= batchEnd
    BY <2>1, NextRecord
  <2>3. /\ position' \in Nat /\ batchEnd' \in Nat /\ position' <= batchEnd'
        /\ batchEnd' <= Len(captured') /\ taken' \subseteq 1..position'
    BY <2>1, <2>2 DEF LoopTypes
  <2>4. CASE r.entry \in N!Unnameable \cup Unmappable
    BY <1>2, <2>1, <2>3, <2>4 DEF N!Process, N!guard, LoopTypes, GuardLeft, N!Outcomes
  <2>5. CASE r.entry \notin N!Unnameable \cup Unmappable
    <3>1. group' = GroupAfter(r, done)
      BY <1>2, <2>5 DEF N!Process, GroupAfter
    <3>2. done \in Seq(Groups) /\ group' \in Seq(Records)
      BY <2>2, <3>1, CompletedGroups DEF LoopTypes, Regroups
    <3>3. CASE done = <<>>
      <4>1. UNCHANGED <<pending, await, seen, lastRow, cces, rejected>>
        BY <1>2, <2>5, <3>3 DEF N!Process, N!guard
      <4> QED
        BY <2>1, <2>3, <3>2, <4>1 DEF LoopTypes, GuardLeft, N!Outcomes
    <3>4. CASE done # <<>>
      <4>1. N!FinalizeFirst(done)
        BY <1>2, <2>5, <3>4 DEF N!Process
      <4>2. PICK g : g = done
        OBVIOUS
      <4> HIDE DEF done
      <4>3. /\ pending' \in Seq(Groups) /\ await' \in {"none"} \cup N!Outcomes
            /\ (await' = "none" => pending' = <<>>) /\ \E h \in Groups : FinalizedOne(h)
        BY <3>2, <3>4, <4>1, FinalizesFirst
      <4> QED
        BY <2>1, <2>3, <3>2, <4>3 DEF LoopTypes, N!Outcomes
    <3> QED
      BY <3>3, <3>4
  <2> QED
    BY <2>4, <2>5
<1>3. CASE N!Answered
  <2>1. UNCHANGED <<position, batchEnd, taken, group, incarnation, captured>>
    BY <1>3 DEF N!Answered, N!intake
  <2>2. CASE await = "failed" \/ pending = <<>>
    <3>1. /\ await' = "none" /\ pending' = <<>> /\ UNCHANGED <<seen, lastRow, cces>>
          /\ rejected \subseteq rejected'
      BY <1>3, <2>2 DEF N!Answered, N!guard
    <3> QED
      BY <2>1, <3>1 DEF LoopTypes, GuardLeft, N!Outcomes
  <2>3. CASE ~(await = "failed" \/ pending = <<>>)
    <3>1. N!FinalizeFirst(pending) /\ pending \in Seq(Groups) /\ pending # <<>>
      BY <1>3, <2>3 DEF N!Answered, LoopTypes
    <3>2. /\ pending' \in Seq(Groups) /\ await' \in {"none"} \cup N!Outcomes
          /\ (await' = "none" => pending' = <<>>) /\ \E h \in Groups : FinalizedOne(h)
      BY <3>1, FinalizesFirst
    <3> QED
      BY <2>1, <3>2 DEF LoopTypes, N!Outcomes
  <2> QED
    BY <2>2, <2>3
<1>4. CASE N!Flush
  <2>1. /\ group \in Groups /\ FinalizedOne(group) /\ group' = <<>>
        /\ UNCHANGED <<position, batchEnd, taken, pending, await, incarnation, captured>>
    BY <1>4 DEF N!Flush, N!intake, LoopTypes, FinalizedOne, Groups
  <2> QED
    BY <2>1 DEF LoopTypes, N!Outcomes
<1>5. CASE N!MissRecords
  <2>1. position' = Len(captured) /\ batchEnd' = Len(captured) /\ position < Len(captured)
        /\ UNCHANGED <<taken, group, pending, await, seen, lastRow, cces, rejected,
                       incarnation, captured>>
    BY <1>5 DEF N!MissRecords, N!guard
  <2> QED
    BY <1>0, <2>1 DEF LoopTypes, GuardLeft, N!Outcomes
<1>6. CASE N!RestartNormalizer
  BY <1>0, <1>6 DEF N!RestartNormalizer, LoopTypes, N!Outcomes
<1> QED
  BY <1>1, <1>2, <1>3, <1>4, <1>5, <1>6 DEF N!NormalizerNext, N!MainLoop

\* Finalizing a group adds at most its own change event to the stream, and only when
\* the guard knew nothing of its transaction.
LEMMA FinalizedGuard ==
  ASSUME GuardTypes, NEW g \in Groups, FinalizedOne(g), UNCHANGED incarnation
  PROVE  \/ GuardLeft
         \/ /\ seen[N!TxOfGroup(g)] = None
            /\ seen' = [seen EXCEPT ![N!TxOfGroup(g)] = N!EventHash(g)]
            /\ lastRow' = Append(lastRow, N!EventHash(g))
            /\ \/ cces' = Append(cces, N!Cce(g)) /\ rejected' = rejected
               \/ cces' = cces /\ rejected' = rejected \cup {g}
<1>1. CASE N!Settle(g)
  BY <1>1 DEF N!Settle, N!guard, GuardLeft
<1>2. CASE \E o \in N!Outcomes : N!Emit(g, o = "ok")
  <2>1. PICK o \in N!Outcomes : N!Emit(g, o = "ok")
    BY <1>2
  <2> QED
    BY <2>1 DEF N!Emit, N!IsNew
<1> QED
  BY <1>1, <1>2 DEF FinalizedOne

LEMMA CceOfGroup ==
  ASSUME GuardTypes, NEW g \in Groups
  PROVE  /\ N!Cce(g) \in Cces /\ N!Cce(g).hash = N!EventHash(g)
         /\ N!Cce(g).prev = lastRow /\ N!Cce(g).by = incarnation
<1>1. N!Cce(g) = [hash |-> N!EventHash(g), prev |-> lastRow, by |-> incarnation]
  BY DEF N!Cce
<1>2. N!EventHash(g) \in Hashes /\ lastRow \in Seq(Hashes) /\ incarnation \in Nat
  BY HashOfGroup DEF GuardTypes
<1> QED
  BY <1>1, <1>2 DEF Cces

\* The stream and the event added to it.
LEMMA StreamGrows ==
  ASSUME GuardTypes, NEW c \in Cces, cces' = Append(cces, c), c.by = incarnation,
         UNCHANGED incarnation
  PROVE  /\ cces' \in Seq(Cces) /\ Len(cces') = Len(cces) + 1 /\ Len(cces) \in Nat
         /\ cces'[Len(cces) + 1] = c /\ \A i \in 1..Len(cces) : cces'[i] = cces[i]
         /\ \A i \in 1..Len(cces') : cces'[i].by <= incarnation'
         /\ \A i \in 1..Len(cces') : i \in 1..Len(cces) \/ i = Len(cces) + 1
<1>1. /\ cces' \in Seq(Cces) /\ Len(cces') = Len(cces) + 1 /\ Len(cces) \in Nat
      /\ cces'[Len(cces) + 1] = c /\ \A i \in 1..Len(cces) : cces'[i] = cces[i]
  BY DEF GuardTypes
<1>2. \A i \in 1..Len(cces') : i \in 1..Len(cces) \/ i = Len(cces) + 1
  BY <1>1
<1>3. \A i \in 1..Len(cces') : cces'[i].by <= incarnation'
  BY <1>1, <1>2 DEF GuardTypes
<1> QED
  BY <1>1, <1>2, <1>3

OnceInv  == GuardTypes /\ OwnKnown /\ EmittedOnce
ChainInv == GuardTypes /\ RowFollows /\ RowsChained

LEMMA GuardTypesKept ==
  ASSUME GuardTypes, UNCHANGED incarnation, NEW g \in Groups, FinalizedOne(g)
  PROVE  GuardTypes'
<1>1. CASE GuardLeft
  BY <1>1 DEF GuardLeft, GuardTypes
<1>2. CASE /\ seen' = [seen EXCEPT ![N!TxOfGroup(g)] = N!EventHash(g)]
           /\ lastRow' = Append(lastRow, N!EventHash(g))
           /\ cces' = Append(cces, N!Cce(g)) \/ cces' = cces
  <2>1. seen' \in [N!Txs -> Hashes \cup {None}] /\ lastRow' \in Seq(Hashes)
    BY <1>2, HashOfGroup DEF GuardTypes
  <2>2. CASE cces' = cces
    BY <2>1, <2>2 DEF GuardTypes
  <2>3. CASE cces' = Append(cces, N!Cce(g))
    <3>1. PICK c \in Cces : c = N!Cce(g) /\ c.by = incarnation
      BY CceOfGroup
    <3>2. cces' \in Seq(Cces) /\ \A i \in 1..Len(cces') : cces'[i].by <= incarnation'
      BY <2>3, <3>1, StreamGrows
    <3> QED
      BY <2>1, <3>2 DEF GuardTypes
  <2> QED
    BY <1>2, <2>2, <2>3
<1> QED
  BY <1>1, <1>2, FinalizedGuard

LEMMA OnceKept ==
  ASSUME OnceInv, UNCHANGED incarnation, NEW g \in Groups, FinalizedOne(g)
  PROVE  OnceInv'
<1>1. GuardTypes /\ OwnKnown /\ GuardTypes'
  BY GuardTypesKept DEF OnceInv
<1>2. \A i, j \in 1..Len(cces) :
        cces[i].by = cces[j].by /\ cces[i].hash.tx = cces[j].hash.tx => i = j
  BY DEF OnceInv, EmittedOnce, N!EmittedOnce
<1>3. ASSUME NEW i \in 1..Len(cces)
      PROVE  cces[i].hash.tx \in N!Txs
  <2>1. cces[i] \in Cces
    BY <1>1 DEF GuardTypes
  <2>2. cces[i].hash \in Hashes
    BY <2>1 DEF Cces
  <2> QED
    BY <2>2 DEF Hashes
<1> DEFINE t == N!TxOfGroup(g)
<1>4. t \in N!Txs /\ N!EventHash(g).tx = t /\ N!EventHash(g) # None
  BY HashOfGroup
<1>5. CASE GuardLeft
  BY <1>1, <1>5 DEF GuardLeft, OnceInv, OwnKnown, EmittedOnce, N!EmittedOnce
<1>6. CASE /\ seen[t] = None /\ seen' = [seen EXCEPT ![t] = N!EventHash(g)]
           /\ cces' = Append(cces, N!Cce(g)) \/ cces' = cces
  <2>1. \A u \in N!Txs : seen'[u] = None => seen[u] = None /\ u # t
    BY <1>1, <1>4, <1>6 DEF GuardTypes
  <2>2. CASE cces' = cces
    BY <1>1, <1>2, <1>3, <2>1, <2>2 DEF OnceInv, OwnKnown, EmittedOnce, N!EmittedOnce
  <2>3. CASE cces' = Append(cces, N!Cce(g))
    <3>1. PICK c \in Cces : /\ c = N!Cce(g) /\ c.by = incarnation /\ c.hash = N!EventHash(g)
      BY <1>1, CceOfGroup
    <3>2. c.hash.tx = t
      BY <1>4, <3>1
    <3> DEFINE n == Len(cces)
    <3>3. /\ Len(cces') = n + 1 /\ n \in Nat /\ cces'[n + 1] = c
          /\ \A i \in 1..n : cces'[i] = cces[i]
          /\ \A i \in 1..Len(cces') : i \in 1..n \/ i = n + 1
      BY <1>1, <2>3, <3>1, StreamGrows
    <3> HIDE DEF n, t
    <3>4. \A i \in 1..n : cces[i].by = incarnation => cces[i].hash.tx # t
      BY <1>1, <1>6 DEF OwnKnown, n
    <3>5. OwnKnown'
      BY <1>1, <1>3, <1>4, <2>1, <3>1, <3>2, <3>3 DEF OwnKnown, n
    <3>6. EmittedOnce'
      <4> SUFFICES ASSUME NEW i \in 1..Len(cces'), NEW j \in 1..Len(cces'),
                          cces'[i].by = cces'[j].by, cces'[i].hash.tx = cces'[j].hash.tx
                   PROVE  i = j
        BY DEF EmittedOnce, N!EmittedOnce
      <4>1. CASE i \in 1..n /\ j \in 1..n
        BY <1>2, <3>3, <4>1 DEF n
      <4>2. CASE i = n + 1 /\ j \in 1..n
        BY <3>1, <3>2, <3>3, <3>4, <4>2
      <4>3. CASE i \in 1..n /\ j = n + 1
        BY <3>1, <3>2, <3>3, <3>4, <4>3
      <4> QED
        BY <3>3, <4>1, <4>2, <4>3
    <3> QED
      BY <1>1, <3>5, <3>6 DEF OnceInv
  <2> QED
    BY <1>6, <2>2, <2>3
<1> QED
  BY <1>1, <1>5, <1>6, FinalizedGuard

\* The places of the events a process emitted, when one more is added.
LEMMA OwnGrows ==
  ASSUME GuardTypes, NEW c \in Cces, cces' = Append(cces, c), c.by = incarnation,
         UNCHANGED incarnation
  PROVE  /\ Own(cces, incarnation) \subseteq 1..Len(cces)
         /\ Own(cces', incarnation') = Own(cces, incarnation) \cup {Len(cces) + 1}
<1> DEFINE n == Len(cces)
<1>1. /\ n \in Nat /\ Len(cces') = n + 1 /\ cces'[n + 1] = c
      /\ \A i \in 1..n : cces'[i] = cces[i]
      /\ \A i \in 1..(n + 1) : i \in 1..n \/ i = n + 1
  BY StreamGrows
<1>2. Own(cces', incarnation') = {i \in 1..(n + 1) : cces'[i].by = incarnation}
  BY <1>1 DEF Own
<1>3. Own(cces, incarnation) = {i \in 1..n : cces[i].by = incarnation}
  BY DEF Own
<1> HIDE DEF n
<1>4. n + 1 \in Own(cces', incarnation')
  BY <1>1, <1>2
<1>5. \A i \in 1..n : i \in Own(cces', incarnation') <=> i \in Own(cces, incarnation)
  BY <1>1, <1>2, <1>3
<1> QED
  BY <1>1, <1>2, <1>3, <1>4, <1>5 DEF n

\* What a row chains stays chained while the stream and the losses grow.
LEMMA ChainsStay ==
  ASSUME NEW row, NEW stream, NEW longer, NEW S, NEW lost, NEW more,
         \A i \in S : longer[i] = stream[i], lost \subseteq more,
         Chains(row, stream, S, lost)
  PROVE  Chains(row, longer, S, more)
BY DEF Chains

\* A row that gains the hash of an event sent, or of a group lost.
LEMMA ChainsGrow ==
  ASSUME NEW row \in Seq(Hashes), NEW stream, NEW S, NEW lost, Chains(row, stream, S, lost),
         NEW h \in Hashes
  PROVE  /\ \A n : stream[n].prev = row /\ stream[n].hash = h =>
              Chains(Append(row, h), stream, S \cup {n}, lost)
         /\ Chains(Append(row, h), stream, S, lost \cup {h})
<1> DEFINE l == Len(row)
           next == Append(row, h)
<1>1. /\ l \in Nat /\ Len(next) = l + 1 /\ next[l + 1] = h
      /\ \A k \in 1..l : next[k] = row[k]
      /\ \A k \in 1..(l + 1) : k \in 1..l \/ k = l + 1
  OBVIOUS
<1>2. /\ \A i \in S : Len(stream[i].prev) + 1 \in 1..l /\ row[Len(stream[i].prev) + 1] = stream[i].hash
      /\ \A k \in 1..l : \/ \E i \in S : Len(stream[i].prev) + 1 = k
                         \/ row[k] \in lost
  BY DEF Chains
<1> HIDE DEF next, l
<1>3. \A i \in S : Len(stream[i].prev) + 1 \in 1..(l + 1) /\ next[Len(stream[i].prev) + 1] = stream[i].hash
  BY <1>1, <1>2
<1>4. \A k \in 1..l : \/ \E i \in S : Len(stream[i].prev) + 1 = k
                      \/ next[k] \in lost
  BY <1>1, <1>2
<1>5. ASSUME NEW n, stream[n].prev = row, stream[n].hash = h
      PROVE  Chains(next, stream, S \cup {n}, lost)
  <2>1. Len(stream[n].prev) + 1 = l + 1 /\ l + 1 \in 1..(l + 1)
    BY <1>1, <1>5 DEF l
  <2> QED
    BY <1>1, <1>3, <1>4, <1>5, <2>1 DEF Chains
<1>6. Chains(next, stream, S, lost \cup {h})
  BY <1>1, <1>3, <1>4 DEF Chains
<1> QED
  BY <1>5, <1>6 DEF next

\* RowsChained, event by event.
ChainedAt(stream, j, process, lost) ==
  Chains(stream[j].prev, stream, {i \in 1..(j - 1) : stream[i].by = process}, lost)

LEMMA EachChained ==
  /\ RowsChained <=> \A j \in Own(cces, incarnation) : ChainedAt(cces, j, incarnation, Lost)
  /\ RowsChained' <=>
       \A j \in Own(cces', incarnation') : ChainedAt(cces', j, incarnation', Lost')
<1>1. \A row, S : N!Covers(row, S) <=> Chains(row, cces, S, Lost)
  BY DEF N!Covers, N!PlaceOf, Chains, Lost
<1>2. RowsChained <=> \A j \in Own(cces, incarnation) : ChainedAt(cces, j, incarnation, Lost)
  BY <1>1 DEF RowsChained, N!RowsChained, ChainedAt, Own
<1>3. Lost' = {N!EventHash(g) : g \in rejected'}
  BY DEF Lost, N!EventHash, N!TxOfGroup, N!Changes
<1>4. RowsChained' <=>
        \A j \in Own(cces', incarnation') : ChainedAt(cces', j, incarnation', Lost')
  BY <1>3 DEF RowsChained, N!RowsChained, N!Covers, N!PlaceOf, Chains, ChainedAt, Own
<1> QED
  BY <1>2, <1>4

\* A step that leaves the guard leaves the chain.
LEMMA ChainLeft ==
  ASSUME ChainInv, GuardLeft, UNCHANGED incarnation
  PROVE  ChainInv'
<1>1. cces' = cces /\ lastRow' = lastRow /\ incarnation' = incarnation /\ Lost \subseteq Lost'
  BY DEF GuardLeft, Lost
<1>2. GuardTypes'
  BY DEF GuardLeft, ChainInv, GuardTypes
<1>3. RowFollows'
  BY <1>1, ChainsStay DEF ChainInv, RowFollows
<1>4. \A j \in Own(cces, incarnation) : ChainedAt(cces, j, incarnation, Lost')
  BY <1>1, EachChained, ChainsStay DEF ChainInv, ChainedAt
<1>5. RowsChained'
  BY <1>1, <1>4, EachChained
<1> QED
  BY <1>2, <1>3, <1>5 DEF ChainInv

LEMMA ChainKept ==
  ASSUME ChainInv, UNCHANGED incarnation, NEW g \in Groups, FinalizedOne(g)
  PROVE  ChainInv'
<1>1. GuardTypes /\ GuardTypes' /\ incarnation' = incarnation
  BY GuardTypesKept DEF ChainInv
<1> DEFINE h == N!EventHash(g)
           n == Len(cces)
           own == Own(cces, incarnation)
<1>2. /\ lastRow \in Seq(Hashes) /\ h \in Hashes /\ Chains(lastRow, cces, own, Lost)
      /\ \A j \in own : ChainedAt(cces, j, incarnation, Lost)
  BY <1>1, HashOfGroup, EachChained DEF GuardTypes, ChainInv, RowFollows
<1> HIDE DEF h
<1>3. CASE GuardLeft
  BY <1>1, <1>3, ChainLeft
<1>4. CASE /\ lastRow' = Append(lastRow, h)
           /\ cces' = Append(cces, N!Cce(g)) /\ rejected' = rejected
  <2>1. PICK c \in Cces : /\ c = N!Cce(g) /\ c.by = incarnation
                          /\ c.hash = h /\ c.prev = lastRow
    BY <1>1, CceOfGroup DEF h
  <2>2. /\ n \in Nat /\ cces'[n + 1] = c /\ \A i \in 1..n : cces'[i] = cces[i]
    BY <1>1, <1>4, <2>1, StreamGrows
  <2>3. own \subseteq 1..n /\ Own(cces', incarnation') = own \cup {n + 1}
    BY <1>1, <1>4, <2>1, OwnGrows
  <2>4. Lost' = Lost
    BY <1>4 DEF Lost
  <2>5. Chains(lastRow, cces', own, Lost)
    BY <1>2, <2>2, <2>3, ChainsStay
  <2>6. RowFollows'
    <3>1. Chains(Append(lastRow, h), cces', own \cup {n + 1}, Lost)
      BY <1>2, <2>1, <2>2, <2>5, ChainsGrow
    <3> QED
      BY <1>4, <2>3, <2>4, <3>1 DEF RowFollows
  <2>7. ASSUME NEW j \in own PROVE ChainedAt(cces', j, incarnation, Lost)
    <3> DEFINE before == {i \in 1..(j - 1) : cces[i].by = incarnation}
               now == {i \in 1..(j - 1) : cces'[i].by = incarnation}
    <3>1. j \in 1..n /\ cces'[j] = cces[j] /\ \A i \in 1..(j - 1) : i \in 1..n
      BY <2>2, <2>3
    <3>2. now = before /\ \A i \in before : cces'[i] = cces[i]
      BY <2>2, <3>1
    <3>3. Chains(cces[j].prev, cces, before, Lost)
      BY <1>2 DEF ChainedAt
    <3> HIDE DEF before, now
    <3>4. Chains(cces'[j].prev, cces', now, Lost)
      BY <3>1, <3>2, <3>3, ChainsStay
    <3> QED
      BY <3>4 DEF ChainedAt, now
  <2>8. ChainedAt(cces', n + 1, incarnation, Lost)
    <3>1. {i \in 1..((n + 1) - 1) : cces'[i].by = incarnation} = own
      BY <2>2 DEF Own
    <3> QED
      BY <2>1, <2>2, <2>5, <3>1 DEF ChainedAt
  <2>9. RowsChained'
    BY <1>1, <2>3, <2>4, <2>7, <2>8, EachChained
  <2> QED
    BY <1>1, <2>6, <2>9 DEF ChainInv
<1>5. CASE /\ lastRow' = Append(lastRow, h)
           /\ cces' = cces /\ rejected' = rejected \cup {g}
  <2>1. Lost' = Lost \cup {h}
    BY <1>5 DEF Lost, h, N!EventHash, N!TxOfGroup, N!Changes
  <2>2. RowFollows'
    BY <1>1, <1>2, <1>5, <2>1, ChainsGrow DEF RowFollows
  <2>3. \A j \in own : ChainedAt(cces, j, incarnation, Lost')
    BY <1>2, <2>1, ChainsStay DEF ChainedAt
  <2>4. RowsChained'
    BY <1>1, <1>5, <2>3, EachChained
  <2> QED
    BY <1>1, <2>2, <2>4 DEF ChainInv
<1> QED
  BY <1>1, <1>3, <1>4, <1>5, FinalizedGuard DEF h

\* A new process starts with an empty guard: it knows nothing and has emitted nothing.
LEMMA RestartedGuard ==
  ASSUME GuardTypes, N!RestartNormalizer
  PROVE  /\ GuardTypes' /\ cces' = cces /\ lastRow' = <<>> /\ incarnation' = incarnation + 1
         /\ \A i \in 1..Len(cces) : cces[i].by # incarnation'
         /\ \A t \in N!Txs : seen'[t] = None
<1>1. /\ cces' = cces /\ lastRow' = <<>> /\ incarnation' = incarnation + 1
      /\ seen' = [t \in N!Txs |-> None]
  BY DEF N!RestartNormalizer
<1>2. ASSUME NEW i \in 1..Len(cces)
      PROVE  cces[i].by <= incarnation' /\ cces[i].by # incarnation'
  <2>1. cces[i] \in Cces /\ incarnation \in Nat /\ cces[i].by <= incarnation
    BY DEF GuardTypes
  <2>2. cces[i].by \in Nat
    BY <2>1 DEF Cces
  <2> QED
    BY <1>1, <2>1, <2>2
<1>3. GuardTypes'
  BY <1>1, <1>2 DEF GuardTypes
<1> QED
  BY <1>1, <1>2, <1>3

LEMMA OnceRestarted ==
  ASSUME OnceInv, N!RestartNormalizer
  PROVE  OnceInv'
<1>1. /\ GuardTypes' /\ cces' = cces /\ \A i \in 1..Len(cces) : cces[i].by # incarnation'
  BY RestartedGuard DEF OnceInv
<1>2. OwnKnown'
  BY <1>1 DEF OwnKnown
<1>3. EmittedOnce'
  BY <1>1 DEF OnceInv, EmittedOnce, N!EmittedOnce
<1> QED
  BY <1>1, <1>2, <1>3 DEF OnceInv

LEMMA ChainRestarted ==
  ASSUME ChainInv, N!RestartNormalizer
  PROVE  ChainInv'
<1>1. /\ GuardTypes' /\ cces' = cces /\ lastRow' = <<>>
      /\ \A i \in 1..Len(cces) : cces[i].by # incarnation'
  BY RestartedGuard DEF ChainInv
<1>2. Own(cces', incarnation') = {}
  BY <1>1 DEF Own
<1>3. RowFollows'
  BY <1>1, <1>2 DEF RowFollows, Chains
<1>4. RowsChained'
  BY <1>2, EachChained
<1> QED
  BY <1>1, <1>3, <1>4 DEF ChainInv

LEMMA NormalizerStart ==
  ASSUME Init
  PROVE  CollectorTypes /\ LoopTypes /\ OnceInv /\ ChainInv /\ KnownEmitted /\ LossesNamed
<1>1. /\ position = 0 /\ batchEnd = 0 /\ taken = {} /\ group = <<>> /\ pending = <<>>
      /\ await = "none" /\ seen = [t \in N!Txs |-> None] /\ lastRow = <<>> /\ cces = <<>>
      /\ incarnation = 0 /\ captured = <<>>
  BY DEF Init, CollectorInit, N!NormalizerInit
<1>2. CollectorTypes
  BY CollectorStart DEF Init, GapInv
<1>3. LoopTypes /\ GuardTypes
  BY <1>1 DEF LoopTypes, GuardTypes
<1>4. Len(cces) = 0
  BY <1>1
<1>5. OwnKnown /\ EmittedOnce /\ KnownEmitted /\ LossesNamed
  BY <1>1, <1>4 DEF OwnKnown, EmittedOnce, N!EmittedOnce, KnownEmitted, LossesNamed, N!LossesNamed
<1>6. Own(cces, incarnation) = {}
  BY <1>4 DEF Own
<1>7. RowsChained
  BY <1>6, EachChained
<1>8. RowFollows
  BY <1>1, <1>6 DEF RowFollows, Chains
<1> QED
  BY <1>2, <1>3, <1>5, <1>7, <1>8 DEF OnceInv, ChainInv

\* The bus only grows: what the normalizer has read of it stays.
LEMMA BusGrows ==
  ASSUME CollectorTypes, CollectorNext \/ UNCHANGED cvars
  PROVE  /\ CollectorTypes' /\ Len(captured) <= Len(captured') /\ Len(captured) \in Nat
         /\ Len(captured') \in Nat
         /\ \A n \in 1..Len(captured) : captured'[n] = captured[n]
<1>1. CollectorTypes'
  <2>1. CASE UNCHANGED cvars
    BY <2>1 DEF cvars, reader, CollectorTypes
  <2> QED
    BY <2>1, TypesKept
<1>2. captured \in Seq(Records) /\ captured' \in Seq(Records)
  BY <1>1 DEF CollectorTypes
<1>3. captured' = captured \/ captured' = Append(captured, Record(current))
  BY DEF CollectorNext, Step, Deliver, Fill, Take, Publish, Commit, RestartCollector, cvars
<1> QED
  BY <1>1, <1>2, <1>3

\* The steps of both processes, as the normalizer's state sees them.
LEMMA StepOfBoth ==
  ASSUME CollectorTypes, LoopTypes, [Next]_vars
  PROVE  /\ CollectorTypes' /\ LoopTypes'
         /\ \/ GuardLeft /\ UNCHANGED incarnation
            \/ \E g \in Groups : FinalizedOne(g) /\ UNCHANGED incarnation
            \/ N!RestartNormalizer
<1>1. CASE (CollectorNext \/ UNCHANGED cvars) /\ UNCHANGED normalizer
  <2>1. /\ CollectorTypes' /\ Len(captured) <= Len(captured')
        /\ Len(captured) \in Nat /\ Len(captured') \in Nat
    BY <1>1, BusGrows
  <2>2. UNCHANGED <<position, batchEnd, taken, group, pending, await, seen, lastRow, cces,
                    rejected, incarnation>>
    BY <1>1 DEF normalizer
  <2>3. LoopTypes'
    BY <2>1, <2>2 DEF LoopTypes, N!Outcomes
  <2> QED
    BY <2>1, <2>2, <2>3 DEF GuardLeft
<1>2. CASE N!NormalizerNext /\ UNCHANGED cvars
  <2>1. CollectorTypes' /\ UNCHANGED captured
    BY <1>2, BusGrows DEF cvars
  <2> QED
    BY <1>2, <2>1, LoopKept
<1> QED
  BY <1>1, <1>2 DEF Next, vars

\* One process emits at most one change event per transaction, whatever the collector
\* publishes again, the timer splits and the emits that fail (normalizer.ts, cce-guard.ts).
THEOREM OneEventPerTransaction == Spec => []EmittedOnce
<1> DEFINE Inv == CollectorTypes /\ LoopTypes /\ OnceInv
<1>1. Init => Inv
  BY NormalizerStart
<1>2. Inv /\ [Next]_vars => Inv'
  <2> SUFFICES ASSUME Inv, [Next]_vars PROVE Inv'
    OBVIOUS
  <2>1. /\ CollectorTypes' /\ LoopTypes'
        /\ \/ GuardLeft /\ UNCHANGED incarnation
           \/ \E g \in Groups : FinalizedOne(g) /\ UNCHANGED incarnation
           \/ N!RestartNormalizer
    BY StepOfBoth
  <2>2. CASE GuardLeft /\ UNCHANGED incarnation
    BY <2>1, <2>2 DEF GuardLeft, OnceInv, GuardTypes, OwnKnown, EmittedOnce, N!EmittedOnce
  <2> QED
    BY <2>1, <2>2, OnceKept, OnceRestarted
<1>3. Inv => EmittedOnce
  BY DEF OnceInv
<1> HIDE DEF Inv
<1> QED
  BY <1>1, <1>2, <1>3, PTL DEF Spec

\* The change events of one process form a hash chain, in the order they stand in the
\* stream, whose only holes are the groups whose emit was rejected (normalizer.ts,
\* cce-guard.ts).
THEOREM RowHashesChained == Spec => []RowsChained
<1> DEFINE Inv == CollectorTypes /\ LoopTypes /\ ChainInv
<1>1. Init => Inv
  BY NormalizerStart
<1>2. Inv /\ [Next]_vars => Inv'
  <2> SUFFICES ASSUME Inv, [Next]_vars PROVE Inv'
    OBVIOUS
  <2>1. /\ CollectorTypes' /\ LoopTypes'
        /\ \/ GuardLeft /\ UNCHANGED incarnation
           \/ \E g \in Groups : FinalizedOne(g) /\ UNCHANGED incarnation
           \/ N!RestartNormalizer
    BY StepOfBoth
  <2>2. CASE GuardLeft /\ UNCHANGED incarnation
    BY <2>1, <2>2, ChainLeft
  <2> QED
    BY <2>1, <2>2, ChainKept, ChainRestarted
<1>3. Inv => RowsChained
  BY DEF ChainInv
<1> HIDE DEF Inv
<1> QED
  BY <1>1, <1>2, <1>3, PTL DEF Spec

\* A group lost to a rejected emit carried the record, or an identical one.
Rejected(q) == \E g \in rejected : \E i \in 1..Len(g) : g[i].entry = q.entry

\* What a record can come to: waiting in a group, recorded in the dead letter queue,
\* carried by a change event, or lost in one of the two named ways.
Settled(q) ==
  \/ q \in N!DeadLettered
  \/ N!Emitted(q.entry)
  \/ q.entry \in N!Unnameable
  \/ Rejected(q)
Kept(q)    == q \in N!Held \/ Settled(q)

LEMMA HeldRecords ==
  /\ \A q : q \in N!Held <=> \/ q \in N!RecordsOf(group)
                             \/ \E i \in 1..Len(pending) : q \in N!RecordsOf(pending[i])
  /\ \A q : q \in N!Held' <=> \/ q \in N!RecordsOf(group')
                              \/ \E i \in 1..Len(pending') : q \in N!RecordsOf(pending'[i])
<1>1. \A q : q \in N!Held <=> \/ q \in N!RecordsOf(group)
                              \/ \E i \in 1..Len(pending) : q \in N!RecordsOf(pending[i])
  BY DEF N!Held
<1>2. N!Held' = N!RecordsOf(group') \cup UNION {N!RecordsOf(pending'[i]) : i \in 1..Len(pending')}
  BY DEF N!Held, N!RecordsOf
<1> QED
  BY <1>1, <1>2

LEMMA RecordOfGroup ==
  ASSUME NEW g, NEW q
  PROVE  q \in N!RecordsOf(g) <=> \E i \in 1..Len(g) : q = g[i]
BY DEF N!RecordsOf

\* An event whose hash is that of a group carries every record of the group.
LEMMA EventCarries ==
  ASSUME NEW g \in Groups, NEW c, c.hash = N!EventHash(g), NEW q \in N!RecordsOf(g)
  PROVE  N!Carries(c, q.entry)
<1>1. PICK i \in 1..Len(g) : q = g[i]
  BY RecordOfGroup
<1>2. i \in 1..Len(c.hash.changes) /\ c.hash.changes[i] = q.entry
  BY <1>1, HashOfGroup
<1> QED
  BY <1>2 DEF N!Carries

\* So does a group with the same hash.
LEMMA TwinCarries ==
  ASSUME NEW g \in Groups, NEW h \in Groups, N!EventHash(h) = N!EventHash(g),
         NEW q \in N!RecordsOf(g)
  PROVE  \E i \in 1..Len(h) : h[i].entry = q.entry
<1>1. PICK i \in 1..Len(g) : q = g[i]
  BY RecordOfGroup
<1>2. Len(h) = Len(g) /\ N!EventHash(g).changes[i] = g[i].entry
  BY HashOfGroup
<1>3. h[i].entry = N!EventHash(h).changes[i]
  BY <1>2, HashOfGroup
<1> QED
  BY <1>1, <1>2, <1>3

LEMMA RejectedGrow ==
  ASSUME rejected \subseteq rejected', NEW q, Rejected(q)
  PROVE  Rejected(q)'
BY DEF Rejected

\* What was settled stays settled while the stream and the queue grow.
LEMMA SettledStays ==
  ASSUME GuardTypes, N!DeadLettered \subseteq N!DeadLettered', rejected \subseteq rejected',
         cces' = cces \/ \E c \in Cces : cces' = Append(cces, c), NEW q, Settled(q)
  PROVE  Settled(q)'
<1>1. CASE q \in N!DeadLettered
  BY <1>1 DEF Settled
<1>2. CASE N!Emitted(q.entry)
  <2>1. PICK i \in 1..Len(cces) : N!Carries(cces[i], q.entry)
    BY <1>2 DEF N!Emitted
  <2>2. i \in 1..Len(cces') /\ cces'[i] = cces[i]
    <3>1. CASE \E c \in Cces : cces' = Append(cces, c)
      <4>1. PICK c \in Cces : cces' = Append(cces, c)
        BY <3>1
      <4> QED
        BY <2>1, <4>1 DEF GuardTypes
    <3> QED
      BY <2>1, <3>1
  <2>3. PICK c : c = cces[i]
    OBVIOUS
  <2>4. N!Carries(c, q.entry) /\ cces'[i] = c
    BY <2>1, <2>2, <2>3
  <2>5. \E j \in 1..Len(cces') : \E m \in 1..Len(cces'[j].hash.changes) :
          cces'[j].hash.changes[m] = q.entry
    BY <2>2, <2>4 DEF N!Carries
  <2> QED
    BY <2>5 DEF Settled, N!Emitted, N!Carries
<1>3. CASE q.entry \in N!Unnameable
  BY <1>3 DEF Settled, N!Unnameable
<1>4. CASE Rejected(q)
  BY <1>4, RejectedGrow DEF Settled
<1> QED
  BY <1>1, <1>2, <1>3, <1>4 DEF Settled

LEMMA DeadLettersGrow ==
  ASSUME NEW g, N!DeadLetter(g)
  PROVE  N!DeadLettered \subseteq N!DeadLettered' /\ N!RecordsOf(g) \subseteq N!DeadLettered'
<1>1. deadLetters' = deadLetters \cup {g}
  BY DEF N!DeadLetter
<1>2. N!DeadLettered' = UNION {N!RecordsOf(h) : h \in deadLetters'}
  BY DEF N!DeadLettered, N!RecordsOf
<1>3. N!DeadLettered = UNION {N!RecordsOf(h) : h \in deadLetters}
  BY DEF N!DeadLettered
<1> QED
  BY <1>1, <1>2, <1>3

\* A group that is finalized loses no record unnamed: it is emitted, dead-lettered, the
\* same as an event the guard knows, or its emit was rejected.
LEMMA FinalizedRecords ==
  ASSUME GuardTypes, KnownEmitted, NEW g \in Groups, FinalizedOne(g), UNCHANGED incarnation
  PROVE  /\ \A q \in N!RecordsOf(g) : Settled(q)'
         /\ \A q : Settled(q) => Settled(q)'
         /\ KnownEmitted'
<1> DEFINE t == N!TxOfGroup(g)
           n == Len(cces)
<1>1. t \in N!Txs /\ N!EventHash(g) # None
  BY HashOfGroup
<1>2. CASE N!Settle(g)
  <2>1. UNCHANGED <<seen, cces, rejected>>
    BY <1>2 DEF N!Settle, N!guard
  <2>2. CASE deadLetters' = deadLetters /\ seen[t] = N!EventHash(g)
    <3>1. N!DeadLettered' = N!DeadLettered
      BY <2>2 DEF N!DeadLettered, N!RecordsOf
    <3>2. \A q : Settled(q) => Settled(q)'
      BY <2>1, <3>1, SettledStays
    <3>3. \A q \in N!RecordsOf(g) : Settled(q)
      <4>1. CASE \E i \in 1..n : cces[i].hash = N!EventHash(g)
        BY <4>1, EventCarries DEF N!Emitted, Settled
      <4>2. CASE \E h \in rejected \cap Groups : N!EventHash(h) = N!EventHash(g)
        BY <4>2, TwinCarries DEF Rejected, Settled
      <4> QED
        BY <1>1, <2>2, <4>1, <4>2 DEF KnownEmitted
    <3> QED
      BY <2>1, <3>2, <3>3 DEF KnownEmitted
  <2>3. CASE N!DeadLetter(g)
    <3>1. N!DeadLettered \subseteq N!DeadLettered' /\ N!RecordsOf(g) \subseteq N!DeadLettered'
      BY <2>3, DeadLettersGrow
    <3>2. \A q : Settled(q) => Settled(q)'
      BY <2>1, <3>1, SettledStays
    <3> QED
      BY <2>1, <3>1, <3>2 DEF Settled, KnownEmitted
  <2> QED
    BY <1>2, <2>2, <2>3 DEF N!Settle
<1>3. CASE N!Emit(g, TRUE)
  <2>1. /\ seen' = [seen EXCEPT ![t] = N!EventHash(g)] /\ cces' = Append(cces, N!Cce(g))
        /\ deadLetters' = deadLetters /\ rejected' = rejected
    BY <1>3 DEF N!Emit
  <2>2. PICK c \in Cces : /\ c = N!Cce(g) /\ c.by = incarnation /\ c.hash = N!EventHash(g)
    BY CceOfGroup
  <2>3. /\ Len(cces') = n + 1 /\ n \in Nat /\ cces'[n + 1] = c
        /\ \A i \in 1..n : cces'[i] = cces[i] /\ i \in 1..Len(cces')
    BY <2>1, <2>2, StreamGrows
  <2>4. N!DeadLettered' = N!DeadLettered
    BY <2>1 DEF N!DeadLettered, N!RecordsOf
  <2>5. \A q : Settled(q) => Settled(q)'
    BY <2>1, <2>2, <2>4, SettledStays
  <2>6. ASSUME NEW q \in N!RecordsOf(g) PROVE Settled(q)'
    <3>1. N!Carries(c, q.entry)
      BY <2>2, EventCarries
    <3>2. n + 1 \in 1..Len(cces')
      BY <2>3
    <3>3. \E j \in 1..Len(cces') : \E m \in 1..Len(cces'[j].hash.changes) :
            cces'[j].hash.changes[m] = q.entry
      BY <2>3, <3>1, <3>2 DEF N!Carries
    <3> QED
      BY <3>3 DEF Settled, N!Emitted, N!Carries
  <2>7. KnownEmitted'
    <3> SUFFICES ASSUME NEW u \in N!Txs, seen'[u] # None
                 PROVE  \/ \E i \in 1..Len(cces') : cces'[i].hash = seen'[u]
                        \/ \E h \in rejected' \cap Groups : N!EventHash(h) = seen'[u]
      BY DEF KnownEmitted
    <3>1. CASE u = t
      <4>1. seen'[u] = c.hash /\ n + 1 \in 1..Len(cces')
        BY <2>1, <2>2, <2>3, <3>1 DEF GuardTypes
      <4> QED
        BY <2>3, <4>1
    <3>2. CASE u # t
      <4>1. seen'[u] = seen[u]
        BY <2>1, <3>2 DEF GuardTypes
      <4>2. CASE \E i \in 1..n : cces[i].hash = seen[u]
        BY <2>3, <4>1, <4>2
      <4> QED
        BY <2>1, <4>1, <4>2 DEF KnownEmitted
    <3> QED
      BY <3>1, <3>2
  <2> QED
    BY <2>5, <2>6, <2>7
<1>4. CASE N!Emit(g, FALSE)
  <2>1. /\ seen' = [seen EXCEPT ![t] = N!EventHash(g)] /\ cces' = cces
        /\ deadLetters' = deadLetters /\ rejected' = rejected \cup {g}
    BY <1>4 DEF N!Emit
  <2>2. N!DeadLettered' = N!DeadLettered
    BY <2>1 DEF N!DeadLettered, N!RecordsOf
  <2>3. \A q : Settled(q) => Settled(q)'
    BY <2>1, <2>2, SettledStays
  <2>4. ASSUME NEW q \in N!RecordsOf(g) PROVE Settled(q)'
    <3>1. PICK i \in 1..Len(g) : q = g[i]
      BY RecordOfGroup
    <3>2. Rejected(q)'
      BY <2>1, <3>1 DEF Rejected
    <3> QED
      BY <3>2 DEF Settled
  <2>5. KnownEmitted'
    <3> SUFFICES ASSUME NEW u \in N!Txs, seen'[u] # None
                 PROVE  \/ \E i \in 1..Len(cces') : cces'[i].hash = seen'[u]
                        \/ \E h \in rejected' \cap Groups : N!EventHash(h) = seen'[u]
      BY DEF KnownEmitted
    <3>1. CASE u = t
      <4>1. seen'[u] = N!EventHash(g) /\ g \in rejected' \cap Groups
        BY <2>1, <3>1 DEF GuardTypes
      <4> QED
        BY <4>1
    <3>2. CASE u # t
      <4>1. seen'[u] = seen[u]
        BY <2>1, <3>2 DEF GuardTypes
      <4> QED
        BY <2>1, <4>1 DEF KnownEmitted
    <3> QED
      BY <3>1, <3>2
  <2> QED
    BY <2>3, <2>4, <2>5
<1>5. N!Settle(g) \/ N!Emit(g, TRUE) \/ N!Emit(g, FALSE)
  <2>1. ASSUME NEW o \in N!Outcomes, N!Emit(g, o = "ok")
        PROVE  N!Emit(g, TRUE) \/ N!Emit(g, FALSE)
    <3>1. CASE o = "ok"
      BY <2>1, <3>1 DEF N!Emit
    <3>2. CASE o # "ok"
      BY <2>1, <3>2 DEF N!Emit
    <3> QED
      BY <3>1, <3>2
  <2> QED
    BY <2>1 DEF FinalizedOne
<1> QED
  BY <1>2, <1>3, <1>4, <1>5

\* Of the groups process() has to finalize, the first is settled and the others wait.
LEMMA FirstOfMany ==
  ASSUME NEW gs \in Seq(Groups), gs # <<>>, N!FinalizeFirst(gs), NEW i \in 1..Len(gs),
         NEW q \in N!RecordsOf(gs[i])
  PROVE  q \in N!RecordsOf(Head(gs)) \/ q \in N!Held'
<1>1. pending' = Tail(gs)
  BY FinalizesFirst
<1>2. CASE i = 1
  BY <1>2
<1>3. CASE i # 1
  <2>1. i - 1 \in 1..Len(pending') /\ pending'[i - 1] = gs[i]
    BY <1>1, <1>3
  <2>2. q \in N!RecordsOf(pending'[i - 1])
    BY <2>1
  <2> QED
    BY <2>1, <2>2, HeldRecords
<1> QED
  BY <1>2, <1>3

LEMMA KeptAsItIs ==
  ASSUME UNCHANGED <<group, pending, deadLetters, cces, rejected>>, NEW q, Kept(q)
  PROVE  Kept(q)'
<1>1. N!DeadLettered' = N!DeadLettered
  BY DEF N!DeadLettered, N!RecordsOf
<1>2. N!Emitted(q.entry)' <=> N!Emitted(q.entry)
  BY DEF N!Emitted, N!Carries
<1>3. q \in N!Held' <=> q \in N!Held
  BY HeldRecords
<1>4. Rejected(q)' <=> Rejected(q)
  BY DEF Rejected
<1>5. q.entry \in N!Unnameable' <=> q.entry \in N!Unnameable
  BY DEF N!Unnameable
<1> QED
  BY <1>1, <1>2, <1>3, <1>4, <1>5 DEF Kept, Settled

\* process() loses neither what was grouped nor, unnamed, the record it takes.
LEMMA ProcessKeeps ==
  ASSUME LoopTypes, GuardTypes, KnownEmitted, N!Process, NEW r \in Records,
         r = captured[position + 1], NEW q, Kept(q) \/ q = r
  PROVE  Kept(q)' /\ KnownEmitted'
<1> DEFINE e == r.entry
           done == N!Completed(e, r)
<1>1. await = "none" /\ pending = <<>> /\ UNCHANGED incarnation
  BY DEF N!Process, LoopTypes
<1>2. q \in N!Held => q \in N!RecordsOf(group)
  BY <1>1, HeldRecords
<1>3. CASE e \in Unmappable
  <2>1. N!DeadLetter(<<r>>) /\ UNCHANGED <<group, pending, cces, seen, rejected>>
    BY <1>3 DEF N!Process, N!guard
  <2>2. N!DeadLettered \subseteq N!DeadLettered' /\ N!RecordsOf(<<r>>) \subseteq N!DeadLettered'
    BY <2>1, DeadLettersGrow
  <2>3. r \in N!RecordsOf(<<r>>)
    <3>1. 1 \in 1..Len(<<r>>) /\ <<r>>[1] = r
      OBVIOUS
    <3> QED
      BY <3>1, RecordOfGroup
  <2>4. q \in N!Held => q \in N!Held'
    BY <2>1, HeldRecords
  <2>5. Settled(q) => Settled(q)'
    BY <2>1, <2>2, SettledStays
  <2>6. KnownEmitted'
    BY <2>1 DEF KnownEmitted
  <2> QED
    BY <2>2, <2>3, <2>4, <2>5, <2>6 DEF Kept, Settled
<1>4. CASE e \in N!Unnameable \ Unmappable
  <2>1. UNCHANGED <<group, pending, cces, seen, deadLetters, rejected>>
    BY <1>4 DEF N!Process, N!guard
  <2>2. Kept(r)
    BY <1>4 DEF Kept, Settled
  <2> QED
    BY <2>1, <2>2, KeptAsItIs DEF KnownEmitted
<1>5. CASE e \notin N!Unnameable \cup Unmappable
  <2>1. group' = GroupAfter(r, done)
    BY <1>5 DEF N!Process, GroupAfter
  <2>2. PICK gs, next : gs = done /\ next = group'
    OBVIOUS
  <2>3. /\ gs \in Seq(Groups)
        /\ \A p \in N!RecordsOf(group) \cup {r} :
             p \in N!RecordsOf(group') \/ \E i \in 1..Len(gs) : p \in N!RecordsOf(gs[i])
    <3>1. group \in Seq(Records) /\ gs = N!Completed(r.entry, r)
      BY <2>2 DEF LoopTypes
    <3>2. next = GroupAfter(r, gs)
      BY <2>1, <2>2
    <3> HIDE DEF done, e
    <3>3. Regroups(r, gs, next)
      BY <3>1, <3>2, CompletedGroups
    <3> QED
      BY <2>2, <3>3 DEF Regroups
  <2>4. IF gs = <<>> THEN UNCHANGED <<pending, seen, cces, deadLetters, rejected>>
                      ELSE N!FinalizeFirst(gs)
    BY <1>5, <2>2 DEF N!Process, N!guard
  <2> HIDE DEF done
  <2>5. CASE gs = <<>>
    <3>1. UNCHANGED <<pending, seen, cces, deadLetters, rejected>> /\ Len(gs) = 0
      BY <2>4, <2>5
    <3>2. q \in N!Held \/ q = r => q \in N!Held'
      BY <1>2, <2>3, <3>1, HeldRecords
    <3>3. N!DeadLettered' = N!DeadLettered
      BY <3>1 DEF N!DeadLettered, N!RecordsOf
    <3>4. Settled(q) => Settled(q)'
      BY <3>1, <3>3, SettledStays
    <3>5. KnownEmitted'
      BY <3>1 DEF KnownEmitted
    <3> QED
      BY <3>2, <3>4, <3>5 DEF Kept
  <2>6. CASE gs # <<>>
    <3>1. N!FinalizeFirst(gs) /\ Head(gs) \in Groups /\ FinalizedOne(Head(gs))
      BY <2>3, <2>4, <2>6, FinalizesFirst
    <3>2. /\ \A p \in N!RecordsOf(Head(gs)) : Settled(p)'
          /\ \A p : Settled(p) => Settled(p)'
          /\ KnownEmitted'
      <4>1. PICK g \in Groups : g = Head(gs)
        BY <3>1
      <4> QED
        BY <1>1, <3>1, <4>1, FinalizedRecords
    <3>3. ASSUME q \in N!Held \/ q = r PROVE q \in N!Held' \/ Settled(q)'
      <4>1. CASE q \in N!RecordsOf(group')
        BY <4>1, HeldRecords
      <4>2. CASE \E i \in 1..Len(gs) : q \in N!RecordsOf(gs[i])
        BY <2>3, <2>6, <3>1, <3>2, <4>2, FirstOfMany
      <4> QED
        BY <1>2, <2>3, <3>3, <4>1, <4>2
    <3> QED
      BY <3>2, <3>3 DEF Kept
  <2> QED
    BY <2>5, <2>6
<1> QED
  BY <1>3, <1>4, <1>5

\* An answer lets process() go on with the next group; a rejection names the groups that
\* it leaves behind.
LEMMA AnsweredKeeps ==
  ASSUME LoopTypes, GuardTypes, KnownEmitted, N!Answered
  PROVE  KnownEmitted' /\ \A q : Kept(q) => Kept(q)'
<1>1. UNCHANGED <<group, incarnation>>
  BY DEF N!Answered
<1>2. CASE await = "failed" \/ pending = <<>>
  <2>1. /\ UNCHANGED <<group, deadLetters, cces, seen>>
        /\ rejected' = rejected \cup {pending[i] : i \in 1..Len(pending)}
    BY <1>2 DEF N!Answered, N!guard
  <2>2. N!DeadLettered' = N!DeadLettered
    BY <2>1 DEF N!DeadLettered, N!RecordsOf
  <2>3. \A q : Settled(q) => Settled(q)'
    BY <2>1, <2>2, SettledStays
  <2>4. ASSUME NEW q, q \in N!Held PROVE q \in N!Held' \/ Settled(q)'
    <3>1. CASE q \in N!RecordsOf(group)
      BY <2>1, <3>1, HeldRecords
    <3>2. CASE \E i \in 1..Len(pending) : q \in N!RecordsOf(pending[i])
      <4>1. PICK i \in 1..Len(pending) : q \in N!RecordsOf(pending[i])
        BY <3>2
      <4>2. PICK g : g = pending[i]
        OBVIOUS
      <4>3. PICK j \in 1..Len(g) : q = g[j]
        BY <4>1, <4>2, RecordOfGroup
      <4>4. g \in rejected'
        BY <2>1, <4>2
      <4>5. Rejected(q)'
        BY <4>3, <4>4 DEF Rejected
      <4> QED
        BY <4>5 DEF Settled
    <3> QED
      BY <2>4, <3>1, <3>2, HeldRecords
  <2>5. KnownEmitted'
    BY <2>1 DEF KnownEmitted
  <2> QED
    BY <2>3, <2>4, <2>5 DEF Kept
<1>3. CASE ~(await = "failed" \/ pending = <<>>)
  <2>1. PICK gs : gs = pending
    OBVIOUS
  <2>2. gs \in Seq(Groups) /\ gs # <<>> /\ N!FinalizeFirst(gs)
    BY <1>1, <1>3, <2>1 DEF N!Answered, LoopTypes
  <2>3. PICK g \in Groups : g = Head(gs) /\ FinalizedOne(g)
    BY <2>2, FinalizesFirst
  <2>4. /\ \A p \in N!RecordsOf(g) : Settled(p)'
        /\ \A p : Settled(p) => Settled(p)'
        /\ KnownEmitted'
    BY <1>1, <2>3, FinalizedRecords
  <2>5. ASSUME NEW q, q \in N!Held PROVE q \in N!Held' \/ Settled(q)'
    <3>1. CASE q \in N!RecordsOf(group)
      BY <1>1, <3>1, HeldRecords
    <3>2. CASE \E i \in 1..Len(gs) : q \in N!RecordsOf(gs[i])
      BY <2>2, <2>3, <2>4, <3>2, FirstOfMany
    <3> QED
      BY <2>1, <2>5, <3>1, <3>2, HeldRecords
  <2> QED
    BY <2>4, <2>5 DEF Kept
<1> QED
  BY <1>2, <1>3

LEMMA FlushKeeps ==
  ASSUME LoopTypes, GuardTypes, KnownEmitted, N!Flush
  PROVE  KnownEmitted' /\ \A q : Kept(q) => Kept(q)'
<1>1. /\ group \in Groups /\ FinalizedOne(group)
      /\ UNCHANGED <<pending, incarnation>>
  BY DEF N!Flush, LoopTypes, FinalizedOne, Groups
<1>2. PICK g \in Groups : g = group /\ FinalizedOne(g)
  BY <1>1
<1>3. /\ \A p \in N!RecordsOf(g) : Settled(p)'
      /\ \A p : Settled(p) => Settled(p)'
      /\ KnownEmitted'
  BY <1>1, <1>2, FinalizedRecords
<1>4. \A q : q \in N!Held => q \in N!Held' \/ Settled(q)'
  BY <1>1, <1>2, <1>3, HeldRecords
<1> QED
  BY <1>3, <1>4 DEF Kept

\* LossesNamed, record by record.
TakenKept == \A n \in taken : \A q : q = captured[n] => Kept(q)

LEMMA EachTakenKept == (LossesNamed <=> TakenKept) /\ (LossesNamed' <=> TakenKept')
<1>1. LossesNamed <=> TakenKept
  BY DEF LossesNamed, N!LossesNamed, TakenKept, Kept, Settled, Rejected,
         N!AccountedFor
<1>2. LossesNamed' <=> TakenKept'
  BY DEF LossesNamed, N!LossesNamed, N!Emitted, N!Carries, N!Unnameable, TakenKept, Kept, Settled, Rejected,
         N!AccountedFor
<1> QED
  BY <1>1, <1>2

LossInv == GuardTypes /\ KnownEmitted /\ LossesNamed

LEMMA LossInvKept ==
  ASSUME CollectorTypes, LoopTypes, LossInv, N!NormalizerNext, UNCHANGED captured, GuardTypes'
  PROVE  LossInv'
<1>1. GuardTypes /\ KnownEmitted /\ TakenKept
  BY EachTakenKept DEF LossInv
<1>2. GuardTypes /\ KnownEmitted /\ \A n \in taken : Kept(captured[n])
  BY <1>1 DEF TakenKept
<1>3. SUFFICES /\ KnownEmitted'
               /\ \A n \in taken' : \A q : q = captured[n] => Kept(q)'
  BY EachTakenKept DEF LossInv, TakenKept
<1>4. CASE N!Read \/ N!MissRecords
  <2>1. UNCHANGED <<taken, group, pending, deadLetters, cces, seen, rejected>>
    BY <1>4 DEF N!Read, N!MissRecords, N!guard
  <2> QED
    BY <1>2, <2>1, KeptAsItIs DEF KnownEmitted
<1>5. CASE N!Process
  <2>1. position < batchEnd /\ taken' = taken \cup {position + 1}
    BY <1>5 DEF N!Process
  <2>2. PICK r \in Records : r = captured[position + 1]
    BY <2>1, NextRecord
  <2>3. \A q : Kept(q) \/ q = r => Kept(q)' /\ KnownEmitted'
    BY <1>2, <1>5, <2>2, ProcessKeeps
  <2> QED
    BY <1>2, <2>1, <2>2, <2>3
<1>6. CASE N!Answered
  <2>1. taken' = taken
    BY <1>6 DEF N!Answered, N!intake
  <2>2. KnownEmitted' /\ \A q : Kept(q) => Kept(q)'
    BY <1>2, <1>6, AnsweredKeeps
  <2> QED
    BY <1>2, <2>1, <2>2
<1>7. CASE N!Flush
  <2>1. taken' = taken
    BY <1>7 DEF N!Flush, N!intake
  <2>2. KnownEmitted' /\ \A q : Kept(q) => Kept(q)'
    BY <1>2, <1>7, FlushKeeps
  <2> QED
    BY <1>2, <2>1, <2>2
<1>8. CASE N!RestartNormalizer
  <2>1. taken' = {} /\ \A t \in N!Txs : seen'[t] = None
    BY <1>2, <1>8, RestartedGuard DEF N!RestartNormalizer
  <2> QED
    BY <2>1 DEF KnownEmitted
<1> QED
  BY <1>4, <1>5, <1>6, <1>7, <1>8 DEF N!NormalizerNext, N!MainLoop

\* No event loss but two: every record the process took is still held, is carried by a
\* change event, is in the dead letter queue, has a key that names no snapshot identity,
\* or was in a group whose emit was rejected, wherever the flush timer and the answers to
\* its emits fall (normalizer.ts, transaction-accumulator.ts, main.ts).
THEOREM TakenIsAccountedFor == Spec => []LossesNamed
<1> DEFINE Inv == CollectorTypes /\ LoopTypes /\ LossInv
<1>1. Init => Inv
  BY NormalizerStart DEF OnceInv, LossInv
<1>2. Inv /\ [Next]_vars => Inv'
  <2> SUFFICES ASSUME Inv, [Next]_vars PROVE Inv'
    OBVIOUS
  <2>1. /\ CollectorTypes' /\ LoopTypes'
        /\ \/ GuardLeft /\ UNCHANGED incarnation
           \/ \E g \in Groups : FinalizedOne(g) /\ UNCHANGED incarnation
           \/ N!RestartNormalizer
    BY StepOfBoth
  <2>2. GuardTypes'
    <3>1. CASE GuardLeft /\ UNCHANGED incarnation
      BY <3>1 DEF GuardLeft, LossInv, GuardTypes
    <3> QED
      BY <2>1, <3>1, GuardTypesKept, RestartedGuard DEF LossInv
  <2>3. CASE (CollectorNext \/ UNCHANGED cvars) /\ UNCHANGED normalizer
    <3>1. \A n \in 1..Len(captured) : captured'[n] = captured[n]
      BY <2>3, BusGrows
    <3>2. UNCHANGED <<taken, group, pending, deadLetters, cces, seen, rejected>>
      BY <2>3 DEF normalizer
    <3>3. Len(captured) \in Nat
      BY DEF CollectorTypes
    <3>4. \A n \in taken : n \in 1..Len(captured)
      BY <3>3 DEF LoopTypes
    <3>5. ASSUME NEW n \in taken, NEW q, q = captured'[n] PROVE Kept(q)'
      <4>1. q = captured[n]
        BY <3>1, <3>4, <3>5
      <4>2. Kept(q)
        BY <4>1, EachTakenKept DEF LossInv, TakenKept
      <4> QED
        BY <3>2, <4>2, KeptAsItIs
    <3>6. LossesNamed'
      BY <3>2, <3>5, EachTakenKept DEF TakenKept
    <3> QED
      BY <2>1, <2>2, <3>2, <3>6 DEF LossInv, KnownEmitted
  <2>4. CASE N!NormalizerNext /\ UNCHANGED cvars
    BY <2>1, <2>2, <2>4, LossInvKept DEF cvars
  <2> QED
    BY <2>3, <2>4 DEF Next, vars
<1>3. Inv => LossesNamed
  BY DEF LossInv
<1> HIDE DEF Inv
<1> QED
  BY <1>1, <1>2, <1>3, PTL DEF Spec
=============================================================================
