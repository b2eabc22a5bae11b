------------------------ MODULE EvidenceWriterProofs ------------------------
(***************************************************************************)
(* Theorems about EvidenceWriter, for any databases, events, caps, number  *)
(* of overlapping sweeps, faults and restarts.                             *)
(***************************************************************************)
EXTENDS EvidenceWriter, FiniteSetTheorems, SequenceTheorems, TLAPS

Working == {"object", "manifest", "sign", "anchor", "record"}

\* A call that works on a segment has its manifest, and while it puts objects
\* at least one is left to put.
CallsOK ==
  \A t \in Calls :
    /\ phase[t] \in Working => man[t] \in Manifest
    /\ phase[t] = "object" => written[t] < Len(man[t].objs)

TypeInv == TypeOK /\ CallsOK

-----------------------------------------------------------------------------
(* Lemmas about the operators.                                             *)

\* Placing an event into an ordered buffer gives a non-empty buffer.
LEMMA InsertAtType ==
  ASSUME NEW s \in Seq(Cces), NEW c \in Cces, NEW k \in 0..Len(s)
  PROVE  InsertAt(s, k, c) \in Objects
<1> DEFINE front == SubSeq(s, 1, k)
           back  == SubSeq(s, k + 1, Len(s))
<1>1. front \in Seq(Cces) /\ back \in Seq(Cces) /\ <<c>> \in Seq(Cces)
  BY SubSeqProperties
<1>2. front \o <<c>> \in Seq(Cces) /\ Len(front \o <<c>>) = Len(front) + 1
  BY <1>1, ConcatProperties
<1>3. /\ (front \o <<c>>) \o back \in Seq(Cces)
      /\ Len((front \o <<c>>) \o back) = Len(front) + 1 + Len(back)
  BY <1>1, <1>2, ConcatProperties
<1>4. (front \o <<c>>) \o back # <<>>
  BY <1>1, <1>3
<1> QED
  BY <1>3, <1>4 DEF InsertAt, Objects

\* The hashes derived from a manifest have the types of hashes.
LEMMA HashTypes ==
  ASSUME NEW m \in Manifest, NEW i \in 1..Len(m.objs)
  PROVE  /\ SegmentHash(m) \in SegHash
         /\ LastRow(m) \in Row
         /\ ObjectAt(m, i) \in Object
<1>1. m.objs \in Seq(Cces) /\ m.boundary \in Seq(Cces) /\ m.link \in Seq(Seq(Cces))
  BY DEF Manifest, Objects, Row, SegHash
<1>2. SubSeq(m.objs, 1, i - 1) \in Seq(Cces)
  BY <1>1, SubSeqProperties
<1>3. m.boundary \o SubSeq(m.objs, 1, i - 1) \in Seq(Cces)
  BY <1>1, <1>2, ConcatProperties
<1> QED
  BY <1>1, <1>3, ConcatProperties
  DEF SegmentHash, LastRow, ObjectAt, RowBefore, Object, Manifest, Row, SegHash

\* What verifyCrossSegment lets through is built into a well-formed manifest.
LEMMA BuildManifestType ==
  ASSUME NEW seg \in SealReady, NEW prev \in Manifest \cup {None},
         Verified(seg, prev)
  PROVE  BuildManifest(seg, prev) \in Manifest
<1>1. CASE seg.seq = 0
  BY <1>1 DEF BuildManifest, SealReady, Manifest, Row, SegHash
<1>2. CASE seg.seq # 0
  <2>1. prev \in Manifest
    BY <1>2 DEF Verified
  <2>2. 1 \in 1..Len(prev.objs)
    BY <2>1 DEF Manifest, Objects
  <2>3. SegmentHash(prev) \in SegHash /\ LastRow(prev) \in Row
    BY <2>1, <2>2, HashTypes
  <2> QED
    BY <1>2, <2>3 DEF BuildManifest, SealReady, Manifest
<1> QED
  BY <1>1, <1>2

\* Starting on the first of the seal-ready segments preserves the types.
LEMMA BeginSealType ==
  ASSUME TypeInv, NEW t \in Calls, NEW q \in Seq(SealReady), BeginSeal(t, q)
  PROVE  /\ phase' \in [Calls -> Phase]
         /\ queue' \in [Calls -> Seq(SealReady)]
         /\ man' \in [Calls -> Manifest \cup {None}]
         /\ written' \in [Calls -> Nat]
         /\ alarms' \subseteq Alarm
         /\ CallsOK'
<1> USE DEF TypeInv, TypeOK
<1>1. CASE q = <<>>
  <2>1. /\ queue' = [queue EXCEPT ![t] = <<>>]
        /\ written' = [written EXCEPT ![t] = 0]
        /\ man' = [man EXCEPT ![t] = None]
        /\ phase' = [phase EXCEPT ![t] = "idle"]
        /\ alarms' = alarms
    BY <1>1 DEF BeginSeal
  <2>2. CallsOK'
    BY <2>1 DEF CallsOK, Working
  <2> QED
    BY <2>1, <2>2 DEF Phase
<1>2. CASE q # <<>>
  <2>1. Head(q) \in SealReady /\ Tail(q) \in Seq(SealReady)
    BY <1>2, HeadTailProperties
  <2>2. CASE Sealable(Head(q), previous)
    <3> DEFINE m == BuildManifest(Head(q), previous)
    <3>1. m \in Manifest
      BY <2>1, <2>2, BuildManifestType DEF Sealable
    <3>2. Len(m.objs) > 0
      BY <3>1 DEF Manifest, Objects
    <3>3. /\ queue' = [queue EXCEPT ![t] = Tail(q)]
          /\ written' = [written EXCEPT ![t] = 0]
          /\ man' = [man EXCEPT ![t] = m]
          /\ phase' = [phase EXCEPT ![t] = "object"]
          /\ alarms' = alarms
      BY <1>2, <2>2 DEF BeginSeal
    <3> HIDE DEF m
    <3>4. CallsOK'
      BY <3>1, <3>2, <3>3 DEF CallsOK, Working
    <3> QED
      BY <2>1, <3>1, <3>3, <3>4 DEF Phase
  <2>3. CASE ~Sealable(Head(q), previous)
    <3>1. /\ queue' = [queue EXCEPT ![t] = Tail(q)]
          /\ written' = [written EXCEPT ![t] = 0]
          /\ man' = [man EXCEPT ![t] = None]
          /\ phase' = [phase EXCEPT ![t] = "next"]
          /\ alarms' = alarms \cup {AlarmFor("VERIFICATION_FAILED", Head(q))}
      BY <1>2, <2>3 DEF BeginSeal
    <3>2. CallsOK'
      BY <3>1 DEF CallsOK, Working
    <3>3. AlarmFor("VERIFICATION_FAILED", Head(q)) \in Alarm
      BY <2>1 DEF AlarmFor, Alarm, SealReady
    <3> QED
      BY <2>1, <3>1, <3>2, <3>3 DEF Phase
  <2> QED
    BY <2>2, <2>3
<1> QED
  BY <1>1, <1>2

\* Accumulating an event: the buffers stay sequences of events, and what is
\* handed to the sealer is never empty.
LEMMA AccumulateType ==
  ASSUME TypeInv, NEW c \in Cces, Accumulate(c)
  PROVE  /\ open' \in [Dbs -> Seq(Cces)]
         /\ aged' \in [Dbs -> BOOLEAN]
         /\ nextSeq' \in [Dbs -> Nat]
         /\ \E q \in Seq(SealReady) : BeginSeal("ingest", q)
<1> DEFINE db      == DbOf[c]
           expired == open[db] # <<>> /\ aged[db]
           first   == IF expired THEN <<OpenSegment(db)>> ELSE <<>>
           seq     == IF expired THEN SequenceAfter(nextSeq[db]) ELSE nextSeq[db]
           buffer  == Buffer(db, expired)
<1>1. db \in Dbs /\ open[db] \in Seq(Cces) /\ nextSeq[db] \in Nat
  BY ConstantsAssumption DEF TypeInv, TypeOK
<1>2. PICK k \in 0..Len(buffer) :
        LET objs == InsertAt(buffer, k, c)
            full == Len(objs) >= MaxEvents
        IN /\ open' = [open EXCEPT ![db] = IF full THEN <<>> ELSE objs]
           /\ aged' = [aged EXCEPT ![db] = FALSE]
           /\ nextSeq' = [nextSeq EXCEPT ![db] =
                            IF full THEN SequenceAfter(seq) ELSE seq]
           /\ BeginSeal("ingest",
                IF full THEN Append(first, Ready(db, seq, objs)) ELSE first)
  BY DEF Accumulate
<1> DEFINE objs == InsertAt(buffer, k, c)
           full == Len(objs) >= MaxEvents
           q    == IF full THEN Append(first, Ready(db, seq, objs)) ELSE first
<1>3. /\ open' = [open EXCEPT ![db] = IF full THEN <<>> ELSE objs]
      /\ aged' = [aged EXCEPT ![db] = FALSE]
      /\ nextSeq' = [nextSeq EXCEPT ![db] = IF full THEN SequenceAfter(seq) ELSE seq]
      /\ BeginSeal("ingest", q)
  BY <1>2
<1>4. buffer \in Seq(Cces)
  BY <1>1 DEF Buffer
<1>5. objs \in Objects
  BY <1>4, InsertAtType
<1>6. seq \in Nat
  BY <1>1 DEF SequenceAfter
<1>7. first \in Seq(SealReady)
  <2>1. CASE expired
    <3>1. OpenSegment(db) \in SealReady
      BY <1>1, <2>1 DEF OpenSegment, Ready, SealReady, Objects
    <3> QED
      BY <2>1, <3>1
  <2> QED
    BY <2>1
<1>8. Ready(db, seq, objs) \in SealReady
  BY <1>1, <1>5, <1>6 DEF Ready, SealReady
<1>9. q \in Seq(SealReady)
  BY <1>7, <1>8, AppendProperties
<1> HIDE DEF q, seq, objs, full
<1>10. open' \in [Dbs -> Seq(Cces)]
  <2>1. objs \in Seq(Cces) /\ <<>> \in Seq(Cces)
    BY <1>5 DEF Objects
  <2>2. open \in [Dbs -> Seq(Cces)]
    BY DEF TypeInv, TypeOK
  <2> QED
    BY <1>3, <2>1, <2>2
<1>11. nextSeq' \in [Dbs -> Nat]
  <2>1. SequenceAfter(seq) \in Nat
    BY <1>6 DEF SequenceAfter
  <2>2. nextSeq \in [Dbs -> Nat]
    BY DEF TypeInv, TypeOK
  <2> QED
    BY <1>3, <1>6, <2>1, <2>2
<1>12. aged' \in [Dbs -> BOOLEAN]
  BY <1>3 DEF TypeInv, TypeOK
<1> QED
  BY <1>3, <1>9, <1>10, <1>11, <1>12

\* A sweep: as for accumulating, over the databases that are due.
LEMMA SweepType ==
  ASSUME TypeInv, NEW t \in Sweeps, Sweep(t)
  PROVE  /\ open' \in [Dbs -> Seq(Cces)]
         /\ aged' \in [Dbs -> BOOLEAN]
         /\ nextSeq' \in [Dbs -> Nat]
         /\ \E q \in Seq(SealReady) : BeginSeal(t, q)
<1> DEFINE due == {db \in Dbs : open[db] # <<>> /\ aged[db]}
           n   == Cardinality(due)
<1>1. /\ open' = [db \in Dbs |-> IF db \in due THEN <<>> ELSE open[db]]
      /\ aged' = [db \in Dbs |-> IF db \in due THEN FALSE ELSE aged[db]]
      /\ nextSeq' = [db \in Dbs |->
           IF db \in due THEN SequenceAfter(nextSeq[db]) ELSE nextSeq[db]]
      /\ \E q \in Orderings(due) :
           BeginSeal(t, [i \in 1..n |-> OpenSegment(q[i])])
  BY DEF Sweep
<1>2. n \in Nat
  <2>1. IsFiniteSet(due)
    BY ConstantsAssumption, FS_Subset
  <2> QED
    BY <2>1, FS_CardinalityType
<1>3. PICK q \in Orderings(due) :
        BeginSeal(t, [i \in 1..n |-> OpenSegment(q[i])])
  BY <1>1
<1>4. \A i \in 1..n : q[i] \in due
  BY <1>3 DEF Orderings
<1>5. \A i \in 1..n : OpenSegment(q[i]) \in SealReady
  BY <1>4 DEF OpenSegment, Ready, SealReady, Objects, TypeInv, TypeOK
<1>6. [i \in 1..n |-> OpenSegment(q[i])] \in Seq(SealReady)
  BY <1>2, <1>5
<1>7. open' \in [Dbs -> Seq(Cces)]
  BY <1>1 DEF TypeInv, TypeOK
<1>8. aged' \in [Dbs -> BOOLEAN]
  BY <1>1, Zenon DEF TypeInv, TypeOK
<1>9. nextSeq' \in [Dbs -> Nat]
  BY <1>1 DEF TypeInv, TypeOK, SequenceAfter
<1> QED
  BY <1>3, <1>6, <1>7, <1>8, <1>9

-----------------------------------------------------------------------------
(* Type correctness.                                                       *)

\* Initially no call works on anything.
LEMMA TypeInit == Init => TypeInv
<1> SUFFICES ASSUME Init PROVE TypeInv
  OBVIOUS
<1>1. TypeOK
  BY ConstantsAssumption DEF Init, TypeOK, Phase
<1>2. CallsOK
  BY DEF Init, CallsOK, Working
<1> QED
  BY <1>1, <1>2 DEF TypeInv

\* An abandoned call is idle and holds nothing.
LEMMA AbortType ==
  ASSUME TypeInv, NEW t \in Calls, Abort(t)
  PROVE  /\ phase' \in [Calls -> Phase]
         /\ queue' \in [Calls -> Seq(SealReady)]
         /\ man' \in [Calls -> Manifest \cup {None}]
         /\ written' \in [Calls -> Nat]
<1> USE DEF TypeInv, TypeOK, Abort
<1>1. phase' \in [Calls -> Phase]
  BY DEF Phase
<1>2. queue' \in [Calls -> Seq(SealReady)]
  OBVIOUS
<1>3. man' \in [Calls -> Manifest \cup {None}]
  OBVIOUS
<1>4. written' \in [Calls -> Nat]
  OBVIOUS
<1> QED
  BY <1>1, <1>2, <1>3, <1>4

\* A call that is suspended in a put, the signer or the provider goes on, fails
\* or is abandoned.
LEMMA TypeContinue ==
  ASSUME TypeInv, NEW t \in Calls, Continue(t)
  PROVE  TypeInv'
<1> USE DEF TypeInv, TypeOK
<1>1. CASE PutObject(t)
  <2> DEFINE i   == written[t] + 1
             obj == ObjectAt(man[t], i)
  <2>1. /\ man[t] \in Manifest
        /\ i \in 1..Len(man[t].objs)
        /\ i \in Nat
    BY <1>1 DEF PutObject, CallsOK, Working, Manifest, Objects
  <2>2. obj \in Object
    BY <2>1, HashTypes
  <2>3. obj.cce \in Cces /\ AlarmFor("SEAL_WRITE_FAILED", man[t]) \in Alarm
    BY <2>1, <2>2 DEF Object, AlarmFor, Alarm, Manifest
  <2>4. CASE /\ objects' = objects \cup {obj}
             /\ written' = [written EXCEPT ![t] = i]
             /\ phase' = [phase EXCEPT ![t] = AfterObject(t, i)]
             /\ UNCHANGED <<queue, man, dlq, alarms>>
    <3>1. AfterObject(t, i) \in Phase /\ AfterObject(t, i) \in Working
      BY DEF AfterObject, Phase, Working
    <3>2. AfterObject(t, i) = "object" => i < Len(man[t].objs)
      BY <2>1 DEF AfterObject, Manifest, Objects
    <3>3. CallsOK'
      BY <2>1, <2>4, <3>1, <3>2 DEF CallsOK, Working
    <3>4. objects' \subseteq Object
      BY <2>2, <2>4
    <3>5. phase' \in [Calls -> Phase] /\ written' \in [Calls -> Nat]
      BY <2>1, <2>4, <3>1
    <3> HIDE DEF i, obj
    <3> QED
      BY <1>1, <2>4, <3>3, <3>4, <3>5 DEF PutObject, stream, acc
  <2>5. CASE /\ objects' \in {objects, objects \cup {obj}}
             /\ dlq' = dlq \cup {obj.cce}
             /\ WriteFailed(t)
    <3>1. CallsOK'
      BY <2>5 DEF WriteFailed, MoveTo, CallsOK, Working
    <3>2. objects' \subseteq Object /\ dlq' \subseteq Cces
      BY <2>2, <2>3, <2>5
    <3>3. phase' \in [Calls -> Phase] /\ alarms' \subseteq Alarm
      BY <2>3, <2>5 DEF WriteFailed, MoveTo, Phase
    <3> HIDE DEF i, obj
    <3> QED
      BY <1>1, <2>5, <3>1, <3>2, <3>3 DEF PutObject, WriteFailed, MoveTo, stream, acc
  <2> QED
    BY <1>1, <2>4, <2>5 DEF PutObject, MoveTo
<1>2. CASE PutManifest(t)
  <2>1. man[t] \in Manifest /\ AlarmFor("SEAL_WRITE_FAILED", man[t]) \in Alarm
    BY <1>2 DEF PutManifest, CallsOK, Working, AlarmFor, Alarm, Manifest
  <2>2. manifests' \subseteq Manifest /\ own' \subseteq Manifest
    BY <1>2, <2>1 DEF PutManifest
  <2>3. alarms' \subseteq Alarm /\ phase' \in [Calls -> Phase]
    BY <1>2, <2>1 DEF PutManifest, WriteFailed, MoveTo, Phase
  <2>4. UNCHANGED <<queue, man, written, stream, acc, previous, objects, anchors, dlq>>
    BY <1>2 DEF PutManifest, WriteFailed, MoveTo
  <2>5. CallsOK'
    BY <1>2, <2>1, <2>4 DEF PutManifest, WriteFailed, MoveTo, CallsOK, Working
  <2> QED
    BY <2>2, <2>3, <2>4, <2>5 DEF stream, acc
<1>3. CASE Sign(t)
  <2>1. man[t] \in Manifest
    BY <1>3 DEF Sign, CallsOK, Working
  <2>2. CallsOK'
    BY <1>3, <2>1 DEF Sign, MoveTo, Abort, CallsOK, Working
  <2>3. /\ phase' \in [Calls -> Phase]
        /\ queue' \in [Calls -> Seq(SealReady)]
        /\ man' \in [Calls -> Manifest \cup {None}]
        /\ written' \in [Calls -> Nat]
    <3>1. CASE MoveTo(t, "anchor") /\ UNCHANGED written
      BY <3>1 DEF MoveTo, Phase
    <3>2. CASE Abort(t)
      BY <3>2, AbortType
    <3> QED
      BY <1>3, <3>1, <3>2 DEF Sign
  <2> QED
    BY <1>3, <2>2, <2>3 DEF Sign, stream, acc, worm
<1>4. CASE TokenVerified(t)
  <2>1. CallsOK'
    BY <1>4 DEF TokenVerified, MoveTo, CallsOK, Working
  <2>2. phase' \in [Calls -> Phase]
    BY <1>4 DEF TokenVerified, MoveTo, Phase
  <2> QED
    BY <1>4, <2>1, <2>2 DEF TokenVerified, MoveTo, stream, acc, worm
<1>5. CASE NoToken(t)
  <2>1. man[t] \in Manifest
    BY <1>5 DEF NoToken, CallsOK, Working
  <2>2. CallsOK'
    BY <1>5 DEF NoToken, Finish, MoveTo, CallsOK, Working
  <2>3. phase' \in [Calls -> Phase] /\ previous' \in Manifest
    BY <1>5, <2>1 DEF NoToken, Finish, MoveTo, Phase
  <2> QED
    BY <1>5, <2>2, <2>3 DEF NoToken, Finish, MoveTo, stream, acc, worm
<1>6. CASE PutAnchor(t)
  <2> DEFINE rec == [db |-> OwnDb, seq |-> man[t].seq, head |-> man[t]]
  <2>1. man[t] \in Manifest
    BY <1>6 DEF PutAnchor, CallsOK, Working
  <2>2. rec \in Anchor
    BY <2>1, ConstantsAssumption DEF Anchor, Manifest
  <2>3. CallsOK'
    BY <1>6, <2>1 DEF PutAnchor, Finish, MoveTo, Abort, CallsOK, Working
  <2>4. anchors' \subseteq Anchor
    BY <1>6, <2>2 DEF PutAnchor
  <2>5. /\ phase' \in [Calls -> Phase]
        /\ queue' \in [Calls -> Seq(SealReady)]
        /\ man' \in [Calls -> Manifest \cup {None}]
        /\ written' \in [Calls -> Nat]
        /\ previous' \in Manifest \cup {None}
    <3>1. CASE Finish(t)
      BY <2>1, <3>1 DEF Finish, MoveTo, Phase
    <3>2. CASE Abort(t) /\ UNCHANGED previous
      BY <3>2, AbortType
    <3> QED
      BY <1>6, <3>1, <3>2 DEF PutAnchor
  <2> QED
    BY <1>6, <2>3, <2>4, <2>5 DEF PutAnchor, stream, acc
<1>7. CASE NextSegment(t)
  <2>1. queue[t] \in Seq(SealReady)
    OBVIOUS
  <2> QED
    BY <1>7, <2>1, BeginSealType DEF NextSegment, stream, acc, worm
<1> QED
  BY <1>1, <1>2, <1>3, <1>4, <1>5, <1>6, <1>7 DEF Continue

\* The other steps: the start of a call, and the environment's.
LEMMA TypeStart ==
  ASSUME TypeInv, StartCall
  PROVE  TypeInv'
<1> USE DEF TypeInv, TypeOK
<1>1. ASSUME NEW c \in Cces, Ingest(c)
      PROVE  TypeInv'
  <2>1. /\ bus' \subseteq Cces /\ ingested' \subseteq Cces
        /\ status' \in {"detached", "attached", "stopping"}
        /\ UNCHANGED <<restarts, previous, objects, manifests, anchors, own, dlq>>
    BY <1>1 DEF Ingest, worm
  <2>2. CASE c \in Malformed
    <3>1. UNCHANGED <<open, aged, nextSeq, phase, queue, man, written, alarms>>
      BY <1>1, <2>2 DEF Ingest, acc, calls
    <3>2. CallsOK'
      BY <3>1 DEF CallsOK
    <3> QED
      BY <2>1, <3>1, <3>2
  <2>3. CASE c \notin Malformed
    <3>1. Accumulate(c)
      BY <1>1, <2>3 DEF Ingest
    <3>2. /\ open' \in [Dbs -> Seq(Cces)]
          /\ aged' \in [Dbs -> BOOLEAN]
          /\ nextSeq' \in [Dbs -> Nat]
          /\ \E q \in Seq(SealReady) : BeginSeal("ingest", q)
      BY <3>1, AccumulateType
    <3>3. "ingest" \in Calls
      BY DEF Calls
    <3>4. /\ phase' \in [Calls -> Phase]
          /\ queue' \in [Calls -> Seq(SealReady)]
          /\ man' \in [Calls -> Manifest \cup {None}]
          /\ written' \in [Calls -> Nat]
          /\ alarms' \subseteq Alarm
          /\ CallsOK'
      BY <3>2, <3>3, BeginSealType
    <3> QED
      BY <2>1, <3>2, <3>4
  <2> QED
    BY <2>2, <2>3
<1>2. ASSUME NEW t \in Sweeps, Sweep(t)
      PROVE  TypeInv'
  <2>1. UNCHANGED <<stream, previous, worm, dlq>>
    BY <1>2 DEF Sweep
  <2>2. /\ open' \in [Dbs -> Seq(Cces)]
        /\ aged' \in [Dbs -> BOOLEAN]
        /\ nextSeq' \in [Dbs -> Nat]
        /\ \E q \in Seq(SealReady) : BeginSeal(t, q)
    BY <1>2, SweepType
  <2>3. t \in Calls
    BY DEF Calls
  <2>4. /\ phase' \in [Calls -> Phase]
        /\ queue' \in [Calls -> Seq(SealReady)]
        /\ man' \in [Calls -> Manifest \cup {None}]
        /\ written' \in [Calls -> Nat]
        /\ alarms' \subseteq Alarm
        /\ CallsOK'
    BY <2>2, <2>3, BeginSealType
  <2> QED
    BY <2>1, <2>2, <2>4 DEF stream, worm
<1> QED
  BY <1>1, <1>2 DEF StartCall

LEMMA TypeEnvironment ==
  ASSUME TypeInv, Environment
  PROVE  TypeInv'
<1> USE DEF TypeInv, TypeOK
<1>1. ASSUME NEW c \in Cces, Miss(c) PROVE TypeInv'
  BY <1>1 DEF Miss, acc, calls, worm, CallsOK
<1>2. ASSUME NEW db \in Dbs, Age(db) PROVE TypeInv'
  BY <1>2 DEF Age, stream, calls, worm, CallsOK
<1>3. CASE Stop
  BY <1>3 DEF Stop, acc, calls, worm, CallsOK
<1>4. CASE Restart
  <2>1. restarts' \in 0..MaxRestarts
    BY <1>4, ConstantsAssumption DEF Restart
  <2>2. CallsOK'
    BY <1>4 DEF Restart, CallsOK, Working
  <2>3. /\ open' \in [Dbs -> Seq(Cces)] /\ queue' \in [Calls -> Seq(SealReady)]
        /\ nextSeq' \in [Dbs -> Nat] /\ written' \in [Calls -> Nat]
    BY <1>4 DEF Restart
  <2>4. aged' \in [Dbs -> BOOLEAN] /\ phase' \in [Calls -> Phase]
    BY <1>4 DEF Restart, Phase
  <2> QED
    BY <1>4, <2>1, <2>2, <2>3, <2>4 DEF Restart, worm
<1> QED
  BY <1>1, <1>2, <1>3, <1>4 DEF Environment

LEMMA TypeStep == TypeInv /\ [Next]_vars => TypeInv'
<1> SUFFICES ASSUME TypeInv, [Next]_vars PROVE TypeInv'
  OBVIOUS
<1>1. CASE StartCall
  BY <1>1, TypeStart
<1>2. ASSUME NEW t \in Calls, Continue(t) PROVE TypeInv'
  BY <1>2, TypeContinue
<1>3. CASE Environment
  BY <1>3, TypeEnvironment
<1>4. CASE UNCHANGED vars
  BY <1>4 DEF vars, stream, acc, calls, worm, TypeInv, TypeOK, CallsOK
<1> QED
  BY <1>1, <1>2, <1>3, <1>4 DEF Next

\* The state is always well typed, whatever overlaps, fails or restarts: no
\* step of the sealer indexes past a segment, writes an empty one or works
\* without a manifest.
THEOREM TypeCorrect == Spec => []TypeOK
<1>1. TypeInv => TypeOK
  BY DEF TypeInv
<1> QED
  BY <1>1, TypeInit, TypeStep, PTL DEF Spec

-----------------------------------------------------------------------------
(* What the process has put: ManifestBacked and AnchorBacked.              *)
(*                                                                         *)
(* Neither is inductive.  They hold because #previous is only ever a       *)
(* manifest this process has put, because the manifest a call is putting   *)
(* was built on such a predecessor when the call began and nothing is      *)
(* removed, and because the objects below written[t] are already placed.   *)

Linked(m) == IsGenesis(m) \/ \E p \in own : Follows(m, p)

OwnLinked == \A m \in own : Linked(m)

OwnStored == own \subseteq manifests

PreviousStored == previous # None => previous \in own

CallsLinked ==
  \A t \in Calls : phase[t] \in {"object", "manifest"} => Linked(man[t])

CallsPlaced ==
  \A t \in Calls : phase[t] \in {"object", "manifest"} =>
    \A i \in 1..Len(man[t].objs) :
      phase[t] = "manifest" \/ i <= written[t] => ObjectAt(man[t], i) \in objects

CallsStored ==
  \A t \in Calls : phase[t] \in {"sign", "anchor", "record"} => man[t] \in own

ChainInv ==
  /\ TypeInv
  /\ OwnLinked /\ OwnStored /\ ManifestBacked /\ AnchorBacked
  /\ PreviousStored /\ CallsLinked /\ CallsPlaced /\ CallsStored

\* What the steps of a process may do: what is put only grows.
Grows == objects \subseteq objects' /\ own \subseteq own'

\* A segment verified against #previous is linked to a manifest of the process.
LEMMA VerifiedLinked ==
  ASSUME PreviousStored, NEW seg \in SealReady, Verified(seg, previous)
  PROVE  Linked(BuildManifest(seg, previous))
<1> DEFINE m == BuildManifest(seg, previous)
<1>1. CASE seg.seq = 0
  <2>1. IsGenesis(m)
    BY <1>1 DEF BuildManifest, IsGenesis
  <2> QED
    BY <2>1 DEF Linked
<1>2. CASE seg.seq # 0
  <2>1. /\ previous \in own
        /\ previous.db = seg.db
        /\ seg.seq = previous.seq + 1
    BY <1>2 DEF Verified, PreviousStored
  <2>2. Follows(m, previous)
    BY <1>2, <2>1 DEF BuildManifest, Follows
  <2> QED
    BY <2>1, <2>2 DEF Linked
<1> QED
  BY <1>1, <1>2

\* The other calls keep what they hold while the store grows.
LEMMA OthersKept ==
  ASSUME ChainInv, NEW t \in Calls, Grows,
         \A u \in Calls : u # t =>
           phase'[u] = phase[u] /\ man'[u] = man[u] /\ written'[u] = written[u]
  PROVE  \A u \in Calls : u # t =>
           /\ phase'[u] \in {"object", "manifest"} => Linked(man[u])'
           /\ phase'[u] \in {"object", "manifest"} =>
                \A i \in 1..Len(man'[u].objs) :
                  phase'[u] = "manifest" \/ i <= written'[u] =>
                    ObjectAt(man'[u], i) \in objects'
           /\ phase'[u] \in {"sign", "anchor", "record"} => man'[u] \in own'
<1> SUFFICES ASSUME NEW u \in Calls, u # t
             PROVE  /\ phase'[u] \in {"object", "manifest"} => Linked(man[u])'
                    /\ phase'[u] \in {"object", "manifest"} =>
                         \A i \in 1..Len(man'[u].objs) :
                           phase'[u] = "manifest" \/ i <= written'[u] =>
                             ObjectAt(man'[u], i) \in objects'
                    /\ phase'[u] \in {"sign", "anchor", "record"} =>
                         man'[u] \in own'
  OBVIOUS
<1>1. phase'[u] \in {"object", "manifest"} => Linked(man[u])'
  BY DEF ChainInv, CallsLinked, Linked, Grows
<1>2. phase'[u] \in {"object", "manifest"} =>
        \A i \in 1..Len(man'[u].objs) :
          phase'[u] = "manifest" \/ i <= written'[u] =>
            ObjectAt(man'[u], i) \in objects'
  BY DEF ChainInv, CallsPlaced, Grows
<1>3. phase'[u] \in {"sign", "anchor", "record"} => man'[u] \in own'
  BY DEF ChainInv, CallsStored, Grows
<1> QED
  BY <1>1, <1>2, <1>3

\* A call that leaves WORM alone and is not in a put or past one afterwards.
LEMMA BeginSealChain ==
  ASSUME ChainInv, NEW t \in Calls, NEW q \in Seq(SealReady), BeginSeal(t, q),
         UNCHANGED <<objects, own>>
  PROVE  CallsLinked' /\ CallsPlaced' /\ CallsStored'
<1>1. \A u \in Calls : u # t =>
        phase'[u] = phase[u] /\ man'[u] = man[u] /\ written'[u] = written[u]
  BY DEF BeginSeal, ChainInv, TypeInv, TypeOK
<1>2. Grows
  BY DEF Grows
<1>3. \/ phase'[t] \in {"idle", "next"}
      \/ /\ phase'[t] = "object" /\ written'[t] = 0
         /\ Linked(man[t])'
  <2>1. CASE q = <<>>
    BY <2>1 DEF BeginSeal, ChainInv, TypeInv, TypeOK
  <2>2. CASE q # <<>> /\ Sealable(Head(q), previous)
    <3> DEFINE m == BuildManifest(Head(q), previous)
    <3>1. Head(q) \in SealReady
      BY <2>2, HeadTailProperties
    <3>2. Linked(m)
      BY <2>2, <3>1, VerifiedLinked DEF ChainInv, Sealable
    <3>3. man'[t] = m /\ phase'[t] = "object" /\ written'[t] = 0
      BY <2>2 DEF BeginSeal, ChainInv, TypeInv, TypeOK
    <3> HIDE DEF m
    <3> QED
      BY <3>2, <3>3 DEF Linked
  <2>3. CASE q # <<>> /\ ~Sealable(Head(q), previous)
    BY <2>3 DEF BeginSeal, ChainInv, TypeInv, TypeOK
  <2> QED
    BY <2>1, <2>2, <2>3
<1>4. CallsLinked'
  BY <1>1, <1>2, <1>3, OthersKept DEF CallsLinked
<1>5. CallsPlaced'
  BY <1>1, <1>2, <1>3, OthersKept DEF CallsPlaced
<1>6. CallsStored'
  BY <1>1, <1>2, <1>3, OthersKept DEF CallsStored
<1> QED
  BY <1>4, <1>5, <1>6

LEMMA ChainInit == Init => ChainInv
  BY TypeInit
  DEF Init, ChainInv, OwnLinked, OwnStored, ManifestBacked, AnchorBacked, PreviousStored,
      CallsLinked, CallsPlaced, CallsStored

\* A step that moves call t on, without touching WORM or #previous, to a phase
\* in which nothing is asked of it.
LEMMA LeavesSealing ==
  ASSUME ChainInv, TypeInv', NEW t \in Calls, Grows,
         UNCHANGED <<manifests, own, anchors, previous>>,
         phase'[t] \in {"idle", "next"},
         \A u \in Calls : u # t =>
           phase'[u] = phase[u] /\ man'[u] = man[u] /\ written'[u] = written[u]
  PROVE  ChainInv'
<1>1. CallsLinked' /\ CallsPlaced' /\ CallsStored'
  BY OthersKept DEF CallsLinked, CallsPlaced, CallsStored
<1>2. OwnLinked' /\ OwnStored' /\ AnchorBacked' /\ PreviousStored'
  BY DEF ChainInv, OwnLinked, OwnStored, Linked, AnchorBacked, PreviousStored
<1>3. ManifestBacked'
  BY DEF ChainInv, ManifestBacked, Grows
<1> QED
  BY <1>1, <1>2, <1>3 DEF ChainInv

\* Putting an object.
LEMMA ChainPutObject ==
  ASSUME ChainInv, TypeInv', NEW t \in Calls, PutObject(t)
  PROVE  ChainInv'
<1> DEFINE i   == written[t] + 1
           obj == ObjectAt(man[t], i)
<1>1. Grows /\ UNCHANGED <<manifests, own, anchors, previous, man>>
  BY DEF Grows, PutObject, WriteFailed, MoveTo
<1>2. \A u \in Calls : u # t =>
        phase'[u] = phase[u] /\ man'[u] = man[u] /\ written'[u] = written[u]
  BY DEF PutObject, WriteFailed, MoveTo, ChainInv, TypeInv, TypeOK
<1>3. CASE WriteFailed(t)
  <2>1. phase'[t] = "next"
    BY <1>3 DEF WriteFailed, MoveTo, ChainInv, TypeInv, TypeOK
  <2> QED
    BY <1>1, <1>2, <2>1, LeavesSealing
<1>4. CASE /\ objects' = objects \cup {obj}
           /\ written' = [written EXCEPT ![t] = i]
           /\ phase' = [phase EXCEPT ![t] = AfterObject(t, i)]
  <2>1. /\ phase[t] = "object" /\ man[t] \in Manifest
        /\ i \in 1..Len(man[t].objs) /\ Len(man[t].objs) \in Nat
    BY DEF PutObject, ChainInv, TypeInv, TypeOK, CallsOK, Working, Manifest, Objects
  <2>2. /\ phase'[t] = AfterObject(t, i) /\ written'[t] = i /\ man'[t] = man[t]
    BY <1>1, <1>4 DEF ChainInv, TypeInv, TypeOK
  <2>3. Linked(man[t])'
    BY <1>1, <2>1 DEF ChainInv, CallsLinked, Linked
  <2>4. \A j \in 1..Len(man[t].objs) : j <= i => ObjectAt(man[t], j) \in objects'
    <3> SUFFICES ASSUME NEW j \in 1..Len(man[t].objs), j <= i
                 PROVE  ObjectAt(man[t], j) \in objects'
      OBVIOUS
    <3>1. CASE j = i
      BY <1>4, <3>1
    <3>2. CASE j <= written[t]
      BY <1>4, <2>1, <3>2 DEF ChainInv, CallsPlaced
    <3>3. j = i \/ j <= written[t]
      BY <2>1 DEF ChainInv, TypeInv, TypeOK
    <3> QED
      BY <3>1, <3>2, <3>3
  <2>5. AfterObject(t, i) = "manifest" => i = Len(man[t].objs)
    BY DEF AfterObject
  <2>6. AfterObject(t, i) \in {"object", "manifest"}
    BY DEF AfterObject
  <2> HIDE DEF i, obj
  <2>7. CallsLinked'
    BY <1>1, <1>2, <2>3, OthersKept DEF CallsLinked
  <2>8. CallsPlaced'
    <3>1. \A j \in 1..Len(man'[t].objs) :
            phase'[t] = "manifest" \/ j <= written'[t] =>
              ObjectAt(man'[t], j) \in objects'
      BY <2>1, <2>2, <2>4, <2>5
    <3> QED
      BY <1>1, <1>2, <3>1, OthersKept DEF CallsPlaced
  <2>9. CallsStored'
    BY <1>1, <1>2, <2>2, <2>6, OthersKept DEF CallsStored
  <2>10. OwnLinked' /\ OwnStored' /\ AnchorBacked' /\ PreviousStored' /\ ManifestBacked'
    BY <1>1 DEF ChainInv, OwnLinked, OwnStored, Linked, AnchorBacked, PreviousStored, ManifestBacked, Grows
  <2> QED
    BY <2>7, <2>8, <2>9, <2>10 DEF ChainInv
<1> QED
  BY <1>3, <1>4 DEF PutObject, MoveTo

\* Putting the manifest: the objects are placed, and the predecessor has been
\* put by the same process.
LEMMA ChainPutManifest ==
  ASSUME ChainInv, TypeInv', NEW t \in Calls, PutManifest(t)
  PROVE  ChainInv'
<1>1. /\ phase[t] = "manifest"
      /\ Grows
      /\ UNCHANGED <<objects, anchors, previous, man, written>>
  BY DEF Grows, PutManifest, WriteFailed, MoveTo
<1>2. \A u \in Calls : u # t =>
        phase'[u] = phase[u] /\ man'[u] = man[u] /\ written'[u] = written[u]
  BY <1>1 DEF PutManifest, WriteFailed, MoveTo, ChainInv, TypeInv, TypeOK
<1>3. CASE UNCHANGED <<manifests, own>>
  <2>1. phase'[t] = "next" \/ (phase'[t] = "sign" /\ man[t] \in own')
    BY DEF PutManifest, WriteFailed, MoveTo, ChainInv, TypeInv, TypeOK
  <2>2. CallsLinked' /\ CallsPlaced' /\ CallsStored'
    BY <1>1, <1>2, <2>1, OthersKept DEF CallsLinked, CallsPlaced, CallsStored
  <2>3. OwnLinked' /\ OwnStored' /\ ManifestBacked' /\ AnchorBacked' /\ PreviousStored'
    BY <1>1, <1>3
    DEF ChainInv, OwnLinked, OwnStored, Linked, ManifestBacked, AnchorBacked, PreviousStored
  <2> QED
    BY <2>2, <2>3 DEF ChainInv
<1>4. CASE manifests' = manifests \cup {man[t]} /\ own' = own \cup {man[t]}
  <2>1. phase'[t] \in {"next", "sign"}
    BY DEF PutManifest, WriteFailed, MoveTo, ChainInv, TypeInv, TypeOK
  <2>2. CallsLinked' /\ CallsPlaced' /\ CallsStored'
    BY <1>1, <1>2, <1>4, <2>1, OthersKept DEF CallsLinked, CallsPlaced, CallsStored
  <2>3. OwnLinked'
    <3>1. Linked(man[t])
      BY <1>1 DEF ChainInv, CallsLinked
    <3> QED
      BY <1>4, <3>1 DEF ChainInv, OwnLinked, Linked
  <2>4. ManifestBacked'
    <3>1. \A i \in 1..Len(man[t].objs) : ObjectAt(man[t], i) \in objects
      BY <1>1 DEF ChainInv, CallsPlaced
    <3> QED
      BY <1>1, <1>4, <3>1 DEF ChainInv, ManifestBacked
  <2>5. OwnStored' /\ AnchorBacked' /\ PreviousStored'
    BY <1>1, <1>4 DEF ChainInv, OwnStored, AnchorBacked, PreviousStored
  <2> QED
    BY <2>2, <2>3, <2>4, <2>5 DEF ChainInv
<1> QED
  BY <1>3, <1>4 DEF PutManifest

\* The steps after the manifest put: sign, anchor, record.
LEMMA ChainAnchor ==
  ASSUME ChainInv, TypeInv', NEW t \in Calls,
         Sign(t) \/ TokenVerified(t) \/ NoToken(t) \/ PutAnchor(t)
  PROVE  ChainInv'
<1>1. phase[t] \in {"sign", "anchor", "record"} /\ man[t] \in own
  BY DEF Sign, TokenVerified, NoToken, PutAnchor, ChainInv, CallsStored
<1>2. UNCHANGED <<objects, manifests, own>> /\ Grows
  BY DEF Sign, TokenVerified, NoToken, PutAnchor, worm, Grows
<1>3. \A u \in Calls : u # t =>
        phase'[u] = phase[u] /\ man'[u] = man[u] /\ written'[u] = written[u]
  BY DEF Sign, TokenVerified, NoToken, PutAnchor, Finish, MoveTo, Abort,
         ChainInv, TypeInv, TypeOK
<1>4. \/ phase'[t] \in {"idle", "next"}
      \/ phase'[t] \in {"anchor", "record"} /\ man'[t] = man[t]
  BY DEF Sign, TokenVerified, NoToken, PutAnchor, Finish, MoveTo, Abort,
         ChainInv, TypeInv, TypeOK
<1>5. CallsLinked' /\ CallsPlaced' /\ CallsStored'
  BY <1>1, <1>2, <1>3, <1>4, OthersKept DEF CallsLinked, CallsPlaced, CallsStored
<1>6. previous' \in {previous, man[t]}
  BY DEF Sign, TokenVerified, NoToken, PutAnchor, Finish
<1>7. PreviousStored'
  BY <1>1, <1>2, <1>6 DEF ChainInv, PreviousStored
<1>8. \A a \in anchors' : a \in anchors \/ a.head = man[t]
  <2>1. CASE Sign(t) \/ TokenVerified(t) \/ NoToken(t)
    BY <2>1 DEF Sign, TokenVerified, NoToken, worm
  <2>2. CASE PutAnchor(t)
    <3> DEFINE rec == [db |-> OwnDb, seq |-> man[t].seq, head |-> man[t]]
    <3>1. anchors' \in {anchors, anchors \cup {rec}}
      BY <2>2 DEF PutAnchor
    <3> QED
      BY <3>1
  <2> QED
    BY <2>1, <2>2
<1>9. AnchorBacked'
  BY <1>1, <1>2, <1>8 DEF ChainInv, AnchorBacked, OwnStored
<1>10. OwnLinked' /\ OwnStored' /\ ManifestBacked'
  BY <1>2 DEF ChainInv, OwnLinked, OwnStored, Linked, ManifestBacked
<1> QED
  BY <1>5, <1>7, <1>9, <1>10 DEF ChainInv

\* A step that begins on the next segment, in whatever call.
LEMMA ChainBegin ==
  ASSUME ChainInv, TypeInv', NEW t \in Calls, NEW q \in Seq(SealReady),
         BeginSeal(t, q), UNCHANGED <<worm, previous>>
  PROVE  ChainInv'
<1>1. UNCHANGED <<objects, manifests, own, anchors, previous>>
  BY DEF worm
<1>2. CallsLinked' /\ CallsPlaced' /\ CallsStored'
  BY <1>1, BeginSealChain
<1>3. OwnLinked' /\ OwnStored' /\ ManifestBacked' /\ AnchorBacked' /\ PreviousStored'
  BY <1>1 DEF ChainInv, OwnLinked, OwnStored, Linked, ManifestBacked, AnchorBacked, PreviousStored
<1> QED
  BY <1>2, <1>3 DEF ChainInv

\* A step that leaves the calls, WORM and #previous alone.
LEMMA ChainUntouched ==
  ASSUME ChainInv, TypeInv', UNCHANGED <<calls, worm, previous>>
  PROVE  ChainInv'
  BY DEF ChainInv, OwnLinked, OwnStored, Linked, ManifestBacked, AnchorBacked, PreviousStored,
         CallsLinked, CallsPlaced, CallsStored, calls, worm

LEMMA ChainStart ==
  ASSUME ChainInv, TypeInv', StartCall
  PROVE  ChainInv'
<1>1. ASSUME NEW c \in Cces, Ingest(c) PROVE ChainInv'
  <2>1. UNCHANGED <<worm, previous>>
    BY <1>1 DEF Ingest
  <2>2. CASE c \in Malformed
    BY <1>1, <2>1, <2>2, ChainUntouched DEF Ingest
  <2>3. CASE c \notin Malformed
    <3>1. Accumulate(c) /\ "ingest" \in Calls
      BY <1>1, <2>3 DEF Ingest, Calls
    <3>2. \E q \in Seq(SealReady) : BeginSeal("ingest", q)
      BY <3>1, AccumulateType DEF ChainInv
    <3> QED
      BY <2>1, <3>1, <3>2, ChainBegin
  <2> QED
    BY <2>2, <2>3
<1>2. ASSUME NEW t \in Sweeps, Sweep(t) PROVE ChainInv'
  <2>1. UNCHANGED <<worm, previous>> /\ t \in Calls
    BY <1>2 DEF Sweep, Calls
  <2>2. \E q \in Seq(SealReady) : BeginSeal(t, q)
    BY <1>2, SweepType DEF ChainInv
  <2> QED
    BY <2>1, <2>2, ChainBegin
<1> QED
  BY <1>1, <1>2 DEF StartCall

\* Crash and restart: the process forgets #previous and its calls, WORM stays.
LEMMA ChainRestart ==
  ASSUME ChainInv, TypeInv', Restart
  PROVE  ChainInv'
<1>1. \A t \in Calls : phase'[t] = "idle"
  BY DEF Restart
<1>2. CallsLinked' /\ CallsPlaced' /\ CallsStored'
  BY <1>1 DEF CallsLinked, CallsPlaced, CallsStored
<1>3. UNCHANGED <<objects, manifests, anchors>> /\ previous' = None /\ own' = {}
  BY DEF Restart
<1>4. OwnLinked' /\ OwnStored' /\ ManifestBacked' /\ AnchorBacked' /\ PreviousStored'
  BY <1>3 DEF ChainInv, OwnLinked, OwnStored, ManifestBacked, AnchorBacked, PreviousStored
<1> QED
  BY <1>2, <1>4 DEF ChainInv

LEMMA ChainStep == ChainInv /\ [Next]_vars => ChainInv'
<1> SUFFICES ASSUME ChainInv, [Next]_vars PROVE ChainInv'
  OBVIOUS
<1> TypeInv'
  BY TypeStep DEF ChainInv
<1>1. CASE StartCall
  BY <1>1, ChainStart
<1>2. ASSUME NEW t \in Calls, Continue(t) PROVE ChainInv'
  <2>1. CASE PutObject(t)
    BY <2>1, ChainPutObject
  <2>2. CASE PutManifest(t)
    BY <2>2, ChainPutManifest
  <2>3. CASE Sign(t) \/ TokenVerified(t) \/ NoToken(t) \/ PutAnchor(t)
    BY <2>3, ChainAnchor
  <2>4. CASE NextSegment(t)
    <3>1. queue[t] \in Seq(SealReady)
      BY DEF ChainInv, TypeInv, TypeOK
    <3> QED
      BY <2>4, <3>1, ChainBegin DEF NextSegment
  <2> QED
    BY <1>2, <2>1, <2>2, <2>3, <2>4 DEF Continue
<1>3. CASE Environment
  <2>1. ASSUME NEW c \in Cces, Miss(c) PROVE ChainInv'
    BY <2>1, ChainUntouched DEF Miss
  <2>2. ASSUME NEW db \in Dbs, Age(db) PROVE ChainInv'
    BY <2>2, ChainUntouched DEF Age
  <2>3. CASE Stop
    BY <2>3, ChainUntouched DEF Stop
  <2>4. CASE Restart
    BY <2>4, ChainRestart
  <2> QED
    BY <1>3, <2>1, <2>2, <2>3, <2>4 DEF Environment
<1>4. CASE UNCHANGED vars
  BY <1>4, ChainUntouched DEF vars
<1> QED
  BY <1>1, <1>2, <1>3, <1>4 DEF Next

\* A manifest in WORM never names an object that is not there already.
THEOREM ManifestsBacked == Spec => []ManifestBacked
<1>1. ChainInv => ManifestBacked
  BY DEF ChainInv
<1> QED
  BY <1>1, ChainInit, ChainStep, PTL DEF Spec

\* No segment is anchored before it is sealed.
THEOREM AnchorsBacked == Spec => []AnchorBacked
<1>1. ChainInv => AnchorBacked
  BY DEF ChainInv
<1> QED
  BY <1>1, ChainInit, ChainStep, PTL DEF Spec

-----------------------------------------------------------------------------
(* Sequences in hand: OneSealAtATime and FailureHaltsChain.                *)
(*                                                                         *)
(* Neither is inductive.  What makes them true is the order in which the   *)
(* segments of one database stand: the last one finished (#previous), then *)
(* at most one being sealed, then those that wait, then the open one; and  *)
(* a sequence once alarmed for is behind none of the first two.            *)

\* Every segment waiting in Q has a sequence of its own, below N, past
\* #previous, and not one the process has raised an alarm for.
WaitingApart(Q, N) ==
  \A t \in Calls : \A i \in 1..Len(Q[t]) :
    /\ Q[t][i].seq < N[Q[t][i].db]
    /\ \A u \in Calls : \A j \in 1..Len(Q[u]) :
         SameKey(Q[t][i], Q[u][j]) => t = u /\ i = j
    /\ previous # None /\ Q[t][i].db = previous.db => previous.seq < Q[t][i].seq
    /\ \A a \in alarms : ~SameKey(a, Q[t][i])

\* At most one segment of a database is being sealed; it lies between
\* #previous and everything that waits, and before every alarm.
Sealing(t, Q, N) ==
  /\ man[t].seq < N[man[t].db]
  /\ previous # None /\ man[t].db = previous.db => previous.seq < man[t].seq
  /\ \A u \in Calls : \A j \in 1..Len(Q[u]) :
       Q[u][j].db = man[t].db => man[t].seq < Q[u][j].seq
  /\ \A u \in Calls : u # t /\ phase[u] \in Working => man[t].db # man[u].db
  /\ \A a \in alarms : a.db = man[t].db => man[t].seq < a.seq

SealingApart(Q, N) == \A t \in Calls : phase[t] \in Working => Sealing(t, Q, N)

\* #previous lies before the open segment and before every alarm.
PastApart(N) ==
  /\ previous # None => previous.seq < N[previous.db]
  /\ \A a \in alarms :
       /\ a.seq < N[a.db]
       /\ previous # None /\ a.db = previous.db => previous.seq < a.seq

Ordered(Q, N) == WaitingApart(Q, N) /\ SealingApart(Q, N) /\ PastApart(N)

\* A call that does nothing holds no manifest.
IdleFree == \A t \in Calls : phase[t] = "idle" => man[t] = None

OrderInv == TypeInv /\ IdleFree /\ Ordered(queue, nextSeq)

\* A call that works on nothing takes the first of the segments Q[t].
LEMMA BeginSealOrder ==
  ASSUME TypeInv, NEW t \in Calls, phase[t] \notin Working,
         NEW Q \in [Calls -> Seq(SealReady)], Ordered(Q, nextSeq'),
         \A u \in Calls : u # t => Q[u] = queue[u],
         BeginSeal(t, Q[t]), previous' = previous
  PROVE  Ordered(queue, nextSeq)'
<1> DEFINE q == Q[t]
<1> USE DEF TypeInv, TypeOK
<1>0. q \in Seq(SealReady)
  OBVIOUS
<1>1. \A u \in Calls : u # t => phase'[u] = phase[u] /\ man'[u] = man[u]
  BY DEF BeginSeal
<1>4. phase \in [Calls -> Phase] /\ man \in [Calls -> Manifest \cup {None}]
  OBVIOUS
<1>5. previous # None => previous \in Manifest /\ previous.seq \in Nat
  BY DEF Manifest
<1>6. \A u \in Calls : phase[u] \in Working => man[u] \in Manifest /\ man[u].seq \in Nat
  BY DEF CallsOK, Manifest
<1>7. \A a \in alarms : a.seq \in Nat
  BY DEF Alarm
<1>2. CASE q = <<>>
  <2>1. \A u \in Calls : queue'[u] = Q[u]
    BY <1>2 DEF BeginSeal
  <2>2. phase'[t] \notin Working /\ alarms' = alarms
    BY <1>2 DEF BeginSeal, Working
  <2>3. WaitingApart(queue, nextSeq)'
    BY <2>1, <2>2 DEF Ordered, WaitingApart
  <2>4. SealingApart(queue, nextSeq)'
    <3> SUFFICES ASSUME NEW u \in Calls, phase'[u] \in Working
                 PROVE  Sealing(u, queue, nextSeq)'
      BY DEF SealingApart
    <3>1. u # t /\ phase[u] \in Working /\ man'[u] = man[u]
      BY <1>1, <2>2
    <3>2. Sealing(u, Q, nextSeq')
      BY <3>1 DEF Ordered, SealingApart, Sealing
    <3>3. \A v \in Calls : phase'[v] \in Working => phase[v] \in Working /\ man'[v] = man[v]
      BY <1>1, <2>2
    <3>4. \A v \in Calls : \A j \in 1..Len(queue'[v]) :
             queue'[v][j].db = man[u].db => man[u].seq < queue'[v][j].seq
      BY <2>1, <3>2 DEF Sealing
    <3> QED
      BY <2>2, <3>1, <3>2, <3>3, <3>4 DEF Sealing
  <2>5. PastApart(nextSeq)'
    BY <2>2 DEF Ordered, PastApart
  <2> QED
    BY <2>3, <2>4, <2>5 DEF Ordered
<1>3. CASE q # <<>>
  <2> DEFINE seg == Head(q)
             at(u, j) == IF u = t THEN j + 1 ELSE j
  <2>1. seg = Q[t][1] /\ 1 \in 1..Len(Q[t]) /\ seg \in SealReady
    BY <1>0, <1>3
  <2>2. queue' = [queue EXCEPT ![t] = Tail(q)]
    BY <1>3 DEF BeginSeal
  <2>3. \A u \in Calls : \A j \in 1..Len(queue'[u]) :
          /\ at(u, j) \in 1..Len(Q[u])
          /\ queue'[u][j] = Q[u][at(u, j)]
          /\ queue'[u][j] \in SealReady
          /\ u = t => at(u, j) # 1
    <3> SUFFICES ASSUME NEW u \in Calls, NEW j \in 1..Len(queue'[u])
                 PROVE  /\ at(u, j) \in 1..Len(Q[u])
                        /\ queue'[u][j] = Q[u][at(u, j)]
                        /\ queue'[u][j] \in SealReady
                        /\ u = t => at(u, j) # 1
      OBVIOUS
    <3>1. CASE u = t
      <4>1. queue'[u] = Tail(q)
        BY <2>2, <3>1
      <4> QED
        BY <1>0, <1>3, <3>1, <4>1
    <3>2. CASE u # t
      <4>1. queue'[u] = Q[u]
        BY <2>2, <3>2
      <4> QED
        BY <3>2, <4>1
    <3> QED
      BY <3>1, <3>2
  <2> HIDE DEF TypeInv, TypeOK
  <2>4. \A u \in Calls, v \in Calls : \A i \in 1..Len(queue'[u]), j \in 1..Len(queue'[v]) :
          SameKey(queue'[u][i], queue'[v][j]) => u = v /\ i = j
    <3> SUFFICES ASSUME NEW u \in Calls, NEW v \in Calls,
                        NEW i \in 1..Len(queue'[u]), NEW j \in 1..Len(queue'[v]),
                        SameKey(queue'[u][i], queue'[v][j])
                 PROVE  u = v /\ i = j
      OBVIOUS
    <3>1. /\ at(u, i) \in 1..Len(Q[u]) /\ at(v, j) \in 1..Len(Q[v])
          /\ SameKey(Q[u][at(u, i)], Q[v][at(v, j)])
      BY <2>3
    <3>2. u = v /\ at(u, i) = at(v, j)
      BY <3>1 DEF Ordered, WaitingApart
    <3> QED
      BY <3>2
  <2>5. \A u \in Calls : \A j \in 1..Len(queue'[u]) :
          /\ ~SameKey(seg, queue'[u][j])
          /\ queue'[u][j].seq < nextSeq'[queue'[u][j].db]
          /\ previous # None /\ queue'[u][j].db = previous.db =>
               previous.seq < queue'[u][j].seq
          /\ \A a \in alarms : ~SameKey(a, queue'[u][j])
    <3> SUFFICES ASSUME NEW u \in Calls, NEW j \in 1..Len(queue'[u])
                 PROVE  /\ ~SameKey(seg, queue'[u][j])
                        /\ queue'[u][j].seq < nextSeq'[queue'[u][j].db]
                        /\ previous # None /\ queue'[u][j].db = previous.db =>
                             previous.seq < queue'[u][j].seq
                        /\ \A a \in alarms : ~SameKey(a, queue'[u][j])
      OBVIOUS
    <3> DEFINE k == at(u, j)
    <3>1. k \in 1..Len(Q[u]) /\ queue'[u][j] = Q[u][k] /\ (u = t => k # 1)
      BY <2>3
    <3> HIDE DEF k
    <3>2. ~SameKey(seg, Q[u][k])
      BY <2>1, <3>1 DEF Ordered, WaitingApart
    <3> QED
      BY <3>1, <3>2 DEF Ordered, WaitingApart
  <2>6. /\ seg.seq < nextSeq'[seg.db]
        /\ previous # None /\ seg.db = previous.db => previous.seq < seg.seq
        /\ \A a \in alarms : ~SameKey(a, seg)
        /\ \A u \in Calls : phase[u] \in Working /\ man[u].db = seg.db =>
             man[u].seq < seg.seq
    BY <2>1 DEF Ordered, WaitingApart, SealingApart, Sealing
  <2>7. \A u \in Calls : phase[u] \in Working =>
          \A v \in Calls : \A j \in 1..Len(queue'[v]) :
            queue'[v][j].db = man[u].db => man[u].seq < queue'[v][j].seq
    <3> SUFFICES ASSUME NEW u \in Calls, phase[u] \in Working,
                        NEW v \in Calls, NEW j \in 1..Len(queue'[v]),
                        queue'[v][j].db = man[u].db
                 PROVE  man[u].seq < queue'[v][j].seq
      OBVIOUS
    <3> DEFINE k == at(v, j)
    <3>1. k \in 1..Len(Q[v]) /\ queue'[v][j] = Q[v][k]
      BY <2>3
    <3> HIDE DEF k
    <3> QED
      BY <3>1 DEF Ordered, SealingApart, Sealing
  <2>8. CASE Sealable(seg, previous)
    <3> DEFINE m == BuildManifest(seg, previous)
    <3>0. Verified(seg, previous)
      BY <2>8 DEF Sealable
    <3>1. m.db = seg.db /\ m.seq = seg.seq
      BY DEF BuildManifest
    <3>2. man'[t] = m /\ phase'[t] = "object" /\ alarms' = alarms
      BY <1>3, <1>4, <2>8 DEF BeginSeal
    <3>3. \A u \in Calls : \A j \in 1..Len(queue'[u]) :
            queue'[u][j].db = seg.db => seg.seq < queue'[u][j].seq
      <4> SUFFICES ASSUME NEW u \in Calls, NEW j \in 1..Len(queue'[u]),
                          queue'[u][j].db = seg.db
                   PROVE  seg.seq < queue'[u][j].seq
        OBVIOUS
      <4> DEFINE r == queue'[u][j]
      <4>1. r \in SealReady /\ ~SameKey(seg, r)
        BY <2>3, <2>5
      <4>2. previous # None /\ r.db = previous.db => previous.seq < r.seq
        BY <2>5
      <4>3. seg.seq \in Nat /\ r.seq \in Nat /\ seg.seq # r.seq
        BY <2>1, <4>1 DEF SealReady, SameKey
      <4>4. previous # None => previous.seq \in Nat
        BY <1>5
      <4> HIDE DEF seg
      <4> QED
        BY <3>0, <4>2, <4>3, <4>4 DEF Verified
    <3>4. \A u \in Calls : u # t /\ phase[u] \in Working => man[u].db # seg.db
      <4> SUFFICES ASSUME NEW u \in Calls, phase[u] \in Working, man[u].db = seg.db
                   PROVE  FALSE
        OBVIOUS
      <4>1. man[u].seq < seg.seq /\ man[u].seq \in Nat
        BY <1>6, <2>6
      <4>2. previous # None /\ previous.db = seg.db /\ seg.seq = previous.seq + 1
        <5>1. seg.seq # 0
          BY <4>1
        <5> QED
          BY <3>0, <5>1 DEF Verified
      <4>3. previous.seq < man[u].seq
        BY <4>2 DEF Ordered, SealingApart, Sealing
      <4>4. previous.seq \in Nat /\ man[u].seq \in Nat
        BY <1>5, <4>1, <4>2
      <4> QED
        BY <4>1, <4>2, <4>3, <4>4
    <3>5. \A a \in alarms : a.db = seg.db => seg.seq < a.seq
      <4> SUFFICES ASSUME NEW a \in alarms, a.db = seg.db
                   PROVE  seg.seq < a.seq
        OBVIOUS
      <4>1. a.seq \in Nat /\ seg.seq \in Nat /\ a.seq # seg.seq
        BY <1>7, <2>1, <2>6 DEF SealReady, SameKey
      <4>2. previous # None /\ previous.db = seg.db => previous.seq < a.seq
        BY DEF Ordered, PastApart
      <4> HIDE DEF seg
      <4> QED
        BY <1>5, <3>0, <4>1, <4>2 DEF Verified
    <3> HIDE DEF m
    <3>6. WaitingApart(queue, nextSeq)'
      BY <2>4, <2>5, <3>2 DEF WaitingApart
    <3>7. SealingApart(queue, nextSeq)'
      <4> SUFFICES ASSUME NEW u \in Calls, phase'[u] \in Working
                   PROVE  Sealing(u, queue, nextSeq)'
        BY DEF SealingApart
      <4>1. CASE u = t
        BY <1>1, <2>6, <3>1, <3>2, <3>3, <3>4, <3>5, <4>1 DEF Sealing
      <4>2. CASE u # t
        <5>1. phase[u] \in Working /\ man'[u] = man[u]
          BY <1>1, <4>2
        <5>2. \A v \in Calls : \A j \in 1..Len(queue'[v]) :
                 queue'[v][j].db = man[u].db => man[u].seq < queue'[v][j].seq
          BY <2>7, <5>1
        <5>3. \A v \in Calls : v # u /\ phase'[v] \in Working => man'[u].db # man'[v].db
          BY <1>1, <3>1, <3>2, <3>4, <4>2, <5>1 DEF Ordered, SealingApart, Sealing
        <5> QED
          BY <3>2, <5>1, <5>2, <5>3 DEF Ordered, SealingApart, Sealing
      <4> QED
        BY <4>1, <4>2
    <3>8. PastApart(nextSeq)'
      BY <3>2 DEF Ordered, PastApart
    <3> QED
      BY <3>6, <3>7, <3>8 DEF Ordered
  <2>9. CASE ~Sealable(seg, previous)
    <3> DEFINE al == AlarmFor("VERIFICATION_FAILED", seg)
    <3>1. phase'[t] \notin Working /\ alarms' = alarms \cup {al}
      BY <1>3, <1>4, <2>9 DEF BeginSeal, Working
    <3>2. al.db = seg.db /\ al.seq = seg.seq
      BY DEF AlarmFor
    <3> HIDE DEF al
    <3>3. WaitingApart(queue, nextSeq)'
      <4>1. \A u \in Calls : \A j \in 1..Len(queue'[u]) :
              \A a \in alarms' : ~SameKey(a, queue'[u][j])
        <5> SUFFICES ASSUME NEW u \in Calls, NEW j \in 1..Len(queue'[u])
                     PROVE  ~SameKey(al, queue'[u][j])
          BY <2>5, <3>1
        <5>1. ~SameKey(seg, queue'[u][j])
          BY <2>5
        <5> HIDE DEF seg
        <5> QED
          BY <3>2, <5>1 DEF SameKey
      <4> QED
        BY <2>4, <2>5, <4>1 DEF WaitingApart
    <3>4. SealingApart(queue, nextSeq)'
      <4> SUFFICES ASSUME NEW u \in Calls, phase'[u] \in Working
                   PROVE  Sealing(u, queue, nextSeq)'
        BY DEF SealingApart
      <4>1. u # t /\ phase[u] \in Working /\ man'[u] = man[u]
        BY <1>1, <3>1
      <4>2. \A v \in Calls : \A j \in 1..Len(queue'[v]) :
               queue'[v][j].db = man[u].db => man[u].seq < queue'[v][j].seq
        BY <2>7, <4>1
      <4>3. \A v \in Calls : v # u /\ phase'[v] \in Working => man'[u].db # man'[v].db
        BY <1>1, <3>1, <4>1 DEF Ordered, SealingApart, Sealing
      <4>4. \A a \in alarms' : a.db = man[u].db => man[u].seq < a.seq
        BY <2>6, <3>1, <3>2, <4>1 DEF Ordered, SealingApart, Sealing
      <4> QED
        BY <4>1, <4>2, <4>3, <4>4 DEF Ordered, SealingApart, Sealing
    <3>5. PastApart(nextSeq)'
      BY <2>6, <3>1, <3>2 DEF Ordered, PastApart
    <3> QED
      BY <3>3, <3>4, <3>5 DEF Ordered
  <2> QED
    BY <2>8, <2>9
<1> QED
  BY <1>2, <1>3

\* A step within a seal, or out of it without a trace.
LEMMA OrderMove ==
  ASSUME OrderInv, NEW t \in Calls, phase[t] \in Working,
         \A u \in Calls : u # t => phase'[u] = phase[u],
         phase'[t] # "idle",
         UNCHANGED <<man, queue, previous, alarms, nextSeq>>
  PROVE  IdleFree' /\ Ordered(queue, nextSeq)'
<1>1. IdleFree'
  BY DEF OrderInv, IdleFree
<1>2. \A u \in Calls : phase'[u] \in Working => phase[u] \in Working
  OBVIOUS
<1>3. SealingApart(queue, nextSeq)'
  BY <1>2 DEF OrderInv, Ordered, SealingApart, Sealing
<1>4. WaitingApart(queue, nextSeq)' /\ PastApart(nextSeq)'
  BY DEF OrderInv, Ordered, WaitingApart, PastApart
<1> QED
  BY <1>1, <1>3, <1>4 DEF Ordered

\* A segment is given up: everything of its database before it is finished, and
\* nothing of its database is being sealed any more.
LEMMA OrderFailed ==
  ASSUME OrderInv, NEW t \in Calls, phase[t] \in Working, WriteFailed(t),
         UNCHANGED <<previous, nextSeq>>
  PROVE  IdleFree' /\ Ordered(queue, nextSeq)'
<1> DEFINE al == AlarmFor("SEAL_WRITE_FAILED", man[t])
<1>1. /\ phase' = [phase EXCEPT ![t] = "next"]
      /\ alarms' = alarms \cup {al}
      /\ UNCHANGED <<queue, man>>
  BY DEF WriteFailed, MoveTo
<1>2. al.db = man[t].db /\ al.seq = man[t].seq
  BY DEF AlarmFor
<1>3. Sealing(t, queue, nextSeq) /\ man[t] \in Manifest
  BY DEF OrderInv, Ordered, SealingApart, TypeInv, CallsOK
<1> HIDE DEF al
<1>4. \A u \in Calls : phase'[u] \in Working => u # t /\ phase[u] \in Working
  BY <1>1 DEF OrderInv, TypeInv, TypeOK, Working
<1>5. IdleFree'
  BY <1>1 DEF OrderInv, IdleFree, TypeInv, TypeOK
<1>6. WaitingApart(queue, nextSeq)'
  <2>1. \A u \in Calls : \A j \in 1..Len(queue[u]) : ~SameKey(al, queue[u][j])
    <3> SUFFICES ASSUME NEW u \in Calls, NEW j \in 1..Len(queue[u]), SameKey(al, queue[u][j])
                 PROVE  FALSE
      OBVIOUS
    <3>1. man[t].seq < queue[u][j].seq
      BY <1>2, <1>3 DEF Sealing, SameKey
    <3>2. man[t].seq = queue[u][j].seq /\ man[t].seq \in Nat
      BY <1>2, <1>3 DEF SameKey, Manifest
    <3> QED
      BY <3>1, <3>2
  <2> QED
    BY <1>1, <2>1 DEF OrderInv, Ordered, WaitingApart
<1>7. SealingApart(queue, nextSeq)'
  <2> SUFFICES ASSUME NEW u \in Calls, phase'[u] \in Working
               PROVE  Sealing(u, queue, nextSeq)'
    BY DEF SealingApart
  <2>1. u # t /\ phase[u] \in Working /\ Sealing(u, queue, nextSeq)
    BY <1>4 DEF OrderInv, Ordered, SealingApart
  <2>2. man[u].db # man[t].db
    BY <1>3, <2>1 DEF Sealing
  <2> QED
    BY <1>1, <1>2, <1>4, <2>1, <2>2 DEF Sealing
<1>8. PastApart(nextSeq)'
  BY <1>1, <1>2, <1>3 DEF OrderInv, Ordered, PastApart, Sealing
<1> QED
  BY <1>5, <1>6, <1>7, <1>8 DEF Ordered

\* A segment is finished and becomes #previous.
LEMMA OrderFinish ==
  ASSUME OrderInv, NEW t \in Calls, phase[t] \in Working, Finish(t),
         UNCHANGED <<alarms, nextSeq>>
  PROVE  IdleFree' /\ Ordered(queue, nextSeq)'
<1>1. /\ phase' = [phase EXCEPT ![t] = "next"]
      /\ previous' = man[t]
      /\ UNCHANGED <<queue, man>>
  BY DEF Finish, MoveTo
<1>2. Sealing(t, queue, nextSeq)
  BY DEF OrderInv, Ordered, SealingApart
<1>3. \A u \in Calls : phase'[u] \in Working => u # t /\ phase[u] \in Working
  BY <1>1 DEF OrderInv, TypeInv, TypeOK, Working
<1>4. IdleFree'
  BY <1>1 DEF OrderInv, IdleFree, TypeInv, TypeOK
<1>5. WaitingApart(queue, nextSeq)'
  <2>1. \A u \in Calls : \A j \in 1..Len(queue[u]) :
          queue[u][j].db = man[t].db => man[t].seq < queue[u][j].seq
    BY <1>2 DEF Sealing
  <2>2. WaitingApart(queue, nextSeq)
    BY DEF OrderInv, Ordered
  <2> QED
    BY <1>1, <2>1, <2>2 DEF WaitingApart
<1>6. SealingApart(queue, nextSeq)'
  <2> SUFFICES ASSUME NEW u \in Calls, phase'[u] \in Working
               PROVE  Sealing(u, queue, nextSeq)'
    BY DEF SealingApart
  <2>1. u # t /\ phase[u] \in Working /\ Sealing(u, queue, nextSeq)
    BY <1>3 DEF OrderInv, Ordered, SealingApart
  <2>2. man[u].db # man[t].db
    BY <1>2, <2>1 DEF Sealing
  <2> QED
    BY <1>1, <1>3, <2>1, <2>2 DEF Sealing
<1>7. PastApart(nextSeq)'
  BY <1>1, <1>2 DEF OrderInv, Ordered, PastApart, Sealing
<1> QED
  BY <1>4, <1>5, <1>6, <1>7 DEF Ordered

\* A call that is abandoned takes its segments with it.
LEMMA OrderAbort ==
  ASSUME OrderInv, NEW t \in Calls, Abort(t),
         UNCHANGED <<previous, alarms, nextSeq>>
  PROVE  IdleFree' /\ Ordered(queue, nextSeq)'
<1>0. phase'[t] = "idle" /\ man'[t] = None /\ queue'[t] = <<>>
  BY DEF Abort, OrderInv, TypeInv, TypeOK
<1>1. \A u \in Calls : u # t =>
        phase'[u] = phase[u] /\ man'[u] = man[u] /\ queue'[u] = queue[u]
  BY DEF Abort, OrderInv, TypeInv, TypeOK
<1>2. \A u \in Calls : phase'[u] \in Working => u # t /\ phase[u] \in Working
  BY <1>0, <1>1 DEF Working
<1>3. \A u \in Calls : \A j \in 1..Len(queue'[u]) : u # t
  BY <1>0
<1>4. IdleFree'
  BY <1>0, <1>1 DEF OrderInv, IdleFree
<1>5. WaitingApart(queue, nextSeq)'
  BY <1>1, <1>3 DEF OrderInv, Ordered, WaitingApart
<1>6. SealingApart(queue, nextSeq)'
  <2> SUFFICES ASSUME NEW u \in Calls, phase'[u] \in Working
               PROVE  Sealing(u, queue, nextSeq)'
    BY DEF SealingApart
  <2>1. u # t /\ phase[u] \in Working /\ Sealing(u, queue, nextSeq)
    BY <1>2 DEF OrderInv, Ordered, SealingApart
  <2> QED
    BY <1>1, <1>2, <1>3, <2>1 DEF Sealing
<1>7. PastApart(nextSeq)'
  BY DEF OrderInv, Ordered, PastApart
<1> QED
  BY <1>4, <1>5, <1>6, <1>7 DEF Ordered

\* A step that leaves the calls, the sequences and #previous alone.
LEMMA OrderUntouched ==
  ASSUME OrderInv, UNCHANGED <<phase, man, queue, previous, alarms, nextSeq>>
  PROVE  IdleFree' /\ Ordered(queue, nextSeq)'
<1>1. IdleFree'
  BY DEF OrderInv, IdleFree
<1>2. WaitingApart(queue, nextSeq)' /\ SealingApart(queue, nextSeq)' /\ PastApart(nextSeq)'
  BY DEF OrderInv, Ordered, WaitingApart, SealingApart, Sealing, PastApart
<1> QED
  BY <1>1, <1>2 DEF Ordered

\* The same for a call that begins on what it is handed.
LEMMA BeginSealIdleFree ==
  ASSUME IdleFree, TypeInv, NEW t \in Calls, NEW q \in Seq(SealReady), BeginSeal(t, q)
  PROVE  IdleFree'
  BY DEF IdleFree, BeginSeal, TypeInv, TypeOK

\* What is handed to the sealer has sequences of its own, from that of the open
\* segment on, and the next open segment's is past them.
Handed(q) ==
  /\ \A i \in 1..Len(q) : nextSeq[q[i].db] <= q[i].seq /\ q[i].seq < nextSeq'[q[i].db]
  /\ \A i, j \in 1..Len(q) : SameKey(q[i], q[j]) => i = j
  /\ \A db \in Dbs : nextSeq[db] <= nextSeq'[db]

LEMMA HandedOrder ==
  ASSUME OrderInv, nextSeq' \in [Dbs -> Nat], NEW t \in Calls, NEW q \in Seq(SealReady),
         Handed(q)
  PROVE  Ordered([queue EXCEPT ![t] = q], nextSeq')
<1> DEFINE Q == [queue EXCEPT ![t] = q]
<1> USE DEF OrderInv, TypeInv, TypeOK
<1>0. Ordered(queue, nextSeq)
  OBVIOUS
<1>1. Q[t] = q /\ \A u \in Calls : u # t => Q[u] = queue[u]
  OBVIOUS
<1>2. \A i \in 1..Len(q) : q[i] \in SealReady
  OBVIOUS
<1>3. \A u \in Calls : \A j \in 1..Len(queue[u]) : queue[u][j] \in SealReady
  OBVIOUS
<1> HIDE DEF Q
<1>4. \A a \in alarms : a.seq \in Nat /\ a.db \in Dbs
  BY DEF Alarm
<1>5. previous # None => previous.seq \in Nat /\ previous.db \in Dbs
  BY DEF Manifest
<1>6. nextSeq \in [Dbs -> Nat]
  OBVIOUS
<1>7. \A u \in Calls : phase[u] \in Working => man[u].seq \in Nat /\ man[u].db \in Dbs
  BY DEF CallsOK, Manifest
<1>8. ASSUME NEW u \in Calls, NEW j \in 1..Len(Q[u])
      PROVE  /\ Q[u][j].seq \in Nat /\ Q[u][j].db \in Dbs
             /\ u = t => j \in 1..Len(q) /\ Q[u][j] = q[j]
             /\ u # t => j \in 1..Len(queue[u]) /\ Q[u][j] = queue[u][j]
  BY <1>1, <1>2, <1>3 DEF SealReady
<1> HIDE DEF OrderInv, TypeInv, TypeOK
<1>9. WaitingApart(Q, nextSeq')
  <2> SUFFICES ASSUME NEW u \in Calls, NEW i \in 1..Len(Q[u])
               PROVE
        /\ Q[u][i].seq < nextSeq'[Q[u][i].db]
        /\ \A v \in Calls : \A j \in 1..Len(Q[v]) :
             SameKey(Q[u][i], Q[v][j]) => u = v /\ i = j
        /\ previous # None /\ Q[u][i].db = previous.db => previous.seq < Q[u][i].seq
        /\ \A a \in alarms : ~SameKey(a, Q[u][i])
    BY DEF WaitingApart
  <2>1. Q[u][i].seq < nextSeq'[Q[u][i].db]
    <3>1. CASE u = t
      BY <1>8, <3>1 DEF Handed
    <3>2. CASE u # t
      <4>1. queue[u][i].seq < nextSeq[queue[u][i].db]
        BY <1>0, <1>8, <3>2 DEF Ordered, WaitingApart
      <4>2. Q[u][i] = queue[u][i] /\ Q[u][i].db \in Dbs /\ Q[u][i].seq \in Nat
        BY <1>8, <3>2
      <4>3. nextSeq[Q[u][i].db] <= nextSeq'[Q[u][i].db]
        BY <4>2 DEF Handed
      <4> QED
        BY <1>6, <4>1, <4>2, <4>3
    <3> QED
      BY <3>1, <3>2
  <2>2. ASSUME NEW v \in Calls, NEW j \in 1..Len(Q[v]), SameKey(Q[u][i], Q[v][j])
        PROVE  u = v /\ i = j
    <3>1. CASE u = t /\ v = t
      BY <1>8, <2>2, <3>1 DEF Handed
    <3>2. CASE u # t /\ v # t
      <4>1. /\ SameKey(queue[u][i], queue[v][j])
            /\ i \in 1..Len(queue[u]) /\ j \in 1..Len(queue[v])
        BY <1>8, <2>2, <3>2
      <4> QED
        BY <1>0, <4>1 DEF Ordered, WaitingApart
    <3>3. CASE u = t /\ v # t
      <4>1. nextSeq[Q[u][i].db] <= Q[u][i].seq
        BY <1>8, <3>3 DEF Handed
      <4>2. Q[v][j].seq < nextSeq[Q[v][j].db]
        BY <1>0, <1>8, <3>3 DEF Ordered, WaitingApart
      <4> QED
        BY <1>6, <1>8, <2>2, <4>1, <4>2 DEF SameKey
    <3>4. CASE u # t /\ v = t
      <4>1. nextSeq[Q[v][j].db] <= Q[v][j].seq
        BY <1>8, <3>4 DEF Handed
      <4>2. Q[u][i].seq < nextSeq[Q[u][i].db]
        BY <1>0, <1>8, <3>4 DEF Ordered, WaitingApart
      <4> QED
        BY <1>6, <1>8, <2>2, <4>1, <4>2 DEF SameKey
    <3> QED
      BY <3>1, <3>2, <3>3, <3>4
  <2>3. previous # None /\ Q[u][i].db = previous.db => previous.seq < Q[u][i].seq
    <3> SUFFICES ASSUME previous # None, Q[u][i].db = previous.db
                 PROVE  previous.seq < Q[u][i].seq
      OBVIOUS
    <3>1. CASE u = t
      <4>1. nextSeq[Q[u][i].db] <= Q[u][i].seq
        BY <1>8, <3>1 DEF Handed
      <4>2. previous.seq < nextSeq[previous.db]
        BY <1>0 DEF Ordered, PastApart
      <4> QED
        BY <1>5, <1>6, <1>8, <4>1, <4>2
    <3>2. CASE u # t
      BY <1>0, <1>8, <3>2 DEF Ordered, WaitingApart
    <3> QED
      BY <3>1, <3>2
  <2>4. \A a \in alarms : ~SameKey(a, Q[u][i])
    <3> SUFFICES ASSUME NEW a \in alarms, SameKey(a, Q[u][i])
                 PROVE  FALSE
      OBVIOUS
    <3>1. CASE u = t
      <4>1. nextSeq[Q[u][i].db] <= Q[u][i].seq
        BY <1>8, <3>1 DEF Handed
      <4>2. a.seq < nextSeq[a.db]
        BY <1>0 DEF Ordered, PastApart
      <4> QED
        BY <1>4, <1>6, <1>8, <4>1, <4>2 DEF SameKey
    <3>2. CASE u # t
      BY <1>0, <1>8, <3>2 DEF Ordered, WaitingApart
    <3> QED
      BY <3>1, <3>2
  <2> QED
    BY <2>1, <2>2, <2>3, <2>4
<1>10. SealingApart(Q, nextSeq')
  <2> SUFFICES ASSUME NEW u \in Calls, phase[u] \in Working
               PROVE  Sealing(u, Q, nextSeq')
    BY DEF SealingApart
  <2>1. Sealing(u, queue, nextSeq)
    BY <1>0 DEF Ordered, SealingApart
  <2>2. man[u].seq < nextSeq'[man[u].db]
    BY <1>6, <1>7, <2>1 DEF Handed, Sealing
  <2>3. ASSUME NEW v \in Calls, NEW j \in 1..Len(Q[v]), Q[v][j].db = man[u].db
        PROVE  man[u].seq < Q[v][j].seq
    <3>1. CASE v = t
      <4>1. nextSeq[Q[v][j].db] <= Q[v][j].seq
        BY <1>8, <3>1 DEF Handed
      <4>2. man[u].seq < nextSeq[man[u].db]
        BY <2>1 DEF Sealing
      <4> QED
        BY <1>6, <1>7, <1>8, <2>3, <4>1, <4>2
    <3>2. CASE v # t
      BY <1>8, <2>1, <2>3, <3>2 DEF Sealing
    <3> QED
      BY <3>1, <3>2
  <2> QED
    BY <2>1, <2>2, <2>3 DEF Sealing
<1>11. PastApart(nextSeq')
  BY <1>0, <1>4, <1>5, <1>6 DEF Handed, Ordered, PastApart
<1> QED
  BY <1>0, <1>9, <1>10, <1>11 DEF Ordered, Q

LEMMA AppendSecond ==
  ASSUME NEW S, NEW s \in Seq(S), Len(s) = 1, NEW e \in S
  PROVE  /\ Append(s, e) \in Seq(S) /\ Len(Append(s, e)) = 2
         /\ Append(s, e)[1] = s[1] /\ Append(s, e)[2] = e
<1>0. Append(s, e) \in Seq(S) /\ Len(Append(s, e)) = Len(s) + 1
  BY AppendProperties
<1>1. Append(s, e) \in Seq(S) /\ Len(Append(s, e)) = 2
  BY <1>0
<1>2. Append(s, e)[1] = s[1]
  BY AppendProperties
<1>3. Append(s, e)[2] = e
  BY AppendProperties
<1> QED
  BY <1>1, <1>2, <1>3

\* The accumulator numbers what it hands over.
LEMMA AccumulateHands ==
  ASSUME TypeInv, NEW c \in Cces, Accumulate(c)
  PROVE  \E q \in Seq(SealReady) : BeginSeal("ingest", q) /\ Handed(q)
<1> DEFINE db      == DbOf[c]
           expired == open[db] # <<>> /\ aged[db]
           first   == IF expired THEN <<OpenSegment(db)>> ELSE <<>>
           seq     == IF expired THEN SequenceAfter(nextSeq[db]) ELSE nextSeq[db]
           buffer  == Buffer(db, expired)
<1>1. db \in Dbs /\ open[db] \in Seq(Cces) /\ nextSeq \in [Dbs -> Nat]
  BY ConstantsAssumption DEF TypeInv, TypeOK
<1>2. PICK k \in 0..Len(buffer) :
        LET objs == InsertAt(buffer, k, c)
            full == Len(objs) >= MaxEvents
        IN /\ nextSeq' = [nextSeq EXCEPT ![db] =
                            IF full THEN SequenceAfter(seq) ELSE seq]
           /\ BeginSeal("ingest",
                IF full THEN Append(first, Ready(db, seq, objs)) ELSE first)
  BY DEF Accumulate
<1> DEFINE objs == InsertAt(buffer, k, c)
           full == Len(objs) >= MaxEvents
           last == Ready(db, seq, objs)
           q    == IF full THEN Append(first, last) ELSE first
<1>3. /\ nextSeq' = [nextSeq EXCEPT ![db] = IF full THEN SequenceAfter(seq) ELSE seq]
      /\ BeginSeal("ingest", q)
  BY <1>2
<1>4. buffer \in Seq(Cces)
  BY <1>1 DEF Buffer
<1>5. objs \in Objects
  BY <1>4, InsertAtType
<1> HIDE DEF objs
<1>6. OpenSegment(db).db = db /\ OpenSegment(db).seq = nextSeq[db]
  BY DEF OpenSegment, Ready
<1>7. last.db = db /\ last.seq = seq /\ last \in SealReady
  BY <1>1, <1>5 DEF Ready, SealReady, SequenceAfter
<1>8. expired => OpenSegment(db) \in SealReady
  BY <1>1 DEF OpenSegment, Ready, SealReady, Objects
<1> HIDE DEF last, full
<1>9. CASE expired
  <2>1. seq = nextSeq[db] + 1 /\ first = <<OpenSegment(db)>>
    BY <1>9 DEF SequenceAfter
  <2>2. CASE full
    <3>1. q = Append(first, last)
      BY <2>2
    <3>2. first \in Seq(SealReady) /\ Len(first) = 1 /\ first[1] = OpenSegment(db)
      BY <1>8, <1>9, <2>1
    <3>3. nextSeq' = [nextSeq EXCEPT ![db] = SequenceAfter(seq)]
      BY <1>3, <2>2
    <3> HIDE DEF q, seq, first, expired
    <3>5. q \in Seq(SealReady) /\ Len(q) = 2 /\ q[1] = OpenSegment(db) /\ q[2] = last
      BY <1>7, <3>1, <3>2, AppendSecond
    <3>6. nextSeq' = [nextSeq EXCEPT ![db] = nextSeq[db] + 2]
      <4>1. SequenceAfter(seq) = nextSeq[db] + 2
        BY <1>1, <2>1 DEF SequenceAfter
      <4> QED
        BY <3>3, <4>1
    <3> HIDE DEF q, seq, first, expired
    <3>4. Handed(q)
      BY <1>1, <1>6, <1>7, <2>1, <3>5, <3>6 DEF Handed, SameKey
    <3> QED
      BY <1>3, <3>4, <3>5
  <2>3. CASE ~full
    <3>1. q = <<OpenSegment(db)>>
      BY <2>1, <2>3
    <3>2. q \in Seq(SealReady) /\ Len(q) = 1 /\ q[1] = OpenSegment(db)
      BY <1>8, <1>9, <3>1
    <3>3. nextSeq' = [nextSeq EXCEPT ![db] = nextSeq[db] + 1]
      BY <1>1, <1>3, <2>1, <2>3
    <3> HIDE DEF q, seq, first, expired
    <3>4. Handed(q)
      BY <1>1, <1>6, <3>2, <3>3 DEF Handed, SameKey
    <3> QED
      BY <1>3, <3>2, <3>4
  <2> QED
    BY <2>2, <2>3
<1>10. CASE ~expired
  <2>1. seq = nextSeq[db] /\ first = <<>>
    BY <1>10
  <2>2. CASE full
    <3>1. q = Append(<<>>, last)
      BY <2>1, <2>2
    <3>2. q \in Seq(SealReady) /\ Len(q) = 1 /\ q[1] = last
      <4>1. <<>> \in Seq(SealReady) /\ Len(<<>>) = 0
        OBVIOUS
      <4> HIDE DEF q
      <4> QED
        BY <1>7, <3>1, <4>1, AppendProperties
    <3>3. nextSeq' = [nextSeq EXCEPT ![db] = nextSeq[db] + 1]
      BY <1>1, <1>3, <2>1, <2>2 DEF SequenceAfter
    <3> HIDE DEF q, seq, first, expired
    <3>4. Handed(q)
      BY <1>1, <1>7, <2>1, <3>2, <3>3 DEF Handed, SameKey
    <3> QED
      BY <1>3, <3>2, <3>4
  <2>3. CASE ~full
    <3>1. q = <<>> /\ nextSeq' = nextSeq
      BY <1>1, <1>3, <2>1, <2>3
    <3>2. q \in Seq(SealReady) /\ Handed(q)
      BY <1>1, <3>1 DEF Handed
    <3> QED
      BY <1>3, <3>2
  <2> QED
    BY <2>2, <2>3
<1> QED
  BY <1>9, <1>10

\* So does a sweep, which takes the open segments of different databases.
LEMMA SweepHands ==
  ASSUME TypeInv, NEW t \in Sweeps, Sweep(t)
  PROVE  \E q \in Seq(SealReady) : BeginSeal(t, q) /\ Handed(q)
<1> DEFINE due == {db \in Dbs : open[db] # <<>> /\ aged[db]}
           n   == Cardinality(due)
<1>1. /\ nextSeq' = [db \in Dbs |->
           IF db \in due THEN SequenceAfter(nextSeq[db]) ELSE nextSeq[db]]
      /\ \E q \in Orderings(due) :
           BeginSeal(t, [i \in 1..n |-> OpenSegment(q[i])])
  BY DEF Sweep
<1>2. n \in Nat
  <2>1. IsFiniteSet(due)
    BY ConstantsAssumption, FS_Subset
  <2> QED
    BY <2>1, FS_CardinalityType
<1>3. PICK order \in Orderings(due) :
        BeginSeal(t, [i \in 1..n |-> OpenSegment(order[i])])
  BY <1>1
<1>4. /\ \A i \in 1..n : order[i] \in due
      /\ \A i, j \in 1..n : i # j => order[i] # order[j]
  BY <1>3 DEF Orderings
<1> DEFINE q == [i \in 1..n |-> OpenSegment(order[i])]
<1>5. \A i \in 1..n : OpenSegment(order[i]) \in SealReady
  BY <1>4 DEF OpenSegment, Ready, SealReady, Objects, TypeInv, TypeOK
<1>6. q \in Seq(SealReady) /\ Len(q) = n
  BY <1>2, <1>5
<1>7. \A i \in 1..n : q[i].db = order[i] /\ q[i].seq = nextSeq[order[i]]
  BY DEF OpenSegment, Ready
<1>8. nextSeq \in [Dbs -> Nat]
  BY DEF TypeInv, TypeOK
<1>9. \A db \in Dbs : /\ nextSeq[db] <= nextSeq'[db]
                      /\ db \in due => nextSeq[db] < nextSeq'[db]
  BY <1>1, <1>8 DEF SequenceAfter
<1>10. \A db \in due : db \in Dbs
  OBVIOUS
<1> HIDE DEF q, due, n
<1>11. Handed(q)
  <2>1. \A i \in 1..Len(q) :
          /\ order[i] \in due /\ q[i].db = order[i] /\ q[i].seq = nextSeq[order[i]]
    BY <1>4, <1>6, <1>7
  <2>2. \A i, j \in 1..Len(q) : SameKey(q[i], q[j]) => i = j
    BY <1>4, <1>6, <2>1 DEF SameKey
  <2>3. \A i \in 1..Len(q) : nextSeq[q[i].db] <= q[i].seq /\ q[i].seq < nextSeq'[q[i].db]
    <3> SUFFICES ASSUME NEW i \in 1..Len(q)
                 PROVE  nextSeq[q[i].db] <= q[i].seq /\ q[i].seq < nextSeq'[q[i].db]
      OBVIOUS
    <3>1. order[i] \in due /\ order[i] \in Dbs
      BY <1>10, <2>1
    <3>2. nextSeq[order[i]] < nextSeq'[order[i]] /\ nextSeq[order[i]] \in Nat
      BY <1>8, <1>9, <3>1
    <3> QED
      BY <2>1, <3>2
  <2> QED
    BY <1>9, <2>2, <2>3 DEF Handed
<1> QED
  BY <1>3, <1>6, <1>11 DEF q, n, due

LEMMA OrderInit == Init => OrderInv
<1> SUFFICES ASSUME Init PROVE OrderInv
  OBVIOUS
<1>1. TypeInv /\ IdleFree
  BY TypeInit DEF Init, IdleFree
<1>2. \A t \in Calls : queue[t] = <<>> /\ phase[t] \notin Working
  BY DEF Init, Working
<1>3. alarms = {} /\ previous = None
  BY DEF Init
<1>4. WaitingApart(queue, nextSeq) /\ SealingApart(queue, nextSeq) /\ PastApart(nextSeq)
  BY <1>2, <1>3 DEF WaitingApart, SealingApart, PastApart
<1> QED
  BY <1>1, <1>4 DEF OrderInv, Ordered

\* A call begins on what it was handed.
LEMMA OrderBegin ==
  ASSUME OrderInv, TypeInv', NEW t \in Calls, phase[t] \notin Working,
         NEW q \in Seq(SealReady), BeginSeal(t, q), Handed(q), previous' = previous
  PROVE  IdleFree' /\ Ordered(queue, nextSeq)'
<1> DEFINE Q == [queue EXCEPT ![t] = q]
<1>1. /\ Q \in [Calls -> Seq(SealReady)] /\ Q[t] = q
      /\ \A u \in Calls : u # t => Q[u] = queue[u]
  BY DEF OrderInv, TypeInv, TypeOK
<1>2. nextSeq' \in [Dbs -> Nat]
  BY DEF TypeInv, TypeOK
<1>3. Ordered(Q, nextSeq')
  BY <1>2, HandedOrder
<1> HIDE DEF Q
<1>4. Ordered(queue, nextSeq)'
  BY <1>1, <1>3, BeginSealOrder DEF OrderInv
<1> QED
  BY <1>4, BeginSealIdleFree DEF OrderInv

LEMMA OrderStart ==
  ASSUME OrderInv, TypeInv', StartCall
  PROVE  IdleFree' /\ Ordered(queue, nextSeq)'
<1>1. ASSUME NEW c \in Cces, Ingest(c) PROVE IdleFree' /\ Ordered(queue, nextSeq)'
  <2>1. CASE c \in Malformed
    BY <1>1, <2>1, OrderUntouched DEF Ingest, acc, calls
  <2>2. CASE c \notin Malformed
    <3>1. /\ Accumulate(c) /\ "ingest" \in Calls
          /\ phase["ingest"] \notin Working /\ previous' = previous
      BY <1>1, <2>2 DEF Ingest, Calls, Working
    <3>2. \E q \in Seq(SealReady) : BeginSeal("ingest", q) /\ Handed(q)
      BY <3>1, AccumulateHands DEF OrderInv
    <3> QED
      BY <3>1, <3>2, OrderBegin
  <2> QED
    BY <2>1, <2>2
<1>2. ASSUME NEW t \in Sweeps, Sweep(t) PROVE IdleFree' /\ Ordered(queue, nextSeq)'
  <2>1. t \in Calls /\ phase[t] \notin Working /\ previous' = previous
    BY <1>2 DEF Sweep, Calls, Working
  <2>2. \E q \in Seq(SealReady) : BeginSeal(t, q) /\ Handed(q)
    BY <1>2, SweepHands DEF OrderInv
  <2> QED
    BY <2>1, <2>2, OrderBegin
<1> QED
  BY <1>1, <1>2 DEF StartCall

LEMMA OrderContinue ==
  ASSUME OrderInv, TypeInv', NEW t \in Calls, Continue(t)
  PROVE  IdleFree' /\ Ordered(queue, nextSeq)'
<1> USE DEF acc, Working
<1>1. CASE PutObject(t)
  <2>1. phase[t] \in Working /\ UNCHANGED <<previous, nextSeq>>
    BY <1>1 DEF PutObject
  <2>2. CASE WriteFailed(t)
    BY <2>1, <2>2, OrderFailed
  <2>3. CASE MoveTo(t, AfterObject(t, written[t] + 1)) /\ UNCHANGED alarms
    <3>1. AfterObject(t, written[t] + 1) # "idle"
      BY DEF AfterObject
    <3>2. /\ \A u \in Calls : u # t => phase'[u] = phase[u]
          /\ phase'[t] # "idle" /\ UNCHANGED <<man, queue>>
      BY <2>3, <3>1 DEF MoveTo, OrderInv, TypeInv, TypeOK
    <3> QED
      BY <2>1, <2>3, <3>2, OrderMove
  <2> QED
    BY <1>1, <2>2, <2>3 DEF PutObject
<1>2. CASE PutManifest(t)
  <2>1. phase[t] \in Working /\ UNCHANGED <<previous, nextSeq>>
    BY <1>2 DEF PutManifest
  <2>2. CASE WriteFailed(t)
    BY <2>1, <2>2, OrderFailed
  <2>3. CASE MoveTo(t, "sign") /\ UNCHANGED alarms
    <3>1. /\ \A u \in Calls : u # t => phase'[u] = phase[u]
          /\ phase'[t] # "idle" /\ UNCHANGED <<man, queue>>
      BY <2>3 DEF MoveTo, OrderInv, TypeInv, TypeOK
    <3> QED
      BY <2>1, <2>3, <3>1, OrderMove
  <2> QED
    BY <1>2, <2>2, <2>3 DEF PutManifest
<1>3. CASE Sign(t) \/ TokenVerified(t)
  <2>1. phase[t] \in Working /\ UNCHANGED <<previous, nextSeq, alarms>>
    BY <1>3 DEF Sign, TokenVerified
  <2>2. CASE Abort(t)
    BY <2>1, <2>2, OrderAbort
  <2>3. CASE MoveTo(t, "anchor") \/ MoveTo(t, "record")
    <3>1. /\ \A u \in Calls : u # t => phase'[u] = phase[u]
          /\ phase'[t] # "idle" /\ UNCHANGED <<man, queue>>
      BY <2>3 DEF MoveTo, OrderInv, TypeInv, TypeOK
    <3> QED
      BY <2>1, <3>1, OrderMove
  <2> QED
    BY <1>3, <2>2, <2>3 DEF Sign, TokenVerified
<1>4. CASE NoToken(t) \/ PutAnchor(t)
  <2>1. phase[t] \in Working /\ UNCHANGED <<nextSeq, alarms>>
    BY <1>4 DEF NoToken, PutAnchor
  <2>2. CASE Finish(t)
    BY <2>1, <2>2, OrderFinish
  <2>3. CASE Abort(t) /\ UNCHANGED previous
    BY <2>1, <2>3, OrderAbort
  <2> QED
    BY <1>4, <2>2, <2>3 DEF NoToken, PutAnchor
<1>5. CASE NextSegment(t)
  <2>1. /\ phase[t] \notin Working /\ UNCHANGED <<previous, nextSeq>>
        /\ queue \in [Calls -> Seq(SealReady)]
    BY <1>5 DEF NextSegment, OrderInv, TypeInv, TypeOK
  <2>2. Ordered(queue, nextSeq')
    BY <2>1 DEF OrderInv
  <2>3. BeginSeal(t, queue[t])
    BY <1>5 DEF NextSegment
  <2>4. Ordered(queue, nextSeq)'
    BY <2>1, <2>2, <2>3, BeginSealOrder DEF OrderInv
  <2>5. IdleFree'
    BY <2>1, <2>3, BeginSealIdleFree DEF OrderInv
  <2> QED
    BY <2>4, <2>5
<1> QED
  BY <1>1, <1>2, <1>3, <1>4, <1>5 DEF Continue

LEMMA OrderStep == OrderInv /\ [Next]_vars => OrderInv'
<1> SUFFICES ASSUME OrderInv, [Next]_vars PROVE OrderInv'
  OBVIOUS
<1>1. TypeInv'
  BY TypeStep DEF OrderInv
<1>2. SUFFICES IdleFree' /\ Ordered(queue, nextSeq)'
  BY <1>1 DEF OrderInv
<1>3. CASE StartCall
  BY <1>1, <1>3, OrderStart
<1>4. ASSUME NEW t \in Calls, Continue(t) PROVE IdleFree' /\ Ordered(queue, nextSeq)'
  BY <1>1, <1>4, OrderContinue
<1>5. CASE (\E c \in Cces : Miss(c)) \/ (\E db \in Dbs : Age(db)) \/ Stop
  BY <1>5, OrderUntouched DEF Miss, Age, Stop, acc, calls
<1>6. CASE Restart
  <2>1. \A t \in Calls : /\ queue'[t] = <<>> /\ phase'[t] = "idle" /\ man'[t] = None
    BY <1>6 DEF Restart
  <2>2. alarms' = {} /\ previous' = None
    BY <1>6 DEF Restart
  <2>3. IdleFree'
    BY <2>1 DEF IdleFree
  <2>4. WaitingApart(queue, nextSeq)' /\ SealingApart(queue, nextSeq)' /\ PastApart(nextSeq)'
    BY <2>1, <2>2 DEF WaitingApart, SealingApart, PastApart, Working
  <2> QED
    BY <2>3, <2>4 DEF Ordered
<1>7. CASE UNCHANGED vars
  BY <1>7, OrderUntouched DEF vars, acc, calls
<1> QED
  BY <1>3, <1>4, <1>5, <1>6, <1>7 DEF Next, Environment

\* However sweeps and ingests overlap, of the calls of one database at most one
\* is past verification: the others find #previous stale.
THEOREM OneSealPerDatabase == Spec => []OneSealAtATime
<1>1. OrderInv => OneSealAtATime
  <2> SUFFICES ASSUME OrderInv, NEW t \in Calls, NEW u \in Calls, t # u,
                      PastVerification(t), PastVerification(u)
               PROVE  man[t].db # man[u].db
    BY DEF OneSealAtATime
  <2>1. phase[t] \in Working /\ phase[u] \in Working
    BY DEF PastVerification, OrderInv, IdleFree, TypeInv, TypeOK, Phase, Working
  <2> QED
    BY <2>1 DEF OrderInv, Ordered, SealingApart, Sealing
<1> QED
  BY <1>1, OrderInit, OrderStep, PTL DEF Spec

\* Failing closed: after a segment of a database has failed, the process puts no
\* manifest of a later one, whatever else was in flight when it failed.
THEOREM FailureIsFinal == Spec => FailureHaltsChain
<1>1. OrderInv /\ [Next]_vars =>
        [\A m \in own' \ own : ~\E a \in alarms : a.db = m.db /\ a.seq < m.seq]_vars
  <2> SUFFICES ASSUME OrderInv, Next, NEW m \in own' \ own,
                      NEW a \in alarms, a.db = m.db, a.seq < m.seq
               PROVE  FALSE
    OBVIOUS
  <2>1. PICK t \in Calls : PutManifest(t) /\ m = man[t]
    BY DEF Next, StartCall, Environment, Continue, Ingest, Sweep, Miss, Age, Stop, Restart,
           PutObject, PutManifest, Sign, TokenVerified, NoToken, PutAnchor, NextSegment, worm
  <2>2. phase[t] \in Working /\ m \in Manifest
    BY <2>1 DEF PutManifest, Working, OrderInv, TypeInv, CallsOK
  <2>3. m.seq < a.seq
    BY <2>1, <2>2 DEF OrderInv, Ordered, SealingApart, Sealing
  <2>4. m.seq \in Nat /\ a.seq \in Nat
    BY <2>2 DEF OrderInv, TypeInv, TypeOK, Manifest, Alarm
  <2> QED
    BY <2>3, <2>4
<1> QED
  BY <1>1, OrderInit, OrderStep, PTL DEF Spec, FailureHaltsChain

-----------------------------------------------------------------------------
(* What this process has put, against what it still holds: ChainLinked.    *)
(*                                                                         *)
(* A sequence is used once by one process because whatever has been put    *)
(* lies before everything of its database that waits, is being put or is   *)
(* still open.  That does not follow from #previous, which a failed anchor *)
(* leaves behind the last manifest put.                                    *)

Putting == {"object", "manifest"}

OwnApart(Q, N) ==
  \A m \in own :
    /\ m.seq < N[m.db]
    /\ \A u \in Calls : \A j \in 1..Len(Q[u]) :
         Q[u][j].db = m.db => m.seq < Q[u][j].seq
    /\ \A u \in Calls : phase[u] \in Putting /\ man[u].db = m.db => m.seq < man[u].seq

OwnUnique == \A m, p \in own : SameKey(m, p) => m = p

NumberInv == ChainInv /\ OrderInv /\ OwnApart(queue, nextSeq) /\ OwnUnique

\* A step in which calls only go on or are given up.
LEMMA OwnKept ==
  ASSUME TypeInv, OwnApart(queue, nextSeq), own' = own, nextSeq' = nextSeq,
         \A u \in Calls : /\ queue'[u] \in {queue[u], <<>>}
                          /\ phase'[u] \in Putting =>
                               phase[u] \in Putting /\ man'[u] = man[u]
  PROVE  OwnApart(queue, nextSeq)'
<1> SUFFICES ASSUME NEW m \in own
             PROVE  /\ m.seq < nextSeq[m.db]
                    /\ \A u \in Calls : \A j \in 1..Len(queue'[u]) :
                         queue'[u][j].db = m.db => m.seq < queue'[u][j].seq
                    /\ \A u \in Calls : phase'[u] \in Putting /\ man'[u].db = m.db =>
                         m.seq < man'[u].seq
  BY DEF OwnApart
<1>1. m.seq < nextSeq[m.db]
  BY DEF OwnApart
<1>2. ASSUME NEW u \in Calls, NEW j \in 1..Len(queue'[u]), queue'[u][j].db = m.db
      PROVE  m.seq < queue'[u][j].seq
  <2>1. CASE queue'[u] = queue[u]
    BY <1>2, <2>1 DEF OwnApart
  <2>2. CASE queue'[u] = <<>>
    BY <1>2, <2>2
  <2> QED
    BY <2>1, <2>2
<1>3. \A u \in Calls : phase'[u] \in Putting /\ man'[u].db = m.db => m.seq < man'[u].seq
  BY DEF OwnApart
<1> QED
  BY <1>1, <1>2, <1>3

\* What a call is handed lies past everything that has been put.
LEMMA HandedOwn ==
  ASSUME TypeInv, OwnApart(queue, nextSeq), nextSeq' \in [Dbs -> Nat],
         NEW t \in Calls, NEW q \in Seq(SealReady), Handed(q)
  PROVE  OwnApart([queue EXCEPT ![t] = q], nextSeq')
<1> DEFINE Q == [queue EXCEPT ![t] = q]
<1>1. Q[t] = q /\ \A u \in Calls : u # t => Q[u] = queue[u]
  BY DEF TypeInv, TypeOK
<1> HIDE DEF Q
<1>2. SUFFICES ASSUME NEW m \in own
               PROVE  /\ m.seq < nextSeq'[m.db]
                      /\ \A u \in Calls : \A j \in 1..Len(Q[u]) :
                           Q[u][j].db = m.db => m.seq < Q[u][j].seq
                      /\ \A u \in Calls : phase[u] \in Putting /\ man[u].db = m.db =>
                           m.seq < man[u].seq
  BY DEF OwnApart, Q
<1>3. /\ m.seq \in Nat /\ m.db \in Dbs /\ nextSeq[m.db] \in Nat
      /\ m.seq < nextSeq[m.db] /\ nextSeq'[m.db] \in Nat
  BY DEF TypeInv, TypeOK, Manifest, OwnApart
<1>4. m.seq < nextSeq'[m.db]
  BY <1>3 DEF Handed
<1>5. ASSUME NEW u \in Calls, NEW j \in 1..Len(Q[u]), Q[u][j].db = m.db
      PROVE  m.seq < Q[u][j].seq
  <2>1. CASE u = t
    <3>1. /\ j \in 1..Len(q) /\ Q[u][j] = q[j] /\ q[j].db = m.db
      BY <1>1, <1>5, <2>1
    <3>2. q[j].seq \in Nat
      <4>1. q[j] \in SealReady
        BY <3>1, ElementOfSeq
      <4> QED
        BY <4>1 DEF SealReady
    <3>3. nextSeq[m.db] <= q[j].seq
      BY <3>1 DEF Handed
    <3> QED
      BY <1>3, <3>1, <3>2, <3>3
  <2>2. CASE u # t
    BY <1>1, <1>5, <2>2 DEF OwnApart
  <2> QED
    BY <2>1, <2>2
<1>6. \A u \in Calls : phase[u] \in Putting /\ man[u].db = m.db => m.seq < man[u].seq
  BY DEF OwnApart
<1> QED
  BY <1>4, <1>5, <1>6

\* A call that works on nothing takes the first of the segments Q[t].
LEMMA BeginSealOwn ==
  ASSUME TypeInv, NEW t \in Calls, NEW Q \in [Calls -> Seq(SealReady)],
         OwnApart(Q, nextSeq'), \A u \in Calls : u # t => Q[u] = queue[u],
         BeginSeal(t, Q[t]), own' = own
  PROVE  OwnApart(queue, nextSeq)'
<1> DEFINE q == Q[t]
<1>1. \A u \in Calls : u # t =>
        phase'[u] = phase[u] /\ man'[u] = man[u] /\ queue'[u] = Q[u]
  BY DEF BeginSeal, TypeInv, TypeOK
<1>2. \/ queue'[t] = <<>> /\ phase'[t] \notin Putting
      \/ /\ q # <<>> /\ queue'[t] = Tail(q)
         /\ phase'[t] \in Putting =>
              man'[t].db = Head(q).db /\ man'[t].seq = Head(q).seq
  <2>1. CASE q = <<>>
    BY <2>1 DEF BeginSeal, Putting, TypeInv, TypeOK
  <2>2. CASE q # <<>>
    <3>1. queue'[t] = Tail(q)
      BY <2>2 DEF BeginSeal, TypeInv, TypeOK
    <3>2. phase'[t] \in Putting => man'[t] = BuildManifest(Head(q), previous)
      BY <2>2 DEF BeginSeal, Putting, TypeInv, TypeOK
    <3> QED
      BY <2>2, <3>1, <3>2 DEF BuildManifest
  <2> QED
    BY <2>1, <2>2
<1>3. q \in Seq(SealReady)
  OBVIOUS
<1>4. q # <<>> => /\ 1 \in 1..Len(q) /\ Head(q) = q[1]
                  /\ \A j \in 1..Len(Tail(q)) : j + 1 \in 1..Len(q) /\ Tail(q)[j] = q[j + 1]
  <2> SUFFICES ASSUME q # <<>>
               PROVE  /\ 1 \in 1..Len(q) /\ Head(q) = q[1]
                      /\ \A j \in 1..Len(Tail(q)) : j + 1 \in 1..Len(q) /\ Tail(q)[j] = q[j + 1]
    OBVIOUS
  <2> HIDE DEF q
  <2>1. Head(q) = q[1] /\ Len(Tail(q)) = Len(q) - 1 /\ Len(q) \in Nat /\ Len(q) # 0
        /\ \A j \in 1..Len(Tail(q)) : Tail(q)[j] = q[j + 1]
    BY <1>3, HeadTailProperties, EmptySeq
  <2> QED
    BY <2>1
<1>5. SUFFICES ASSUME NEW m \in own
               PROVE  /\ m.seq < nextSeq'[m.db]
                      /\ \A u \in Calls : \A j \in 1..Len(queue'[u]) :
                           queue'[u][j].db = m.db => m.seq < queue'[u][j].seq
                      /\ \A u \in Calls : phase'[u] \in Putting /\ man'[u].db = m.db =>
                           m.seq < man'[u].seq
  BY DEF OwnApart
<1>6. m.seq < nextSeq'[m.db]
  BY DEF OwnApart
<1>7. \A j \in 1..Len(q) : q[j].db = m.db => m.seq < q[j].seq
  BY DEF OwnApart
<1> HIDE DEF q
<1>8. ASSUME NEW u \in Calls, NEW j \in 1..Len(queue'[u]), queue'[u][j].db = m.db
      PROVE  m.seq < queue'[u][j].seq
  <2>1. CASE u # t
    BY <1>1, <1>8, <2>1 DEF OwnApart
  <2>2. CASE u = t /\ queue'[t] = <<>>
    BY <1>8, <2>2
  <2>3. CASE u = t /\ q # <<>> /\ queue'[t] = Tail(q)
    BY <1>4, <1>7, <1>8, <2>3
  <2> QED
    BY <1>2, <2>1, <2>2, <2>3
<1>9. ASSUME NEW u \in Calls, phase'[u] \in Putting, man'[u].db = m.db
      PROVE  m.seq < man'[u].seq
  <2>1. CASE u # t
    BY <1>1, <1>9, <2>1 DEF OwnApart
  <2>2. CASE u = t
    BY <1>2, <1>4, <1>7, <1>9, <2>2
  <2> QED
    BY <2>1, <2>2
<1> QED
  BY <1>6, <1>8, <1>9

\* Putting the manifest: it lies past what was put, and before the rest.
LEMMA OwnPut ==
  ASSUME NumberInv, NEW t \in Calls, PutManifest(t)
  PROVE  OwnApart(queue, nextSeq)' /\ OwnUnique'
<1>1. /\ phase[t] = "manifest" /\ man[t] \in Manifest
      /\ UNCHANGED <<queue, man, nextSeq>> /\ phase'[t] \notin Putting
      /\ \A u \in Calls : u # t => phase'[u] = phase[u]
  BY DEF PutManifest, WriteFailed, MoveTo, acc, Putting, NumberInv, ChainInv, TypeInv, TypeOK,
         CallsOK, Working
<1>2. own' \in {own, own \cup {man[t]}}
  BY DEF PutManifest
<1>3. Sealing(t, queue, nextSeq)
  BY <1>1 DEF NumberInv, OrderInv, Ordered, SealingApart, Working
<1>4. \A m \in own : m.db = man[t].db => m.seq < man[t].seq
  BY <1>1 DEF NumberInv, OwnApart, Putting
<1>5. OwnApart(queue, nextSeq)'
  <2> SUFFICES ASSUME NEW m \in own'
               PROVE  /\ m.seq < nextSeq[m.db]
                      /\ \A u \in Calls : \A j \in 1..Len(queue[u]) :
                           queue[u][j].db = m.db => m.seq < queue[u][j].seq
                      /\ \A u \in Calls : phase'[u] \in Putting /\ man[u].db = m.db =>
                           m.seq < man[u].seq
    BY <1>1 DEF OwnApart
  <2>1. CASE m \in own
    BY <1>1, <2>1 DEF NumberInv, OwnApart
  <2>2. CASE m = man[t]
    <3>1. \A u \in Calls : phase'[u] \in Putting => u # t /\ phase[u] \in Working
      BY <1>1 DEF Putting, Working
    <3>2. \A u \in Calls : phase'[u] \in Putting => man[u].db # m.db
      BY <1>3, <2>2, <3>1 DEF Sealing
    <3> QED
      BY <1>3, <2>2, <3>2 DEF Sealing
  <2> QED
    BY <1>2, <2>1, <2>2
<1>6. OwnUnique'
  <2> SUFFICES ASSUME NEW m \in own', NEW p \in own', SameKey(m, p), m # p
               PROVE  FALSE
    BY DEF OwnUnique
  <2>1. CASE m \in own /\ p \in own
    BY <2>1 DEF NumberInv, OwnUnique
  <2>2. man[t].seq \in Nat
    BY <1>1 DEF Manifest
  <2>3. CASE m = man[t] /\ p \in own
    BY <1>4, <2>2, <2>3 DEF SameKey
  <2>4. CASE p = man[t] /\ m \in own
    BY <1>4, <2>2, <2>4 DEF SameKey
  <2> QED
    BY <1>2, <2>1, <2>3, <2>4
<1> QED
  BY <1>5, <1>6

\* A call begins on what it was handed.
LEMMA OwnBegin ==
  ASSUME NumberInv, TypeInv', NEW t \in Calls, NEW q \in Seq(SealReady),
         BeginSeal(t, q), Handed(q), own' = own
  PROVE  OwnApart(queue, nextSeq)'
<1> DEFINE Q == [queue EXCEPT ![t] = q]
<1>1. /\ Q \in [Calls -> Seq(SealReady)] /\ Q[t] = q
      /\ \A u \in Calls : u # t => Q[u] = queue[u]
  BY DEF NumberInv, ChainInv, TypeInv, TypeOK
<1>2. nextSeq' \in [Dbs -> Nat]
  BY DEF TypeInv, TypeOK
<1>3. OwnApart(Q, nextSeq')
  BY <1>2, HandedOwn DEF NumberInv, ChainInv
<1> HIDE DEF Q
<1> QED
  BY <1>1, <1>3, BeginSealOwn DEF NumberInv, ChainInv

LEMMA OwnStep ==
  ASSUME NumberInv, TypeInv', Next
  PROVE  OwnApart(queue, nextSeq)' /\ OwnUnique'
<1> USE DEF NumberInv, Putting
<1>0. TypeInv
  BY DEF ChainInv
<1>1. ASSUME NEW c \in Cces, Ingest(c) PROVE OwnApart(queue, nextSeq)' /\ OwnUnique'
  <2>1. own' = own /\ OwnUnique'
    BY <1>1 DEF Ingest, worm, OwnUnique
  <2>2. CASE c \in Malformed
    <3>1. UNCHANGED <<queue, phase, man, nextSeq>>
      BY <1>1, <2>2 DEF Ingest, acc, calls
    <3> QED
      BY <1>0, <2>1, <3>1, OwnKept
  <2>3. CASE c \notin Malformed
    <3>1. Accumulate(c) /\ "ingest" \in Calls
      BY <1>1, <2>3 DEF Ingest, Calls
    <3>2. \E q \in Seq(SealReady) : BeginSeal("ingest", q) /\ Handed(q)
      BY <1>0, <3>1, AccumulateHands
    <3> QED
      BY <2>1, <3>1, <3>2, OwnBegin
  <2> QED
    BY <2>2, <2>3
<1>2. ASSUME NEW t \in Sweeps, Sweep(t) PROVE OwnApart(queue, nextSeq)' /\ OwnUnique'
  <2>1. own' = own /\ OwnUnique' /\ t \in Calls
    BY <1>2 DEF Sweep, worm, OwnUnique, Calls
  <2>2. \E q \in Seq(SealReady) : BeginSeal(t, q) /\ Handed(q)
    BY <1>0, <1>2, SweepHands
  <2> QED
    BY <2>1, <2>2, OwnBegin
<1>3. ASSUME NEW t \in Calls, Continue(t) PROVE OwnApart(queue, nextSeq)' /\ OwnUnique'
  <2>1. CASE PutManifest(t)
    BY <2>1, OwnPut
  <2>2. CASE NextSegment(t)
    <3>1. /\ own' = own /\ nextSeq' = nextSeq /\ queue \in [Calls -> Seq(SealReady)]
          /\ BeginSeal(t, queue[t])
      BY <1>0, <2>2 DEF NextSegment, worm, acc, TypeInv, TypeOK
    <3> QED
      BY <1>0, <3>1, BeginSealOwn DEF OwnUnique
  <2>3. CASE PutObject(t) \/ Sign(t) \/ TokenVerified(t) \/ NoToken(t) \/ PutAnchor(t)
    <3>1. own' = own /\ nextSeq' = nextSeq
      BY <2>3 DEF PutObject, Sign, TokenVerified, NoToken, PutAnchor, worm, acc
    <3>2. \A u \in Calls : u # t =>
            queue'[u] = queue[u] /\ phase'[u] = phase[u] /\ man'[u] = man[u]
      BY <1>0, <2>3 DEF PutObject, Sign, TokenVerified, NoToken, PutAnchor,
                        WriteFailed, MoveTo, Finish, Abort, TypeInv, TypeOK
    <3>3. /\ queue'[t] \in {queue[t], <<>>}
          /\ phase'[t] \in Putting => phase[t] \in Putting /\ man'[t] = man[t]
      <4>1. CASE Abort(t)
        BY <1>0, <4>1 DEF Abort, TypeInv, TypeOK
      <4>2. CASE ~Abort(t)
        BY <1>0, <2>3, <4>2 DEF PutObject, Sign, TokenVerified, NoToken, PutAnchor,
                                WriteFailed, MoveTo, Finish, TypeInv, TypeOK
      <4> QED
        BY <4>1, <4>2
    <3>4. OwnApart(queue, nextSeq)'
      BY <1>0, <3>1, <3>2, <3>3, OwnKept
    <3> QED
      BY <3>1, <3>4 DEF OwnUnique
  <2> QED
    BY <1>3, <2>1, <2>2, <2>3 DEF Continue
<1>4. CASE (\E c \in Cces : Miss(c)) \/ (\E db \in Dbs : Age(db)) \/ Stop
  <2>1. UNCHANGED <<queue, phase, man, nextSeq, own>>
    BY <1>4 DEF Miss, Age, Stop, acc, calls, worm
  <2> QED
    BY <1>0, <2>1, OwnKept DEF OwnUnique
<1>5. CASE Restart
  BY <1>5 DEF Restart, OwnApart, OwnUnique
<1> QED
  BY <1>1, <1>2, <1>3, <1>4, <1>5 DEF Next, StartCall, Environment

LEMMA NumberInit == Init => NumberInv
  BY ChainInit, OrderInit DEF NumberInv, OwnApart, OwnUnique, Init

LEMMA NumberStep == NumberInv /\ [Next]_vars => NumberInv'
<1> SUFFICES ASSUME NumberInv, [Next]_vars PROVE NumberInv'
  OBVIOUS
<1>1. ChainInv' /\ OrderInv'
  BY ChainStep, OrderStep DEF NumberInv
<1>2. CASE Next
  BY <1>1, <1>2, OwnStep DEF NumberInv, ChainInv
<1>3. CASE UNCHANGED vars
  BY <1>1, <1>3 DEF vars, acc, calls, worm, NumberInv, OwnApart, OwnUnique
<1> QED
  BY <1>2, <1>3

\* Whatever overlaps, fails or was left by earlier processes, the manifests a
\* process puts form one chain per database, without a gap or a fork.
THEOREM ChainSafe == Spec => []ChainLinked
<1>1. NumberInv => ChainLinked
  BY DEF NumberInv, ChainInv, OwnLinked, Linked, OwnUnique, ChainLinked
<1> QED
  BY <1>1, NumberInit, NumberStep, PTL DEF Spec

-----------------------------------------------------------------------------
(* Where an event is: SealedOnce.                                          *)
(*                                                                         *)
(* An event is on the bus, in one open segment, or in one closed segment:  *)
(* one that waits in a call, is being sealed, or has its manifest in WORM. *)
(* A manifest of an earlier process is of a segment this one does not      *)
(* hold, so that each segment has one manifest.                            *)

SegmentOf(m) == Ready(m.db, m.seq, m.objs)

Waiting(t) == {queue[t][i] : i \in 1..Len(queue[t])}

WaitingSegs == UNION {Waiting(t) : t \in Calls}
SealingSegs == {SegmentOf(man[t]) : t \in {u \in Calls : phase[u] \in Working}}
SealedSegs  == {SegmentOf(m) : m \in manifests}

InHand == WaitingSegs \cup SealingSegs
Closed == InHand \cup SealedSegs

InOrder(objs) == \A i, j \in 1..Len(objs) : i < j => objs[i] < objs[j]

\* objs is in the global order, within the cap, of one database, and off the bus.
WellMade(objs, db, B) ==
  /\ InOrder(objs) /\ Len(objs) <= MaxEvents
  /\ \A e \in EventsOf(objs) : e \notin B /\ DbOf[e] = db

\* Bus B, open segments O and closed segments C share no event.
Apart(B, O, C) ==
  /\ \A db \in Dbs : WellMade(O[db], db, B)
  /\ \A s \in C : WellMade(s.objs, s.db, B)
  /\ \A s \in C : EventsOf(s.objs) \cap EventsOf(O[s.db]) = {}
  /\ \A s, r \in C : s # r => EventsOf(s.objs) \cap EventsOf(r.objs) = {}

EventsApart == Apart(bus, open, Closed) /\ \A db \in Dbs : Len(open[db]) < MaxEvents

Foreign == \A m \in manifests \ own : SegmentOf(m) \notin InHand

Once == \A m, p \in manifests : SegmentOf(m) = SegmentOf(p) => m = p

\* The segments q carry an event not yet in a closed segment.
Fresh(q) ==
  \A i \in 1..Len(q) : \E e \in EventsOf(q[i].objs) : e \in bus \cup EventsOf(open[q[i].db])

LEMMA ClosedType ==
  ASSUME TypeInv
  PROVE  Closed \subseteq SealReady
<1>1. ASSUME NEW m \in Manifest PROVE SegmentOf(m) \in SealReady
  BY DEF SegmentOf, Ready, Manifest, SealReady
<1>2. \A t \in Calls : Waiting(t) \subseteq SealReady
  BY DEF TypeInv, TypeOK, Waiting
<1>3. \A t \in Calls : phase[t] \in Working => man[t] \in Manifest
  BY DEF TypeInv, CallsOK
<1>4. manifests \subseteq Manifest
  BY DEF TypeInv, TypeOK
<1> QED
  <2>1. WaitingSegs \subseteq SealReady
    BY <1>2 DEF WaitingSegs
  <2>2. SealingSegs \subseteq SealReady
    BY <1>1, <1>3 DEF SealingSegs
  <2>3. SealedSegs \subseteq SealReady
    BY <1>1, <1>4 DEF SealedSegs
  <2> QED
    BY <2>1, <2>2, <2>3 DEF Closed, InHand

\* What carries a fresh event is not closed.
LEMMA FreshNotClosed ==
  ASSUME TypeInv, EventsApart, NEW q \in Seq(SealReady), Fresh(q)
  PROVE  \A i \in 1..Len(q) : q[i] \notin Closed
<1> SUFFICES ASSUME NEW i \in 1..Len(q), q[i] \in Closed PROVE FALSE
  OBVIOUS
<1>1. PICK e \in EventsOf(q[i].objs) : e \in bus \cup EventsOf(open[q[i].db])
  BY DEF Fresh
<1>2. /\ WellMade(q[i].objs, q[i].db, bus)
      /\ EventsOf(q[i].objs) \cap EventsOf(open[q[i].db]) = {}
  BY DEF EventsApart, Apart
<1> QED
  BY <1>1, <1>2 DEF WellMade

\* The empty segment carries nothing.
LEMMA EmptyWellMade ==
  ASSUME NEW db, NEW B
  PROVE  EventsOf(<<>>) = {} /\ WellMade(<<>>, db, B)
<1>1. Len(<<>>) = 0
  OBVIOUS
<1>2. EventsOf(<<>>) = {}
  BY <1>1 DEF EventsOf
<1> QED
  BY <1>1, <1>2, ConstantsAssumption DEF WellMade, InOrder

\* Events leave the bus, segments are forgotten, open segments are dropped.
LEMMA ApartShrinks ==
  ASSUME NEW B, NEW O, NEW C, Apart(B, O, C), NEW B2, B2 \subseteq B,
         NEW C2, C2 \subseteq C, NEW O2,
         \A db \in Dbs : O2[db] = O[db] \/ O2[db] = <<>>,
         C \subseteq SealReady
  PROVE  Apart(B2, O2, C2)
<1>1. \A s \in C : s.db \in Dbs
  BY DEF SealReady
<1>2. \A db \in Dbs : EventsOf(O2[db]) \subseteq EventsOf(O[db])
  BY EmptyWellMade
<1>3. \A db \in Dbs : WellMade(O2[db], db, B2)
  BY EmptyWellMade DEF Apart, WellMade
<1>4. \A s \in C2 : WellMade(s.objs, s.db, B2)
  BY DEF Apart, WellMade
<1> QED
  BY <1>1, <1>2, <1>3, <1>4 DEF Apart

\* An open segment is closed.
LEMMA ApartHand ==
  ASSUME NEW B, NEW O \in [Dbs -> Seq(Cces)], NEW C, Apart(B, O, C), C \subseteq SealReady,
         NEW db \in Dbs, NEW n
  PROVE  Apart(B, [O EXCEPT ![db] = <<>>], C \cup {Ready(db, n, O[db])})
<1> DEFINE O2 == [O EXCEPT ![db] = <<>>]
           new == Ready(db, n, O[db])
<1>1. O2[db] = <<>> /\ \A d \in Dbs : d # db => O2[d] = O[d]
  OBVIOUS
<1>2. new.db = db /\ new.objs = O[db]
  BY DEF Ready
<1>3. \A s \in C : s.db \in Dbs
  BY DEF SealReady
<1> HIDE DEF new, O2
<1>4. \A d \in Dbs : WellMade(O2[d], d, B)
  BY <1>1, EmptyWellMade DEF Apart
<1>5. \A s \in C \cup {new} : WellMade(s.objs, s.db, B)
  BY <1>2 DEF Apart
<1>6. \A s \in C \cup {new} : EventsOf(s.objs) \cap EventsOf(O2[s.db]) = {}
  BY <1>1, <1>2, <1>3, EmptyWellMade DEF Apart
<1>7. \A s \in C : EventsOf(s.objs) \cap EventsOf(new.objs) = {}
  <2> SUFFICES ASSUME NEW s \in C, NEW e \in EventsOf(s.objs), e \in EventsOf(O[db])
               PROVE  FALSE
    BY <1>2
  <2>1. s.db = DbOf[e] /\ db = DbOf[e]
    BY DEF Apart, WellMade
  <2> QED
    BY <2>1 DEF Apart
<1>8. \A s, r \in C \cup {new} : s # r => EventsOf(s.objs) \cap EventsOf(r.objs) = {}
  BY <1>7 DEF Apart
<1>9. Apart(B, O2, C \cup {new})
  BY <1>4, <1>5, <1>6, <1>8 DEF Apart
<1> QED
  BY <1>9 DEF new, O2

\* Placing an event into a buffer keeps the global order and adds that event.
LEMMA InsertAtPlace ==
  ASSUME NEW s \in Seq(Cces), NEW c \in Cces, NEW k \in 0..Len(s), IsPlace(s, k, c), InOrder(s)
  PROVE  /\ InsertAt(s, k, c) \in Seq(Cces)
         /\ Len(InsertAt(s, k, c)) = Len(s) + 1
         /\ InOrder(InsertAt(s, k, c))
         /\ EventsOf(InsertAt(s, k, c)) \subseteq EventsOf(s) \cup {c}
         /\ c \in EventsOf(InsertAt(s, k, c))
<1> DEFINE front == SubSeq(s, 1, k)
           back  == SubSeq(s, k + 1, Len(s))
           r     == InsertAt(s, k, c)
<1>1. /\ front \in Seq(Cces) /\ Len(front) = k /\ \A i \in 1..k : front[i] = s[i]
      /\ back \in Seq(Cces) /\ Len(back) = Len(s) - k
      /\ \A i \in 1..(Len(s) - k) : back[i] = s[i + k]
  BY SubSeqProperties
<1>2. <<c>> \in Seq(Cces) /\ Len(<<c>>) = 1 /\ <<c>>[1] = c
  OBVIOUS
<1> HIDE DEF front, back
<1>3. /\ front \o <<c>> \in Seq(Cces) /\ Len(front \o <<c>>) = k + 1
      /\ \A i \in 1..(k + 1) : (front \o <<c>>)[i] = IF i = k + 1 THEN c ELSE s[i]
  BY <1>1, <1>2, ConcatProperties
<1>4. r = (front \o <<c>>) \o back
  BY DEF InsertAt, front, back
<1>5. /\ r \in Seq(Cces) /\ Len(r) = Len(s) + 1
      /\ \A i \in 1..(Len(s) + 1) :
           r[i] = IF i <= k + 1 THEN (front \o <<c>>)[i] ELSE back[i - (k + 1)]
  BY <1>1, <1>3, <1>4, ConcatProperties
<1> HIDE DEF r
<1>6. \A i \in 1..Len(r) :
        /\ i <= k => i \in 1..Len(s) /\ r[i] = s[i]
        /\ i = k + 1 => r[i] = c
        /\ i > k + 1 => i - 1 \in 1..Len(s) /\ r[i] = s[i - 1]
  <2> SUFFICES ASSUME NEW i \in 1..Len(r)
               PROVE  /\ i <= k => i \in 1..Len(s) /\ r[i] = s[i]
                      /\ i = k + 1 => r[i] = c
                      /\ i > k + 1 => i - 1 \in 1..Len(s) /\ r[i] = s[i - 1]
    OBVIOUS
  <2>1. CASE i <= k
    <3>1. /\ i \in 1..(k + 1) /\ i \in 1..Len(s) /\ i # k + 1 /\ ~(i > k + 1)
          /\ i \in 1..(Len(s) + 1) /\ i <= k + 1
      <4>1. Len(s) \in Nat /\ k \in Nat /\ k <= Len(s) /\ i \in Nat /\ 1 <= i
        BY <1>5
      <4> QED
        BY <2>1, <4>1
    <3>2. r[i] = (front \o <<c>>)[i]
      BY <1>5, <3>1
    <3> QED
      BY <1>3, <3>1, <3>2
  <2>2. CASE i = k + 1
    <3>1. i \in 1..(k + 1) /\ i <= k + 1 /\ ~(i <= k) /\ ~(i > k + 1)
      BY <2>2
    <3>2. r[i] = (front \o <<c>>)[i]
      BY <1>5, <3>1
    <3> QED
      BY <1>3, <2>2, <3>1, <3>2
  <2>3. CASE i > k + 1
    <3>1. i - (k + 1) \in 1..(Len(s) - k) /\ (i - (k + 1)) + k = i - 1
      BY <1>5, <2>3
    <3>2. r[i] = back[i - (k + 1)]
      BY <1>5, <2>3
    <3>3. back[i - (k + 1)] = s[(i - (k + 1)) + k]
      BY <1>1, <3>1
    <3> QED
      BY <1>5, <2>3, <3>1, <3>2, <3>3
  <2> QED
    BY <2>1, <2>2, <2>3
<1>7. InOrder(r)
  <2> SUFFICES ASSUME NEW i \in 1..Len(r), NEW j \in 1..Len(r), i < j
               PROVE  r[i] < r[j]
    BY DEF InOrder
  <2>1. CASE j <= k
    BY <1>6, <2>1 DEF InOrder
  <2>2. CASE j = k + 1
    <3>1. i <= k /\ i \in 1..k
      BY <2>2
    <3> QED
      BY <1>6, <2>2, <3>1 DEF IsPlace
  <2>3. CASE j > k + 1
    <3>1. j - 1 \in 1..Len(s) /\ j - 1 \in (k + 1)..Len(s) /\ r[j] = s[j - 1]
      BY <1>6, <2>3
    <3>2. CASE i <= k
      <4>1. i \in 1..Len(s) /\ r[i] = s[i] /\ i < j - 1
        BY <1>6, <2>3, <3>2
      <4> QED
        BY <3>1, <4>1 DEF InOrder
    <3>3. CASE i = k + 1
      BY <1>6, <3>1, <3>3 DEF IsPlace
    <3>4. CASE i > k + 1
      <4>1. i - 1 \in 1..Len(s) /\ r[i] = s[i - 1] /\ i - 1 < j - 1
        BY <1>6, <3>4
      <4> QED
        BY <3>1, <4>1 DEF InOrder
    <3> QED
      BY <3>2, <3>3, <3>4
  <2> QED
    BY <2>1, <2>2, <2>3
<1>8. \A i \in 1..Len(r) : r[i] = c \/ r[i] \in EventsOf(s)
  <2> SUFFICES ASSUME NEW i \in 1..Len(r) PROVE r[i] = c \/ r[i] \in EventsOf(s)
    OBVIOUS
  <2>1. i <= k \/ i = k + 1 \/ i > k + 1
    OBVIOUS
  <2> QED
    BY <1>6, <2>1 DEF EventsOf
<1>9. EventsOf(r) \subseteq EventsOf(s) \cup {c}
  BY <1>8 DEF EventsOf
<1>10. c \in EventsOf(r)
  <2>1. k + 1 \in 1..Len(r)
    <3>1. Len(s) \in Nat /\ k \in Nat /\ k <= Len(s)
      OBVIOUS
    <3> QED
      BY <1>5, <3>1
  <2> QED
    BY <1>6, <2>1 DEF EventsOf
<1> QED
  BY <1>5, <1>7, <1>9, <1>10 DEF r

\* An event of the bus is placed into the open segment of its database.
LEMMA ApartInsert ==
  ASSUME NEW B, NEW O \in [Dbs -> Seq(Cces)], NEW C, Apart(B, O, C), C \subseteq SealReady,
         NEW c \in B, c \in Cces, NEW k \in 0..Len(O[DbOf[c]]), IsPlace(O[DbOf[c]], k, c),
         Len(O[DbOf[c]]) < MaxEvents
  PROVE  Apart(B \ {c}, [O EXCEPT ![DbOf[c]] = InsertAt(O[DbOf[c]], k, c)], C)
<1> DEFINE db == DbOf[c]
           r  == InsertAt(O[db], k, c)
           O2 == [O EXCEPT ![db] = r]
<1>1. db \in Dbs /\ O[db] \in Seq(Cces) /\ MaxEvents \in Nat
  BY ConstantsAssumption
<1>2. InOrder(O[db])
  BY <1>1 DEF Apart, WellMade
<1>3. /\ Len(r) = Len(O[db]) + 1 /\ InOrder(r)
      /\ EventsOf(r) \subseteq EventsOf(O[db]) \cup {c}
  BY <1>1, <1>2, InsertAtPlace
<1>4. Len(O[db]) \in Nat
  BY <1>1
<1>5. O2[db] = r /\ \A d \in Dbs : d # db => O2[d] = O[d]
  BY <1>1
<1>6. \A s \in C : s.db \in Dbs
  BY DEF SealReady
<1>7. WellMade(r, db, B \ {c})
  BY <1>1, <1>3, <1>4 DEF Apart, WellMade
<1> HIDE DEF db, r, O2
<1>8. \A d \in Dbs : WellMade(O2[d], d, B \ {c})
  BY <1>5, <1>7 DEF Apart, WellMade
<1>9. \A s \in C : WellMade(s.objs, s.db, B \ {c})
  BY DEF Apart, WellMade
<1>10. \A s \in C : EventsOf(s.objs) \cap EventsOf(O2[s.db]) = {}
  <2> SUFFICES ASSUME NEW s \in C, NEW e \in EventsOf(s.objs), e \in EventsOf(O2[s.db])
               PROVE  FALSE
    OBVIOUS
  <2>1. e # c
    BY DEF Apart, WellMade
  <2>2. e \in EventsOf(O[s.db])
    BY <1>3, <1>5, <1>6, <2>1
  <2> QED
    BY <2>2 DEF Apart
<1>11. Apart(B \ {c}, O2, C)
  BY <1>8, <1>9, <1>10 DEF Apart
<1> QED
  BY <1>11 DEF db, r, O2

\* Accumulating an event closes at most two segments, and all stay apart.
LEMMA AccumulateApart ==
  ASSUME TypeInv, EventsApart, NEW c \in Cces, c \in bus, Accumulate(c)
  PROVE  \E q \in Seq(SealReady) : \E C \in SUBSET SealReady :
           /\ BeginSeal("ingest", q) /\ Fresh(q)
           /\ Closed \subseteq C /\ \A i \in 1..Len(q) : q[i] \in C
           /\ Apart(bus \ {c}, open', C)
           /\ \A db \in Dbs : Len(open'[db]) < MaxEvents
<1> DEFINE db      == DbOf[c]
           expired == open[db] # <<>> /\ aged[db]
           first   == IF expired THEN <<OpenSegment(db)>> ELSE <<>>
           seq     == IF expired THEN SequenceAfter(nextSeq[db]) ELSE nextSeq[db]
           buffer  == Buffer(db, expired)
<1>1. /\ db \in Dbs /\ open \in [Dbs -> Seq(Cces)] /\ nextSeq \in [Dbs -> Nat]
      /\ MaxEvents \in Nat \ {0}
  BY ConstantsAssumption DEF TypeInv, TypeOK
<1>2. PICK k \in 0..Len(buffer) :
        /\ IsPlace(buffer, k, c)
        /\ LET objs == InsertAt(buffer, k, c)
               full == Len(objs) >= MaxEvents
           IN /\ open' = [open EXCEPT ![db] = IF full THEN <<>> ELSE objs]
              /\ BeginSeal("ingest",
                   IF full THEN Append(first, Ready(db, seq, objs)) ELSE first)
  BY DEF Accumulate
<1> DEFINE objs == InsertAt(buffer, k, c)
           full == Len(objs) >= MaxEvents
           last == Ready(db, seq, objs)
           q    == IF full THEN Append(first, last) ELSE first
           O1   == IF expired THEN [open EXCEPT ![db] = <<>>] ELSE open
           C1   == IF expired THEN Closed \cup {OpenSegment(db)} ELSE Closed
           O2   == [O1 EXCEPT ![db] = objs]
           C3   == IF full THEN C1 \cup {last} ELSE C1
<1>3. open' = [open EXCEPT ![db] = IF full THEN <<>> ELSE objs] /\ BeginSeal("ingest", q)
  BY <1>2
<1>4. O1 \in [Dbs -> Seq(Cces)] /\ O1[db] = buffer /\ \A d \in Dbs : Len(O1[d]) < MaxEvents
  <2>1. Len(<<>>) = 0 /\ <<>> \in Seq(Cces)
    OBVIOUS
  <2>2. \A d \in Dbs : Len(open[d]) < MaxEvents
    BY DEF EventsApart
  <2>3. CASE expired
    <3>1. O1 = [open EXCEPT ![db] = <<>>] /\ buffer = <<>>
      BY <2>3 DEF Buffer
    <3> HIDE DEF O1, buffer
    <3> QED
      BY <1>1, <2>1, <2>2, <3>1
  <2>4. CASE ~expired
    BY <1>1, <2>2, <2>4 DEF Buffer
  <2> QED
    BY <2>3, <2>4
<1>5. objs \in Objects
  <2>1. buffer \in Seq(Cces)
    BY <1>1, <1>4
  <2> QED
    BY <2>1, InsertAtType
<1>6. expired => OpenSegment(db) \in SealReady
  BY <1>1 DEF OpenSegment, Ready, SealReady, Objects
<1>7. last \in SealReady
  BY <1>1, <1>5 DEF Ready, SealReady, SequenceAfter
<1>8. Closed \subseteq C1 /\ C1 \subseteq SealReady /\ Closed \subseteq SealReady
  BY <1>6, ClosedType
<1>9. Apart(bus, O1, C1)
  <2>1. CASE expired
    <3>1. O1 = [open EXCEPT ![db] = <<>>] /\ C1 = Closed \cup {Ready(db, nextSeq[db], open[db])}
      BY <2>1 DEF OpenSegment
    <3> HIDE DEF O1, C1
    <3> QED
      BY <1>1, <1>8, <3>1, ApartHand DEF EventsApart
  <2>2. CASE ~expired
    BY <2>2 DEF EventsApart
  <2> QED
    BY <2>1, <2>2
<1> HIDE DEF O1, C1, buffer
<1>10. Apart(bus \ {c}, O2, C1)
  <2>1. /\ k \in 0..Len(O1[db]) /\ IsPlace(O1[db], k, c) /\ Len(O1[db]) < MaxEvents
        /\ O2 = [O1 EXCEPT ![db] = InsertAt(O1[db], k, c)]
    BY <1>1, <1>2, <1>4
  <2> HIDE DEF O2
  <2> QED
    BY <1>4, <1>8, <1>9, <2>1, ApartInsert
<1>11. Len(objs) = Len(O1[db]) + 1 /\ c \in EventsOf(objs)
  <2>1. InOrder(O1[db])
    BY <1>1, <1>9 DEF Apart, WellMade
  <2> QED
    BY <1>1, <1>2, <1>4, <2>1, InsertAtPlace
<1> HIDE DEF objs
<1>12. O2 \in [Dbs -> Seq(Cces)] /\ O2[db] = objs /\ \A d \in Dbs : d # db => O2[d] = O1[d]
  BY <1>1, <1>4, <1>5 DEF Objects
<1>13. q \in Seq(SealReady) /\ \A i \in 1..Len(q) : q[i] \in C3
  <2>1. first \in Seq(SealReady) /\ \A i \in 1..Len(first) : first[i] \in C1
    BY <1>6 DEF C1
  <2>2. CASE full
    <3>1. q = Append(first, last) /\ last \in C3 /\ C1 \subseteq C3
      BY <2>2
    <3> HIDE DEF q, first, last, C3
    <3> QED
      BY <1>7, <2>1, <3>1, AppendProperties
  <2>3. CASE ~full
    BY <2>1, <2>3
  <2> QED
    BY <2>2, <2>3
<1>14. \A d \in Dbs : d # db => O1[d] = open[d]
  BY <1>1 DEF O1
<1>15. Apart(bus \ {c}, open', C3) /\ \A d \in Dbs : Len(open'[d]) < MaxEvents
  <2>1. CASE full
    <3>1. Apart(bus \ {c}, [O2 EXCEPT ![db] = <<>>], C1 \cup {Ready(db, seq, O2[db])})
      BY <1>1, <1>8, <1>10, <1>12, ApartHand
    <3>2. open' = [open EXCEPT ![db] = <<>>]
      BY <1>3, <2>1
    <3>3. [O2 EXCEPT ![db] = <<>>] = open'
      <4> HIDE DEF db, O2
      <4>1. \A d \in Dbs : [O2 EXCEPT ![db] = <<>>][d] = open'[d]
        BY <1>1, <1>12, <1>14, <3>2
      <4> QED
        BY <1>1, <1>12, <3>2, <4>1
    <3>4. C3 = C1 \cup {Ready(db, seq, O2[db])}
      BY <1>12, <2>1
    <3>5. Len(<<>>) = 0
      OBVIOUS
    <3>6. \A d \in Dbs : Len(open'[d]) < MaxEvents
      BY <1>1, <3>2, <3>5 DEF EventsApart
    <3> QED
      BY <3>1, <3>3, <3>4, <3>6
  <2>2. CASE ~full
    <3>1. open' = [open EXCEPT ![db] = objs]
      BY <1>3, <2>2
    <3>2. O2 = open'
      <4>1. \A d \in Dbs : O2[d] = open'[d]
        BY <1>1, <1>12, <1>14, <3>1
      <4> HIDE DEF db, O2
      <4> QED
        BY <1>1, <1>12, <3>1, <4>1
    <3>3. C3 = C1
      BY <2>2
    <3>4. Len(objs) < MaxEvents
      BY <1>1, <1>5, <2>2 DEF Objects
    <3>5. \A d \in Dbs : Len(open'[d]) < MaxEvents
      BY <1>1, <3>1, <3>4 DEF EventsApart
    <3> QED
      BY <1>10, <3>2, <3>3, <3>5
  <2> QED
    BY <2>1, <2>2
<1>16. C3 \in SUBSET SealReady /\ Closed \subseteq C3
  BY <1>7, <1>8
<1>17. Fresh(q)
  <2>1. \A i \in 1..Len(q) : (expired /\ q[i] = OpenSegment(db)) \/ q[i] = last
    <3>1. first \in Seq(SealReady) /\ \A i \in 1..Len(first) : expired /\ first[i] = OpenSegment(db)
      BY <1>6
    <3>2. CASE full
      <4>1. q = Append(first, last)
        BY <3>2
      <4> HIDE DEF q, first, last, expired
      <4> QED
        BY <1>7, <3>1, <4>1, AppendProperties
    <3>3. CASE ~full
      BY <3>1, <3>3
    <3> QED
      BY <3>2, <3>3
  <2>2. expired => \E e \in EventsOf(OpenSegment(db).objs) : e \in EventsOf(open[OpenSegment(db).db])
    <3> SUFFICES ASSUME expired
                 PROVE  \E e \in EventsOf(OpenSegment(db).objs) : e \in EventsOf(open[OpenSegment(db).db])
      OBVIOUS
    <3>1. 1 \in 1..Len(open[db])
      BY <1>1, EmptySeq
    <3> QED
      BY <3>1 DEF OpenSegment, Ready, EventsOf
  <2>3. c \in EventsOf(last.objs)
    BY <1>11 DEF Ready
  <2> HIDE DEF q, last, expired
  <2> QED
    BY <2>1, <2>2, <2>3 DEF Fresh
<1> QED
  BY <1>3, <1>13, <1>15, <1>16, <1>17

\* A sweep closes the open segments that are due.
LEMMA SweepApart ==
  ASSUME TypeInv, EventsApart, NEW t \in Sweeps, Sweep(t)
  PROVE  \E q \in Seq(SealReady) : \E C \in SUBSET SealReady :
           /\ BeginSeal(t, q) /\ Fresh(q)
           /\ Closed \subseteq C /\ \A i \in 1..Len(q) : q[i] \in C
           /\ Apart(bus, open', C)
           /\ \A db \in Dbs : Len(open'[db]) < MaxEvents
<1> DEFINE due == {db \in Dbs : open[db] # <<>> /\ aged[db]}
           n   == Cardinality(due)
           new == {OpenSegment(db) : db \in due}
           C   == Closed \cup new
<1>1. /\ open' = [db \in Dbs |-> IF db \in due THEN <<>> ELSE open[db]]
      /\ \E q \in Orderings(due) :
           BeginSeal(t, [i \in 1..n |-> OpenSegment(q[i])])
  BY DEF Sweep
<1>2. n \in Nat
  <2>1. IsFiniteSet(due)
    BY ConstantsAssumption, FS_Subset
  <2> QED
    BY <2>1, FS_CardinalityType
<1>3. PICK order \in Orderings(due) :
        BeginSeal(t, [i \in 1..n |-> OpenSegment(order[i])])
  BY <1>1
<1> DEFINE q == [i \in 1..n |-> OpenSegment(order[i])]
<1>4. \A i \in 1..n : order[i] \in due
  BY <1>3 DEF Orderings
<1>5. new \subseteq SealReady
  BY DEF OpenSegment, Ready, SealReady, Objects, TypeInv, TypeOK
<1>6. q \in Seq(SealReady) /\ Len(q) = n /\ \A i \in 1..n : q[i] \in new
  <2>1. \A i \in 1..n : OpenSegment(order[i]) \in new
    BY <1>4
  <2> HIDE DEF new, n
  <2>2. \A i \in 1..n : OpenSegment(order[i]) \in SealReady
    BY <1>5, <2>1
  <2>3. q \in Seq(SealReady) /\ Len(q) = n
    BY <1>2, <2>2
  <2> QED
    BY <2>1, <2>3
<1>7. open \in [Dbs -> Seq(Cces)] /\ MaxEvents \in Nat \ {0} /\ Closed \subseteq SealReady
  BY ConstantsAssumption, ClosedType DEF TypeInv, TypeOK
<1>8. \A d \in Dbs : /\ d \in due => open'[d] = <<>>
                     /\ d \notin due => open'[d] = open[d]
  BY <1>1
<1>9. \A s \in new : s.db \in due /\ s.db \in Dbs /\ s.objs = open[s.db] /\ s.seq = nextSeq[s.db]
  BY DEF OpenSegment, Ready
<1>10. \A s, r \in new : s.db = r.db => s = r
  BY DEF OpenSegment, Ready
<1>11. \A s \in Closed : s.db \in Dbs
  BY <1>7 DEF SealReady
<1> HIDE DEF q, n, due, new
<1>12. \A d \in Dbs : WellMade(open'[d], d, bus)
  BY <1>8, EmptyWellMade DEF EventsApart, Apart
<1>13. \A s \in C : WellMade(s.objs, s.db, bus)
  BY <1>9 DEF EventsApart, Apart
<1>14. \A s \in C : EventsOf(s.objs) \cap EventsOf(open'[s.db]) = {}
  BY <1>8, <1>9, <1>11, EmptyWellMade DEF EventsApart, Apart
<1>15. \A s, r \in C : s # r => EventsOf(s.objs) \cap EventsOf(r.objs) = {}
  <2> SUFFICES ASSUME NEW s \in C, NEW r \in C, s # r,
                      NEW e \in EventsOf(s.objs), e \in EventsOf(r.objs)
               PROVE  FALSE
    OBVIOUS
  <2>1. s.db = r.db
    BY <1>13 DEF WellMade
  <2>2. CASE s \in new /\ r \in new
    BY <1>10, <2>1, <2>2
  <2>3. CASE s \in Closed /\ r \in Closed
    BY <2>3 DEF EventsApart, Apart
  <2>4. CASE s \in Closed /\ r \in new
    BY <1>9, <2>1, <2>4 DEF EventsApart, Apart
  <2>5. CASE s \in new /\ r \in Closed
    BY <1>9, <2>1, <2>5 DEF EventsApart, Apart
  <2> QED
    BY <2>2, <2>3, <2>4, <2>5
<1>16. Apart(bus, open', C)
  BY <1>12, <1>13, <1>14, <1>15 DEF Apart
<1>17. \A d \in Dbs : Len(open'[d]) < MaxEvents
  <2>1. Len(<<>>) = 0
    OBVIOUS
  <2> QED
    BY <1>7, <1>8, <2>1 DEF EventsApart
<1>18. BeginSeal(t, q)
  BY <1>3 DEF q
<1>19. Fresh(q)
  <2> SUFFICES ASSUME NEW i \in 1..Len(q)
               PROVE  \E e \in EventsOf(q[i].objs) : e \in EventsOf(open[q[i].db])
    BY DEF Fresh
  <2>1. q[i] \in new /\ q[i] \in SealReady
    BY <1>5, <1>6
  <2>2. q[i].objs = open[q[i].db] /\ q[i].objs \in Seq(Cces) /\ q[i].objs # <<>>
    BY <1>9, <2>1 DEF SealReady, Objects
  <2>3. 1 \in 1..Len(q[i].objs)
    BY <2>2, EmptySeq
  <2> QED
    BY <2>2, <2>3 DEF EventsOf
<1> QED
  BY <1>5, <1>6, <1>7, <1>16, <1>17, <1>18, <1>19

\* Beginning on a segment takes in hand nothing but what was handed over.
LEMMA BeginSealInHand ==
  ASSUME TypeInv, NEW t \in Calls, phase[t] \notin Working, NEW q \in Seq(SealReady),
         BeginSeal(t, q),
         NEW C, InHand \subseteq C, \A i \in 1..Len(q) : q[i] \in C
  PROVE  InHand' \subseteq C
<1>1. \A u \in Calls : u # t =>
        phase'[u] = phase[u] /\ man'[u] = man[u] /\ queue'[u] = queue[u]
  BY DEF BeginSeal, TypeInv, TypeOK
<1>2. \/ queue'[t] = <<>> /\ phase'[t] \notin Working
      \/ /\ q # <<>> /\ queue'[t] = Tail(q)
         /\ phase'[t] \in Working => SegmentOf(man'[t]) = Head(q)
  <2>1. CASE q = <<>>
    BY <2>1 DEF BeginSeal, Working, TypeInv, TypeOK
  <2>2. CASE q # <<>>
    <3>1. queue'[t] = Tail(q)
      BY <2>2 DEF BeginSeal, TypeInv, TypeOK
    <3>2. phase'[t] \in Working => man'[t] = BuildManifest(Head(q), previous)
      BY <2>2 DEF BeginSeal, Working, TypeInv, TypeOK
    <3>3. Head(q) \in SealReady
      BY <2>2, HeadTailProperties
    <3>4. SegmentOf(BuildManifest(Head(q), previous)) = Head(q)
      BY <3>3 DEF SegmentOf, BuildManifest, Ready, SealReady
    <3> QED
      BY <2>2, <3>1, <3>2, <3>4
  <2> QED
    BY <2>1, <2>2
<1>3. q # <<>> => Head(q) \in C
  BY HeadTailProperties
<1>4. q # <<>> => \A i \in 1..Len(Tail(q)) : Tail(q)[i] \in C
  BY HeadTailProperties
<1>5. \A u \in Calls : Waiting(u)' \subseteq C
  <2>1. \A u \in Calls : u # t => Waiting(u)' \subseteq InHand
    BY <1>1 DEF Waiting, InHand, WaitingSegs
  <2>2. Waiting(t)' \subseteq C
    BY <1>2, <1>4 DEF Waiting
  <2> QED
    BY <2>1, <2>2
<1>6. \A u \in Calls : phase'[u] \in Working => SegmentOf(man'[u]) \in C
  <2>1. \A u \in Calls : u # t /\ phase[u] \in Working => SegmentOf(man[u]) \in InHand
    BY DEF InHand, SealingSegs
  <2> QED
    BY <1>1, <1>2, <1>3, <2>1
<1>7. WaitingSegs' \subseteq C
  BY <1>5 DEF WaitingSegs
<1>8. SealingSegs' \subseteq C
  BY <1>6 DEF SealingSegs
<1> QED
  BY <1>7, <1>8 DEF InHand

\* A step within the calls takes nothing in hand.
LEMMA GoingOnInHand ==
  ASSUME \A u \in Calls : /\ queue'[u] \in {queue[u], <<>>}
                          /\ phase'[u] \in Working => phase[u] \in Working /\ man'[u] = man[u]
  PROVE  InHand' \subseteq InHand
<1>1. \A u \in Calls : Waiting(u)' \subseteq Waiting(u)
  <2> SUFFICES ASSUME NEW u \in Calls PROVE Waiting(u)' \subseteq Waiting(u)
    OBVIOUS
  <2>1. CASE queue'[u] = queue[u]
    BY <2>1 DEF Waiting
  <2>2. CASE queue'[u] = <<>>
    <3>1. 1..Len(queue'[u]) = {}
      BY <2>2
    <3> QED
      BY <3>1 DEF Waiting
  <2> QED
    BY <2>1, <2>2
<1>2. WaitingSegs' \subseteq InHand
  BY <1>1 DEF WaitingSegs, InHand
<1>3. SealingSegs' \subseteq InHand
  BY DEF SealingSegs, InHand
<1> QED
  BY <1>2, <1>3 DEF InHand

WhereInv == EventsApart /\ Foreign /\ Once

\* All is kept when nothing is closed and no open segment grows.
LEMMA EventsKept ==
  ASSUME TypeInv, WhereInv, bus' \subseteq bus, InHand' \subseteq InHand,
         \/ UNCHANGED <<manifests, own>>
         \/ manifests' = manifests /\ InHand' = {},
         \A db \in Dbs : open'[db] = open[db] \/ open'[db] = <<>>
  PROVE  WhereInv'
<1>0. Closed' \subseteq Closed
  BY DEF Closed, SealedSegs
<1>1. Apart(bus', open', Closed')
  BY <1>0, ClosedType, ApartShrinks DEF WhereInv, EventsApart
<1>2. Len(<<>>) = 0 /\ MaxEvents \in Nat \ {0}
  BY ConstantsAssumption
<1>3. \A db \in Dbs : Len(open'[db]) < MaxEvents
  BY <1>2 DEF WhereInv, EventsApart
<1>4. Foreign' /\ Once'
  BY DEF WhereInv, Foreign, Once
<1> QED
  BY <1>1, <1>3, <1>4 DEF WhereInv, EventsApart

\* They stay apart when a call begins on what it was handed.
LEMMA EventsBegin ==
  ASSUME TypeInv, WhereInv, NEW t \in Calls, phase[t] \notin Working, NEW q \in Seq(SealReady),
         BeginSeal(t, q), UNCHANGED <<manifests, own>>,
         NEW C \in SUBSET SealReady, Closed \subseteq C, \A i \in 1..Len(q) : q[i] \in C,
         \A i \in 1..Len(q) : q[i] \in InHand \/ q[i] \notin Closed,
         Apart(bus', open', C), \A db \in Dbs : Len(open'[db]) < MaxEvents
  PROVE  WhereInv'
<1>1. InHand' \subseteq C
  BY BeginSealInHand DEF Closed
<1>2. Apart(bus', open', Closed')
  <2>1. Closed' \subseteq C
    BY <1>1 DEF Closed, SealedSegs
  <2> QED
    BY <2>1, ApartShrinks
<1>3. Foreign'
  <2> DEFINE D == InHand \cup {q[i] : i \in 1..Len(q)}
  <2>1. InHand' \subseteq D
    <3>1. InHand \subseteq D /\ \A i \in 1..Len(q) : q[i] \in D
      OBVIOUS
    <3> HIDE DEF D
    <3> QED
      BY <3>1, BeginSealInHand
  <2>2. \A m \in manifests : SegmentOf(m) \in Closed
    BY DEF Closed, SealedSegs
  <2> QED
    BY <2>1, <2>2 DEF WhereInv, Foreign
<1>4. Once'
  BY DEF WhereInv, Once
<1> QED
  BY <1>2, <1>3, <1>4 DEF WhereInv, EventsApart

LEMMA EventsInit == Init => WhereInv
<1> SUFFICES ASSUME Init PROVE WhereInv
  OBVIOUS
<1>1. \A t \in Calls : phase[t] \notin Working /\ queue[t] = <<>>
  BY DEF Init, Working
<1>2. SealingSegs = {} /\ SealedSegs = {}
  BY <1>1 DEF SealingSegs, SealedSegs, Init
<1>3. WaitingSegs = {}
  <2>1. Len(<<>>) = 0
    OBVIOUS
  <2>2. \A t \in Calls : Waiting(t) = {}
    BY <1>1, <2>1 DEF Waiting
  <2> QED
    BY <2>2 DEF WaitingSegs
<1>4. Closed = {}
  BY <1>2, <1>3 DEF Closed, InHand
<1>5. \A db \in Dbs : open[db] = <<>>
  BY DEF Init
<1>6. Len(<<>>) = 0 /\ MaxEvents \in Nat \ {0}
  BY ConstantsAssumption
<1>7. Apart(bus, open, Closed)
  BY <1>4, <1>5, EmptyWellMade DEF Apart
<1>8. Foreign /\ Once
  BY DEF Foreign, Once, Init
<1> QED
  BY <1>5, <1>6, <1>7, <1>8 DEF WhereInv, EventsApart

\* A manifest is put: of a segment that is in hand, and that has none.
LEMMA EventsPut ==
  ASSUME NumberInv, WhereInv, NEW t \in Calls, PutManifest(t)
  PROVE  WhereInv'
<1> DEFINE seg == SegmentOf(man[t])
<1>1. /\ phase[t] = "manifest"
      /\ UNCHANGED <<bus, open, queue, man>>
      /\ \A u \in Calls : phase'[u] \in Working => phase[u] \in Working
  BY DEF PutManifest, WriteFailed, MoveTo, stream, acc, Working, NumberInv, ChainInv, TypeInv, TypeOK
<1>2. InHand' \subseteq InHand
  BY <1>1, GoingOnInHand
<1>3. seg \in InHand
  BY <1>1 DEF InHand, SealingSegs, Working
<1>4. \/ UNCHANGED <<manifests, own>>
      \/ manifests' = manifests \cup {man[t]} /\ own' = own \cup {man[t]}
  BY DEF PutManifest
<1>5. Closed' \subseteq Closed
  BY <1>2, <1>3, <1>4 DEF Closed, SealedSegs
<1>6. EventsApart'
  <2>1. Closed \subseteq SealReady
    BY ClosedType DEF NumberInv, ChainInv
  <2> QED
    BY <1>1, <1>5, <2>1, ApartShrinks DEF WhereInv, EventsApart
<1>7. Foreign'
  BY <1>2, <1>4 DEF WhereInv, Foreign
<1>8. \A p \in manifests : SegmentOf(p) # seg
  <2> SUFFICES ASSUME NEW p \in manifests, SegmentOf(p) = seg
               PROVE  FALSE
    OBVIOUS
  <2>1. p \in own
    BY <1>3 DEF WhereInv, Foreign
  <2>2. p.db = man[t].db /\ p.seq = man[t].seq
    BY DEF SegmentOf, Ready
  <2>3. p.seq < man[t].seq
    BY <1>1, <2>1, <2>2 DEF NumberInv, OwnApart, Putting
  <2>4. p.seq \in Nat
    BY DEF NumberInv, ChainInv, TypeInv, TypeOK, Manifest
  <2> QED
    BY <2>2, <2>3, <2>4
<1> HIDE DEF seg
<1>9. Once'
  BY <1>4, <1>8 DEF WhereInv, Once, seg
<1> QED
  BY <1>6, <1>7, <1>9 DEF WhereInv

LEMMA EventsContinue ==
  ASSUME NumberInv, WhereInv, NEW t \in Calls, Continue(t)
  PROVE  WhereInv'
<1>0. TypeInv
  BY DEF NumberInv, ChainInv
<1>1. bus' = bus /\ open' = open
  BY DEF Continue, PutObject, PutManifest, Sign, TokenVerified, NoToken, PutAnchor, NextSegment,
         stream, acc
<1>2. CASE NextSegment(t)
  <2>1. /\ phase[t] \notin Working /\ BeginSeal(t, queue[t]) /\ UNCHANGED <<manifests, own>>
        /\ queue[t] \in Seq(SealReady)
    BY <1>0, <1>2 DEF NextSegment, worm, Working, TypeInv, TypeOK
  <2>2. Closed \in SUBSET SealReady
    BY <1>0, ClosedType
  <2>3. \A i \in 1..Len(queue[t]) : queue[t][i] \in Closed /\ queue[t][i] \in InHand
    BY DEF Closed, InHand, WaitingSegs, Waiting
  <2>4. Apart(bus', open', Closed) /\ \A db \in Dbs : Len(open'[db]) < MaxEvents
    BY <1>1 DEF WhereInv, EventsApart
  <2> QED
    BY <1>0, <2>1, <2>2, <2>3, <2>4, EventsBegin
<1>3. CASE PutManifest(t)
  BY <1>3, EventsPut
<1>4. CASE PutObject(t) \/ Sign(t) \/ TokenVerified(t) \/ NoToken(t) \/ PutAnchor(t)
  <2>1. phase[t] \in Working /\ UNCHANGED <<manifests, own>>
    BY <1>4 DEF PutObject, Sign, TokenVerified, NoToken, PutAnchor, Working, worm
  <2>2. \A u \in Calls : u # t =>
          queue'[u] = queue[u] /\ phase'[u] = phase[u] /\ man'[u] = man[u]
    BY <1>0, <1>4 DEF PutObject, Sign, TokenVerified, NoToken, PutAnchor,
                      WriteFailed, MoveTo, Finish, Abort, TypeInv, TypeOK
  <2>3. \/ queue'[t] = queue[t] /\ man'[t] = man[t]
        \/ queue'[t] = <<>> /\ phase'[t] = "idle"
    <3>1. CASE Abort(t)
      BY <1>0, <3>1 DEF Abort, TypeInv, TypeOK
    <3>2. CASE ~Abort(t)
      BY <1>4, <3>2 DEF PutObject, Sign, TokenVerified, NoToken, PutAnchor,
                        WriteFailed, MoveTo, Finish
    <3> QED
      BY <3>1, <3>2
  <2>4. InHand' \subseteq InHand
    <3>1. \A u \in Calls : /\ queue'[u] \in {queue[u], <<>>}
                           /\ phase'[u] \in Working => phase[u] \in Working /\ man'[u] = man[u]
      BY <2>1, <2>2, <2>3 DEF Working
    <3> QED
      BY <3>1, GoingOnInHand
  <2> QED
    BY <1>0, <1>1, <2>1, <2>4, EventsKept
<1> QED
  BY <1>2, <1>3, <1>4 DEF Continue

LEMMA EventsStart ==
  ASSUME TypeInv, WhereInv, StartCall
  PROVE  WhereInv'
<1>1. ASSUME NEW c \in Cces, Ingest(c) PROVE WhereInv'
  <2>1. /\ bus' = bus \ {c} /\ c \in bus /\ UNCHANGED <<manifests, own>>
        /\ "ingest" \in Calls /\ phase["ingest"] \notin Working
    BY <1>1 DEF Ingest, worm, Calls, Working
  <2>2. CASE c \in Malformed
    <3>1. UNCHANGED <<open, queue, phase, man>>
      BY <1>1, <2>2 DEF Ingest, acc, calls
    <3>2. InHand' \subseteq InHand
      BY <3>1, GoingOnInHand
    <3> QED
      BY <2>1, <3>1, <3>2, EventsKept
  <2>3. CASE c \notin Malformed
    <3>1. Accumulate(c)
      BY <1>1, <2>3 DEF Ingest
    <3>2. PICK q \in Seq(SealReady), C \in SUBSET SealReady :
            /\ BeginSeal("ingest", q) /\ Fresh(q)
            /\ Closed \subseteq C /\ \A i \in 1..Len(q) : q[i] \in C
            /\ Apart(bus \ {c}, open', C)
            /\ \A db \in Dbs : Len(open'[db]) < MaxEvents
      BY <2>1, <3>1, AccumulateApart DEF WhereInv
    <3>3. Apart(bus', open', C)
      BY <2>1, <3>2
    <3>4. \A i \in 1..Len(q) : q[i] \notin Closed
      BY <3>2, FreshNotClosed DEF WhereInv
    <3> QED
      BY <2>1, <3>2, <3>3, <3>4, EventsBegin
  <2> QED
    BY <2>2, <2>3
<1>2. ASSUME NEW t \in Sweeps, Sweep(t) PROVE WhereInv'
  <2>1. bus' = bus /\ UNCHANGED <<manifests, own>> /\ t \in Calls /\ phase[t] \notin Working
    BY <1>2 DEF Sweep, stream, worm, Calls, Working
  <2>2. PICK q \in Seq(SealReady), C \in SUBSET SealReady :
          /\ BeginSeal(t, q) /\ Fresh(q)
          /\ Closed \subseteq C /\ \A i \in 1..Len(q) : q[i] \in C
          /\ Apart(bus, open', C)
          /\ \A db \in Dbs : Len(open'[db]) < MaxEvents
    BY <1>2, SweepApart DEF WhereInv
  <2>3. Apart(bus', open', C)
    BY <2>1, <2>2
  <2>4. \A i \in 1..Len(q) : q[i] \notin Closed
    BY <2>2, FreshNotClosed DEF WhereInv
  <2> QED
    BY <2>1, <2>2, <2>3, <2>4, EventsBegin
<1> QED
  BY <1>1, <1>2 DEF StartCall

LEMMA EventsStep == NumberInv /\ WhereInv /\ [Next]_vars => WhereInv'
<1> SUFFICES ASSUME NumberInv, WhereInv, [Next]_vars PROVE WhereInv'
  OBVIOUS
<1>0. TypeInv
  BY DEF NumberInv, ChainInv
<1>1. CASE StartCall
  BY <1>0, <1>1, EventsStart
<1>2. ASSUME NEW t \in Calls, Continue(t) PROVE WhereInv'
  BY <1>2, EventsContinue
<1>3. CASE (\E c \in Cces : Miss(c)) \/ (\E db \in Dbs : Age(db)) \/ Stop \/ UNCHANGED vars
  <2>1. bus' \subseteq bus /\ UNCHANGED <<open, queue, phase, man, manifests, own>>
    BY <1>3 DEF Miss, Age, Stop, vars, stream, acc, calls, worm
  <2>2. InHand' \subseteq InHand
    BY <2>1, GoingOnInHand
  <2> QED
    BY <1>0, <2>1, <2>2, EventsKept
<1>4. CASE Restart
  <2>1. /\ bus' = bus /\ manifests' = manifests
        /\ \A db \in Dbs : open'[db] = <<>>
        /\ \A t \in Calls : queue'[t] = <<>> /\ phase'[t] \notin Working
    BY <1>4 DEF Restart, Working
  <2>2. InHand' = {}
    <3>1. \A t \in Calls : Waiting(t)' = {}
      BY <2>1 DEF Waiting
    <3>2. WaitingSegs' = {}
      BY <3>1 DEF WaitingSegs
    <3> QED
      BY <2>1, <3>2 DEF InHand, SealingSegs
  <2> QED
    BY <1>0, <2>1, <2>2, EventsKept
<1> QED
  BY <1>1, <1>2, <1>3, <1>4 DEF Next, Environment

\* What the store holds, and where the events are.
EvidenceInv == NumberInv /\ WhereInv

LEMMA EvidenceInit == Init => EvidenceInv
  BY NumberInit, EventsInit DEF EvidenceInv

LEMMA EvidenceStep == EvidenceInv /\ [Next]_vars => EvidenceInv'
  BY NumberStep, EventsStep DEF EvidenceInv

\* No event is sealed in two segments or twice in one, whichever calls closed
\* and sealed the segments, whatever became of the ones that failed, and even
\* where a second version is put over a manifest of an earlier process.
THEOREM EventsSealedOnce == Spec => []SealedOnce
<1>1. EvidenceInv => SealedOnce
  <2> SUFFICES ASSUME EvidenceInv, NEW m \in manifests, NEW p \in manifests,
                      NEW i \in 1..Len(m.objs), NEW j \in 1..Len(p.objs),
                      m.objs[i] = p.objs[j]
               PROVE  m = p /\ i = j
    BY DEF SealedOnce
  <2> USE DEF EvidenceInv, WhereInv, EventsApart
  <2>1. SegmentOf(m) \in Closed /\ SegmentOf(p) \in Closed
    BY DEF Closed, SealedSegs
  <2>2. SegmentOf(m).objs = m.objs /\ SegmentOf(p).objs = p.objs
    BY DEF SegmentOf, Ready
  <2>3. m.objs[i] \in EventsOf(SegmentOf(m).objs) \cap EventsOf(SegmentOf(p).objs)
    BY <2>2 DEF EventsOf
  <2>4. SegmentOf(m) = SegmentOf(p)
    BY <2>1, <2>3 DEF Apart
  <2>5. m = p
    BY <2>4 DEF Once
  <2>6. InOrder(m.objs)
    BY <2>1, <2>2 DEF Apart, WellMade
  <2>7. i = j
    <3>1. m.objs \in Seq(Cces)
      BY DEF NumberInv, ChainInv, TypeInv, TypeOK, Manifest, Objects
    <3>2. m.objs[i] \in Nat
      <4>1. m.objs[i] \in Cces
        BY <3>1, ElementOfSeq
      <4> QED
        BY <4>1, ConstantsAssumption
    <3>3. i \in Nat /\ j \in Nat /\ j \in 1..Len(m.objs)
      BY <2>5, <3>1
    <3>4. ~(i < j) /\ ~(j < i)
      BY <2>5, <2>6, <3>2, <3>3 DEF InOrder
    <3> QED
      BY <3>3, <3>4
  <2> QED
    BY <2>5, <2>7
<1> QED
  BY <1>1, EvidenceInit, EvidenceStep, PTL DEF Spec

-----------------------------------------------------------------------------
(* The writer implements the log of EvidenceLog: ImplementsLog.            *)
(*                                                                         *)
(* A failed look for an existing key lets a process put a second manifest  *)
(* under a key of an earlier one.  Manifests are never removed, so up to   *)
(* that step no key has two, which is all the refinement needs to know of  *)
(* faults and restarts.                                                    *)
(*                                                                         *)
(* The log of a database is what its last manifest commits to.  That the   *)
(* last manifest exists, and that what it commits to are the manifests in  *)
(* the store, one per sequence, is the invariant the refinement needs.     *)

ChainOf(db) == {m \in manifests : m.db = db}

IsTip(m, db) == m \in ChainOf(db) /\ \A p \in ChainOf(db) : p.seq <= m.seq

\* The n-th segment a manifest commits to is that of the n-th manifest.
LogExplained ==
  \A m \in manifests :
    /\ Len(m.link) = m.seq
    /\ \A n \in 1..m.seq :
         \E p \in manifests : p.db = m.db /\ p.seq = n - 1 /\ p.objs = m.link[n]

Tipped == \A db \in Dbs : ChainOf(db) # {} => \E m \in manifests : IsTip(m, db)

LogInv == EvidenceInv /\ SequencesNotReused /\ LogExplained /\ Tipped

\* The inductive invariant: what holds of the logs until a key is reused.
ReuseInv == EvidenceInv /\ (SequencesNotReused => LogInv)

\* LogOf as a function of the chain.
LogFrom(C) == IF C = {} THEN <<>>
              ELSE SegmentHash(CHOOSE m \in C : \A p \in C : p.seq <= m.seq)

LEMMA LogOfChain ==
  ASSUME NEW db
  PROVE  LogOf(db) = LogFrom(ChainOf(db)) /\ LogOf(db)' = LogFrom(ChainOf(db)')
  BY Zenon DEF LogOf, LogFrom, ChainOf

\* The manifest with the highest sequence is the one LogOf chooses.
LEMMA TipChosen ==
  ASSUME NEW C, NEW m \in C, \A p \in C : p.seq <= m.seq, \A p \in C : p.seq \in Nat,
         \A p, r \in C : p.seq = r.seq => p = r
  PROVE  (CHOOSE x \in C : \A p \in C : p.seq <= x.seq) = m
<1> DEFINE tip == CHOOSE x \in C : \A p \in C : p.seq <= x.seq
<1>1. tip \in C /\ \A p \in C : p.seq <= tip.seq
  OBVIOUS
<1> HIDE DEF tip
<1>2. tip.seq = m.seq
  BY <1>1
<1>3. tip = m
  BY <1>1, <1>2
<1> QED
  BY <1>3 DEF tip

\* A manifest linked to the store, whose key is free, follows the tip.
LEMMA LinkedToTip ==
  ASSUME LogInv, NEW m \in Manifest, Linked(m), ~\E p \in manifests : SameKey(p, m)
  PROVE  \/ IsGenesis(m) /\ ChainOf(m.db) = {}
         \/ \E p \in manifests : Follows(m, p) /\ IsTip(p, m.db)
<1>1. \A p \in manifests : p \in Manifest /\ p.seq \in Nat /\ p.db \in Dbs
  BY DEF LogInv, EvidenceInv, NumberInv, ChainInv, TypeInv, TypeOK, Manifest
<1>2. m.db \in Dbs /\ m.seq \in Nat
  BY DEF Manifest
<1>3. ASSUME NEW p \in manifests, p.db = m.db, m.seq <= p.seq PROVE FALSE
  <2>1. p.seq # m.seq
    BY <1>3 DEF SameKey
  <2>2. m.seq + 1 \in 1..p.seq /\ (m.seq + 1) - 1 = m.seq
    BY <1>1, <1>2, <1>3, <2>1
  <2>3. \E r \in manifests : r.db = p.db /\ r.seq = (m.seq + 1) - 1
    BY <2>2 DEF LogInv, LogExplained
  <2> QED
    BY <1>3, <2>2, <2>3 DEF SameKey
<1>4. CASE IsGenesis(m)
  <2>1. ASSUME NEW p \in ChainOf(m.db) PROVE FALSE
    BY <1>1, <1>3, <1>4 DEF ChainOf, IsGenesis
  <2> QED
    BY <1>4, <2>1
<1>5. CASE \E p \in manifests : Follows(m, p)
  <2>1. PICK p \in manifests : Follows(m, p)
    BY <1>5
  <2>2. \A r \in ChainOf(m.db) : r.seq <= p.seq
    <3> SUFFICES ASSUME NEW r \in manifests, r.db = m.db PROVE r.seq <= p.seq
      BY DEF ChainOf
    <3>1. ~(m.seq <= r.seq) /\ m.seq = p.seq + 1
      BY <1>3, <2>1 DEF Follows
    <3> QED
      BY <1>1, <1>2, <3>1
  <2> QED
    BY <2>1, <2>2 DEF Follows, IsTip, ChainOf
<1> QED
  BY <1>4, <1>5 DEF Linked, LogInv, EvidenceInv, NumberInv, ChainInv, OwnStored

\* The log of a database is what its tip commits to.
LEMMA LogOfTip ==
  ASSUME LogInv, NEW db \in Dbs, NEW m \in manifests, IsTip(m, db)
  PROVE  LogOf(db) = SegmentHash(m)
<1>1. \A p \in ChainOf(db) : p.seq \in Nat
  BY DEF ChainOf, LogInv, EvidenceInv, NumberInv, ChainInv, TypeInv, TypeOK, Manifest
<1>2. \A p, r \in ChainOf(db) : p.seq = r.seq => p = r
  BY DEF ChainOf, LogInv, SequencesNotReused, SameKey
<1>3. (CHOOSE x \in ChainOf(db) : \A p \in ChainOf(db) : p.seq <= x.seq) = m
  BY <1>1, <1>2, TipChosen DEF IsTip
<1>4. ChainOf(db) # {}
  BY DEF IsTip
<1> QED
  BY <1>3, <1>4 DEF LogOf, ChainOf

\* Every segment of a log is that of a manifest in the store.
LEMMA LogSegments ==
  ASSUME LogInv, NEW db \in Dbs
  PROVE  /\ LogOf(db) \in Seq(Seq(Cces))
         /\ \A n \in 1..Len(LogOf(db)) : \E p \in manifests : p.objs = LogOf(db)[n]
<1>1. CASE ChainOf(db) = {}
  <2>1. LogOf(db) = <<>>
    BY <1>1 DEF LogOf, ChainOf
  <2>2. <<>> \in Seq(Seq(Cces)) /\ 1..Len(<<>>) = {}
    OBVIOUS
  <2> QED
    BY <2>1, <2>2
<1>2. CASE ChainOf(db) # {}
  <2>1. PICK m \in manifests : IsTip(m, db)
    BY <1>2 DEF LogInv, Tipped
  <2>2. LogOf(db) = Append(m.link, m.objs)
    BY <2>1, LogOfTip DEF SegmentHash
  <2>3. m.link \in Seq(Seq(Cces)) /\ m.objs \in Seq(Cces) /\ Len(m.link) = m.seq /\ m.seq \in Nat
    BY DEF LogInv, LogExplained, EvidenceInv, NumberInv, ChainInv, TypeInv, TypeOK, Manifest, Objects, SegHash
  <2>4. /\ Append(m.link, m.objs) \in Seq(Seq(Cces))
        /\ Len(Append(m.link, m.objs)) = m.seq + 1
        /\ \A n \in 1..m.seq : Append(m.link, m.objs)[n] = m.link[n]
        /\ Append(m.link, m.objs)[m.seq + 1] = m.objs
    BY <2>3, AppendProperties
  <2>5. \A n \in 1..(m.seq + 1) : n \in 1..m.seq \/ n = m.seq + 1
    BY <2>3
  <2>6. \A n \in 1..(m.seq + 1) : \E p \in manifests : p.objs = Append(m.link, m.objs)[n]
    <3>1. \A n \in 1..m.seq : \E p \in manifests : p.objs = m.link[n]
      BY DEF LogInv, LogExplained
    <3> QED
      BY <2>4, <2>5, <3>1
  <2> QED
    BY <2>2, <2>4, <2>6
<1> QED
  BY <1>1, <1>2

\* Putting the manifest of a segment extends the chain at its tip.
LEMMA LogExtended ==
  ASSUME LogInv, EvidenceInv', NEW m \in Manifest, Linked(m),
         ~\E p \in manifests : SameKey(p, m), manifests' = manifests \cup {m}
  PROVE  /\ LogInv'
         /\ LogOf(m.db)' = Append(LogOf(m.db), m.objs)
         /\ \A db \in Dbs : db # m.db => LogOf(db)' = LogOf(db)
<1>0. /\ m.db \in Dbs /\ m.seq \in Nat /\ m.link \in Seq(Seq(Cces)) /\ m.objs \in Seq(Cces)
      /\ \A p \in manifests : /\ p.seq \in Nat /\ p.link \in Seq(Seq(Cces))
                              /\ p.objs \in Seq(Cces)
  BY DEF LogInv, EvidenceInv, NumberInv, ChainInv, TypeInv, TypeOK, Manifest, Objects, SegHash
<1>1. \/ IsGenesis(m) /\ ChainOf(m.db) = {} /\ LogOf(m.db) = <<>>
      \/ \E p \in manifests : /\ Follows(m, p) /\ IsTip(p, m.db)
                              /\ LogOf(m.db) = SegmentHash(p)
  BY <1>0, LinkedToTip, LogOfTip DEF LogOf, ChainOf
<1>2. IsTip(m, m.db)'
  <2>1. \A r \in ChainOf(m.db) : r.seq <= m.seq
    BY <1>0, <1>1 DEF ChainOf, IsTip, Follows
  <2> QED
    BY <1>0, <2>1 DEF IsTip, ChainOf
<1>3. \A db \in Dbs : db # m.db => ChainOf(db)' = ChainOf(db)
  BY DEF ChainOf
<1>4. Tipped'
  <2> SUFFICES ASSUME NEW db \in Dbs, ChainOf(db)' # {}
               PROVE  \E r \in manifests' : IsTip(r, db)'
    BY DEF Tipped
  <2>1. CASE db = m.db
    BY <1>2, <2>1
  <2>2. CASE db # m.db
    <3>1. ChainOf(db)' = ChainOf(db)
      BY <1>3, <2>2
    <3> QED
      BY <3>1 DEF LogInv, Tipped, IsTip
  <2> QED
    BY <2>1, <2>2
<1>5. Len(m.link) = m.seq /\ \A n \in 1..m.seq :
        \E p \in manifests : p.db = m.db /\ p.seq = n - 1 /\ p.objs = m.link[n]
  <2>1. CASE IsGenesis(m)
    BY <2>1 DEF IsGenesis
  <2>2. CASE \E p \in manifests : Follows(m, p)
    <3>1. PICK p \in manifests : Follows(m, p)
      BY <2>2
    <3>2. /\ m.db = p.db /\ m.seq = p.seq + 1 /\ m.link = Append(p.link, p.objs)
          /\ Len(p.link) = p.seq
      BY <3>1 DEF Follows, SegmentHash, LogInv, LogExplained
    <3>3. /\ Len(Append(p.link, p.objs)) = p.seq + 1
          /\ \A n \in 1..p.seq : Append(p.link, p.objs)[n] = p.link[n]
          /\ Append(p.link, p.objs)[p.seq + 1] = p.objs
      BY <1>0, <3>2, AppendProperties
    <3>4. ASSUME NEW n \in 1..m.seq
          PROVE  \E r \in manifests : r.db = m.db /\ r.seq = n - 1 /\ r.objs = m.link[n]
      <4>1. CASE n \in 1..p.seq
        <5>1. \E r \in manifests : r.db = p.db /\ r.seq = n - 1 /\ r.objs = p.link[n]
          BY <4>1 DEF LogInv, LogExplained
        <5> QED
          BY <3>2, <3>3, <4>1, <5>1
      <4>2. CASE n = p.seq + 1
        <5>1. p.seq = n - 1 /\ p.objs = m.link[n]
          BY <1>0, <3>2, <3>3, <4>2
        <5> QED
          BY <3>2, <5>1
      <4> QED
        BY <1>0, <3>2, <4>1, <4>2
    <3> QED
      BY <3>2, <3>3, <3>4
  <2> QED
    BY <1>1, <2>1, <2>2
<1>6. LogExplained'
  BY <1>5 DEF LogInv, LogExplained
<1>7. SequencesNotReused'
  BY DEF LogInv, SequencesNotReused, SameKey
<1>8. LogInv'
  BY <1>4, <1>6, <1>7 DEF LogInv
<1>9. LogOf(m.db)' = SegmentHash(m)
  <2> DEFINE C == ChainOf(m.db)'
  <2>1. m \in C /\ \A p \in C : p.seq <= m.seq
    BY <1>2 DEF IsTip
  <2>2. \A p \in C : p.seq \in Nat
    BY <1>0 DEF ChainOf
  <2>3. \A p, r \in C : p.seq = r.seq => p = r
    BY <1>7 DEF ChainOf, SequencesNotReused, SameKey
  <2> HIDE DEF C
  <2>4. (CHOOSE x \in C : \A p \in C : p.seq <= x.seq) = m
    BY <2>1, <2>2, <2>3, TipChosen
  <2>5. LogFrom(C) = SegmentHash(m)
    BY <2>1, <2>4 DEF LogFrom
  <2> QED
    BY <2>5, LogOfChain DEF C
<1>10. SegmentHash(m) = Append(LogOf(m.db), m.objs)
  BY <1>1 DEF SegmentHash, IsGenesis, Follows
<1>11. \A db \in Dbs : db # m.db => LogOf(db)' = LogOf(db)
  <2> SUFFICES ASSUME NEW db \in Dbs, db # m.db PROVE LogOf(db)' = LogOf(db)
    OBVIOUS
  <2> QED
    BY <1>3, LogOfChain
<1> QED
  BY <1>8, <1>9, <1>10, <1>11

\* No step removes a manifest, so a reused key stays reused.
LEMMA ManifestsGrow ==
  ASSUME [Next]_vars
  PROVE  manifests \subseteq manifests'
<1>1. \/ manifests' = manifests
      \/ \E t \in Calls : PutManifest(t)
  BY DEF Next, StartCall, Environment, Continue, Ingest, Sweep, Miss, Age, Stop, Restart,
         PutObject, Sign, TokenVerified, NoToken, PutAnchor, NextSegment, worm, vars
<1> QED
  BY <1>1 DEF PutManifest

LEMMA ReuseIsFinal ==
  ASSUME [Next]_vars, SequencesNotReused'
  PROVE  SequencesNotReused
  BY ManifestsGrow DEF SequencesNotReused, SameKey

\* A step that reuses no key puts no manifest, or that of the segment one call
\* is sealing, under a free key.
LEMMA ManifestPut ==
  ASSUME LogInv, [Next]_vars, SequencesNotReused'
  PROVE  \/ manifests' = manifests
         \/ \E t \in Calls : \E m \in Manifest :
              /\ phase[t] = "manifest" /\ m = man[t] /\ Linked(m)
              /\ ~\E p \in manifests : SameKey(p, m)
              /\ manifests' = manifests \cup {m}
<1>1. \/ manifests' = manifests
      \/ \E t \in Calls : PutManifest(t)
  BY DEF Next, StartCall, Environment, Continue, Ingest, Sweep, Miss, Age, Stop, Restart,
         PutObject, Sign, TokenVerified, NoToken, PutAnchor, NextSegment, worm, vars
<1>2. ASSUME NEW t \in Calls, PutManifest(t), manifests' # manifests
      PROVE  /\ phase[t] = "manifest" /\ man[t] \in Manifest /\ Linked(man[t])
             /\ ~\E p \in manifests : SameKey(p, man[t])
             /\ manifests' = manifests \cup {man[t]}
  <2>1. /\ phase[t] = "manifest" /\ man[t] \in Manifest /\ Linked(man[t])
        /\ manifests' = manifests \cup {man[t]}
    BY <1>2 DEF PutManifest, LogInv, EvidenceInv, NumberInv, ChainInv, CallsLinked, TypeInv,
                CallsOK, Working
  <2>2. man[t] \notin manifests
    BY <1>2, <2>1
  <2>3. ASSUME NEW p \in manifests, SameKey(p, man[t]) PROVE FALSE
    BY <2>1, <2>2, <2>3 DEF SequencesNotReused, SameKey
  <2> QED
    BY <2>1, <2>3
<1> QED
  BY <1>1, <1>2

\* The segment being put carries only events no log carries.
LEMMA FreshSegment ==
  ASSUME LogInv, NEW t \in Calls, phase[t] = "manifest", NEW m \in Manifest, m = man[t],
         ~\E p \in manifests : SameKey(p, m)
  PROVE  /\ m.objs \in Log!Segments
         /\ InOrder(m.objs)
         /\ \A i \in 1..Len(m.objs) : \A db \in Dbs : \A n \in 1..Len(LogOf(db)) :
              \A j \in 1..Len(LogOf(db)[n]) : LogOf(db)[n][j] # m.objs[i]
<1>1. SegmentOf(m) \in Closed
  BY DEF Closed, InHand, SealingSegs, Working
<1>2. \A p \in Manifest : SegmentOf(p).db = p.db /\ SegmentOf(p).seq = p.seq
                          /\ SegmentOf(p).objs = p.objs
  BY DEF SegmentOf, Ready
<1>3. WellMade(m.objs, m.db, bus)
  BY <1>1, <1>2 DEF LogInv, EvidenceInv, WhereInv, EventsApart, Apart
<1>4. m.objs \in Log!Segments
  <2>1. m.objs \in Seq(Cces) /\ m.objs # <<>>
    BY DEF Manifest, Objects
  <2>2. Len(m.objs) \in 1..MaxEvents /\ m.objs \in [1..Len(m.objs) -> Cces]
    BY <1>3, <2>1, ConstantsAssumption DEF WellMade
  <2> QED
    BY <2>2 DEF Log!Segments
<1>5. \A p \in manifests : EventsOf(p.objs) \cap EventsOf(m.objs) = {}
  <2> SUFFICES ASSUME NEW p \in manifests PROVE EventsOf(p.objs) \cap EventsOf(m.objs) = {}
    OBVIOUS
  <2>1. SegmentOf(p) \in Closed /\ p \in Manifest
    BY DEF Closed, SealedSegs, LogInv, EvidenceInv, NumberInv, ChainInv, TypeInv, TypeOK
  <2>2. SegmentOf(p) # SegmentOf(m)
    BY <1>2, <2>1 DEF SameKey
  <2> QED
    BY <1>1, <1>2, <2>1, <2>2 DEF LogInv, EvidenceInv, WhereInv, EventsApart, Apart
<1>6. ASSUME NEW i \in 1..Len(m.objs), NEW db \in Dbs, NEW n \in 1..Len(LogOf(db)),
             NEW j \in 1..Len(LogOf(db)[n]), LogOf(db)[n][j] = m.objs[i]
      PROVE  FALSE
  <2>1. PICK p \in manifests : p.objs = LogOf(db)[n]
    BY LogSegments
  <2> QED
    BY <1>5, <1>6, <2>1 DEF EventsOf
<1> QED
  BY <1>3, <1>4, <1>6 DEF WellMade

LEMMA ReuseInit == Init => ReuseInv
  BY EvidenceInit
  DEF Init, ReuseInv, LogInv, SequencesNotReused, LogExplained, Tipped, ChainOf

LEMMA ReuseStep ==
  ASSUME ReuseInv, [Next]_vars
  PROVE  ReuseInv'
<1>1. EvidenceInv'
  BY EvidenceStep DEF ReuseInv
<1>2. ASSUME SequencesNotReused' PROVE LogInv'
  <2>1. LogInv
    BY <1>2, ReuseIsFinal DEF ReuseInv
  <2>2. CASE manifests' = manifests
    BY <1>1, <1>2, <2>1, <2>2 DEF LogInv, LogExplained, Tipped, ChainOf, IsTip
  <2>3. CASE manifests' # manifests
    BY <1>1, <1>2, <2>1, <2>3, ManifestPut, LogExtended
  <2> QED
    BY <2>2, <2>3
<1> QED
  BY <1>1, <1>2 DEF ReuseInv

\* The abstract log starts empty.
LEMMA LogStarts == Init => Log!Init
<1> SUFFICES ASSUME Init, NEW db \in Dbs PROVE LogOf(db) = <<>>
  BY DEF Log!Init
<1> QED
  BY DEF Init, LogOf

\* A step that reuses no key appends a segment to one log, or changes none.
LEMMA LogSteps ==
  ASSUME ReuseInv, [Next]_vars, SequencesNotReused'
  PROVE  LogStep
<1> DEFINE log == [db \in Dbs |-> LogOf(db)]
<1> SUFFICES Log!Next \/ log' = log
  BY DEF LogStep
<1>1. EvidenceInv' /\ LogInv
  BY EvidenceStep, ReuseIsFinal DEF ReuseInv
<1>2. CASE manifests' = manifests
  BY <1>2 DEF LogOf
<1>3. CASE manifests' # manifests
  <2>1. PICK t \in Calls, m \in Manifest :
          /\ phase[t] = "manifest" /\ m = man[t] /\ Linked(m)
          /\ ~\E p \in manifests : SameKey(p, m)
          /\ manifests' = manifests \cup {m}
    BY <1>1, <1>3, ManifestPut
  <2>2. /\ LogOf(m.db)' = Append(LogOf(m.db), m.objs)
        /\ \A db \in Dbs : db # m.db => LogOf(db)' = LogOf(db)
    BY <1>1, <2>1, LogExtended
  <2>3. /\ m.db \in Dbs /\ m.objs \in Seq(Cces)
        /\ LogOf(m.db) \in Seq(Seq(Cces))
    BY <1>1, <2>1, LogSegments DEF Manifest, Objects
  <2>4. /\ m.objs \in Log!Segments /\ InOrder(m.objs)
        /\ \A i \in 1..Len(m.objs) : \A db \in Dbs : \A n \in 1..Len(LogOf(db)) :
             \A j \in 1..Len(LogOf(db)[n]) : LogOf(db)[n][j] # m.objs[i]
    BY <1>1, <2>1, FreshSegment
  <2> DEFINE old == LogOf(m.db)
             seg == log'[m.db][Len(log[m.db]) + 1]
  <2>5. log[m.db] = old /\ log'[m.db] = Append(old, m.objs)
    BY <2>2, <2>3
  <2>6. Len(log'[m.db]) = Len(log[m.db]) + 1 /\ seg = m.objs
    <3> HIDE DEF log, old
    <3>1. Len(Append(old, m.objs)) = Len(old) + 1 /\ Append(old, m.objs)[Len(old) + 1] = m.objs
      BY <2>3, AppendProperties DEF old
    <3> QED
      BY <2>5, <3>1
  <2>7. log' = [log EXCEPT ![m.db] = Append(log[m.db], seg)]
    <3>1. log' = [db \in Dbs |-> IF db = m.db THEN Append(old, m.objs) ELSE log[db]]
      BY <2>2, <2>3
    <3> HIDE DEF seg
    <3> QED
      BY <2>5, <2>6, <3>1
  <2>8. \A i \in 1..Len(m.objs) : ~Log!Carried(m.objs[i])
    BY <2>4 DEF Log!Carried
  <2>9. Log!AppendSegment(m.db)
    BY <2>4, <2>6, <2>7, <2>8 DEF Log!AppendSegment, InOrder
  <2> QED
    BY <2>3, <2>9 DEF Log!Next
<1> QED
  BY <1>2, <1>3

\* The service implements the append-only log of sealed segments an auditor is
\* promised, whatever overlaps, fails or restarts: up to the step that puts a
\* second manifest under one key, an observer of WORM sees segments of fresh
\* events, in order, appended to each database's log.
THEOREM WriterImplementsLog == Spec => ImplementsLog
<1>1. ReuseInv /\ [Next]_vars => ReuseInv'
  BY ReuseStep
<1>2. ReuseInv /\ [Next]_vars => [SequencesNotReused' => LogStep]_vars
  BY LogSteps
<1> QED
  BY ReuseInit, <1>1, LogStarts, <1>2, PTL DEF Spec, ImplementsLog

=============================================================================
