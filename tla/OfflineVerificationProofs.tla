---------------------- MODULE OfflineVerificationProofs ----------------------
(***************************************************************************)
(* Theorems about OfflineVerification and the verifier's cases, for any    *)
(* number of events, segments, keys and alterations.                       *)
(***************************************************************************)
EXTENDS VerifierCases, KeyRegistryProofs, FiniteSetTheorems, SequenceTheorems

-----------------------------------------------------------------------------
(* Lemmas about the operators.                                             *)

\* A sequence, of whatever it holds.
IsSeq(s) == Len(s) \in Nat /\ s = [i \in 1..Len(s) |-> s[i]]

Members(s) == {s[i] : i \in 1..Len(s)}

LEMMA SeqOfMembers ==
  ASSUME NEW s, IsSeq(s)
  PROVE  s \in Seq(Members(s)) /\ DOMAIN s = 1..Len(s)
<1> DEFINE n == Len(s)
           f == [i \in 1..n |-> s[i]]
<1>1. n \in Nat /\ \A i \in 1..n : s[i] \in Members(s)
  BY DEF IsSeq, Members
<1> HIDE DEF n
<1>2. f \in Seq(Members(s)) /\ DOMAIN f = 1..n
  BY <1>1
<1>3. s = f
  BY DEF IsSeq, n
<1> HIDE DEF f
<1> QED
  BY <1>2, <1>3 DEF n

LEMMA SeqIsSeq ==
  ASSUME NEW S, NEW s \in Seq(S)
  PROVE  IsSeq(s)
  BY DEF IsSeq

LEMMA AppendIsSeq ==
  ASSUME NEW s, IsSeq(s), NEW e
  PROVE  /\ IsSeq(Append(s, e)) /\ Len(Append(s, e)) = Len(s) + 1
         /\ \A i \in 1..Len(s) : Append(s, e)[i] = s[i]
         /\ Append(s, e)[Len(s) + 1] = e
<1> DEFINE S == Members(s) \cup {e}
<1>1. s \in Seq(S)
  BY SeqOfMembers
<1>2. e \in S
  OBVIOUS
<1> HIDE DEF S
<1>3. Append(s, e) \in Seq(S)
  BY <1>1, <1>2
<1>4. IsSeq(Append(s, e))
  BY <1>3, SeqIsSeq
<1> QED
  BY <1>1, <1>2, <1>4, AppendProperties

\* The row hash before an event is the one its row hash extends.
LEMMA RowBeforeEvent ==
  ASSUME NEW p, IsSeq(p), NEW e, NEW k \in Nat \ {0}, Append(p, e) = RowUpTo(k)
  PROVE  p = RowUpTo(k - 1)
<1>1. Len(RowUpTo(k)) = k /\ \A i \in 1..k : RowUpTo(k)[i] = [id |-> i, rev |-> 0]
  BY DEF RowUpTo
<1>2. Len(p) = k - 1 /\ \A i \in 1..Len(p) : Append(p, e)[i] = p[i]
  <2>1. Len(p) \in Nat
    BY DEF IsSeq
  <2>2. Len(Append(p, e)) = Len(p) + 1 /\ \A i \in 1..Len(p) : Append(p, e)[i] = p[i]
    BY AppendIsSeq
  <2> QED
    BY <1>1, <2>1, <2>2
<1>3. \A i \in 1..(k - 1) : p[i] = [id |-> i, rev |-> 0]
  <2> DEFINE q == Append(p, e)
  <2>1. q = RowUpTo(k) /\ \A i \in 1..(k - 1) : q[i] = p[i]
    BY <1>2
  <2> HIDE DEF q
  <2>2. \A i \in 1..(k - 1) : q[i] = [id |-> i, rev |-> 0]
    <3>1. \A i \in 1..(k - 1) : i \in 1..k
      OBVIOUS
    <3> QED
      BY <1>1, <2>1, <3>1
  <2> QED
    BY <2>1, <2>2
<1>4. p = [i \in 1..(k - 1) |-> p[i]]
  BY <1>2 DEF IsSeq
<1> QED
  BY <1>3, <1>4 DEF RowUpTo

\* A verdict of PASS is a pass of every check, for every segment.
LEMMA VerdictMeans ==
  ASSUME NEW segs, NEW directory
  PROVE  OverallPass(segs, directory) <=>
           /\ \A i \in DOMAIN segs :
                /\ PerObjectHash(segs[i]) /\ ObjectChain(segs[i])
                /\ SegmentManifest(segs[i]) /\ CrossSegment(segs, segs[i])
                /\ HsmSignature(segs[i], directory) /\ AnchorToken(segs[i])
           /\ MissingSegments(segs) = {} /\ MissingEvents(segs) = {}
<1>1. AllPass(Integrity(segs)) <=>
        /\ \A i \in DOMAIN segs :
             /\ PerObjectHash(segs[i]) /\ ObjectChain(segs[i])
             /\ SegmentManifest(segs[i]) /\ CrossSegment(segs, segs[i])
        /\ MissingSegments(segs) = {}
  <2> DEFINE F1 == Faulted(segs, PerObjectHash)
             F2 == Faulted(segs, ObjectChain)
             F3 == Faulted(segs, SegmentManifest)
             F4 == Faulted(segs, LAMBDA s : CrossSegment(segs, s))
             F5 == MissingSegments(segs)
             R  == Integrity(segs)
  <2>1. /\ DOMAIN R = {"per_object_hash", "object_chain", "segment_manifest",
                       "cross_segment_continuity", "no_missing_segment"}
        /\ R["per_object_hash"] = F1 /\ R["object_chain"] = F2
        /\ R["segment_manifest"] = F3 /\ R["cross_segment_continuity"] = F4
        /\ R["no_missing_segment"] = F5
    BY DEF Integrity
  <2>2. F1 = {} <=> \A i \in DOMAIN segs : PerObjectHash(segs[i])
    BY DEF Faulted
  <2>3. F2 = {} <=> \A i \in DOMAIN segs : ObjectChain(segs[i])
    BY DEF Faulted
  <2>4. F3 = {} <=> \A i \in DOMAIN segs : SegmentManifest(segs[i])
    BY DEF Faulted
  <2>5. F4 = {} <=> \A i \in DOMAIN segs : CrossSegment(segs, segs[i])
    BY DEF Faulted
  <2> HIDE DEF F1, F2, F3, F4, F5, R
  <2>6. AllPass(R) <=> F1 = {} /\ F2 = {} /\ F3 = {} /\ F4 = {} /\ F5 = {}
    BY <2>1 DEF AllPass
  <2> QED
    BY <2>2, <2>3, <2>4, <2>5, <2>6 DEF F5, R
<1>2. AllPass(Attestation(segs, directory)) <=>
        \A i \in DOMAIN segs : HsmSignature(segs[i], directory) /\ AnchorToken(segs[i])
  <2> DEFINE F1 == Faulted(segs, LAMBDA s : HsmSignature(s, directory))
             F2 == Faulted(segs, AnchorToken)
             R  == Attestation(segs, directory)
  <2>1. /\ DOMAIN R = {"hsm_signature", "anchor_token"}
        /\ R["hsm_signature"] = F1 /\ R["anchor_token"] = F2
    BY DEF Attestation
  <2>2. F1 = {} <=> \A i \in DOMAIN segs : HsmSignature(segs[i], directory)
    BY DEF Faulted
  <2>3. F2 = {} <=> \A i \in DOMAIN segs : AnchorToken(segs[i])
    BY DEF Faulted
  <2> HIDE DEF F1, F2, R
  <2>4. AllPass(R) <=> F1 = {} /\ F2 = {}
    BY <2>1 DEF AllPass
  <2> QED
    BY <2>2, <2>3, <2>4 DEF R
<1> QED
  BY <1>1, <1>2 DEF OverallPass

\* Sorting segments numbered from 0 without a gap puts each in its place.
LEMMA SortedPlaces ==
  ASSUME NEW segs, NEW n \in Nat, DOMAIN segs = 1..n,
         \A i, j \in 1..n : NumberOf(segs[i]) = NumberOf(segs[j]) => i = j,
         {NumberOf(segs[i]) : i \in 1..n} = 0..(n - 1)
  PROVE  /\ Sorted(segs) = [k \in 1..n |-> Sorted(segs)[k]]
         /\ \A k \in 1..n : /\ \E i \in 1..n : Sorted(segs)[k] = segs[i]
                            /\ NumberOf(Sorted(segs)[k]) = k - 1
<1> DEFINE num(i) == NumberOf(segs[i])
           less(i) == {j \in 1..n : num(j) < num(i)}
<1>1. \A i \in 1..n : num(i) \in 0..(n - 1)
  OBVIOUS
<1>2. ASSUME NEW i \in 1..n
      PROVE  Place(segs, i) = num(i) + 1
  <2>1. Place(segs, i) = 1 + Cardinality(less(i))
    <3>1. {j \in DOMAIN segs : \/ NumberOf(segs[j]) < NumberOf(segs[i])
                               \/ NumberOf(segs[j]) = NumberOf(segs[i]) /\ j < i} = less(i)
      <4>1. \A j \in 1..n : NumberOf(segs[j]) = NumberOf(segs[i]) => ~(j < i)
        OBVIOUS
      <4> QED
        BY <4>1
    <3> QED
      BY <3>1 DEF Place
  <2> DEFINE f == [j \in less(i) |-> num(j)]
             T == 0..(num(i) - 1)
  <2>2. f \in Bijection(less(i), T)
    <3>1. f \in [less(i) -> T]
      BY <1>1
    <3>2. \A j, k \in less(i) : f[j] = f[k] => j = k
      OBVIOUS
    <3>3. \A t \in T : \E j \in less(i) : f[j] = t
      <4> SUFFICES ASSUME NEW t \in T PROVE \E j \in less(i) : f[j] = t
        OBVIOUS
      <4>1. t \in 0..(n - 1) /\ t < num(i)
        BY <1>1
      <4>2. PICK j \in 1..n : num(j) = t
        BY <4>1
      <4> QED
        BY <4>1, <4>2
    <3> HIDE DEF f, T, less
    <3>4. f \in Injection(less(i), T)
      BY <3>1, <3>2 DEF Injection, IsInjective
    <3>5. f \in Surjection(less(i), T)
      BY <3>1, <3>3 DEF Surjection
    <3> QED
      BY <3>4, <3>5 DEF Bijection
  <2>3. ExistsBijection(less(i), T)
    BY <2>2 DEF ExistsBijection
  <2>4. IsFiniteSet(T) /\ Cardinality(T) = num(i)
    <3>1. num(i) \in Nat
      BY <1>1
    <3> HIDE DEF num
    <3>0. 0 \in Int /\ num(i) - 1 \in Int
      BY <3>1
    <3>2. IsFiniteSet(0..(num(i) - 1)) /\ Cardinality(0..(num(i) - 1)) =
            IF 0 > num(i) - 1 THEN 0 ELSE (num(i) - 1) - 0 + 1
      BY <3>0, FS_Interval
    <3> QED
      BY <3>1, <3>2
  <2>5. IsFiniteSet(less(i))
    <3>1. IsFiniteSet(1..n)
      BY FS_Interval
    <3> QED
      BY <3>1, FS_Subset
  <2> HIDE DEF T, less
  <2>6. Cardinality(less(i)) = Cardinality(T)
    BY <2>3, <2>4, <2>5, FS_Bijection
  <2> QED
    BY <1>1, <2>1, <2>4, <2>6
<1>3. ASSUME NEW k \in 1..n
      PROVE  /\ \E i \in 1..n : Sorted(segs)[k] = segs[i]
             /\ NumberOf(Sorted(segs)[k]) = k - 1
  <2>1. k - 1 \in 0..(n - 1)
    OBVIOUS
  <2>2. \E i \in 1..n : Place(segs, i) = k
    <3>1. PICK i \in 1..n : num(i) = k - 1
      BY <2>1
    <3> HIDE DEF num
    <3> QED
      BY <1>2, <3>1
  <2> DEFINE c == CHOOSE i \in 1..n : Place(segs, i) = k
  <2>3. c \in 1..n /\ Place(segs, c) = k
    BY <2>2
  <2>4. Sorted(segs)[k] = segs[c]
    BY DEF Sorted
  <2> HIDE DEF c
  <2>5. num(c) = k - 1
    <3>1. num(c) \in 0..(n - 1)
      BY <1>1, <2>3
    <3>2. Place(segs, c) = num(c) + 1
      BY <1>2, <2>3
    <3> HIDE DEF num
    <3> QED
      BY <2>3, <3>1, <3>2
  <2> QED
    BY <2>3, <2>4, <2>5
<1>4. Sorted(segs) = [k \in 1..n |-> Sorted(segs)[k]]
  BY DEF Sorted
<1> QED
  BY <1>3, <1>4

-----------------------------------------------------------------------------
(* Soundness: PassIsGenuine.                                               *)
(*                                                                         *)
(* The invariant says what is in WORM, and that whatever the evidence in   *)
(* hand has become, it is made of records: no signature is forged, and the *)
(* parts of a package are numbered from 0 as the builder ordered them.     *)

CoreShape(c) ==
  c = [seq |-> c.seq, list |-> c.list, hashes |-> c.hashes, lastRow |-> c.lastRow,
       offsets |-> c.offsets, gap |-> c.gap, link |-> c.link]

\* s is the j-th segment, of the events a to b, which follow those of the segment
\* p before it.
SegmentIs(s, p, j, a, b) ==
  LET m == s.manifest
  IN /\ a \in Nat \ {0} /\ b \in Nat /\ a <= b /\ b - a + 1 <= MaxEvents
     /\ m = [core |-> m.core, hash |-> m.core]
     /\ m.core.seq = j - 1
     /\ m.core.list = [i \in 1..(b - a + 1) |-> [id |-> a + i - 1, key |-> <<j - 1, i>>]]
     /\ m.core.hashes = [i \in 1..(b - a + 1) |->
          [event |-> [id |-> a + i - 1, rev |-> 0], row |-> RowUpTo(a + i - 1)]]
     /\ s.objects = [i \in 1..(b - a + 1) |-> ObjectOf(a + i - 1)]
     /\ s.anchor # None =>
          \E key, at : at \in Int /\ s.anchor = AnchorOf(m, key, at)
     /\ s.upto = b
     /\ a = (IF j = 1 THEN 0 ELSE p.upto) + 1
     /\ m.core.lastRow = RowUpTo(b)
     /\ m.core.link = IF j = 1 THEN None
                      ELSE [seq |-> j - 2, hash |-> SegmentHashOf(p.manifest)]
     /\ m.core.offsets = [first |-> OffsetOf[a], last |-> OffsetOf[b]]
     /\ m.core.gap = (\E e \in a..b : e \in Gapped)
     /\ CoreShape(m.core)

\* The number of change events of a segment.
LEMMA SegmentCounts ==
  ASSUME NEW s, NEW p, NEW j, NEW a, NEW b, SegmentIs(s, p, j, a, b)
  PROVE  /\ a \in Nat \ {0} /\ b \in Nat /\ b - a + 1 \in Nat \ {0}
         /\ a + (b - a + 1) - 1 = b
<1>1. a \in Nat \ {0} /\ b \in Nat /\ a <= b
  BY DEF SegmentIs
<1> QED
  BY <1>1

Before(j) == IF j = 1 THEN None ELSE sealed[j - 1]

SealedAs(j, a, b) == SegmentIs(sealed[j], Before(j), j, a, b)

SealedOK ==
  /\ IsSeq(sealed) /\ Len(sealed) <= MaxSegments
  /\ \A j \in 1..Len(sealed) : \E a, b \in Nat : SealedAs(j, a, b)

\* An anchor record in hand is one from WORM, whatever head it is shown with.
RecordOK(r) ==
  \/ r = None
  \/ \E j \in 1..Len(sealed) :
       LET a == sealed[j].anchor
       IN /\ a # None
          /\ r = [head |-> r.head, key |-> a.key, signature |-> a.signature,
                  imprint |-> a.imprint]

PartOK(p) ==
  /\ p = [manifest |-> p.manifest, anchor |-> p.anchor]
  /\ p.manifest = [core |-> p.manifest.core, hash |-> p.manifest.hash]
  /\ RecordOK(p.anchor)

CopyOK == copy # None => IsSeq(copy) /\ \A i \in 1..Len(copy) : PartOK(copy[i])

PackageOK ==
  package # None =>
    /\ package = [parts |-> package.parts, at |-> package.at, hash |-> package.hash,
                  key |-> package.key, signature |-> package.signature]
    /\ IsSeq(package.parts) /\ Len(package.parts) > 0
    /\ \A i \in 1..Len(package.parts) :
         PartOK(package.parts[i]) /\ NumberOf(package.parts[i]) = i - 1

\* An object: its shape, and the row hash it carries is a sequence.
ObjectShape(o) ==
  /\ o = [content |-> o.content, event |-> o.event, prev |-> o.prev, row |-> o.row]
  /\ IsSeq(o.prev)

SidecarOK ==
  /\ sidecar = [w \in WormKeys |-> sidecar[w]]
  /\ \A w \in WormKeys : sidecar[w] # None => ObjectShape(sidecar[w])

SoundInv == now \in Int /\ SealedOK /\ CopyOK /\ PackageOK /\ SidecarOK

\* A signature that verifies shows the head that was signed.
LEMMA SignedRecord ==
  ASSUME SealedOK, NEW r, r # None, RecordOK(r), Verifies(r.signature, r.key, r.head)
  PROVE  \E j \in 1..Len(sealed) : sealed[j].anchor # None /\ r = sealed[j].anchor
<1>1. PICK j \in 1..Len(sealed) :
        /\ sealed[j].anchor # None
        /\ r = [head |-> r.head, key |-> sealed[j].anchor.key,
                signature |-> sealed[j].anchor.signature,
                imprint |-> sealed[j].anchor.imprint]
  BY DEF RecordOK
<1>2. PICK key, at : sealed[j].anchor = AnchorOf(sealed[j].manifest, key, at)
  <2>1. PICK a \in Nat, b \in Nat : SealedAs(j, a, b)
    BY DEF SealedOK
  <2> QED
    BY <1>1, <2>1 DEF SealedAs, SegmentIs
<1> DEFINE head == [seq |-> sealed[j].manifest.core.seq,
                    hash |-> SegmentHashOf(sealed[j].manifest),
                    lastRow |-> sealed[j].manifest.core.lastRow, at |-> at]
<1>3. sealed[j].anchor = [head |-> head, key |-> key,
                          signature |-> [key |-> key, over |-> head], imprint |-> head]
  BY <1>2 DEF AnchorOf
<1> HIDE DEF head
<1>4. r.key = key /\ r.signature = [key |-> key, over |-> head] /\ r.imprint = head
  BY <1>1, <1>3
<1>5. r.signature.over = r.head
  BY DEF Verifies
<1>6. r.head = head
  BY <1>4, <1>5
<1>7. r = sealed[j].anchor
  BY <1>1, <1>3, <1>6
<1> QED
  BY <1>1, <1>7

\* A part whose checks pass is the segment its anchor record was made for.
LEMMA PartGenuine ==
  ASSUME SealedOK, NEW p, PartOK(p), NEW s, s.manifest = p.manifest, s.anchor = p.anchor,
         NEW directory, HsmSignature(s, directory), SegmentManifest(s)
  PROVE  \E j \in 1..Len(sealed) :
           /\ s.manifest = sealed[j].manifest /\ s.anchor = sealed[j].anchor
           /\ NumberOf(s) = j - 1
<1>1. /\ s.anchor # None /\ RecordOK(s.anchor)
      /\ Verifies(s.anchor.signature, s.anchor.key, s.anchor.head)
      /\ s.anchor.head.seq = NumberOf(s)
      /\ s.anchor.head.hash = SegmentHashOf(s.manifest)
  BY DEF HsmSignature, HeadIsOf, PartOK
<1>2. PICK j \in 1..Len(sealed) : sealed[j].anchor # None /\ s.anchor = sealed[j].anchor
  BY <1>1, SignedRecord
<1> DEFINE m == sealed[j].manifest
<1>3. /\ m = [core |-> m.core, hash |-> m.core] /\ m.core.seq = j - 1
      /\ \E key, at : sealed[j].anchor = AnchorOf(m, key, at)
  <2>1. PICK a \in Nat, b \in Nat : SealedAs(j, a, b)
    BY DEF SealedOK
  <2> QED
    BY <1>2, <2>1 DEF SealedAs, SegmentIs
<1>4. /\ sealed[j].anchor.head.seq = m.core.seq
      /\ sealed[j].anchor.head.hash = SegmentHashOf(m)
  BY <1>3 DEF AnchorOf
<1>5. SegmentHashOf(s.manifest) = SegmentHashOf(m)
  BY <1>1, <1>2, <1>4
<1>6. s.manifest.hash = m.hash
  BY <1>5 DEF SegmentHashOf
<1>7. s.manifest.hash = s.manifest.core /\ m.hash = m.core
  BY <1>3 DEF SegmentManifest
<1>8. s.manifest = m
  BY <1>3, <1>6, <1>7 DEF PartOK
<1> QED
  BY <1>1, <1>2, <1>3, <1>8 DEF NumberOf

\* An object that its chain and its manifest's lists vouch for is the one that
\* was written.
LEMMA ObjectGenuine ==
  ASSUME NEW o, ObjectShape(o), NEW k \in Nat \ {0},
         EventHashOk(o), RowHashOk(o), [event |-> o.event, row |-> o.row] =
           [event |-> [id |-> k, rev |-> 0], row |-> RowUpTo(k)]
  PROVE  o = ObjectOf(k)
<1>1. o.event = [id |-> k, rev |-> 0] /\ o.row = RowUpTo(k)
  OBVIOUS
<1>2. o.content = [id |-> k, rev |-> 0]
  BY <1>1 DEF EventHashOk, EventHash
<1>3. Append(o.prev, o.event) = RowUpTo(k)
  BY <1>1 DEF RowHashOk, RowHash
<1>4. o.prev = RowUpTo(k - 1)
  BY <1>3, RowBeforeEvent DEF ObjectShape
<1> QED
  BY <1>1, <1>2, <1>4 DEF ObjectShape, ObjectOf

\* The objects of a part whose checks pass are those of its segment.
LEMMA ObjectsGenuine ==
  ASSUME SealedOK, SidecarOK, NEW s, NEW j \in 1..Len(sealed), s.manifest = sealed[j].manifest,
         s.objects = ObjectsFor(s.manifest), \A i \in DOMAIN s.objects : s.objects[i] # None,
         PerObjectHash(s), ObjectChain(s)
  PROVE  s.objects = sealed[j].objects
<1>1. PICK a \in Nat, b \in Nat : SealedAs(j, a, b)
  BY DEF SealedOK
<1> DEFINE n == b - a + 1
           c == s.manifest.core
<1>2. /\ a \in Nat \ {0} /\ n \in 1..MaxEvents
      /\ c.list = [i \in 1..n |-> [id |-> a + i - 1, key |-> <<j - 1, i>>]]
      /\ c.hashes = [i \in 1..n |->
           [event |-> [id |-> a + i - 1, rev |-> 0], row |-> RowUpTo(a + i - 1)]]
      /\ sealed[j].objects = [i \in 1..n |-> ObjectOf(a + i - 1)]
  <2>1. SegmentIs(sealed[j], Before(j), j, a, b)
    BY <1>1 DEF SealedAs
  <2>2. a \in Nat \ {0} /\ a <= b /\ n <= MaxEvents
    BY <2>1 DEF SegmentIs
  <2>3. n \in 1..MaxEvents
    BY <2>2, OfflineAssumption
  <2>4. c = sealed[j].manifest.core
    OBVIOUS
  <2> HIDE DEF c
  <2>5. /\ c.list = [i \in 1..n |-> [id |-> a + i - 1, key |-> <<j - 1, i>>]]
        /\ c.hashes = [i \in 1..n |->
             [event |-> [id |-> a + i - 1, rev |-> 0], row |-> RowUpTo(a + i - 1)]]
        /\ sealed[j].objects = [i \in 1..n |-> ObjectOf(a + i - 1)]
    BY <2>1, <2>4 DEF SegmentIs
  <2> QED
    BY <2>2, <2>3, <2>5
<1> HIDE DEF n, c
<1>3. s.objects = [i \in 1..n |-> sidecar[<<j - 1, i>>]]
  BY <1>2 DEF ObjectsFor, c
<1>4. ASSUME NEW i \in 1..n
      PROVE  s.objects[i] = ObjectOf(a + i - 1)
  <2>1. <<j - 1, i>> \in WormKeys
    <3>1. j - 1 \in 0..(MaxSegments - 1)
      BY OfflineAssumption DEF SealedOK, IsSeq
    <3>2. i \in 1..MaxEvents
      BY <1>2, OfflineAssumption
    <3> QED
      BY <3>1, <3>2 DEF WormKeys
  <2>2. ObjectShape(s.objects[i])
    BY <1>3, <2>1 DEF SidecarOK
  <2>3. EventHashOk(s.objects[i]) /\ RowHashOk(s.objects[i]) /\ ListsMatch(s, i)
    BY <1>3 DEF PerObjectHash, ObjectChain
  <2>4. [event |-> s.objects[i].event, row |-> s.objects[i].row] =
          [event |-> [id |-> a + i - 1, rev |-> 0], row |-> RowUpTo(a + i - 1)]
    BY <1>2, <2>3 DEF ListsMatch, c
  <2>5. a + i - 1 \in Nat \ {0}
    BY <1>2
  <2> QED
    BY <2>2, <2>3, <2>4, <2>5, ObjectGenuine
<1> QED
  BY <1>2, <1>3, <1>4

\* Where the invariant holds, what passes is the sealed evidence.
LEMMA SoundVerdict ==
  ASSUME SoundInv
  PROVE  PassIsGenuine
<1> SUFFICES ASSUME Passes
             PROVE  /\ Len(package.parts) \in 1..Len(sealed)
                    /\ \A i \in DOMAIN package.parts :
                         /\ Segments[i].manifest = sealed[i].manifest
                         /\ Segments[i].objects = sealed[i].objects
                         /\ Segments[i].anchor = sealed[i].anchor
  BY DEF PassIsGenuine
<1> DEFINE n == Len(package.parts)
<1>1. /\ package # None /\ ~Unusable
      /\ OverallPass(Segments, trust["signing"])
  BY DEF Passes
<1>2. /\ n \in Nat /\ n > 0 /\ DOMAIN package.parts = 1..n
      /\ \A i \in 1..n : PartOK(package.parts[i]) /\ NumberOf(package.parts[i]) = i - 1
  BY <1>1, SeqOfMembers DEF SoundInv, PackageOK, IsSeq
<1>3. \A i \in 1..n :
        /\ Segments[i].manifest = package.parts[i].manifest
        /\ Segments[i].anchor = package.parts[i].anchor
        /\ Segments[i].objects = ObjectsFor(Segments[i].manifest)
  BY <1>2 DEF Segments
<1>4. DOMAIN Segments = 1..n
  BY <1>2 DEF Segments
<1>5. \A i \in 1..n :
        /\ PerObjectHash(Segments[i]) /\ ObjectChain(Segments[i])
        /\ SegmentManifest(Segments[i]) /\ HsmSignature(Segments[i], trust["signing"])
  BY <1>1, <1>4, VerdictMeans
<1>6. \A i \in 1..n : \A k \in DOMAIN Segments[i].objects : Segments[i].objects[k] # None
  BY <1>1, <1>2 DEF Unusable
<1>7. ASSUME NEW i \in 1..n
      PROVE  /\ i \in 1..Len(sealed)
             /\ Segments[i].manifest = sealed[i].manifest
             /\ Segments[i].objects = sealed[i].objects
             /\ Segments[i].anchor = sealed[i].anchor
  <2>1. PICK j \in 1..Len(sealed) :
          /\ Segments[i].manifest = sealed[j].manifest
          /\ Segments[i].anchor = sealed[j].anchor
          /\ NumberOf(Segments[i]) = j - 1
    <3> DEFINE p == package.parts[i]
               s == Segments[i]
               directory == trust["signing"]
    <3>1. /\ SealedOK /\ PartOK(p) /\ s.manifest = p.manifest /\ s.anchor = p.anchor
          /\ SegmentManifest(s) /\ HsmSignature(s, directory)
      BY <1>2, <1>3, <1>5 DEF SoundInv
    <3> HIDE DEF p, s, directory
    <3>2. \E j \in 1..Len(sealed) :
            /\ s.manifest = sealed[j].manifest /\ s.anchor = sealed[j].anchor
            /\ NumberOf(s) = j - 1
      BY <3>1, PartGenuine
    <3> QED
      BY <3>2 DEF s
  <2>2. NumberOf(Segments[i]) = i - 1
    BY <1>2, <1>3 DEF NumberOf
  <2>3. j = i
    BY <2>1, <2>2
  <2>4. Segments[i].objects = sealed[i].objects
    BY <1>3, <1>5, <1>6, <2>1, <2>3, ObjectsGenuine DEF SoundInv
  <2> QED
    BY <2>1, <2>3, <2>4
<1>8. n \in 1..Len(sealed)
  BY <1>2, <1>7
<1> QED
  BY <1>2, <1>7, <1>8

\* A function on 1..n is a sequence.
LEMMA FunIsSeq ==
  ASSUME NEW n \in Nat, NEW f, f = [i \in 1..n |-> f[i]]
  PROVE  IsSeq(f) /\ Len(f) = n /\ DOMAIN f = 1..n
<1> DEFINE S == {f[i] : i \in 1..n}
           g == [i \in 1..n |-> f[i]]
<1>1. \A i \in 1..n : f[i] \in S
  OBVIOUS
<1> HIDE DEF S
<1>2. g \in Seq(S) /\ Len(g) = n /\ DOMAIN g = 1..n
  BY <1>1
<1>3. g = f
  OBVIOUS
<1> HIDE DEF g
<1> QED
  BY <1>2, <1>3, SeqIsSeq

\* What holds of the members of a sequence holds of a sequence of them.
LEMMA SeqOfSome ==
  ASSUME NEW s, NEW t \in Seq(Members(s))
  PROVE  IsSeq(t) /\ \A k \in 1..Len(t) : \E i \in 1..Len(s) : t[k] = s[i]
<1>1. \A k \in 1..Len(t) : t[k] \in Members(s)
  OBVIOUS
<1> QED
  BY <1>1, SeqIsSeq DEF Members

LEMMA SoundInit == Init => SoundInv
<1> SUFFICES ASSUME Init PROVE SoundInv
  OBVIOUS
<1>1. Len(<<>>) = 0 /\ IsSeq(<<>>)
  BY DEF IsSeq
<1>2. SealedOK
  BY <1>1, OfflineAssumption DEF Init, SealedOK
<1>3. SidecarOK
  BY DEF Init, SidecarOK
<1> QED
  BY <1>2, <1>3 DEF Init, SoundInv, CopyOK, PackageOK

\* Whatever leaves WORM alone leaves what is known of it, and of records.
LEMMA SealedKept ==
  ASSUME UNCHANGED sealed
  PROVE  /\ SealedOK => SealedOK'
         /\ \A r : RecordOK(r) => RecordOK(r)'
         /\ \A p : PartOK(p) => PartOK(p)'
<1>1. ASSUME NEW j, NEW a, NEW b, SealedAs(j, a, b) PROVE SealedAs(j, a, b)'
  BY <1>1 DEF SealedAs, Before
<1>2. SealedOK => SealedOK'
  BY <1>1 DEF SealedOK
<1>3. ASSUME NEW r, RecordOK(r) PROVE RecordOK(r)'
  BY <1>3 DEF RecordOK
<1>4. ASSUME NEW p, PartOK(p) PROVE PartOK(p)'
  BY <1>3, <1>4 DEF PartOK
<1> QED
  BY <1>2, <1>3, <1>4

LEMMA CopyKept ==
  ASSUME UNCHANGED <<sealed, copy>>, CopyOK
  PROVE  CopyOK'
<1>1. \A p : PartOK(p) => PartOK(p)'
  BY SealedKept
<1>2. ASSUME NEW i \in 1..Len(copy), PartOK(copy[i]) PROVE PartOK(copy[i])'
  <2>1. PICK p : p = copy[i]
    OBVIOUS
  <2>2. PartOK(p)'
    BY <1>1, <1>2, <2>1
  <2> QED
    BY <2>1, <2>2 DEF PartOK
<1> QED
  BY <1>2 DEF CopyOK

LEMMA PackageKept ==
  ASSUME UNCHANGED <<sealed, package>>, PackageOK
  PROVE  PackageOK'
<1>1. \A p : PartOK(p) => PartOK(p)'
  BY SealedKept
<1>2. PICK ps : ps = package.parts
  OBVIOUS
<1>3. package # None => \A i \in 1..Len(ps) : PartOK(ps[i])'
  BY <1>1, <1>2 DEF PackageOK
<1>4. ps = package.parts'
  BY <1>2
<1> QED
  BY <1>2, <1>3, <1>4 DEF PackageOK

LEMMA SoundSeal ==
  ASSUME SoundInv, NEW n \in 1..MaxEvents, NEW anchored \in BOOLEAN, Seal(n, anchored)
  PROVE  SoundInv'
<1> DEFINE a == EventsOf(sealed) + 1
           b == EventsOf(sealed) + n
           l == Len(sealed)
           m == [core |-> CoreOf(sealed, a, b), hash |-> CoreOf(sealed, a, b)]
           e == [manifest |-> m, objects |-> [i \in 1..n |-> ObjectOf(a + i - 1)],
                 anchor |-> IF anchored THEN AnchorOf(m, holder["signing"], now) ELSE None,
                 upto |-> b]
<1>1. sealed' = Append(sealed, e) /\ l < MaxSegments /\ UNCHANGED <<copy, package, sidecar>>
  BY DEF Seal
<1>2. l \in Nat /\ IsSeq(sealed) /\ \A j \in 1..l : \E x, y \in Nat : SealedAs(j, x, y)
  BY DEF SoundInv, SealedOK, IsSeq
<1>3. EventsOf(sealed) \in Nat
  <2>1. CASE sealed = <<>>
    BY <2>1 DEF EventsOf
  <2>2. CASE sealed # <<>>
    <3>1. l # 0
      BY <1>2, <2>2 DEF IsSeq
    <3>2. l \in 1..l
      BY <1>2, <3>1
    <3>3. sealed[l].upto \in Nat
      <4>1. PICK x \in Nat, y \in Nat : SealedAs(l, x, y)
        BY <1>2, <3>2
      <4> QED
        BY <4>1 DEF SealedAs, SegmentIs
    <3> QED
      BY <2>2, <3>3 DEF EventsOf
  <2> QED
    BY <2>1, <2>2
<1>4. /\ a \in Nat \ {0} /\ b \in Nat /\ a <= b /\ b - a + 1 = n /\ n <= MaxEvents
  BY <1>3, OfflineAssumption
<1>5. /\ m = [core |-> m.core, hash |-> m.core]
      /\ m.core.seq = l
      /\ m.core.list = [i \in 1..(b - a + 1) |-> [id |-> a + i - 1, key |-> <<l, i>>]]
      /\ m.core.hashes = [i \in 1..(b - a + 1) |->
           [event |-> [id |-> a + i - 1, rev |-> 0], row |-> RowUpTo(a + i - 1)]]
      /\ m.core.lastRow = RowUpTo(b)
      /\ m.core.offsets = [first |-> OffsetOf[a], last |-> OffsetOf[b]]
      /\ m.core.gap = (\E x \in a..b : x \in Gapped)
  BY DEF CoreOf, NextSeq
<1>16. CoreShape(m.core)
  BY DEF CoreOf, CoreShape
<1>14. m.core.link = IF l + 1 = 1 THEN None
                     ELSE [seq |-> l - 1, hash |-> SegmentHashOf(sealed[l].manifest)]
  <2>1. (sealed = <<>>) <=> (l = 0)
    BY <1>2 DEF IsSeq
  <2>2. l # 0 => sealed[l].manifest.core.seq = l - 1
    <3> SUFFICES ASSUME l # 0 PROVE sealed[l].manifest.core.seq = l - 1
      OBVIOUS
    <3>1. PICK x \in Nat, y \in Nat : SealedAs(l, x, y)
      BY <1>2
    <3> QED
      BY <3>1 DEF SealedAs, SegmentIs
  <2>3. m.core.link = IF sealed = <<>> THEN None
                      ELSE [seq |-> sealed[l].manifest.core.seq,
                            hash |-> SegmentHashOf(sealed[l].manifest)]
    BY DEF CoreOf
  <2> HIDE DEF m, l
  <2> QED
    BY <1>2, <2>1, <2>2, <2>3
<1>15. a = (IF l + 1 = 1 THEN 0 ELSE sealed[l].upto) + 1
  <2>1. (sealed = <<>>) <=> (l = 0)
    BY <1>2 DEF IsSeq
  <2> QED
    BY <1>2, <2>1 DEF EventsOf
<1>6. /\ e.manifest = m /\ e.upto = b
      /\ e.objects = [i \in 1..n |-> ObjectOf(a + i - 1)]
      /\ e.anchor # None => e.anchor = AnchorOf(m, holder["signing"], now)
  OBVIOUS
<1> HIDE DEF a, b, m, e, l
<1>7. /\ IsSeq(sealed') /\ Len(sealed') = l + 1 /\ sealed'[l + 1] = e
      /\ \A i \in 1..l : sealed'[i] = sealed[i]
  BY <1>1, <1>2, AppendIsSeq DEF l
<1>8. SealedOK'
  <2>1. ASSUME NEW j \in 1..(l + 1)
        PROVE  \E x, y \in Nat : SealedAs(j, x, y)'
    <3>1. CASE j \in 1..l
      <4>1. PICK x \in Nat, y \in Nat : SealedAs(j, x, y)
        BY <1>2, <3>1
      <4>2. sealed'[j] = sealed[j] /\ (j # 1 => sealed'[j - 1] = sealed[j - 1])
        BY <1>2, <1>7, <3>1
      <4>3. SealedAs(j, x, y)'
        <5>1. PICK s, p : s = sealed[j] /\ p = Before(j)
          OBVIOUS
        <5>2. s = sealed'[j] /\ p = Before(j)'
          BY <4>2, <5>1 DEF Before
        <5>3. SegmentIs(s, p, j, x, y)
          BY <4>1, <5>1 DEF SealedAs
        <5> QED
          BY <5>2, <5>3 DEF SealedAs
      <4> QED
        BY <4>3
    <3>2. CASE j = l + 1
      <4>1. j - 1 = l
        BY <1>2, <3>2
      <4>2. sealed'[j] = e
        BY <1>7, <3>2
      <4>3. e.objects = [i \in 1..(b - a + 1) |-> ObjectOf(a + i - 1)]
        BY <1>4, <1>6
      <4>4. PICK x \in Nat, y \in Nat : x = a /\ y = b
        BY <1>4
      <4>5. PICK k, at : at \in Int /\ (e.anchor # None => e.anchor = AnchorOf(m, k, at))
        BY <1>6 DEF SoundInv
      <4>6. /\ x \in Nat \ {0} /\ y \in Nat /\ x <= y /\ y - x + 1 <= MaxEvents
            /\ e.manifest = [core |-> e.manifest.core, hash |-> e.manifest.core]
            /\ e.manifest.core.seq = j - 1
        BY <1>4, <1>5, <1>6, <4>1, <4>4
      <4>7. /\ e.manifest.core.list =
                 [i \in 1..(y - x + 1) |-> [id |-> x + i - 1, key |-> <<j - 1, i>>]]
            /\ e.manifest.core.hashes = [i \in 1..(y - x + 1) |->
                 [event |-> [id |-> x + i - 1, rev |-> 0], row |-> RowUpTo(x + i - 1)]]
            /\ e.objects = [i \in 1..(y - x + 1) |-> ObjectOf(x + i - 1)]
        BY <1>5, <1>6, <4>1, <4>3, <4>4
      <4>8. /\ e.anchor # None =>
                 \E kk, tt : tt \in Int /\ e.anchor = AnchorOf(e.manifest, kk, tt)
            /\ e.upto = y
        BY <1>6, <4>4, <4>5
      <4>12. /\ x = (IF j = 1 THEN 0 ELSE sealed'[j - 1].upto) + 1
             /\ e.manifest.core.lastRow = RowUpTo(y)
             /\ e.manifest.core.offsets = [first |-> OffsetOf[x], last |-> OffsetOf[y]]
             /\ e.manifest.core.gap = (\E z \in x..y : z \in Gapped)
        <5>1. j # 1 => sealed'[j - 1] = sealed[l]
          BY <1>2, <1>7, <3>2
        <5> QED
          BY <1>2, <1>5, <1>6, <1>15, <3>2, <4>4, <5>1
      <4>13. e.manifest.core.link =
               IF j = 1 THEN None
               ELSE [seq |-> j - 2, hash |-> SegmentHashOf(sealed'[j - 1].manifest)]
        <5>1. j # 1 => sealed'[j - 1] = sealed[l]
          BY <1>2, <1>7, <3>2
        <5>2. j - 2 = l - 1
          BY <1>2, <3>2
        <5> QED
          BY <1>6, <1>14, <3>2, <5>1, <5>2
      <4>9. PICK g, p : g = e /\ p = Before(j)'
        OBVIOUS
      <4>14. CoreShape(g.manifest.core)
        BY <1>6, <1>16, <4>9
      <4>10. SegmentIs(g, p, j, x, y)
        BY <4>14, <4>6, <4>7, <4>8, <4>9, <4>12, <4>13 DEF SegmentIs, Before
      <4>11. SealedAs(j, x, y)'
        BY <4>2, <4>9, <4>10 DEF SealedAs
      <4> QED
        BY <4>11
    <3> QED
      BY <1>2, <3>1, <3>2
  <2>2. l + 1 <= MaxSegments
    BY <1>1, <1>2, OfflineAssumption
  <2> QED
    BY <1>7, <2>1, <2>2 DEF SealedOK
<1>9. ASSUME NEW r, RecordOK(r) PROVE RecordOK(r)'
  <2>1. 1..l \subseteq 1..(l + 1)
    BY <1>2
  <2> QED
    BY <1>7, <1>9, <2>1 DEF RecordOK, l
<1>10. ASSUME NEW p, PartOK(p) PROVE PartOK(p)'
  BY <1>9, <1>10 DEF PartOK
<1>11. CopyOK'
  <2>1. PICK cs : cs = copy
    OBVIOUS
  <2>2. copy' = cs /\ (copy # None => \A i \in 1..Len(cs) : PartOK(cs[i])')
    BY <1>1, <1>10, <2>1 DEF SoundInv, CopyOK
  <2> QED
    BY <1>1, <2>1, <2>2 DEF SoundInv, CopyOK
<1>12. PackageOK'
  <2>1. PICK ps : ps = package.parts
    OBVIOUS
  <2>2. ps = package'.parts /\ (package # None => \A i \in 1..Len(ps) : PartOK(ps[i])')
    BY <1>1, <1>10, <2>1 DEF SoundInv, PackageOK
  <2> QED
    BY <1>1, <2>1, <2>2 DEF SoundInv, PackageOK
<1>13. SidecarOK' /\ now' \in Int
  BY <1>1 DEF SoundInv, SidecarOK, Seal
<1> QED
  BY <1>8, <1>11, <1>12, <1>13 DEF SoundInv

\* An object in WORM has the shape of one.
LEMMA SealedObject ==
  ASSUME SealedOK, NEW j \in 1..Len(sealed), NEW i \in DOMAIN sealed[j].objects
  PROVE  ObjectShape(sealed[j].objects[i])
<1>1. PICK a \in Nat, b \in Nat : SealedAs(j, a, b)
  BY DEF SealedOK
<1>2. i \in 1..(b - a + 1) /\ sealed[j].objects[i] = ObjectOf(a + i - 1) /\ a >= 1
  BY <1>1 DEF SealedAs, SegmentIs
<1>3. a + i - 1 - 1 \in Nat
  BY <1>2
<1> DEFINE k == a + i - 1
<1>4. k - 1 \in Nat /\ sealed[j].objects[i] = ObjectOf(k)
  BY <1>2, <1>3
<1> HIDE DEF k
<1>5. IsSeq(RowUpTo(k - 1))
  <2> DEFINE f == RowUpTo(k - 1)
  <2>1. f = [x \in 1..(k - 1) |-> f[x]]
    BY DEF RowUpTo
  <2> HIDE DEF f
  <2> QED
    BY <1>4, <2>1, FunIsSeq DEF f
<1> QED
  BY <1>4, <1>5 DEF ObjectShape, ObjectOf

LEMMA SoundRead ==
  ASSUME SoundInv, ReadEvidence
  PROVE  SoundInv'
<1> DEFINE l == Len(sealed)
<1>1. /\ DOMAIN sealed = 1..l /\ l \in Nat
      /\ \A j \in 1..l : \E a, b \in Nat : SealedAs(j, a, b)
  BY SeqOfMembers DEF SoundInv, SealedOK, IsSeq
<1>2. UNCHANGED <<sealed, package>>
  BY DEF ReadEvidence
<1>3. SealedOK' /\ PackageOK'
  BY <1>2, SealedKept, PackageKept DEF SoundInv
<1>4. CopyOK'
  <2>1. copy' = [i \in 1..l |-> [manifest |-> sealed[i].manifest, anchor |-> sealed[i].anchor]]
    BY <1>1 DEF ReadEvidence
  <2>2. IsSeq(copy') /\ Len(copy') = l
    <3> DEFINE f == copy'
    <3>1. f = [i \in 1..l |-> f[i]]
      BY <2>1
    <3> HIDE DEF f, l
    <3> QED
      BY <1>1, <3>1, FunIsSeq DEF f
  <2>3. ASSUME NEW i \in 1..l, NEW p, p = copy'[i] PROVE PartOK(p)'
    <3>1. p = [manifest |-> sealed[i].manifest, anchor |-> sealed[i].anchor]
      BY <2>1, <2>3
    <3>2. PICK a \in Nat, b \in Nat : SealedAs(i, a, b)
      BY <1>1
    <3>3. sealed[i].manifest = [core |-> sealed[i].manifest.core, hash |-> sealed[i].manifest.hash]
      BY <3>2 DEF SealedAs, SegmentIs
    <3>4. RecordOK(sealed[i].anchor)
      <4>1. CASE sealed[i].anchor = None
        BY <4>1 DEF RecordOK
      <4>2. CASE sealed[i].anchor # None
        <5>1. PICK key, at : sealed[i].anchor = AnchorOf(sealed[i].manifest, key, at)
          BY <3>2, <4>2 DEF SealedAs, SegmentIs
        <5>2. sealed[i].anchor = [head |-> sealed[i].anchor.head, key |-> sealed[i].anchor.key,
                                  signature |-> sealed[i].anchor.signature,
                                  imprint |-> sealed[i].anchor.imprint]
          BY <5>1 DEF AnchorOf
        <5> QED
          BY <4>2, <5>2 DEF RecordOK
      <4> QED
        BY <4>1, <4>2
    <3>5. PartOK(p)
      BY <3>1, <3>3, <3>4 DEF PartOK
    <3> QED
      BY <1>2, <3>5, SealedKept
  <2>4. PICK cs : cs = copy'
    OBVIOUS
  <2>5. \A i \in 1..Len(cs) : PartOK(cs[i])'
    BY <2>2, <2>3, <2>4
  <2> QED
    BY <2>2, <2>4, <2>5 DEF CopyOK
<1>5. SidecarOK'
  <2>1. sidecar' = [w \in WormKeys |->
          IF w[1] + 1 \in DOMAIN sealed /\ w[2] \in DOMAIN sealed[w[1] + 1].objects
          THEN sealed[w[1] + 1].objects[w[2]] ELSE None]
    BY DEF ReadEvidence
  <2>2. ASSUME NEW w \in WormKeys, sidecar'[w] # None PROVE ObjectShape(sidecar'[w])
    BY <1>1, <2>1, <2>2, SealedObject DEF SoundInv
  <2> QED
    BY <2>1, <2>2 DEF SidecarOK
<1> QED
  BY <1>3, <1>4, <1>5 DEF SoundInv, ReadEvidence

LEMMA SoundBuild ==
  ASSUME SoundInv, Build
  PROVE  SoundInv'
<1> DEFINE n == Len(copy)
<1>1. copy # None /\ Continuous /\ UNCHANGED <<sealed, copy, sidecar>>
  BY DEF Build
<1>2. /\ n \in Nat /\ DOMAIN copy = 1..n /\ n # 0
      /\ \A i \in 1..n : PartOK(copy[i])
  <2>1. IsSeq(copy)
    BY <1>1 DEF SoundInv, CopyOK
  <2>2. n \in Nat /\ DOMAIN copy = 1..n
    BY <2>1, SeqOfMembers DEF IsSeq
  <2>3. n # 0
    BY <1>1, <2>2 DEF Continuous
  <2> QED
    BY <1>1, <2>2, <2>3 DEF SoundInv, CopyOK
<1>3. \A i, j \in 1..n : NumberOf(copy[i]) = NumberOf(copy[j]) => i = j
  BY <1>1, <1>2 DEF Continuous
<1> HIDE DEF n
<1>4. Cardinality(CopyNumbers) = n
  <2> DEFINE f == [i \in 1..n |-> NumberOf(copy[i])]
  <2>1. f \in Bijection(1..n, CopyNumbers)
    <3>1. f \in [1..n -> CopyNumbers] /\ \A t \in CopyNumbers : \E i \in 1..n : f[i] = t
      BY <1>2 DEF CopyNumbers
    <3>2. \A i, j \in 1..n : f[i] = f[j] => i = j
      BY <1>3
    <3> HIDE DEF f
    <3>3. f \in Injection(1..n, CopyNumbers) /\ f \in Surjection(1..n, CopyNumbers)
      BY <3>1, <3>2 DEF Injection, IsInjective, Surjection
    <3> QED
      BY <3>3 DEF Bijection
  <2>2. IsFiniteSet(1..n) /\ Cardinality(1..n) = n
    <3>1. 1 \in Int /\ n \in Int
      BY <1>2
    <3>2. IsFiniteSet(1..n) /\ Cardinality(1..n) = IF 1 > n THEN 0 ELSE n - 1 + 1
      BY <3>1, FS_Interval
    <3> QED
      BY <1>2, <3>2
  <2>3. ExistsBijection(1..n, CopyNumbers)
    BY <2>1 DEF ExistsBijection
  <2>4. IsFiniteSet(CopyNumbers)
    <3>1. CopyNumbers = {NumberOf(copy[i]) : i \in 1..n}
      BY <1>2 DEF CopyNumbers
    <3>2. f \in Surjection(1..n, CopyNumbers)
      BY <2>1 DEF Bijection
    <3> HIDE DEF f
    <3> QED
      BY <2>2, <3>2, FS_Surjection
  <2> QED
    BY <2>2, <2>3, <2>4, FS_Bijection
<1>5. {NumberOf(copy[i]) : i \in 1..n} = 0..(n - 1)
  BY <1>1, <1>2, <1>4 DEF Continuous, CopyNumbers
<1> DEFINE s == Sorted(copy)
<1>6. /\ s = [k \in 1..n |-> s[k]]
      /\ \A k \in 1..n : (\E i \in 1..n : s[k] = copy[i]) /\ NumberOf(s[k]) = k - 1
  BY <1>2, <1>3, <1>5, SortedPlaces
<1>7. \E key, sig, h : package' = [parts |-> s, at |-> now, hash |-> h, key |-> key, signature |-> sig]
  BY DEF Build
<1> HIDE DEF s
<1>8. IsSeq(s) /\ Len(s) = n
  BY <1>2, <1>6, FunIsSeq
<1>9. \A k \in 1..n : PartOK(s[k])
  BY <1>2, <1>6
<1>10. SealedOK' /\ CopyOK' /\ SidecarOK'
  BY <1>1, SealedKept, CopyKept DEF SoundInv, SidecarOK
<1>11. ASSUME NEW p, PartOK(p) PROVE PartOK(p)'
  BY <1>1, <1>11, SealedKept
<1>12. PackageOK'
  <2>1. /\ package' = [parts |-> package'.parts, at |-> package'.at, hash |-> package'.hash,
                       key |-> package'.key, signature |-> package'.signature]
        /\ package'.parts = s
    BY <1>7
  <2>2. PICK ps : ps = package'.parts
    OBVIOUS
  <2>3. IsSeq(ps) /\ Len(ps) = n /\ \A k \in 1..n : PartOK(ps[k]) /\ NumberOf(ps[k]) = k - 1
    BY <1>6, <1>8, <1>9, <2>1, <2>2
  <2>4. \A k \in 1..n : PartOK(ps[k])'
    BY <1>11, <2>3
  <2> QED
    BY <1>2, <2>1, <2>2, <2>3, <2>4 DEF PackageOK
<1> QED
  BY <1>10, <1>12 DEF SoundInv, Build

\* An altered object is still an object.
LEMMA AlteredShape ==
  ASSUME NEW x, ObjectShape(x), NEW o \in Altered(x)
  PROVE  ObjectShape(o)
<1> DEFINE c == [x.content EXCEPT !.rev = 1]
           y == [content |-> x.content, event |-> x.event, prev |-> x.prev, row |-> x.row]
           p == [y EXCEPT !.prev = <<>>]
<1>1. x = y /\ IsSeq(x.prev)
  BY DEF ObjectShape
<1>2. o \in {[y EXCEPT !.content = c],
             [y EXCEPT !.content = c, !.event = c],
             [y EXCEPT !.content = c, !.event = c, !.row = RowHash(x.prev, c)],
             p, [p EXCEPT !.row = RowHash(p.prev, p.event)]}
  BY <1>1 DEF Altered
<1> HIDE DEF c
<1>3. o = [content |-> o.content, event |-> o.event, prev |-> o.prev, row |-> o.row]
  BY <1>2
<1>4. o.prev = x.prev \/ o.prev = <<>>
  BY <1>2
<1>5. IsSeq(<<>>)
  BY DEF IsSeq
<1> QED
  BY <1>1, <1>3, <1>4, <1>5 DEF ObjectShape

LEMMA SoundAlterObject ==
  ASSUME SidecarOK, AlterObject
  PROVE  SidecarOK'
<1>1. PICK w, o :
        /\ w \in WormKeys
        /\ sidecar[w] # None
        /\ o \in Altered(sidecar[w]) \cup {None} \cup {sidecar[x] : x \in WormKeys}
        /\ sidecar' = [sidecar EXCEPT ![w] = o]
  BY DEF AlterObject
<1>2. o # None => ObjectShape(o)
  BY <1>1, AlteredShape DEF SidecarOK
<1> DEFINE f == [v \in WormKeys |-> sidecar[v]]
<1>3. sidecar = f
  BY DEF SidecarOK
<1>4. sidecar' = [v \in WormKeys |-> IF v = w THEN o ELSE sidecar[v]]
  BY <1>1, <1>3
<1>5. \A v \in WormKeys : sidecar'[v] = o \/ sidecar'[v] = sidecar[v]
  BY <1>4
<1>6. sidecar' = [v \in WormKeys |-> sidecar'[v]]
  BY <1>4
<1> QED
  BY <1>2, <1>5, <1>6 DEF SidecarOK

\* A part with its manifest or its anchor record replaced.
LEMMA AlteredManifest ==
  ASSUME NEW p, PartOK(p), NEW m \in AlteredManifests(p.manifest)
  PROVE  m = [core |-> m.core, hash |-> m.hash]
BY DEF AlteredManifests

LEMMA SoundAlterCopy ==
  ASSUME CopyOK, copy # None, AlterCopy, UNCHANGED sealed
  PROVE  CopyOK'
<1> DEFINE n == Len(copy)
<1>1. /\ n \in Nat /\ DOMAIN copy = 1..n /\ copy \in Seq(Members(copy)) /\ IsSeq(copy)
      /\ \A i \in 1..n : PartOK(copy[i])
  BY SeqOfMembers DEF CopyOK, IsSeq
<1>2. \A r : RecordOK(r) => RecordOK(r)'
  BY SealedKept
<1>3. \A p : PartOK(p) => PartOK(p)'
  BY SealedKept
<1> HIDE DEF n
<1>4. ASSUME NEW c, c = copy', IsSeq(c), \A k \in 1..Len(c) : PartOK(c[k])
      PROVE  CopyOK'
  <2>1. \A k \in 1..Len(c) : PartOK(c[k])'
    BY <1>3, <1>4
  <2> QED
    BY <1>4, <2>1 DEF CopyOK
<1>5. ASSUME NEW i \in 1..n, NEW p, copy' = [copy EXCEPT ![i] = p], PartOK(p)
      PROVE  CopyOK'
  <2> DEFINE f == [k \in 1..n |-> IF k = i THEN p ELSE copy[k]]
  <2>1. copy' = f
    BY <1>1, <1>5
  <2>2. f = [k \in 1..n |-> f[k]] /\ \A k \in 1..n : PartOK(f[k])
    BY <1>1, <1>5
  <2> HIDE DEF f
  <2>3. IsSeq(f) /\ Len(f) = n
    BY <1>1, <2>2, FunIsSeq
  <2> QED
    BY <1>4, <2>1, <2>2, <2>3
<1>6. PICK i \in 1..n :
       \/ \E m \in AlteredManifests(copy[i].manifest) \cup {copy[j].manifest : j \in 1..n} :
            copy' = [copy EXCEPT ![i].manifest = m]
       \/ \E r \in {None} \cup {copy[j].anchor : j \in 1..n} :
            copy' = [copy EXCEPT ![i].anchor = r]
       \/ /\ copy[i].anchor # None
          /\ copy' = [copy EXCEPT ![i].anchor.head.at = @ - 1]
       \/ copy' = SubSeq(copy, 1, i - 1) \o SubSeq(copy, i + 1, n)
       \/ copy' = Append(copy, copy[i])
  BY <1>1 DEF AlterCopy, n
<1>7. PICK man, anc : copy[i] = [manifest |-> man, anchor |-> anc]
  BY <1>1 DEF PartOK
<1>8. PartOK(copy[i]) /\ copy[i].manifest = man /\ copy[i].anchor = anc
  BY <1>1, <1>7
<1>9. CASE \E m \in AlteredManifests(copy[i].manifest) \cup {copy[j].manifest : j \in 1..n} :
             copy' = [copy EXCEPT ![i].manifest = m]
  <2>1. PICK m \in AlteredManifests(copy[i].manifest) \cup {copy[j].manifest : j \in 1..n} :
          copy' = [copy EXCEPT ![i].manifest = m]
    BY <1>9
  <2>2. m = [core |-> m.core, hash |-> m.hash]
    <3>1. CASE m \in AlteredManifests(copy[i].manifest)
      BY <1>8, <3>1, AlteredManifest
    <3>2. CASE m \in {copy[j].manifest : j \in 1..n}
      BY <1>1, <3>2 DEF PartOK
    <3> QED
      BY <3>1, <3>2
  <2>3. PICK p : p = [manifest |-> m, anchor |-> anc]
    OBVIOUS
  <2>4. copy' = [copy EXCEPT ![i] = p]
    <3>1. copy' = [copy EXCEPT ![i] = [copy[i] EXCEPT !.manifest = m]]
      BY <2>1
    <3>2. [copy[i] EXCEPT !.manifest = m] = p
      BY <1>7, <2>3
    <3> QED
      BY <3>1, <3>2
  <2>5. PartOK(p)
    BY <1>8, <2>2, <2>3 DEF PartOK
  <2> QED
    BY <1>5, <2>4, <2>5
<1>10. CASE \E r \in {None} \cup {copy[j].anchor : j \in 1..n} :
              copy' = [copy EXCEPT ![i].anchor = r]
  <2>1. PICK r \in {None} \cup {copy[j].anchor : j \in 1..n} :
          copy' = [copy EXCEPT ![i].anchor = r]
    BY <1>10
  <2>2. RecordOK(r)
    <3>1. CASE r = None
      BY <3>1 DEF RecordOK
    <3>2. CASE r \in {copy[j].anchor : j \in 1..n}
      BY <1>1, <3>2 DEF PartOK
    <3> QED
      BY <3>1, <3>2
  <2>3. PICK p : p = [manifest |-> man, anchor |-> r]
    OBVIOUS
  <2>4. copy' = [copy EXCEPT ![i] = p]
    <3>1. copy' = [copy EXCEPT ![i] = [copy[i] EXCEPT !.anchor = r]]
      BY <2>1
    <3>2. [copy[i] EXCEPT !.anchor = r] = p
      BY <1>7, <2>3
    <3> QED
      BY <3>1, <3>2
  <2>5. PartOK(p)
    BY <1>8, <2>2, <2>3 DEF PartOK
  <2> QED
    BY <1>5, <2>4, <2>5
<1>11. CASE copy[i].anchor # None /\ copy' = [copy EXCEPT ![i].anchor.head.at = @ - 1]
  <2>1. RecordOK(anc) /\ anc # None
    BY <1>8, <1>11 DEF PartOK
  <2>2. PICK j \in 1..Len(sealed) :
          /\ sealed[j].anchor # None
          /\ anc = [head |-> anc.head, key |-> sealed[j].anchor.key,
                    signature |-> sealed[j].anchor.signature,
                    imprint |-> sealed[j].anchor.imprint]
    BY <2>1 DEF RecordOK
  <2>3. PICK h : h = [anc.head EXCEPT !.at = @ - 1]
    OBVIOUS
  <2>4. PICK r : r = [head |-> h, key |-> sealed[j].anchor.key,
                      signature |-> sealed[j].anchor.signature,
                      imprint |-> sealed[j].anchor.imprint]
    OBVIOUS
  <2>5. [anc EXCEPT !.head = h] = r
    BY <2>2, <2>4
  <2>6. PICK p : p = [manifest |-> man, anchor |-> r]
    OBVIOUS
  <2>7. copy' = [copy EXCEPT ![i] = p]
    <3>1. copy' = [copy EXCEPT ![i] = [copy[i] EXCEPT !.anchor =
            [copy[i].anchor EXCEPT !.head = [copy[i].anchor.head EXCEPT !.at = @ - 1]]]]
      BY <1>11
    <3>2. [copy[i] EXCEPT !.anchor =
            [copy[i].anchor EXCEPT !.head = [copy[i].anchor.head EXCEPT !.at = @ - 1]]] =
          [copy[i] EXCEPT !.anchor = r]
      BY <1>8, <2>3, <2>5
    <3>3. [copy[i] EXCEPT !.anchor = r] = p
      BY <1>7, <2>6
    <3> QED
      BY <3>1, <3>2, <3>3
  <2>8. RecordOK(r)
    BY <2>2, <2>4 DEF RecordOK
  <2>9. PartOK(p)
    BY <1>8, <2>6, <2>8 DEF PartOK
  <2> QED
    BY <1>5, <2>7, <2>9
<1>12. CASE copy' = SubSeq(copy, 1, i - 1) \o SubSeq(copy, i + 1, n)
  <2> DEFINE S == Members(copy)
  <2>1. copy \in Seq(S) /\ n = Len(copy)
    BY <1>1 DEF n
  <2> HIDE DEF S
  <2>2. SubSeq(copy, 1, i - 1) \in Seq(S)
    BY <2>1, <1>1, SubSeqProperties
  <2>3. SubSeq(copy, i + 1, n) \in Seq(S)
    BY <2>1, <1>1, SubSeqProperties
  <2>4. PICK c : c = copy'
    OBVIOUS
  <2>5. c \in Seq(S)
    <3>1. SubSeq(copy, 1, i - 1) \o SubSeq(copy, i + 1, n) \in Seq(S)
      BY <2>2, <2>3, ConcatProperties
    <3> QED
      BY <1>12, <2>4, <3>1
  <2>6. IsSeq(c) /\ \A k \in 1..Len(c) : \E x \in 1..n : c[k] = copy[x]
    BY <2>5, SeqOfSome DEF S, n
  <2> QED
    BY <1>1, <1>4, <2>4, <2>6
<1>13. CASE copy' = Append(copy, copy[i])
  <2> DEFINE S == Members(copy)
  <2>1. copy \in Seq(S) /\ copy[i] \in S
    BY <1>1 DEF Members, n
  <2> HIDE DEF S
  <2>2. PICK c : c = copy'
    OBVIOUS
  <2>3. c \in Seq(S)
    BY <1>13, <2>1, <2>2
  <2>4. IsSeq(c) /\ \A k \in 1..Len(c) : \E x \in 1..n : c[k] = copy[x]
    BY <2>3, SeqOfSome DEF S, n
  <2> QED
    BY <1>1, <1>4, <2>2, <2>4
<1> QED
  BY <1>6, <1>9, <1>10, <1>11, <1>12, <1>13

LEMMA SoundAlterPackage ==
  ASSUME PackageOK, AlterPackage, UNCHANGED sealed
  PROVE  PackageOK'
<1> DEFINE n == Len(package.parts)
<1>1. PICK ps, at, h, key, sig :
        package = [parts |-> ps, at |-> at, hash |-> h, key |-> key, signature |-> sig]
  BY DEF PackageOK, AlterPackage
<1>2. /\ package # None /\ package.parts = ps
      /\ IsSeq(ps) /\ Len(ps) > 0
      /\ \A i \in 1..Len(ps) : PartOK(ps[i]) /\ NumberOf(ps[i]) = i - 1
  BY <1>1 DEF PackageOK, AlterPackage
<1>3. \A p : PartOK(p) => PartOK(p)'
  BY SealedKept
<1>4. ASSUME NEW qs, NEW at2,
             package' = [parts |-> qs, at |-> at2, hash |-> h, key |-> key, signature |-> sig],
             IsSeq(qs), Len(qs) > 0,
             \A i \in 1..Len(qs) : PartOK(qs[i]) /\ NumberOf(qs[i]) = i - 1
      PROVE  PackageOK'
  <2>1. \A i \in 1..Len(qs) : PartOK(qs[i])'
    BY <1>3, <1>4
  <2>2. package'.parts = qs
    BY <1>4
  <2>3. (package = [parts |-> package.parts, at |-> package.at, hash |-> package.hash,
                    key |-> package.key, signature |-> package.signature])'
    BY <1>4
  <2> QED
    BY <1>4, <2>1, <2>2, <2>3 DEF PackageOK
<1>5. CASE Len(package.parts) > 1 /\ package' = [package EXCEPT !.parts = ButLast(@)]
  <2> DEFINE S == Members(ps)
             m == Len(ps)
             q == ButLast(ps)
  <2>1. ps \in Seq(S) /\ m \in Nat /\ m > 1
    BY <1>2, <1>5, SeqOfMembers DEF IsSeq
  <2> HIDE DEF S
  <2>2. /\ q \in Seq(S) /\ Len(q) = m - 1
        /\ \A i \in 1..(m - 1) : q[i] = ps[i]
    <3>1. SubSeq(ps, 1, m - 1) \in Seq(S) /\ Len(SubSeq(ps, 1, m - 1)) = m - 1
      BY <2>1, SubSeqProperties
    <3>2. \A i \in 1..(m - 1) : SubSeq(ps, 1, m - 1)[i] = ps[i]
      BY <2>1, SubSeqProperties
    <3> QED
      BY <3>1, <3>2 DEF ButLast
  <2>3. package' = [parts |-> q, at |-> at, hash |-> h, key |-> key, signature |-> sig]
    BY <1>1, <1>2, <1>5
  <2> HIDE DEF q
  <2>4. IsSeq(q)
    BY <2>2, SeqIsSeq
  <2>5. \A i \in 1..Len(q) : PartOK(q[i]) /\ NumberOf(q[i]) = i - 1
    BY <1>2, <2>1, <2>2
  <2>6. PICK qs : qs = q
    OBVIOUS
  <2>7. package' = [parts |-> qs, at |-> at, hash |-> h, key |-> key, signature |-> sig]
    BY <2>3, <2>6
  <2>8. IsSeq(qs) /\ Len(qs) > 0 /\ \A i \in 1..Len(qs) : PartOK(qs[i]) /\ NumberOf(qs[i]) = i - 1
    BY <2>1, <2>2, <2>4, <2>5, <2>6
  <2> HIDE DEF m
  <2> QED
    BY <1>4, <2>7, <2>8
<1>6. CASE package' = [package EXCEPT !.at = @ + 1]
  <2>1. package' = [parts |-> ps, at |-> at + 1, hash |-> h, key |-> key, signature |-> sig]
    BY <1>1, <1>6
  <2>2. PICK at2 : at2 = at + 1
    OBVIOUS
  <2> QED
    BY <1>2, <1>4, <2>1, <2>2
<1> QED
  BY <1>5, <1>6 DEF AlterPackage

LEMMA SoundNext ==
  ASSUME SoundInv, [Next]_vars
  PROVE  SoundInv'
<1>1. CASE UNCHANGED <<sealed, copy, sidecar, package>> /\ now' \in Int
  BY <1>1, SealedKept, CopyKept, PackageKept DEF SoundInv, SidecarOK
<1>2. CASE RegistryNext /\ UNCHANGED evars
  BY <1>1, <1>2 DEF SoundInv, evars
<1>3. CASE Tick
  BY <1>1, <1>3 DEF SoundInv, Tick
<1>4. CASE \E p \in Planes : Adopt(p)
  BY <1>1, <1>4 DEF SoundInv, Adopt
<1>5. CASE \E n \in 1..MaxEvents, anchored \in BOOLEAN : Seal(n, anchored)
  BY <1>5, SoundSeal
<1>6. CASE ReadEvidence
  BY <1>6, SoundRead
<1>7. CASE Build
  BY <1>7, SoundBuild
<1>8. CASE Alter
  <2>1. copy # None /\ UNCHANGED sealed /\ now' \in Int
    BY <1>8 DEF SoundInv, Alter
  <2>2. SealedOK'
    BY <2>1, SealedKept DEF SoundInv
  <2>3. CASE AlterObject
    <3>1. UNCHANGED <<copy, package>>
      BY <2>3 DEF AlterObject
    <3> QED
      BY <2>1, <2>2, <2>3, <3>1, SoundAlterObject, CopyKept, PackageKept DEF SoundInv
  <2>4. CASE AlterCopy
    <3>1. UNCHANGED <<sidecar, package>>
      BY <2>4 DEF AlterCopy
    <3>2. SidecarOK'
      BY <3>1 DEF SoundInv, SidecarOK
    <3> QED
      BY <2>1, <2>2, <2>4, <3>1, <3>2, SoundAlterCopy, PackageKept DEF SoundInv
  <2>5. CASE AlterPackage
    <3>1. UNCHANGED <<copy, sidecar>>
      BY <2>5 DEF AlterPackage
    <3>2. SidecarOK'
      BY <3>1 DEF SoundInv, SidecarOK
    <3> QED
      BY <2>1, <2>2, <2>5, <3>1, <3>2, SoundAlterPackage, CopyKept DEF SoundInv
  <2> QED
    BY <1>8, <2>3, <2>4, <2>5 DEF Alter
<1>9. CASE UNCHANGED vars
  BY <1>1, <1>9 DEF SoundInv, vars, evars
<1> QED
  BY <1>2, <1>3, <1>4, <1>5, <1>6, <1>7, <1>8, <1>9 DEF Next

\* What is in WORM stays what the writer put there, and whatever the evidence in
\* hand has become, no record in it carries a forged signature, and the builder
\* numbered the parts of a package from 0 (storeSegmentEvidence, buildExport,
\* continuityProblems).
THEOREM EvidenceKept == Spec => []SoundInv
<1>1. Init => SoundInv
  BY SoundInit
<1>2. SoundInv /\ [Next]_vars => SoundInv'
  BY SoundNext
<1> QED
  BY <1>1, <1>2, PTL DEF Spec

\* A verdict of PASS is about genuine evidence (runExportVerification,
\* verifySegments): whatever was altered in the copy an export was built from, in
\* the package or in the sidecar, what passes is the sealed segments from genesis
\* on, each with its objects and its anchor record.
THEOREM PassMeansGenuine == Spec => []PassIsGenuine
<1>1. SoundInv => PassIsGenuine
  BY SoundVerdict
<1> QED
  BY <1>1, EvidenceKept, PTL

-----------------------------------------------------------------------------
(* A verdict of PASS lasts: PassLasts.                                     *)

LEMMA RegistryKept == Spec => []IInv
<1>1. Init => IInv
  BY InitEstablishes DEF Init
<1>2. IInv /\ [Next]_vars => IInv'
  <2> SUFFICES ASSUME IInv, [Next]_vars PROVE IInv'
    OBVIOUS
  <2>1. [RegistryNext]_kvars
    BY DEF Next, vars, kvars, Tick, Adopt, Seal, ReadEvidence, Build, Alter
  <2> QED
    BY <2>1, TypesPreserved, ActivePreserved, TrustPreserved DEF IInv
<1> QED
  BY <1>1, <1>2, PTL DEF Spec

\* A key that a trust file accepts for an instant, the next one accepts too, unless
\* it says that the key was revoked by then.
LEMMA AcceptanceLasts ==
  ASSUME IInv, [RegistryNext]_kvars, trust # None, NEW p \in Planes, NEW k, NEW at,
         KeyAccepted(trust[p], k, at),
         ~(trust'[p][k] # None /\ trust'[p][k].revoked # None /\ trust'[p][k].revoked <= at)
  PROVE  trust' # None /\ KeyAccepted(trust'[p], k, at)
<1>1. k \in Keys /\ k \in Ed25519 /\ trust[p][k] # None
  BY KeyRegistryAssumption DEF KeyAccepted
<1>2. CASE trust' = trust
  BY <1>2
<1>3. CASE trust' # trust
  <2>1. Publish
    BY <1>3 DEF RegistryNext, Rotate, Revoke, kvars
  <2>2. trust' = [q \in Planes |-> [j \in Keys |-> Entry(registered[q][j])]]
    BY <2>1 DEF Publish
  <2>3. trust' # None
    <3>1. RegistryTypeOK'
      BY TypesPreserved DEF IInv
    <3>2. \A q \in Planes, j \in Keys : Entry(registered[q][j]) \in TrustEntries \cup {None}
      BY EntryType DEF IInv, RegistryTypeOK
    <3>3. trust' \in [Planes -> [Keys -> TrustEntries \cup {None}]]
      BY <2>2, <3>2
    <3> QED
      BY <3>3, NoneIsNothing
  <2>4. registered[p][k] # None /\ trust[p][k].notBefore = registered[p][k].created
    BY <1>1 DEF IInv, TrustIsPast
  <2>5. trust'[p][k] = [notBefore |-> registered[p][k].created, revoked |-> registered[p][k].revoked]
    BY <1>1, <2>2, <2>4 DEF Entry
  <2>6. trust'[p][k] # None
    <3>1. registered[p][k] \in KeyRecords
      BY <1>1, <2>4 DEF IInv, RegistryTypeOK
    <3>2. trust'[p][k] \in TrustEntries
      BY <2>5, <3>1 DEF KeyRecords, TrustEntries
    <3> QED
      BY <3>2, NoneIsNothing
  <2>7. ~(trust'[p][k].revoked # None /\ at >= trust'[p][k].revoked)
    BY <2>6
  <2>8. ~(at < trust'[p][k].notBefore)
    BY <2>4, <2>5 DEF KeyAccepted
  <2> QED
    BY <1>1, <2>3, <2>6, <2>7, <2>8 DEF KeyAccepted
<1> QED
  BY <1>2, <1>3

\* The verdict over the same segments depends on the directory only where it
\* accepts the keys of the anchor records.
LEMMA VerdictFollowsKeys ==
  ASSUME NEW segs, NEW directory, NEW other, OverallPass(segs, directory),
         \A i \in DOMAIN segs :
           KeyAccepted(directory, segs[i].anchor.key, segs[i].anchor.head.at) =>
             KeyAccepted(other, segs[i].anchor.key, segs[i].anchor.head.at)
  PROVE  OverallPass(segs, other)
<1>1. \A i \in DOMAIN segs : HsmSignature(segs[i], other)
  BY VerdictMeans DEF HsmSignature
<1> QED
  BY <1>1, VerdictMeans

\* A verdict of PASS is not taken back (loadTrustFile, verifyHsmSignature): with any
\* trust file published later the same package and sidecar pass, unless one of the
\* keys that signed them is by then revoked as of its signature or before.
THEOREM VerdictLasts == Spec => PassLasts
<1>1. IInv /\ [Next]_vars =>
        [Passes /\ UNCHANGED <<package, sidecar>> /\ ~Passes' =>
           \/ RevokedBefore("export", package.key, package.at)
           \/ \E i \in DOMAIN package.parts :
                RevokedBefore("signing", package.parts[i].anchor.key,
                              package.parts[i].anchor.head.at)]_vars
  <2> SUFFICES ASSUME IInv, Next, Passes, UNCHANGED <<package, sidecar>>,
                      ~RevokedBefore("export", package.key, package.at),
                      \A i \in DOMAIN package.parts :
                        ~RevokedBefore("signing", package.parts[i].anchor.key,
                                       package.parts[i].anchor.head.at)
               PROVE  Passes'
    OBVIOUS
  <2>1. [RegistryNext]_kvars
    BY DEF Next, kvars, Tick, Adopt, Seal, ReadEvidence, Build, Alter
  <2>2. /\ package # None /\ trust # None /\ ~Unusable
        /\ EnvelopeVerifies(trust["export"]) /\ OverallPass(Segments, trust["signing"])
    BY DEF Passes
  <2>3. trust' # None /\ KeyAccepted(trust'["export"], package.key, package.at)
    BY <2>1, <2>2, AcceptanceLasts, OfflineAssumption DEF EnvelopeVerifies, RevokedBefore
  <2>4. PICK segs, d, o : segs = Segments /\ d = trust["signing"] /\ o = trust'["signing"]
    OBVIOUS
  <2>5. ASSUME NEW i \in DOMAIN segs,
               KeyAccepted(d, segs[i].anchor.key, segs[i].anchor.head.at)
        PROVE  KeyAccepted(o, segs[i].anchor.key, segs[i].anchor.head.at)
    <3>1. i \in DOMAIN package.parts /\ segs[i].anchor = package.parts[i].anchor
      BY <2>4 DEF Segments
    <3> QED
      BY <2>1, <2>2, <2>4, <2>5, <3>1, AcceptanceLasts, OfflineAssumption DEF RevokedBefore
  <2>6. OverallPass(segs, o)
    BY <2>2, <2>4, <2>5, VerdictFollowsKeys
  <2>7. Segments' = segs /\ ~Unusable'
    BY <2>2, <2>4 DEF Segments, ObjectsFor, Unusable
  <2>8. OverallPass(Segments, trust["signing"])'
    <3>1. segs = Segments' /\ o = trust'["signing"]
      BY <2>4, <2>7
    <3> QED
      BY <2>6, <3>1
  <2>9. EnvelopeVerifies(trust["export"])'
    BY <2>2, <2>3 DEF EnvelopeVerifies, Content
  <2> QED
    BY <2>2, <2>3, <2>7, <2>8, <2>9 DEF Passes
<1> QED
  BY <1>1, RegistryKept, PTL DEF Spec, PassLasts

-----------------------------------------------------------------------------
(* What was altered is located, and nothing else: LocatesAlteration.       *)

\* The row hash of an event extends the one before it.
LEMMA RowExtends ==
  ASSUME NEW k \in Nat \ {0}
  PROVE  RowUpTo(k) = Append(RowUpTo(k - 1), [id |-> k, rev |-> 0])
<1> DEFINE p == RowUpTo(k - 1)
           e == [id |-> k, rev |-> 0]
           q == Append(p, e)
<1>1. p = [i \in 1..(k - 1) |-> p[i]] /\ \A i \in 1..(k - 1) : p[i] = [id |-> i, rev |-> 0]
  BY DEF RowUpTo
<1>2. k - 1 \in Nat
  OBVIOUS
<1> HIDE DEF p, e
<1>3. IsSeq(p) /\ Len(p) = k - 1
  BY <1>1, <1>2, FunIsSeq
<1>4. /\ IsSeq(q) /\ Len(q) = Len(p) + 1 /\ q[Len(p) + 1] = e
      /\ \A i \in 1..Len(p) : q[i] = p[i]
  BY <1>3, AppendIsSeq
<1> HIDE DEF q
<1>5. Len(q) = k /\ q[k] = e /\ \A i \in 1..(k - 1) : q[i] = [id |-> i, rev |-> 0]
  <2>1. Len(p) + 1 = k
    BY <1>3
  <2>2. Len(q) = k /\ q[k] = e
    BY <1>4, <2>1
  <2>3. \A i \in 1..(k - 1) : q[i] = p[i]
    BY <1>3, <1>4
  <2> QED
    BY <1>1, <2>2, <2>3
<1>6. \A i \in 1..k : q[i] = [id |-> i, rev |-> 0]
  <2>1. \A i \in 1..k : i \in 1..(k - 1) \/ i = k
    OBVIOUS
  <2>2. q[k] = [id |-> k, rev |-> 0]
    BY <1>5 DEF e
  <2> QED
    BY <1>5, <2>1, <2>2
<1>7. q = [i \in 1..k |-> q[i]]
  BY <1>4, <1>5 DEF IsSeq
<1>8. q = RowUpTo(k)
  BY <1>6, <1>7 DEF RowUpTo
<1> QED
  BY <1>8 DEF q, p, e

LEMMA SeqIsNotEmpty ==
  ASSUME NEW s, NEW n \in Nat \ {0}, DOMAIN s = 1..n
  PROVE  s # <<>>
<1>1. 1 \in DOMAIN s
  OBVIOUS
<1>2. 1 \notin DOMAIN <<>>
  OBVIOUS
<1> QED
  BY <1>1, <1>2

\* What the checks of one segment say of the objects that were sealed.
LEMMA GenuineSegment ==
  ASSUME SealedOK, NEW j \in 1..Len(sealed), NEW s, s.manifest = sealed[j].manifest,
         s.objects = sealed[j].objects
  PROVE  PerObjectHash(s) /\ ObjectChain(s) /\ SegmentManifest(s)
<1>1. PICK a \in Nat, b \in Nat : SealedAs(j, a, b)
  BY DEF SealedOK
<1> DEFINE n == b - a + 1
           c == s.manifest.core
<1>2. /\ a \in Nat \ {0} /\ n \in Nat \ {0} /\ a + n - 1 = b
      /\ c.list = [i \in 1..n |-> [id |-> a + i - 1, key |-> <<j - 1, i>>]]
      /\ c.hashes = [i \in 1..n |->
           [event |-> [id |-> a + i - 1, rev |-> 0], row |-> RowUpTo(a + i - 1)]]
      /\ s.objects = [i \in 1..n |-> ObjectOf(a + i - 1)]
      /\ s.manifest.hash = c /\ c.lastRow = RowUpTo(b)
  <2>1. PICK g, p : g = sealed[j] /\ p = Before(j)
    OBVIOUS
  <2>2. SegmentIs(g, p, j, a, b)
    BY <1>1, <2>1 DEF SealedAs
  <2>3. s.manifest = g.manifest /\ s.objects = g.objects
    BY <2>1
  <2>4. /\ a \in Nat \ {0} /\ n \in Nat \ {0} /\ a + n - 1 = b
    <3>1. a \in Nat \ {0} /\ b \in Nat /\ a <= b
      BY <2>2 DEF SegmentIs
    <3> QED
      BY <3>1
  <2>5. g.manifest.hash = g.manifest.core
    <3>1. PICK m : m = g.manifest
      OBVIOUS
    <3>2. m = [core |-> m.core, hash |-> m.core]
      BY <2>2, <3>1 DEF SegmentIs
    <3> QED
      BY <3>1, <3>2
  <2> QED
    BY <2>2, <2>3, <2>4, <2>5 DEF SegmentIs
<1> HIDE DEF n, c
<1>3. \A i \in 1..n : a + i - 1 \in Nat \ {0}
  <2>1. a \in Nat \ {0} /\ n \in Nat \ {0}
    BY <1>2
  <2> QED
    BY <2>1
<1>4. ASSUME NEW i \in 1..n
      PROVE  /\ s.objects[i].content = [id |-> a + i - 1, rev |-> 0]
             /\ s.objects[i].event = [id |-> a + i - 1, rev |-> 0]
             /\ s.objects[i].prev = RowUpTo(a + i - 1 - 1)
             /\ s.objects[i].row = RowUpTo(a + i - 1)
  BY <1>2 DEF ObjectOf
<1>5. DOMAIN s.objects = 1..n /\ s.objects # <<>>
  BY <1>2, SeqIsNotEmpty
<1>6. ASSUME NEW i \in 1..n PROVE EventHashOk(s.objects[i])
  BY <1>4 DEF EventHashOk, EventHash
<1>7. ASSUME NEW i \in 1..n PROVE RowHashOk(s.objects[i])
  <2>1. PICK k \in Nat \ {0} : k = a + i - 1
    BY <1>3
  <2>2. RowUpTo(k) = Append(RowUpTo(k - 1), [id |-> k, rev |-> 0])
    BY RowExtends
  <2>3. PICK o : o = s.objects[i]
    OBVIOUS
  <2>4. /\ o.event = [id |-> k, rev |-> 0] /\ o.prev = RowUpTo(k - 1) /\ o.row = RowUpTo(k)
    BY <1>4, <2>1, <2>3
  <2>5. o.row = Append(o.prev, o.event)
    BY <2>2, <2>4
  <2> QED
    BY <2>3, <2>5 DEF RowHashOk, RowHash
<1>8. ASSUME NEW i \in 1..n PROVE LinkOk(s, i)
  <2>1. CASE i = 1
    BY <2>1 DEF LinkOk
  <2>2. CASE i # 1
    <3>1. i - 1 \in 1..n
      BY <1>2, <2>2
    <3>2. s.objects[i - 1].row = RowUpTo(a + (i - 1) - 1)
      BY <1>4, <3>1
    <3>3. a + (i - 1) - 1 = a + i - 1 - 1
      BY <1>2
    <3> QED
      BY <1>4, <3>2, <3>3 DEF LinkOk
  <2> QED
    BY <2>1, <2>2
<1>9. ASSUME NEW i \in 1..n PROVE ListsMatch(s, i)
  <2>1. /\ i \in DOMAIN c.list /\ c.list[i].id = a + i - 1 /\ i \in DOMAIN c.hashes
        /\ c.hashes[i] = [event |-> [id |-> a + i - 1, rev |-> 0], row |-> RowUpTo(a + i - 1)]
    BY <1>2
  <2> QED
    BY <1>4, <2>1 DEF ListsMatch, c
<1>10. PerObjectHash(s) /\ ObjectChain(s)
  BY <1>5, <1>6, <1>7, <1>8, <1>9 DEF PerObjectHash, ObjectChain
<1>11. Len(s.objects) = n /\ Len(c.list) = n /\ Len(c.hashes) = n
  <2> DEFINE o == s.objects
             l == c.list
             h == c.hashes
  <2>1. o = [i \in 1..n |-> o[i]] /\ l = [i \in 1..n |-> l[i]] /\ h = [i \in 1..n |-> h[i]]
    BY <1>2
  <2> HIDE DEF o, l, h
  <2>2. Len(o) = n /\ Len(l) = n /\ Len(h) = n
    BY <1>2, <2>1, FunIsSeq
  <2> QED
    BY <2>2 DEF o, l, h
<1>12. c.lastRow = c.hashes[Len(c.hashes)].row
  <2>1. n \in 1..n
    BY <1>2
  <2>2. c.hashes[n].row = RowUpTo(a + n - 1)
    BY <1>2, <2>1
  <2> QED
    BY <1>2, <1>11, <2>2
<1>13. SegmentManifest(s)
  BY <1>2, <1>5, <1>9, <1>11, <1>12 DEF SegmentManifest, CoversExactly, c
<1> QED
  BY <1>10, <1>13

\* Segments in hand whose manifests are those of WORM, from genesis on.
AsSealed(segs, n) ==
  /\ n \in 1..Len(sealed) /\ DOMAIN segs = 1..n
  /\ \A i \in 1..n : segs[i].manifest = sealed[i].manifest

\* A segment with the objects that were sealed continues the one before it, whatever
\* that one's objects are now.
LEMMA GenuineLink ==
  ASSUME SealedOK, NEW segs, NEW n, AsSealed(segs, n), NEW i \in 1..n,
         segs[i].objects = sealed[i].objects
  PROVE  CrossSegment(segs, segs[i])
<1>1. /\ n \in Nat /\ Len(sealed) \in Nat /\ DOMAIN segs = 1..n
      /\ \A j \in 1..n : j \in 1..Len(sealed) /\ segs[j].manifest = sealed[j].manifest
  BY DEF AsSealed, SealedOK, IsSeq
<1>2. \A j \in 1..n : NumberOf(segs[j]) = j - 1
  <2> SUFFICES ASSUME NEW j \in 1..n PROVE NumberOf(segs[j]) = j - 1
    OBVIOUS
  <2>1. PICK x \in Nat, y \in Nat : SealedAs(j, x, y)
    BY <1>1 DEF SealedOK
  <2> QED
    BY <1>1, <2>1 DEF SealedAs, SegmentIs, NumberOf
<1>3. PICK a \in Nat, b \in Nat : SealedAs(i, a, b)
  BY <1>1 DEF SealedOK
<1>4. CASE i = 1
  <2>1. NumberOf(segs[i]) = 0
    BY <1>2, <1>4
  <2>2. \A j \in DOMAIN segs : NumberOf(segs[j]) # 0 - 1
    BY <1>1, <1>2
  <2>3. Predecessors(segs, segs[i]) = {}
    BY <2>1, <2>2 DEF Predecessors
  <2>4. segs[i].manifest.core.link = None
    BY <1>1, <1>3, <1>4 DEF SealedAs, SegmentIs
  <2> QED
    BY <2>1, <2>3, <2>4 DEF CrossSegment
<1>5. CASE i # 1
  <2>1. i - 1 \in 1..n /\ NumberOf(segs[i]) = i - 1 /\ NumberOf(segs[i]) # 0
    BY <1>1, <1>2, <1>5
  <2>2. {j \in DOMAIN segs : NumberOf(segs[j]) = NumberOf(segs[i]) - 1} = {i - 1}
    <3>1. \A j \in 1..n : NumberOf(segs[j]) = NumberOf(segs[i]) - 1 <=> j = i - 1
      BY <1>1, <1>2, <2>1
    <3> QED
      BY <1>1, <2>1, <3>1
  <2>3. segs[i - 1] \in Predecessors(segs, segs[i])
    <3>1. i - 1 <= i - 1
      BY <1>1
    <3> QED
      BY <2>2, <3>1 DEF Predecessors
  <2>4. PICK x \in Nat, y \in Nat : SealedAs(i - 1, x, y)
    BY <1>1, <2>1 DEF SealedOK
  <2> DEFINE p == sealed[i - 1]
  <2>5. Before(i) = p
    BY <1>5 DEF Before
  <2>6. /\ segs[i].manifest.core.link = [seq |-> i - 2, hash |-> SegmentHashOf(p.manifest)]
        /\ a = p.upto + 1 /\ a \in Nat \ {0} /\ b - a + 1 \in Nat \ {0}
        /\ segs[i].objects = [k \in 1..(b - a + 1) |-> ObjectOf(a + k - 1)]
    <3>1. SegmentIs(sealed[i], p, i, a, b) /\ i # 1
      BY <1>3, <1>5, <2>5 DEF SealedAs
    <3> HIDE DEF p
    <3>2. /\ sealed[i].manifest.core.link = [seq |-> i - 2, hash |-> SegmentHashOf(p.manifest)]
          /\ a = p.upto + 1 /\ a \in Nat \ {0} /\ b - a + 1 \in Nat \ {0}
          /\ sealed[i].objects = [k \in 1..(b - a + 1) |-> ObjectOf(a + k - 1)]
      BY <3>1 DEF SegmentIs
    <3> QED
      BY <1>1, <3>2
  <2>7. p.manifest.core.lastRow = RowUpTo(p.upto)
    BY <2>4 DEF SealedAs, SegmentIs
  <2>8. segs[i].objects # <<>>
    <3> DEFINE o == segs[i].objects
               m == b - a + 1
    <3>1. DOMAIN o = 1..m /\ m \in Nat \ {0}
      BY <2>6
    <3> HIDE DEF o, m
    <3>2. o # <<>>
      BY <3>1, SeqIsNotEmpty
    <3> QED
      BY <3>2 DEF o
  <2>9. segs[i].objects[1].prev = Boundary(segs[i - 1])
    <3>1. segs[i].objects[1] = ObjectOf(a + 1 - 1) /\ a + 1 - 1 - 1 = p.upto
      <4>1. 1 \in 1..(b - a + 1)
        BY <2>6
      <4>2. p.upto \in Nat
        BY <2>4 DEF SealedAs, SegmentIs
      <4>3. segs[i].objects[1] = ObjectOf(a + 1 - 1)
        BY <2>6, <4>1
      <4>4. a = p.upto + 1
        BY <2>6
      <4> QED
        BY <4>2, <4>3, <4>4
    <3>2. segs[i].objects[1].prev = RowUpTo(p.upto)
      BY <3>1 DEF ObjectOf
    <3> QED
      BY <1>1, <2>1, <2>7, <3>2 DEF Boundary
  <2>10. Continues(segs[i], segs[i - 1])
    <3>1. NumberOf(segs[i - 1]) = i - 2
      BY <1>1, <1>2, <2>1
    <3> QED
      BY <1>1, <2>1, <2>6, <2>8, <2>9, <3>1 DEF Continues
  <2> QED
    BY <2>1, <2>3, <2>10 DEF CrossSegment
<1> QED
  BY <1>4, <1>5

\* Nothing is missing among segments numbered from 0 in their order.
LEMMA NumberedFromGenesis ==
  ASSUME NEW segs, NEW n \in Nat \ {0}, DOMAIN segs = 1..n,
         \A i \in 1..n : NumberOf(segs[i]) = i - 1
  PROVE  MissingSegments(segs) = {}
<1>1. Numbers(segs) = 0..(n - 1)
  <2>1. \A i \in 1..n : i - 1 \in 0..(n - 1)
    OBVIOUS
  <2>2. \A m \in 0..(n - 1) : m + 1 \in 1..n /\ m = NumberOf(segs[m + 1])
    OBVIOUS
  <2> QED
    <3>1. Numbers(segs) = {NumberOf(segs[i]) : i \in 1..n}
      BY DEF Numbers
    <3>2. \A m \in 0..(n - 1) : m \in Numbers(segs)
      BY <2>2, <3>1
    <3>3. \A m \in Numbers(segs) : m \in 0..(n - 1)
      BY <2>1, <3>1
    <3> QED
      BY <3>2, <3>3
<1>2. Scope(segs) = 0..(n - 1)
  <2>1. 0..(n - 1) \in {i..j : i \in Numbers(segs), j \in Numbers(segs)}
    BY <1>1
  <2>2. \A i, j \in 0..(n - 1) : i..j \subseteq 0..(n - 1)
    OBVIOUS
  <2> DEFINE T == 0..(n - 1)
             U == {i..j : i \in Numbers(segs), j \in Numbers(segs)}
  <2>3. T \in U /\ \A u \in U : u \subseteq T
    BY <1>1, <2>1, <2>2
  <2>4. Scope(segs) = UNION U
    BY DEF Scope
  <2> HIDE DEF T, U
  <2>5. UNION U = T
    BY <2>3
  <2> QED
    BY <2>4, <2>5 DEF T
<1>3. ASSUME NEW m \in 0..(n - 1)
      PROVE  Cardinality({i \in DOMAIN segs : NumberOf(segs[i]) = m}) = 1
  <2>1. {i \in DOMAIN segs : NumberOf(segs[i]) = m} = {m + 1}
    OBVIOUS
  <2> QED
    BY <2>1, FS_Singleton
<1> QED
  BY <1>1, <1>2, <1>3 DEF MissingSegments, MissingIn

\* Where the objects were altered is what the recomputation finds.
LEMMA AlterationFound ==
  ASSUME SoundInv, package # None
  PROVE  LocatesAlteration
<1> SUFFICES ASSUME ~Unusable, Len(package.parts) <= Len(sealed),
                    package.parts = [i \in DOMAIN package.parts |->
                      [manifest |-> sealed[i].manifest, anchor |-> sealed[i].anchor]]
             PROVE  Located = {i - 1 : i \in WhereAltered}
  BY DEF LocatesAlteration
<1> DEFINE n == Len(package.parts)
<1>1. n \in Nat \ {0} /\ DOMAIN package.parts = 1..n /\ Len(sealed) \in Nat /\ n \in 1..Len(sealed)
  <2>1. IsSeq(package.parts) /\ n > 0 /\ IsSeq(sealed)
    BY DEF SoundInv, PackageOK, SealedOK
  <2>2. n \in Nat \ {0} /\ Len(sealed) \in Nat
    BY <2>1 DEF IsSeq
  <2>3. DOMAIN package.parts = 1..n
    BY <2>1, SeqOfMembers
  <2> QED
    BY <2>2, <2>3
<1>2. PICK segs : segs = Segments
  OBVIOUS
<1>3. /\ DOMAIN segs = 1..n
      /\ \A i \in 1..n : /\ segs[i].manifest = sealed[i].manifest
                         /\ segs[i].anchor = sealed[i].anchor
                         /\ segs[i].objects = ObjectsFor(segs[i].manifest)
                         /\ \A k \in DOMAIN segs[i].objects : segs[i].objects[k] # None
  <2>1. DOMAIN segs = 1..n
    BY <1>1, <1>2 DEF Segments
  <2> SUFFICES ASSUME NEW i \in 1..n
               PROVE  /\ segs[i].manifest = sealed[i].manifest
                      /\ segs[i].anchor = sealed[i].anchor
                      /\ segs[i].objects = ObjectsFor(segs[i].manifest)
                      /\ \A k \in DOMAIN segs[i].objects : segs[i].objects[k] # None
    BY <2>1
  <2>2. package.parts[i] = [manifest |-> sealed[i].manifest, anchor |-> sealed[i].anchor]
    BY <1>1
  <2>3. segs[i] = [manifest |-> package.parts[i].manifest, anchor |-> package.parts[i].anchor,
                   objects |-> ObjectsFor(package.parts[i].manifest)]
    BY <1>1, <1>2 DEF Segments
  <2>4. \A k \in DOMAIN segs[i].objects : segs[i].objects[k] # None
    BY <1>1, <1>2 DEF Unusable
  <2> QED
    BY <2>2, <2>3, <2>4
<1> HIDE DEF n
<1>4. AsSealed(segs, n) /\ SealedOK /\ SidecarOK
  BY <1>1, <1>3 DEF AsSealed, SoundInv
<1>5. \A i \in 1..n : NumberOf(segs[i]) = i - 1
  <2> SUFFICES ASSUME NEW i \in 1..n PROVE NumberOf(segs[i]) = i - 1
    OBVIOUS
  <2>1. PICK x \in Nat, y \in Nat : SealedAs(i, x, y)
    BY <1>1, <1>4 DEF SealedOK
  <2> QED
    BY <1>3, <2>1 DEF SealedAs, SegmentIs, NumberOf
<1>6. \A i \in 1..n : i \in WhereAltered <=> segs[i].objects # sealed[i].objects
  BY <1>1, <1>2 DEF WhereAltered
<1>7. WhereAltered \subseteq 1..n
  BY <1>1 DEF WhereAltered
<1>8. MissingSegments(segs) = {}
  BY <1>1, <1>3, <1>5, NumberedFromGenesis
<1>9. ASSUME NEW i \in 1..n, segs[i].objects = sealed[i].objects
      PROVE  /\ PerObjectHash(segs[i]) /\ ObjectChain(segs[i])
             /\ SegmentManifest(segs[i]) /\ CrossSegment(segs, segs[i])
  <2>1. i \in 1..Len(sealed)
    BY <1>1
  <2>2. PerObjectHash(segs[i]) /\ ObjectChain(segs[i]) /\ SegmentManifest(segs[i])
    BY <1>3, <1>4, <1>9, <2>1, GenuineSegment
  <2> QED
    BY <1>4, <1>9, <2>2, GenuineLink
<1>10. ASSUME NEW i \in 1..n, PerObjectHash(segs[i]), ObjectChain(segs[i])
       PROVE  segs[i].objects = sealed[i].objects
  <2>1. i \in 1..Len(sealed)
    BY <1>1
  <2> QED
    BY <1>3, <1>4, <1>10, <2>1, ObjectsGenuine
<1> DEFINE F1 == Faulted(segs, PerObjectHash)
           F2 == Faulted(segs, ObjectChain)
           F3 == Faulted(segs, SegmentManifest)
           F4 == Faulted(segs, LAMBDA s : CrossSegment(segs, s))
           W  == {i - 1 : i \in WhereAltered}
<1>11. Located = F1 \cup F2 \cup F3 \cup F4
  <2> DEFINE R == Integrity(segs)
  <2>1. /\ DOMAIN R = {"per_object_hash", "object_chain", "segment_manifest",
                       "cross_segment_continuity", "no_missing_segment"}
        /\ R["per_object_hash"] = F1 /\ R["object_chain"] = F2
        /\ R["segment_manifest"] = F3 /\ R["cross_segment_continuity"] = F4
        /\ R["no_missing_segment"] = {}
    BY <1>8 DEF Integrity
  <2>2. Located = UNION {R[c] : c \in DOMAIN R}
    BY <1>2 DEF Located
  <2> HIDE DEF R, F1, F2, F3, F4
  <2> QED
    BY <2>1, <2>2
<1>12. F1 = {NumberOf(segs[i]) : i \in {j \in 1..n : ~PerObjectHash(segs[j])}}
  BY <1>3 DEF Faulted
<1>13. F2 = {NumberOf(segs[i]) : i \in {j \in 1..n : ~ObjectChain(segs[j])}}
  BY <1>3 DEF Faulted
<1>14. F3 = {NumberOf(segs[i]) : i \in {j \in 1..n : ~SegmentManifest(segs[j])}}
  BY <1>3 DEF Faulted
<1>15. F4 = {NumberOf(segs[i]) : i \in {j \in 1..n : ~CrossSegment(segs, segs[j])}}
  BY <1>3 DEF Faulted
<1> HIDE DEF F1, F2, F3, F4
<1>16. F1 \subseteq W /\ F2 \subseteq W /\ F3 \subseteq W /\ F4 \subseteq W
  BY <1>5, <1>6, <1>9, <1>12, <1>13, <1>14, <1>15
<1>17. W \subseteq F1 \cup F2
  <2> SUFFICES ASSUME NEW i \in WhereAltered PROVE i - 1 \in F1 \cup F2
    OBVIOUS
  <2>1. i \in 1..n /\ (~PerObjectHash(segs[i]) \/ ~ObjectChain(segs[i]))
    BY <1>6, <1>7, <1>10
  <2>2. NumberOf(segs[i]) = i - 1
    BY <1>5, <2>1
  <2>3. CASE ~PerObjectHash(segs[i])
    <3>1. NumberOf(segs[i]) \in F1
      BY <1>12, <2>1, <2>3
    <3> QED
      BY <2>2, <3>1
  <2>4. CASE ~ObjectChain(segs[i])
    <3>1. NumberOf(segs[i]) \in F2
      BY <1>13, <2>1, <2>4
    <3> QED
      BY <2>2, <3>1
  <2> QED
    BY <2>1, <2>3, <2>4
<1> QED
  BY <1>11, <1>16, <1>17

\* The recomputation names the segments whose objects were altered, exactly
\* (verifyPerObjectHash, verifyObjectChain, verifySegmentManifest,
\* verifyCrossSegment): the neighbours of an altered segment, whose hashes its own
\* depend on, are not blamed, and no alteration of an object goes unnamed.
THEOREM AlterationLocated == Spec => []LocatesAlteration
<1>1. SoundInv => LocatesAlteration
  BY AlterationFound DEF LocatesAlteration
<1> QED
  BY <1>1, EvidenceKept, PTL

-----------------------------------------------------------------------------
(* Completeness: GenuinePasses.                                            *)

\* None stands for an absent record or link: it is not one.
NoneIsNoRecord ==
  /\ \A k \in Nat : ObjectOf(k) # None
  /\ \A m, h : [seq |-> m, hash |-> h] # None

\* Until the first alteration the copy, the sidecar and the package are what was read
\* from WORM, and the package carries the builder's signature.
CopyGenuine ==
  copy # None =>
    /\ Len(copy) <= Len(sealed)
    /\ \A i \in 1..Len(copy) :
         /\ copy[i] = [manifest |-> sealed[i].manifest, anchor |-> sealed[i].anchor]
         /\ sealed[i].anchor # None
         /\ \A k \in DOMAIN sealed[i].objects : sidecar[<<i - 1, k>>] = sealed[i].objects[k]

PackageGenuine ==
  package # None =>
    /\ copy # None /\ package.parts = copy
    /\ package.at \in Int /\ package.hash = Content(package)
    /\ package.signature = [key |-> package.key, over |-> Content(package)]

GenuineInv == damage \in Nat /\ (damage = 0 => CopyGenuine /\ PackageGenuine)

LEMMA CopySequence ==
  ASSUME SoundInv, copy # None
  PROVE  /\ Len(copy) \in Nat /\ DOMAIN copy = 1..Len(copy) /\ IsSeq(copy)
         /\ Len(sealed) \in Nat /\ DOMAIN sealed = 1..Len(sealed)
BY SeqOfMembers DEF SoundInv, CopyOK, SealedOK, IsSeq

LEMMA SealedNumber ==
  ASSUME SealedOK, NEW j \in 1..Len(sealed)
  PROVE  sealed[j].manifest.core.seq = j - 1
<1>1. PICK a \in Nat, b \in Nat : SealedAs(j, a, b)
  BY DEF SealedOK
<1> QED
  BY <1>1 DEF SealedAs, SegmentIs

\* Sealing adds to WORM and leaves what is there.
LEMMA SealKeeps ==
  ASSUME SoundInv, NEW n, NEW anchored, Seal(n, anchored)
  PROVE  /\ Len(sealed') = Len(sealed) + 1
         /\ \A i \in 1..Len(sealed) : sealed'[i] = sealed[i]
         /\ UNCHANGED <<copy, sidecar, package, damage>>
<1>1. PICK e : sealed' = Append(sealed, e)
  BY DEF Seal
<1>2. IsSeq(sealed)
  BY DEF SoundInv, SealedOK
<1> QED
  BY <1>1, <1>2, AppendIsSeq DEF Seal

LEMMA GenuineRead ==
  ASSUME SoundInv, ReadEvidence
  PROVE  CopyGenuine'
<1> DEFINE l == Len(sealed)
<1>1. /\ l \in Nat /\ DOMAIN sealed = 1..l /\ sealed' = sealed /\ l <= MaxSegments
      /\ copy' = [i \in 1..l |-> [manifest |-> sealed[i].manifest, anchor |-> sealed[i].anchor]]
      /\ \A i \in 1..l : sealed[i].anchor # None
  <2>1. l \in Nat /\ DOMAIN sealed = 1..l /\ l <= MaxSegments
    BY SeqOfMembers DEF SoundInv, SealedOK, IsSeq
  <2> QED
    BY <2>1 DEF ReadEvidence
<1>2. sidecar' = [w \in WormKeys |->
        IF w[1] + 1 \in 1..l /\ w[2] \in DOMAIN sealed[w[1] + 1].objects
        THEN sealed[w[1] + 1].objects[w[2]] ELSE None]
  BY <1>1 DEF ReadEvidence
<1> HIDE DEF l
<1>3. Len(copy') = l
  <2> DEFINE f == copy'
  <2>1. f = [i \in 1..l |-> f[i]]
    BY <1>1
  <2> HIDE DEF f
  <2> QED
    BY <1>1, <2>1, FunIsSeq DEF f
<1>4. ASSUME NEW i \in 1..l, NEW k \in DOMAIN sealed[i].objects
      PROVE  sidecar'[<<i - 1, k>>] = sealed[i].objects[k]
  <2>1. PICK a \in Nat, b \in Nat : SealedAs(i, a, b)
    BY DEF SoundInv, SealedOK, l
  <2>2. k \in 1..MaxEvents
    <3>1. k \in 1..(b - a + 1) /\ b - a + 1 <= MaxEvents
      BY <2>1 DEF SealedAs, SegmentIs
    <3> QED
      BY <3>1, OfflineAssumption
  <2>3. <<i - 1, k>> \in WormKeys
    BY <1>1, <2>2, OfflineAssumption DEF WormKeys
  <2>4. i - 1 + 1 = i
    BY <1>1
  <2> QED
    BY <1>2, <2>3, <2>4
<1> QED
  BY <1>1, <1>3, <1>4 DEF CopyGenuine, l

\* The builder's order is that of WORM, and it signs what it built.
LEMMA GenuineBuild ==
  ASSUME SoundInv, CopyGenuine, Build
  PROVE  PackageGenuine'
<1> DEFINE n == Len(copy)
           s == Sorted(copy)
<1>1. copy # None /\ UNCHANGED copy
  BY DEF Build
<1>2. n \in Nat /\ DOMAIN copy = 1..n /\ IsSeq(copy)
  BY <1>1, CopySequence
<1>3. \A i \in 1..n : NumberOf(copy[i]) = i - 1
  <2> SUFFICES ASSUME NEW i \in 1..n PROVE NumberOf(copy[i]) = i - 1
    OBVIOUS
  <2>1. i \in 1..Len(sealed) /\ copy[i].manifest = sealed[i].manifest
    BY <1>1, <1>2, CopySequence DEF CopyGenuine
  <2> QED
    BY <2>1, SealedNumber DEF SoundInv, NumberOf
<1>4. {NumberOf(copy[i]) : i \in 1..n} = 0..(n - 1)
  <2>1. \A m \in 0..(n - 1) : m + 1 \in 1..n /\ NumberOf(copy[m + 1]) = m
    BY <1>2, <1>3
  <2>2. \A i \in 1..n : NumberOf(copy[i]) \in 0..(n - 1)
    BY <1>2, <1>3
  <2> HIDE DEF n
  <2> QED
    BY <2>1, <2>2
<1>5. \A i, j \in 1..n : NumberOf(copy[i]) = NumberOf(copy[j]) => i = j
  BY <1>2, <1>3
<1> HIDE DEF n
<1>6. /\ s = [k \in 1..n |-> s[k]]
      /\ \A k \in 1..n : (\E i \in 1..n : s[k] = copy[i]) /\ NumberOf(s[k]) = k - 1
  BY <1>2, <1>4, <1>5, SortedPlaces
<1> HIDE DEF s
<1>7. s = copy
  <2>1. \A k \in 1..n : s[k] = copy[k]
    <3> SUFFICES ASSUME NEW k \in 1..n PROVE s[k] = copy[k]
      OBVIOUS
    <3>1. PICK i \in 1..n : s[k] = copy[i]
      BY <1>6
    <3>2. NumberOf(copy[i]) = k - 1 /\ NumberOf(copy[i]) = i - 1
      BY <1>3, <1>6, <3>1
    <3>3. i = k
      BY <3>2
    <3> QED
      BY <3>1, <3>3
  <2>2. copy = [k \in 1..n |-> copy[k]]
    BY <1>2 DEF IsSeq, n
  <2> QED
    BY <1>6, <2>1, <2>2
<1>8. PICK c, key : /\ c = [parts |-> s, at |-> now]
                    /\ package' = [parts |-> c.parts, at |-> c.at, hash |-> c, key |-> key,
                                   signature |-> [key |-> key, over |-> c]]
  BY DEF Build, s
<1>9. Content(package') = c
  BY <1>8 DEF Content
<1>10. now \in Int
  BY DEF SoundInv
<1> QED
  BY <1>1, <1>7, <1>8, <1>9, <1>10 DEF PackageGenuine, Content

LEMMA GenuineNext ==
  ASSUME SoundInv, GenuineInv, [Next]_vars
  PROVE  GenuineInv'
<1>1. CASE UNCHANGED <<sealed, copy, sidecar, package, damage>>
  BY <1>1 DEF GenuineInv, CopyGenuine, PackageGenuine, Content
<1>2. CASE \/ RegistryNext /\ UNCHANGED evars
           \/ Tick
           \/ \E p \in Planes : Adopt(p)
           \/ UNCHANGED vars
  BY <1>1, <1>2 DEF Tick, Adopt, vars, evars
<1>3. CASE \E n \in 1..MaxEvents, anchored \in BOOLEAN : Seal(n, anchored)
  <2>1. /\ Len(sealed') = Len(sealed) + 1
        /\ \A i \in 1..Len(sealed) : sealed'[i] = sealed[i]
        /\ UNCHANGED <<copy, sidecar, package, damage>>
    BY <1>3, SealKeeps
  <2>2. CopyGenuine => CopyGenuine'
    <3> SUFFICES ASSUME CopyGenuine, copy # None PROVE CopyGenuine'
      BY <2>1 DEF CopyGenuine
    <3>1. Len(copy) \in Nat /\ Len(sealed) \in Nat /\ Len(copy) <= Len(sealed)
      BY CopySequence DEF CopyGenuine
    <3>2. \A i \in 1..Len(copy) : sealed'[i] = sealed[i]
      BY <2>1, <3>1
    <3> QED
      BY <2>1, <3>1, <3>2 DEF CopyGenuine
  <2>3. PackageGenuine => PackageGenuine'
    BY <2>1 DEF PackageGenuine, Content
  <2> QED
    BY <2>1, <2>2, <2>3 DEF GenuineInv
<1>4. CASE ReadEvidence
  <2>1. copy = None /\ UNCHANGED <<package, damage>>
    BY <1>4 DEF ReadEvidence
  <2>2. PackageGenuine => PackageGenuine'
    BY <2>1 DEF PackageGenuine
  <2> QED
    BY <1>4, <2>1, <2>2, GenuineRead DEF GenuineInv
<1>5. CASE Build
  <2>1. UNCHANGED <<sealed, copy, sidecar, damage>>
    BY <1>5 DEF Build
  <2>2. CopyGenuine => CopyGenuine'
    BY <2>1 DEF CopyGenuine
  <2> QED
    BY <1>5, <2>1, <2>2, GenuineBuild DEF GenuineInv
<1>6. CASE Alter
  BY <1>6 DEF Alter, GenuineInv
<1> QED
  BY <1>2, <1>3, <1>4, <1>5, <1>6 DEF Next

LEMMA GenuineKept == Spec => []GenuineInv
<1>1. Init => GenuineInv
  BY DEF Init, GenuineInv, CopyGenuine, PackageGenuine
<1>2. SoundInv /\ GenuineInv /\ [Next]_vars => GenuineInv'
  BY GenuineNext
<1> QED
  BY <1>1, <1>2, EvidenceKept, PTL DEF Spec

\* A trust file that knows a key accepts what the registry vouches for.
LEMMA KnownAccepted ==
  ASSUME IInv, trust # None, NEW p \in Planes, NEW k, NEW at \in Int, KeyKnown(p, k, at)
  PROVE  KeyAccepted(trust[p], k, at)
<1>1. /\ k \in Keys /\ k \in Ed25519 /\ trust[p][k] # None
      /\ registered[p][k] # None /\ registered[p][k].created <= at
      /\ registered[p][k].revoked # None => at < registered[p][k].revoked
  BY KeyRegistryAssumption DEF KeyKnown, IsValidAt
<1>2. /\ trust[p][k].notBefore = registered[p][k].created
      /\ trust[p][k].revoked # None => trust[p][k].revoked = registered[p][k].revoked
  BY <1>1 DEF IInv, TrustIsPast
<1>3. registered[p][k] \in KeyRecords
  BY <1>1 DEF IInv, RegistryTypeOK
<1>4. /\ registered[p][k].created \in Int
      /\ registered[p][k].revoked # None => registered[p][k].revoked \in Int
  BY <1>3, NoneIsNothing DEF KeyRecords
<1>5. ~(at < trust[p][k].notBefore)
  BY <1>1, <1>2, <1>4
<1>6. ~(trust[p][k].revoked # None /\ at >= trust[p][k].revoked)
  BY <1>1, <1>2, <1>4
<1> QED
  BY <1>1, <1>5, <1>6 DEF KeyAccepted

\* Segments in the order of their numbers are sorted.
LEMMA SortedAlready ==
  ASSUME NEW segs, NEW n \in Nat, DOMAIN segs = 1..n,
         \A k \in 1..n : NumberOf(segs[k]) = k - 1
  PROVE  DOMAIN Sorted(segs) = 1..n /\ \A k \in 1..n : Sorted(segs)[k] = segs[k]
<1> DEFINE s == Sorted(segs)
<1>1. {NumberOf(segs[i]) : i \in 1..n} = 0..(n - 1)
  <2>1. \A m \in 0..(n - 1) : m + 1 \in 1..n /\ NumberOf(segs[m + 1]) = m
    OBVIOUS
  <2>2. \A i \in 1..n : NumberOf(segs[i]) \in 0..(n - 1)
    OBVIOUS
  <2> QED
    BY <2>1, <2>2
<1>2. \A i, j \in 1..n : NumberOf(segs[i]) = NumberOf(segs[j]) => i = j
  OBVIOUS
<1>3. /\ s = [k \in 1..n |-> s[k]]
      /\ \A k \in 1..n : (\E i \in 1..n : s[k] = segs[i]) /\ NumberOf(s[k]) = k - 1
  BY <1>1, <1>2, SortedPlaces
<1> HIDE DEF s
<1>4. \A k \in 1..n : s[k] = segs[k]
  <2> SUFFICES ASSUME NEW k \in 1..n PROVE s[k] = segs[k]
    OBVIOUS
  <2>1. PICK i \in 1..n : s[k] = segs[i]
    BY <1>3
  <2>2. NumberOf(segs[i]) = k - 1 /\ NumberOf(segs[i]) = i - 1
    BY <1>3, <2>1
  <2>3. i = k
    BY <2>2
  <2> QED
    BY <2>1, <2>3
<1> QED
  BY <1>3, <1>4 DEF s

\* Segments with the objects that were sealed, captured without a gap and apart in
\* the source, are complete by the source's own account.
LEMMA GenuineEvents ==
  ASSUME SealedOK, NEW segs, NEW n, AsSealed(segs, n),
         \A i \in 1..n : segs[i].objects = sealed[i].objects,
         \A i \in 1..n : ~segs[i].manifest.core.gap,
         \A i \in 1..n : i > 1 => segs[i].manifest.core.offsets.first #
                                    segs[i - 1].manifest.core.offsets.last
  PROVE  MissingEvents(segs) = {}
<1>1. /\ n \in Nat /\ Len(sealed) \in Nat /\ DOMAIN segs = 1..n
      /\ \A j \in 1..n : j \in 1..Len(sealed) /\ segs[j].manifest = sealed[j].manifest
  BY DEF AsSealed, SealedOK, IsSeq
<1>2. \A j \in 1..n : NumberOf(segs[j]) = j - 1
  BY <1>1, SealedNumber DEF NumberOf
<1>3. ASSUME NEW j \in 1..n PROVE Corroborated(segs[j])
  <2>1. PICK a \in Nat, b \in Nat : SealedAs(j, a, b)
    BY <1>1 DEF SealedOK
  <2>2. PICK c, o, m : c = segs[j].manifest.core /\ o = segs[j].objects /\ m = b - a + 1
    OBVIOUS
  <2>3. /\ m \in Nat \ {0} /\ a \in Nat /\ a + m - 1 = b
        /\ o = [i \in 1..m |-> ObjectOf(a + i - 1)]
        /\ c.offsets = [first |-> OffsetOf[a], last |-> OffsetOf[b]]
        /\ c.gap = (\E e \in a..b : e \in Gapped)
    <3>1. PICK g, p : g = sealed[j] /\ p = Before(j)
      OBVIOUS
    <3>2. SegmentIs(g, p, j, a, b)
      BY <2>1, <3>1 DEF SealedAs
    <3>3. c = g.manifest.core /\ o = g.objects
      BY <1>1, <2>2, <3>1
    <3>4. m \in Nat \ {0} /\ a + m - 1 = b
      BY <2>2, <3>2, SegmentCounts
    <3> QED
      BY <2>2, <3>2, <3>3, <3>4 DEF SegmentIs
  <2>4. ~c.gap
    BY <2>2
  <2>5. \A i \in 1..m : o[i].content.id = a + i - 1 /\ a + i - 1 \in a..b
    BY <2>3 DEF ObjectOf
  <2>6. \A i \in 1..m : o[i].content.id \notin Gapped
    BY <2>3, <2>4, <2>5
  <2>7. Len(o) = m /\ DOMAIN o = 1..m
    <3>1. o = [i \in 1..m |-> o[i]]
      BY <2>3
    <3> QED
      BY <2>3, <3>1, FunIsSeq
  <2>8. o # <<>>
    BY <2>3, <2>7, SeqIsNotEmpty
  <2>9. o[1].content.id = a /\ o[m].content.id = b
    <3>1. 1 \in 1..m /\ m \in 1..m
      BY <2>3
    <3>2. o[1].content.id = a + 1 - 1 /\ o[m].content.id = a + m - 1
      BY <2>5, <3>1
    <3> QED
      <4>1. a + 1 - 1 = a
        BY <2>3
      <4>2. a + m - 1 = b
        BY <2>3
      <4> QED
        BY <3>2, <4>1, <4>2
  <2> QED
    BY <2>2, <2>3, <2>4, <2>6, <2>7, <2>8, <2>9 DEF Corroborated
<1> DEFINE s == Sorted(segs)
<1>4. DOMAIN s = 1..n /\ \A k \in 1..n : s[k] = segs[k]
  BY <1>1, <1>2, SortedAlready
<1> HIDE DEF s
<1>5. \A j \in 1..n : j > 1 => ~Overlaps(s[j], s[j - 1])
  <2> SUFFICES ASSUME NEW j \in 1..n, j > 1 PROVE ~Overlaps(s[j], s[j - 1])
    OBVIOUS
  <2>1. j - 1 \in 1..n
    BY <1>1
  <2> QED
    BY <1>4, <2>1 DEF Overlaps
<1>6. \A j \in 1..n : Corroborated(s[j])
  BY <1>3, <1>4
<1>7. MissingEvents(segs) = {NumberOf(s[i]) : i \in {j \in DOMAIN s :
         ~Corroborated(s[j]) \/ (j > 1 /\ Overlaps(s[j], s[j - 1]))}}
  BY DEF MissingEvents, s
<1> QED
  BY <1>4, <1>5, <1>6, <1>7

\* An anchor record made for a segment attests it.
LEMMA GenuineAnchor ==
  ASSUME NEW s, NEW directory, NEW key, NEW at, s.anchor = AnchorOf(s.manifest, key, at),
         s.anchor # None, KeyAccepted(directory, s.anchor.key, s.anchor.head.at)
  PROVE  HsmSignature(s, directory) /\ AnchorToken(s)
<1> DEFINE head == [seq |-> s.manifest.core.seq, hash |-> SegmentHashOf(s.manifest),
                    lastRow |-> s.manifest.core.lastRow, at |-> at]
<1>1. s.anchor = [head |-> head, key |-> key, signature |-> [key |-> key, over |-> head],
                  imprint |-> head]
  BY DEF AnchorOf
<1>2. /\ head.seq = NumberOf(s) /\ head.hash = SegmentHashOf(s.manifest)
      /\ head.lastRow = s.manifest.core.lastRow
  BY DEF NumberOf
<1> HIDE DEF head
<1>3. /\ s.anchor.head = head /\ s.anchor.key = key /\ s.anchor.imprint = head
      /\ s.anchor.signature = [key |-> key, over |-> head]
  BY <1>1
<1>4. HeadIsOf(s) /\ Verifies(s.anchor.signature, s.anchor.key, s.anchor.head)
  BY <1>2, <1>3 DEF HeadIsOf, Verifies
<1> QED
  BY <1>3, <1>4 DEF HsmSignature, AnchorToken

\* Segments in hand that are those of WORM, from genesis on.
InHand(segs, n) ==
  /\ AsSealed(segs, n) /\ segs = [i \in 1..n |-> segs[i]]
  /\ \A i \in 1..n : segs[i] = [manifest |-> sealed[i].manifest, anchor |-> sealed[i].anchor,
                                objects |-> sealed[i].objects]

\* Until the first alteration the segments in hand are those of WORM.
LEMMA GenuineHand ==
  ASSUME SoundInv, GenuineInv, package # None, damage = 0
  PROVE  InHand(Segments, Len(package.parts)) /\ SealedOK
<1> DEFINE n == Len(package.parts)
<1>1. copy # None /\ package.parts = copy /\ CopyGenuine
  BY DEF GenuineInv, PackageGenuine
<1>2. /\ n \in Nat \ {0} /\ DOMAIN package.parts = 1..n /\ n \in 1..Len(sealed)
      /\ Len(sealed) \in Nat /\ SealedOK
  <2>1. n \in Nat /\ DOMAIN package.parts = 1..n /\ Len(sealed) \in Nat /\ n <= Len(sealed)
    BY <1>1, CopySequence DEF CopyGenuine
  <2>2. n > 0 /\ SealedOK
    BY DEF SoundInv, PackageOK
  <2> QED
    BY <2>1, <2>2
<1>3. \A i \in 1..n :
        /\ package.parts[i] = [manifest |-> sealed[i].manifest, anchor |-> sealed[i].anchor]
        /\ \A k \in DOMAIN sealed[i].objects : sidecar[<<i - 1, k>>] = sealed[i].objects[k]
  BY <1>1 DEF CopyGenuine
<1> HIDE DEF n
<1>4. PICK segs : segs = Segments
  OBVIOUS
<1>5. ASSUME NEW i \in 1..n
      PROVE  segs[i] = [manifest |-> sealed[i].manifest, anchor |-> sealed[i].anchor,
                        objects |-> sealed[i].objects]
  <2>1. PICK a \in Nat, b \in Nat : SealedAs(i, a, b)
    BY <1>2 DEF SealedOK
  <2>2. PICK g, p, m, q : g = sealed[i] /\ p = Before(i) /\ m = b - a + 1 /\ q = package.parts[i]
    OBVIOUS
  <2>3. SegmentIs(g, p, i, a, b)
    BY <2>1, <2>2 DEF SealedAs
  <2>4. /\ g.manifest.core.list = [k \in 1..m |-> [id |-> a + k - 1, key |-> <<i - 1, k>>]]
        /\ g.objects = [k \in 1..m |-> ObjectOf(a + k - 1)]
    BY <2>2, <2>3 DEF SegmentIs
  <2>5. q.manifest = g.manifest /\ q.anchor = g.anchor
    <3>1. q = [manifest |-> g.manifest, anchor |-> g.anchor]
      BY <1>3, <2>2
    <3> QED
      BY <3>1
  <2>6. segs[i] = [manifest |-> q.manifest, anchor |-> q.anchor,
                   objects |-> ObjectsFor(q.manifest)]
    BY <1>2, <1>4, <2>2 DEF Segments
  <2>7. ObjectsFor(g.manifest) = g.objects
    <3>1. ObjectsFor(g.manifest) = [k \in 1..m |-> sidecar[<<i - 1, k>>]]
      BY <2>4 DEF ObjectsFor
    <3>2. \A k \in 1..m : sidecar[<<i - 1, k>>] = g.objects[k]
      BY <1>3, <2>2, <2>4
    <3> QED
      BY <2>4, <3>1, <3>2
  <2> QED
    BY <2>2, <2>5, <2>6, <2>7
<1>6. DOMAIN segs = 1..n /\ segs = [i \in 1..n |-> segs[i]]
  BY <1>2, <1>4 DEF Segments
<1>7. \A i \in 1..n : segs[i].manifest = sealed[i].manifest
  <2> SUFFICES ASSUME NEW i \in 1..n PROVE segs[i].manifest = sealed[i].manifest
    OBVIOUS
  <2>1. PICK m, r, o : m = sealed[i].manifest /\ r = sealed[i].anchor /\ o = sealed[i].objects
    OBVIOUS
  <2>2. segs[i] = [manifest |-> m, anchor |-> r, objects |-> o]
    BY <1>5, <2>1
  <2> QED
    BY <2>1, <2>2
<1>8. AsSealed(segs, n)
  BY <1>2, <1>6, <1>7 DEF AsSealed
<1>9. InHand(segs, n)
  BY <1>5, <1>6, <1>8 DEF InHand
<1> QED
  BY <1>2, <1>4, <1>9 DEF n

LEMMA GenuineVerdict ==
  ASSUME NoneIsNoRecord, IInv, SoundInv, GenuineInv
  PROVE  GenuinePasses
<1> SUFFICES ASSUME package # None, damage = 0, trust # None, KeysInOrder, SourceContinuous
             PROVE  Passes
  BY DEF GenuinePasses
<1> DEFINE n == Len(package.parts)
<1>1. /\ copy # None /\ package.parts = copy /\ package.at \in Int
      /\ package.hash = Content(package)
      /\ package.signature = [key |-> package.key, over |-> Content(package)]
      /\ CopyGenuine
  BY DEF GenuineInv, PackageGenuine
<1>2. /\ n \in Nat \ {0} /\ DOMAIN package.parts = 1..n /\ n \in 1..Len(sealed)
      /\ Len(sealed) \in Nat /\ SealedOK
  <2>1. n \in Nat /\ DOMAIN package.parts = 1..n /\ Len(sealed) \in Nat /\ n <= Len(sealed)
    BY <1>1, CopySequence DEF CopyGenuine
  <2>2. n > 0 /\ SealedOK
    BY DEF SoundInv, PackageOK
  <2> QED
    BY <2>1, <2>2
<1>3. \A i \in 1..n :
        /\ package.parts[i] = [manifest |-> sealed[i].manifest, anchor |-> sealed[i].anchor]
        /\ sealed[i].anchor # None
        /\ \A k \in DOMAIN sealed[i].objects : sidecar[<<i - 1, k>>] = sealed[i].objects[k]
  BY <1>1 DEF CopyGenuine
<1> HIDE DEF n
<1>4. \A i \in 1..n : /\ package.parts[i].manifest = sealed[i].manifest
                       /\ package.parts[i].anchor = sealed[i].anchor
  <2> SUFFICES ASSUME NEW i \in 1..n
               PROVE  /\ package.parts[i].manifest = sealed[i].manifest
                      /\ package.parts[i].anchor = sealed[i].anchor
    OBVIOUS
  <2>1. package.parts[i] = [manifest |-> sealed[i].manifest, anchor |-> sealed[i].anchor]
    BY <1>3
  <2> QED
    BY <2>1
<1>5. PICK segs : segs = Segments
  OBVIOUS
<1>6. ASSUME NEW i \in 1..n
      PROVE  /\ segs[i].manifest = sealed[i].manifest /\ segs[i].anchor = sealed[i].anchor
             /\ segs[i].objects = sealed[i].objects
             /\ \A k \in DOMAIN segs[i].objects : segs[i].objects[k] # None
             /\ Hashable(package.parts[i].manifest)
             /\ \E key, at : at \in Int /\ sealed[i].anchor = AnchorOf(sealed[i].manifest, key, at)
  <2>1. PICK a \in Nat, b \in Nat : SealedAs(i, a, b)
    BY <1>2 DEF SealedOK
  <2>2. PICK g, p, m : g = sealed[i] /\ p = Before(i) /\ m = b - a + 1
    OBVIOUS
  <2>3. SegmentIs(g, p, i, a, b)
    BY <2>1, <2>2 DEF SealedAs
  <2>4. /\ m \in Nat \ {0} /\ a \in Nat \ {0}
        /\ g.manifest.core.list = [k \in 1..m |-> [id |-> a + k - 1, key |-> <<i - 1, k>>]]
        /\ g.objects = [k \in 1..m |-> ObjectOf(a + k - 1)]
    <3>1. m \in Nat \ {0}
      BY <2>2, <2>3, SegmentCounts
    <3> QED
      BY <2>2, <2>3, <3>1 DEF SegmentIs
  <2>5. segs[i] = [manifest |-> g.manifest, anchor |-> g.anchor, objects |-> g.objects]
    BY <1>5, <2>2, GenuineHand DEF InHand, n
  <2>6. \A k \in DOMAIN g.objects : g.objects[k] # None
    <3>1. \A k \in 1..m : a + k - 1 \in Nat
      BY <2>4
    <3> QED
      BY <2>4, <3>1 DEF NoneIsNoRecord
  <2>7. Hashable(g.manifest)
    <3>1. g.manifest.core.seq = i - 1
      BY <2>3 DEF SegmentIs
    <3>2. i # 1 => g.manifest.core.link = [seq |-> i - 2, hash |-> SegmentHashOf(p.manifest)]
      BY <2>3 DEF SegmentIs
    <3> QED
      BY <1>2, <3>1, <3>2 DEF NoneIsNoRecord, Hashable
  <2>8. \E key, at : at \in Int /\ g.anchor = AnchorOf(g.manifest, key, at)
    BY <1>3, <2>2, <2>3 DEF SegmentIs
  <2> QED
    <3>1. segs[i].manifest = g.manifest /\ segs[i].anchor = g.anchor /\ segs[i].objects = g.objects
      BY <2>5
    <3>2. package.parts[i].manifest = g.manifest
      BY <1>4, <2>2
    <3> QED
      BY <2>2, <2>6, <2>7, <2>8, <3>1, <3>2
<1>7. DOMAIN segs = 1..n
  BY <1>2, <1>5 DEF Segments
<1>8. AsSealed(segs, n)
  BY <1>2, <1>6, <1>7 DEF AsSealed
<1>9. ~Unusable
  BY <1>2, <1>5, <1>6 DEF Unusable
<1>10. EnvelopeVerifies(trust["export"])
  <2>1. KeyAccepted(trust["export"], package.key, package.at)
    BY <1>1, KnownAccepted, OfflineAssumption DEF KeysInOrder
  <2> QED
    BY <1>1, <2>1 DEF EnvelopeVerifies, Verifies
<1>11. ASSUME NEW i \in 1..n
       PROVE  /\ PerObjectHash(segs[i]) /\ ObjectChain(segs[i])
              /\ SegmentManifest(segs[i]) /\ CrossSegment(segs, segs[i])
  <2>1. i \in 1..Len(sealed)
    BY <1>2
  <2>2. PerObjectHash(segs[i]) /\ ObjectChain(segs[i]) /\ SegmentManifest(segs[i])
    BY <1>2, <1>6, <2>1, GenuineSegment
  <2>3. CrossSegment(segs, segs[i])
    BY <1>2, <1>6, <1>8, GenuineLink
  <2> QED
    BY <2>2, <2>3
<1>12. ASSUME NEW i \in 1..n
       PROVE  HsmSignature(segs[i], trust["signing"]) /\ AnchorToken(segs[i])
  <2>1. PICK key, at : at \in Int /\ segs[i].anchor = AnchorOf(segs[i].manifest, key, at)
    BY <1>6
  <2>2. segs[i].anchor.head.at \in Int
    BY <2>1 DEF AnchorOf
  <2>3. segs[i].anchor = package.parts[i].anchor /\ segs[i].anchor # None
    BY <1>3, <1>6, <1>4
  <2>4. KeyAccepted(trust["signing"], segs[i].anchor.key, segs[i].anchor.head.at)
    BY <1>2, <2>2, <2>3, KnownAccepted, OfflineAssumption DEF KeysInOrder
  <2> DEFINE s == segs[i]
             d == trust["signing"]
  <2>5. s.anchor = AnchorOf(s.manifest, key, at) /\ s.anchor # None
        /\ KeyAccepted(d, s.anchor.key, s.anchor.head.at)
    BY <2>1, <2>3, <2>4
  <2> HIDE DEF s, d
  <2>6. HsmSignature(s, d) /\ AnchorToken(s)
    BY <2>5, GenuineAnchor
  <2> QED
    BY <2>6 DEF s, d
<1>13. MissingSegments(segs) = {}
  <2>1. \A i \in 1..n : NumberOf(segs[i]) = i - 1
    <3> SUFFICES ASSUME NEW i \in 1..n PROVE NumberOf(segs[i]) = i - 1
      OBVIOUS
    <3>1. i \in 1..Len(sealed) /\ segs[i].manifest = sealed[i].manifest
      BY <1>2, <1>6
    <3> QED
      BY <1>2, <3>1, SealedNumber DEF NumberOf
  <2> QED
    BY <1>2, <1>7, <2>1, NumberedFromGenesis
<1>14. MissingEvents(segs) = {}
  <2>1. \A i \in 1..n : segs[i].manifest = package.parts[i].manifest
    BY <1>6, <1>4
  <2>2. \A i \in 1..n : ~segs[i].manifest.core.gap
    BY <1>2, <2>1 DEF SourceContinuous
  <2>3. \A i \in 1..n : i > 1 => i - 1 \in 1..n
    BY <1>2
  <2>4. \A i \in 1..n : i > 1 => segs[i].manifest.core.offsets.first #
                                   segs[i - 1].manifest.core.offsets.last
    BY <1>2, <2>1, <2>3 DEF SourceContinuous
  <2> QED
    BY <1>2, <1>6, <1>8, <2>2, <2>4, GenuineEvents
<1>15. OverallPass(segs, trust["signing"])
  BY <1>7, <1>11, <1>12, <1>13, <1>14, VerdictMeans
<1> QED
  BY <1>5, <1>9, <1>10, <1>15 DEF Passes

\* The verifier refuses nothing that is genuine (buildExport, runExportVerification):
\* however many segments, rotations, revocations and trust files there have been,
\* a package of unaltered evidence, captured without a gap and signed by keys that
\* were in order and are in the trust file in hand, passes.
THEOREM GenuineIsAccepted ==
  ASSUME NoneIsNoRecord
  PROVE  Spec => []GenuinePasses
<1>1. IInv /\ SoundInv /\ GenuineInv => GenuinePasses
  BY GenuineVerdict
<1> QED
  BY <1>1, RegistryKept, EvidenceKept, GenuineKept, PTL

-----------------------------------------------------------------------------
(* The cases of the verifier's suite: VerifierCasesHold.                   *)

\* s is the i-th of them, with the m change events from a on, after the segment p.
Holds(s, p, i, a, m) ==
  LET c == s.manifest.core
  IN /\ s = [manifest |-> s.manifest, anchor |-> s.anchor, objects |-> s.objects]
     /\ s.manifest = [core |-> c, hash |-> c] /\ CoreShape(c) /\ c.seq = i - 1
     /\ s.objects = [k \in 1..m |-> ObjectOf(a + k - 1)]
     /\ s.objects \in Seq({ObjectOf(k) : k \in Nat}) /\ Len(s.objects) = m /\ Len(c.list) = m
     /\ c.link = IF i = 1 THEN None ELSE [seq |-> i - 2, hash |-> SegmentHashOf(p.manifest)]
     /\ c.offsets = [first |-> OffsetOf[a], last |-> OffsetOf[a + m - 1]]

\* The segments in hand are a sequence, no longer than WORM's.
LEMMA InHandSeq ==
  ASSUME SealedOK, NEW segs, NEW n, InHand(segs, n)
  PROVE  /\ n \in Nat /\ n <= Len(sealed) /\ segs = [i \in 1..n |-> segs[i]] /\ DOMAIN segs = 1..n
         /\ Len(sealed) \in Nat /\ \A i \in 1..n : i \in 1..Len(sealed)
<1>1. Len(sealed) \in Nat
  BY DEF SealedOK, IsSeq
<1>2. n \in 1..Len(sealed) /\ segs = [i \in 1..n |-> segs[i]] /\ DOMAIN segs = 1..n
  BY DEF InHand, AsSealed
<1> QED
  BY <1>1, <1>2

\* Each of them holds the change events that follow its predecessor's.
LEMMA HeldSegment ==
  ASSUME SealedOK, NEW segs, NEW n, InHand(segs, n), NEW i \in 1..n
  PROVE  \E a, m \in Nat \ {0} : Holds(segs[i], segs[i - 1], i, a, m)
<1>1. n \in Nat /\ i \in 1..Len(sealed) /\ Len(sealed) \in Nat
  <2>1. Len(sealed) \in Nat
    BY DEF SealedOK, IsSeq
  <2>2. n \in 1..Len(sealed)
    BY DEF InHand, AsSealed
  <2> QED
    BY <2>1, <2>2
<1>2. PICK a \in Nat, b \in Nat : SealedAs(i, a, b)
  BY <1>1 DEF SealedOK
<1>3. PICK g, p, m, c : g = sealed[i] /\ p = Before(i) /\ m = b - a + 1 /\ c = g.manifest.core
  OBVIOUS
<1>4. SegmentIs(g, p, i, a, b)
  BY <1>2, <1>3 DEF SealedAs
<1>5. m \in Nat \ {0} /\ a \in Nat \ {0} /\ a + m - 1 = b
  <2>1. a \in Nat \ {0} /\ a <= b
    BY <1>4 DEF SegmentIs
  <2> QED
    BY <1>3, <2>1
<1>6. /\ g.manifest = [core |-> c, hash |-> c] /\ CoreShape(c) /\ c.seq = i - 1
      /\ g.objects = [k \in 1..m |-> ObjectOf(a + k - 1)]
      /\ c.list = [k \in 1..m |-> [id |-> a + k - 1, key |-> <<i - 1, k>>]]
      /\ c.link = IF i = 1 THEN None ELSE [seq |-> i - 2, hash |-> SegmentHashOf(p.manifest)]
      /\ c.offsets = [first |-> OffsetOf[a], last |-> OffsetOf[b]]
  BY <1>3, <1>4 DEF SegmentIs
<1>7. g.objects \in Seq({ObjectOf(k) : k \in Nat}) /\ Len(g.objects) = m
  <2> DEFINE T == {ObjectOf(k) : k \in Nat}
             f == [k \in 1..m |-> ObjectOf(a + k - 1)]
  <2>1. \A k \in 1..m : ObjectOf(a + k - 1) \in T
    BY <1>5
  <2> HIDE DEF T
  <2>2. f \in Seq(T) /\ Len(f) = m
    BY <1>5, <2>1
  <2> QED
    BY <1>6, <2>2 DEF T
<1>8. Len(c.list) = m
  <2> DEFINE l == c.list
  <2>1. l = [k \in 1..m |-> l[k]]
    BY <1>6
  <2> HIDE DEF l
  <2>2. Len(l) = m
    BY <1>5, <2>1, FunIsSeq
  <2> QED
    BY <2>2 DEF l
<1>9. PICK s : s = segs[i]
  OBVIOUS
<1>10. s = [manifest |-> g.manifest, anchor |-> g.anchor, objects |-> g.objects]
  BY <1>3, <1>9 DEF InHand
<1>11. i # 1 => p.manifest = segs[i - 1].manifest
  BY <1>1, <1>3 DEF Before, InHand, AsSealed
<1>12. Holds(s, segs[i - 1], i, a, m)
  <2>1. s.manifest = g.manifest /\ s.objects = g.objects /\ s.anchor = g.anchor
    BY <1>10
  <2> QED
    BY <1>3, <1>5, <1>6, <1>7, <1>8, <1>10, <1>11, <2>1 DEF Holds
<1> QED
  BY <1>5, <1>9, <1>12

\* The faults of the checks, one by one.
LEMMA FaultsFound ==
  ASSUME NEW segs, NEW directory
  PROVE  /\ Integrity(segs).per_object_hash =
              {NumberOf(segs[i]) : i \in {j \in DOMAIN segs : ~PerObjectHash(segs[j])}}
         /\ Integrity(segs).object_chain =
              {NumberOf(segs[i]) : i \in {j \in DOMAIN segs : ~ObjectChain(segs[j])}}
         /\ Integrity(segs).segment_manifest =
              {NumberOf(segs[i]) : i \in {j \in DOMAIN segs : ~SegmentManifest(segs[j])}}
         /\ Integrity(segs).cross_segment_continuity =
              {NumberOf(segs[i]) : i \in {j \in DOMAIN segs : ~CrossSegment(segs, segs[j])}}
         /\ Attestation(segs, directory).hsm_signature =
              {NumberOf(segs[i]) : i \in {j \in DOMAIN segs : ~HsmSignature(segs[j], directory)}}
         /\ Attestation(segs, directory).anchor_token =
              {NumberOf(segs[i]) : i \in {j \in DOMAIN segs : ~AnchorToken(segs[j])}}
<1>1. Integrity(segs).per_object_hash = Faulted(segs, PerObjectHash)
  BY DEF Integrity
<1>2. Integrity(segs).object_chain = Faulted(segs, ObjectChain)
  BY DEF Integrity
<1>3. Integrity(segs).segment_manifest = Faulted(segs, SegmentManifest)
  BY DEF Integrity
<1>4. Integrity(segs).cross_segment_continuity = Faulted(segs, LAMBDA s : CrossSegment(segs, s))
  BY DEF Integrity
<1>5. /\ Attestation(segs, directory).hsm_signature =
           Faulted(segs, LAMBDA s : HsmSignature(s, directory))
      /\ Attestation(segs, directory).anchor_token = Faulted(segs, AnchorToken)
  BY DEF Attestation
<1> QED
  BY <1>1, <1>2, <1>3, <1>4, <1>5 DEF Faulted

\* One object is altered: its event hash no longer commits to it, and nothing else
\* of the segment has changed.
LEMMA TamperedSegment ==
  ASSUME SealedOK, NEW segs, NEW n, InHand(segs, n), NEW i \in 1..n,
         NEW j \in DOMAIN segs[i].objects
  PROVE  LET bad == Tampered(segs, i, j)
         IN /\ DOMAIN bad = 1..n /\ NumberOf(bad[i]) = NumberOf(segs[i])
            /\ \A k \in 1..n : k # i => bad[k] = segs[k]
            /\ bad[i].manifest = segs[i].manifest /\ bad[i].anchor = segs[i].anchor
            /\ ~PerObjectHash(bad[i])
<1>1. n \in Nat /\ segs = [k \in 1..n |-> segs[k]]
  BY InHandSeq
<1>2. PICK a \in Nat \ {0}, m \in Nat \ {0} : Holds(segs[i], segs[i - 1], i, a, m)
  BY HeldSegment
<1>3. PICK s, o, x : s = segs[i] /\ o = s.objects[j] /\ x = a + j - 1
  OBVIOUS
<1>4. /\ s = [manifest |-> s.manifest, anchor |-> s.anchor, objects |-> s.objects]
      /\ s.objects = [k \in 1..m |-> s.objects[k]] /\ j \in 1..m
      /\ o = ObjectOf(x)
  BY <1>2, <1>3 DEF Holds
<1> DEFINE t == [o EXCEPT !.content.rev = 1]
           objects == [s.objects EXCEPT ![j] = t]
           v == [s EXCEPT !.objects = objects]
           bad == [segs EXCEPT ![i] = v]
<1>5. Tampered(segs, i, j) = bad
  BY <1>1, <1>3, <1>4 DEF Tampered
<1>6. t.content = [id |-> x, rev |-> 1] /\ t.event = [id |-> x, rev |-> 0]
  BY <1>4 DEF ObjectOf
<1>7. ~EventHashOk(t)
  <2> HIDE DEF t
  <2> QED
    BY <1>6 DEF EventHashOk, EventHash
<1> HIDE DEF t
<1>8. j \in DOMAIN objects /\ objects[j] = t
  BY <1>4
<1> HIDE DEF objects
<1>9. v.manifest = s.manifest /\ v.anchor = s.anchor /\ v.objects = objects
  BY <1>4
<1> HIDE DEF v
<1>10. ~PerObjectHash(v)
  BY <1>7, <1>8, <1>9 DEF PerObjectHash
<1>11. /\ DOMAIN bad = 1..n /\ bad[i] = v /\ NumberOf(bad[i]) = NumberOf(segs[i])
       /\ \A k \in 1..n : k # i => bad[k] = segs[k]
  <2>1. v.manifest.core.seq = segs[i].manifest.core.seq
    BY <1>3, <1>9
  <2>2. DOMAIN bad = 1..n /\ bad[i] = v /\ \A k \in 1..n : k # i => bad[k] = segs[k]
    BY <1>1
  <2> HIDE DEF bad
  <2> QED
    BY <2>1, <2>2 DEF NumberOf
<1> QED
  BY <1>3, <1>5, <1>9, <1>10, <1>11

\* WV-2 and WV-14: an object altered after it was anchored.
LEMMA CaseTampered ==
  ASSUME SealedOK, NEW segs, NEW n, InHand(segs, n), NEW directory,
         OverallPass(segs, directory), NEW i \in 1..n
  PROVE  WV_2(segs, directory, i) /\ WV_14(segs, directory, i)
<1> SUFFICES ASSUME NEW j \in DOMAIN segs[i].objects
             PROVE  /\ Integrity(Tampered(segs, i, j)).per_object_hash = {NumberOf(segs[i])}
                    /\ Attestation(Tampered(segs, i, j), directory).hsm_signature = {}
                    /\ ~OverallPass(Tampered(segs, i, j), directory)
  BY DEF WV_2, WV_14
<1>1. PICK bad : bad = Tampered(segs, i, j)
  OBVIOUS
<1>2. DOMAIN segs = 1..n
  BY DEF InHand, AsSealed
<1>3. /\ DOMAIN bad = 1..n /\ NumberOf(bad[i]) = NumberOf(segs[i])
      /\ \A k \in 1..n : k # i => bad[k] = segs[k]
      /\ bad[i].manifest = segs[i].manifest /\ bad[i].anchor = segs[i].anchor
      /\ ~PerObjectHash(bad[i])
  BY <1>1, TamperedSegment
<1>4. \A k \in 1..n : PerObjectHash(segs[k]) /\ HsmSignature(segs[k], directory)
  BY <1>2, VerdictMeans
<1>5. {k \in DOMAIN bad : ~PerObjectHash(bad[k])} = {i}
  BY <1>3, <1>4
<1>6. {k \in DOMAIN bad : ~HsmSignature(bad[k], directory)} = {}
  <2>1. HsmSignature(bad[i], directory)
    BY <1>3, <1>4 DEF HsmSignature, HeadIsOf, NumberOf
  <2> QED
    BY <1>3, <1>4, <2>1
<1>7. ~OverallPass(bad, directory)
  BY <1>3, VerdictMeans
<1>8. /\ Integrity(bad).per_object_hash =
           {NumberOf(bad[k]) : k \in {l \in DOMAIN bad : ~PerObjectHash(bad[l])}}
      /\ Attestation(bad, directory).hsm_signature =
           {NumberOf(bad[k]) : k \in {l \in DOMAIN bad : ~HsmSignature(bad[l], directory)}}
  BY FaultsFound
<1> QED
  BY <1>1, <1>3, <1>5, <1>6, <1>7, <1>8

\* None is no head, no segment hash and no key.
NoneIsNoHash ==
  /\ None \notin Keys
  /\ \A m, h, r, t : [seq |-> m, hash |-> h, lastRow |-> r, at |-> t] # None
  /\ \A m, r, h : [manifest |-> m, lastRow |-> r, previous |-> h] # None

\* Objects of a segment are replaced, and nothing else.
WithObjects(segs, i, objects) == [segs EXCEPT ![i] = [segs[i] EXCEPT !.objects = objects]]

\* Of the rest of the segments in hand nothing changes, and the segment keeps its number.
LEMMA ObjectsReplaced ==
  ASSUME SealedOK, NEW segs, NEW n, InHand(segs, n), NEW i \in 1..n, NEW objects,
         NEW bad, bad = WithObjects(segs, i, objects)
  PROVE  /\ DOMAIN bad = 1..n /\ NumberOf(bad[i]) = NumberOf(segs[i])
         /\ \A k \in 1..n : k # i => bad[k] = segs[k]
         /\ bad[i].manifest = segs[i].manifest /\ bad[i].objects = objects
<1>1. segs = [k \in 1..n |-> segs[k]]
  BY InHandSeq
<1>2. PICK s : s = segs[i] /\ s = [manifest |-> s.manifest, anchor |-> s.anchor,
                                   objects |-> s.objects]
  <2>1. PICK g : g = sealed[i]
    OBVIOUS
  <2>2. segs[i] = [manifest |-> g.manifest, anchor |-> g.anchor, objects |-> g.objects]
    BY <2>1 DEF InHand
  <2> QED
    BY <2>2
<1> DEFINE v == [s EXCEPT !.objects = objects]
<1>3. v.manifest = s.manifest /\ v.objects = objects
  BY <1>2
<1>4. bad = [segs EXCEPT ![i] = v]
  BY <1>1, <1>2 DEF WithObjects
<1> HIDE DEF v
<1>5. DOMAIN bad = 1..n /\ bad[i] = v /\ \A k \in 1..n : k # i => bad[k] = segs[k]
  BY <1>1, <1>4
<1> QED
  BY <1>2, <1>3, <1>5 DEF NumberOf

\* WV-3: an object withheld.
LEMMA CaseWithheld ==
  ASSUME SealedOK, NEW segs, NEW n, InHand(segs, n), NEW directory,
         OverallPass(segs, directory), NEW i \in 1..n
  PROVE  WV_3(segs, i)
<1>1. PICK a \in Nat \ {0}, m \in Nat \ {0} : Holds(segs[i], segs[i - 1], i, a, m)
  BY HeldSegment
<1>2. PICK o : o = segs[i].objects
  OBVIOUS
<1>3. PICK t : t = Tail(o)
  OBVIOUS
<1>4. PICK bad : bad = WithObjects(segs, i, t)
  OBVIOUS
<1>5. bad = [segs EXCEPT ![i].objects = Tail(@)]
  BY <1>2, <1>3, <1>4 DEF WithObjects
<1>6. /\ DOMAIN bad = 1..n /\ NumberOf(bad[i]) = NumberOf(segs[i])
      /\ \A k \in 1..n : k # i => bad[k] = segs[k]
      /\ bad[i].manifest = segs[i].manifest /\ bad[i].objects = t
  BY <1>4, ObjectsReplaced
<1>7. Len(t) = m - 1 /\ Len(segs[i].manifest.core.list) = m
  <2>1. /\ o \in Seq({ObjectOf(k) : k \in Nat}) /\ Len(o) = m
        /\ Len(segs[i].manifest.core.list) = m
    BY <1>1, <1>2 DEF Holds
  <2>2. o # <<>>
    BY <2>1
  <2> QED
    BY <1>3, <2>1, <2>2
<1>8. ~SegmentManifest(bad[i])
  BY <1>6, <1>7 DEF SegmentManifest, CoversExactly
<1>9. \A k \in 1..n : SegmentManifest(segs[k])
  BY InHandSeq, VerdictMeans
<1>10. {k \in DOMAIN bad : ~SegmentManifest(bad[k])} = {i}
  BY <1>6, <1>8, <1>9
<1>11. Integrity(bad).segment_manifest =
         {NumberOf(bad[k]) : k \in {l \in DOMAIN bad : ~SegmentManifest(bad[l])}}
  BY FaultsFound
<1>12. Integrity(bad).segment_manifest = {NumberOf(segs[i])}
  BY <1>6, <1>10, <1>11
<1> QED
  BY <1>12, <1>5 DEF WV_3

\* WV-4: a row that does not continue the one before it.
LEMMA CaseUnlinked ==
  ASSUME SealedOK, NEW segs, NEW n, InHand(segs, n), NEW directory,
         OverallPass(segs, directory), NEW i \in 1..n
  PROVE  WV_4(segs, i)
<1> SUFFICES ASSUME NEW j \in DOMAIN segs[i].objects, j > 1
             PROVE  Integrity([segs EXCEPT ![i].objects[j].prev = <<>>]).object_chain
                      = {NumberOf(segs[i])}
  BY DEF WV_4
<1>1. PICK a \in Nat \ {0}, m \in Nat \ {0} : Holds(segs[i], segs[i - 1], i, a, m)
  BY HeldSegment
<1>2. PICK o : o = segs[i].objects
  OBVIOUS
<1>3. o = [k \in 1..m |-> ObjectOf(a + k - 1)] /\ j \in 1..m /\ j - 1 \in 1..m /\ j # 1
  BY <1>1, <1>2 DEF Holds
<1>4. PICK bad : bad = [segs EXCEPT ![i].objects[j].prev = <<>>]
  OBVIOUS
<1> DEFINE u == [o[j] EXCEPT !.prev = <<>>]
           objects == [o EXCEPT ![j] = u]
<1>5. bad = WithObjects(segs, i, objects)
  BY <1>2, <1>4 DEF WithObjects
<1>6. u.prev = <<>>
  <2>1. o[j] = ObjectOf(a + j - 1)
    BY <1>3
  <2> QED
    BY <2>1 DEF ObjectOf
<1> HIDE DEF u
<1>7. j \in DOMAIN objects /\ objects[j] = u /\ objects[j - 1] = ObjectOf(a + (j - 1) - 1)
  <2>1. DOMAIN o = 1..m /\ o[j - 1] = ObjectOf(a + (j - 1) - 1) /\ j - 1 # j
    BY <1>3
  <2> QED
    BY <1>3, <2>1
<1> HIDE DEF objects
<1>8. /\ DOMAIN bad = 1..n /\ NumberOf(bad[i]) = NumberOf(segs[i])
      /\ \A k \in 1..n : k # i => bad[k] = segs[k]
      /\ bad[i].objects = objects
  BY <1>5, ObjectsReplaced
<1>9. objects[j - 1].row # <<>>
  <2>1. PICK x \in Nat \ {0} : x = a + (j - 1) - 1
    BY <1>3
  <2>2. objects[j - 1].row = RowUpTo(x)
    BY <1>7, <2>1 DEF ObjectOf
  <2>3. DOMAIN RowUpTo(x) = 1..x
    BY DEF RowUpTo
  <2>4. RowUpTo(x) # <<>>
    BY <2>3, SeqIsNotEmpty
  <2> QED
    BY <2>2, <2>4
<1>10. ~ObjectChain(bad[i])
  <2>1. ~LinkOk(bad[i], j)
    BY <1>3, <1>6, <1>7, <1>8, <1>9 DEF LinkOk
  <2> QED
    BY <1>7, <1>8, <2>1 DEF ObjectChain
<1>11. \A k \in 1..n : ObjectChain(segs[k])
  BY InHandSeq, VerdictMeans
<1>12. {k \in DOMAIN bad : ~ObjectChain(bad[k])} = {i}
  BY <1>8, <1>10, <1>11
<1>13. Integrity(bad).object_chain =
         {NumberOf(bad[k]) : k \in {l \in DOMAIN bad : ~ObjectChain(bad[l])}}
  BY FaultsFound
<1> QED
  BY <1>4, <1>8, <1>12, <1>13

\* r is the record of a head that key signed.
Attests(r, key, head, directory) ==
  /\ r = [head |-> head, key |-> key, imprint |-> head,
          signature |-> [key |-> key, over |-> head]]
  /\ \E m, h, l, t : head = [seq |-> m, hash |-> h, lastRow |-> l, at |-> t]
  /\ key \in Keys /\ directory[key] # None

\* The anchor record of a segment that passes is one that was made for it.
LEMMA HeldAnchor ==
  ASSUME SealedOK, NEW segs, NEW n, InHand(segs, n), NEW directory,
         OverallPass(segs, directory), NEW i \in 1..n
  PROVE  /\ segs[i] = [manifest |-> segs[i].manifest, anchor |-> segs[i].anchor,
                       objects |-> segs[i].objects]
         /\ \E key, head : Attests(segs[i].anchor, key, head, directory)
<1>1. i \in 1..Len(sealed)
  BY InHandSeq
<1>2. PICK a \in Nat, b \in Nat : SealedAs(i, a, b)
  BY <1>1 DEF SealedOK
<1>3. PICK g : g = sealed[i]
  OBVIOUS
<1>4. segs[i] = [manifest |-> g.manifest, anchor |-> g.anchor, objects |-> g.objects]
  BY <1>3 DEF InHand
<1>5. HsmSignature(segs[i], directory)
  BY InHandSeq, VerdictMeans
<1>6. segs[i].anchor = g.anchor /\ g.anchor # None
  BY <1>4, <1>5 DEF HsmSignature
<1>7. PICK key, at : g.anchor = AnchorOf(g.manifest, key, at)
  BY <1>2, <1>3, <1>6 DEF SealedAs, SegmentIs
<1>8. PICK head : head = [seq |-> g.manifest.core.seq, hash |-> SegmentHashOf(g.manifest),
                          lastRow |-> g.manifest.core.lastRow, at |-> at]
  OBVIOUS
<1>9. g.anchor = [head |-> head, key |-> key, imprint |-> head,
                  signature |-> [key |-> key, over |-> head]]
  BY <1>7, <1>8 DEF AnchorOf
<1>10. key \in Keys /\ directory[key] # None
  <2>1. segs[i].anchor.key = key
    BY <1>6, <1>9
  <2> QED
    BY <1>5, <2>1, KeyRegistryAssumption DEF HsmSignature, KeyAccepted
<1>11. segs[i] = [manifest |-> segs[i].manifest, anchor |-> segs[i].anchor,
                  objects |-> segs[i].objects]
  BY <1>4
<1>12. \E m, h, r, t : head = [seq |-> m, hash |-> h, lastRow |-> r, at |-> t]
  BY <1>8
<1>13. segs[i].anchor = [head |-> head, key |-> key, imprint |-> head,
                         signature |-> [key |-> key, over |-> head]]
  BY <1>6, <1>9
<1> QED
  BY <1>10, <1>11, <1>12, <1>13 DEF Attests

\* The anchor record of a segment is replaced, and nothing else.
WithAnchor(segs, i, r) == [segs EXCEPT ![i] = [segs[i] EXCEPT !.anchor = r]]

\* The segments in hand, and the number of this one, do not change.
LEMMA AnchorReplaced ==
  ASSUME SealedOK, NEW segs, NEW n, InHand(segs, n), NEW i \in 1..n, NEW r,
         NEW bad, bad = WithAnchor(segs, i, r)
  PROVE  /\ DOMAIN bad = 1..n /\ NumberOf(bad[i]) = NumberOf(segs[i])
         /\ \A k \in 1..n : k # i => bad[k] = segs[k]
         /\ bad[i].anchor = r
<1>1. segs = [k \in 1..n |-> segs[k]]
  BY InHandSeq
<1>2. PICK s : s = segs[i] /\ s = [manifest |-> s.manifest, anchor |-> s.anchor,
                                   objects |-> s.objects]
  <2>1. PICK g : g = sealed[i]
    OBVIOUS
  <2>2. segs[i] = [manifest |-> g.manifest, anchor |-> g.anchor, objects |-> g.objects]
    BY <2>1 DEF InHand
  <2> QED
    BY <2>2
<1> DEFINE v == [s EXCEPT !.anchor = r]
<1>3. v.manifest = s.manifest /\ v.anchor = r
  BY <1>2
<1>4. bad = [segs EXCEPT ![i] = v]
  BY <1>1, <1>2 DEF WithAnchor
<1> HIDE DEF v
<1>5. DOMAIN bad = 1..n /\ bad[i] = v /\ \A k \in 1..n : k # i => bad[k] = segs[k]
  BY <1>1, <1>4
<1> QED
  BY <1>2, <1>3, <1>5 DEF NumberOf

\* WV-5: a signature that is not the key's, and keys nobody published.
LEMMA CaseForged ==
  ASSUME NoneIsNoHash, SealedOK, NEW segs, NEW n, InHand(segs, n), NEW directory,
         DOMAIN directory = Keys, OverallPass(segs, directory), NEW i \in 1..n
  PROVE  WV_5(segs, directory, i)
<1>1. segs = [k \in 1..n |-> segs[k]] /\ DOMAIN segs = 1..n
  BY InHandSeq
<1>2. PICK s : s = segs[i]
  OBVIOUS
<1>3. s = [manifest |-> s.manifest, anchor |-> s.anchor, objects |-> s.objects]
  BY <1>2, HeldAnchor
<1>4. PICK key, head : Attests(s.anchor, key, head, directory)
  BY <1>2, HeldAnchor
<1>5. PICK bad : bad = [segs EXCEPT ![i].anchor.signature.key = None]
  OBVIOUS
<1> DEFINE r == [s.anchor EXCEPT !.signature.key = None]
<1>6. bad = WithAnchor(segs, i, r)
  BY <1>2, <1>5 DEF WithAnchor
<1>7. r.key = key /\ r.signature.key = None
  BY <1>4 DEF Attests
<1> HIDE DEF r
<1>8. /\ DOMAIN bad = 1..n /\ NumberOf(bad[i]) = NumberOf(segs[i])
      /\ \A k \in 1..n : k # i => bad[k] = segs[k]
      /\ bad[i].anchor = r
  BY <1>6, AnchorReplaced
<1>9. ~HsmSignature(bad[i], directory)
  <2>1. r.signature # [key |-> r.key, over |-> r.head]
    BY <1>4, <1>7 DEF NoneIsNoHash, Attests
  <2> QED
    BY <1>8, <2>1 DEF HsmSignature, Verifies
<1>10. \A k \in 1..n : HsmSignature(segs[k], directory)
  BY <1>1, VerdictMeans
<1>11. {k \in DOMAIN bad : ~HsmSignature(bad[k], directory)} = {i}
  BY <1>8, <1>9, <1>10
<1>12. Attestation(bad, directory).hsm_signature = {NumberOf(segs[i])}
  <2>1. Attestation(bad, directory).hsm_signature =
           {NumberOf(bad[k]) : k \in {l \in DOMAIN bad : ~HsmSignature(bad[l], directory)}}
    BY FaultsFound
  <2> QED
    BY <1>8, <1>11, <2>1
<1>13. PICK empty : empty = [k \in DOMAIN directory |-> None]
  OBVIOUS
<1>14. ASSUME NEW j \in DOMAIN segs PROVE ~HsmSignature(segs[j], empty)
  <2>1. PICK k, h : Attests(segs[j].anchor, k, h, directory)
    BY <1>1, HeldAnchor
  <2>2. segs[j].anchor.key = k /\ empty[k] = None
    BY <1>13, <2>1 DEF Attests
  <2> QED
    BY <2>2 DEF HsmSignature, KeyAccepted
<1>15. {j \in DOMAIN segs : ~HsmSignature(segs[j], empty)} = DOMAIN segs
  BY <1>14
<1>16. Attestation(segs, empty).hsm_signature = Numbers(segs)
  <2>1. Attestation(segs, empty).hsm_signature =
           {NumberOf(segs[k]) : k \in {l \in DOMAIN segs : ~HsmSignature(segs[l], empty)}}
    BY FaultsFound
  <2> QED
    BY <1>15, <2>1 DEF Numbers
<1> QED
  BY <1>5, <1>12, <1>13, <1>16 DEF WV_5

\* WV-6: a token of something else.
LEMMA CaseToken ==
  ASSUME NoneIsNoHash, SealedOK, NEW segs, NEW n, InHand(segs, n), NEW directory,
         OverallPass(segs, directory), NEW i \in 1..n
  PROVE  WV_6(segs, directory, i)
<1>1. segs = [k \in 1..n |-> segs[k]] /\ DOMAIN segs = 1..n
  BY InHandSeq
<1>2. PICK s : s = segs[i]
  OBVIOUS
<1>3. s = [manifest |-> s.manifest, anchor |-> s.anchor, objects |-> s.objects]
  BY <1>2, HeldAnchor
<1>4. PICK key, head : Attests(s.anchor, key, head, directory)
  BY <1>2, HeldAnchor
<1>5. PICK bad : bad = [segs EXCEPT ![i].anchor.imprint = None]
  OBVIOUS
<1> DEFINE r == [s.anchor EXCEPT !.imprint = None]
<1>6. bad = WithAnchor(segs, i, r)
  BY <1>2, <1>5 DEF WithAnchor
<1>7. r.head = head /\ r.imprint = None
  BY <1>4 DEF Attests
<1> HIDE DEF r
<1>8. /\ DOMAIN bad = 1..n /\ NumberOf(bad[i]) = NumberOf(segs[i])
      /\ \A k \in 1..n : k # i => bad[k] = segs[k]
      /\ bad[i].anchor = r
  BY <1>6, AnchorReplaced
<1>9. ~AnchorToken(bad[i])
  <2>1. head # None
    BY <1>4 DEF NoneIsNoHash, Attests
  <2> QED
    BY <1>7, <1>8, <2>1 DEF AnchorToken
<1>10. \A k \in 1..n : AnchorToken(segs[k])
  BY <1>1, VerdictMeans
<1>11. {k \in DOMAIN bad : ~AnchorToken(bad[k])} = {i}
  BY <1>8, <1>9, <1>10
<1>12. Attestation(bad, directory).anchor_token =
         {NumberOf(bad[k]) : k \in {l \in DOMAIN bad : ~AnchorToken(bad[l])}}
  BY FaultsFound
<1> QED
  BY <1>5, <1>8, <1>11, <1>12 DEF WV_6

\* WV-11: a wrong predecessor, in a manifest that is consistent.
LEMMA CaseRelinked ==
  ASSUME NoneIsNoHash, SealedOK, NEW segs, NEW n, InHand(segs, n), NEW directory,
         OverallPass(segs, directory), NEW i \in 1..n
  PROVE  WV_11(segs, i)
<1>1. segs = [k \in 1..n |-> segs[k]] /\ DOMAIN segs = 1..n /\ n \in Nat
  BY InHandSeq
<1>2. PICK a \in Nat \ {0}, m \in Nat \ {0} : Holds(segs[i], segs[i - 1], i, a, m)
  BY HeldSegment
<1>3. PICK s, c, d : s = segs[i] /\ c = s.manifest.core /\ d = SegmentHashOf(segs[i - 1].manifest)
  OBVIOUS
<1>4. /\ s = [manifest |-> s.manifest, anchor |-> s.anchor, objects |-> s.objects]
      /\ s.manifest = [core |-> c, hash |-> c] /\ CoreShape(c) /\ c.seq = i - 1
      /\ c.link = IF i = 1 THEN None ELSE [seq |-> i - 2, hash |-> d]
  BY <1>2, <1>3 DEF Holds
<1>5. CASE i = 1
  BY <1>3, <1>4, <1>5 DEF WV_11, NumberOf
<1>6. CASE i # 1
  <2>1. NumberOf(segs[i]) # 0
    BY <1>1, <1>3, <1>4, <1>6 DEF NumberOf
  <2>2. PICK bad : bad = [segs EXCEPT ![i].manifest = Relinked(@)]
    OBVIOUS
  <2>3. PICK l : l = c.link /\ l = [seq |-> i - 2, hash |-> d]
    BY <1>4, <1>6
  <2> DEFINE core == [c EXCEPT !.link = [l EXCEPT !.hash = Genesis]]
             r == [core |-> core, hash |-> core]
             v == [s EXCEPT !.manifest = r]
  <2>4. bad = [segs EXCEPT ![i] = v]
    BY <1>3, <2>2, <2>3 DEF Relinked
  <2>5. /\ core.seq = c.seq /\ core.list = c.list /\ core.hashes = c.hashes
        /\ core.lastRow = c.lastRow /\ core.link.hash = Genesis
    <3>1. PICK q : q = [l EXCEPT !.hash = Genesis]
      OBVIOUS
    <3>2. q.hash = Genesis
      BY <2>3, <3>1
    <3>3. core = [c EXCEPT !.link = q]
      BY <3>1
    <3> HIDE DEF core
    <3>4. /\ core.seq = c.seq /\ core.list = c.list /\ core.hashes = c.hashes
          /\ core.lastRow = c.lastRow /\ core.link = q
      BY <1>4, <3>3 DEF CoreShape
    <3> QED
      BY <3>2, <3>4
  <2> HIDE DEF core
  <2>6. v.manifest = r /\ v.objects = s.objects /\ r.core = core /\ r.hash = core
    BY <1>4
  <2> HIDE DEF r, v
  <2>7. DOMAIN bad = 1..n /\ bad[i] = v /\ \A k \in 1..n : k # i => bad[k] = segs[k]
    BY <1>1, <2>4
  <2>8. NumberOf(v) = NumberOf(s) /\ NumberOf(v) # 0
    BY <1>3, <2>1, <2>5, <2>6 DEF NumberOf
  <2>9. ~CrossSegment(bad, bad[i])
    <3> SUFFICES ASSUME NEW p, Continues(v, p) PROVE FALSE
      BY <2>7, <2>8 DEF CrossSegment
    <3>1. PICK e : e = SegmentHashOf(p.manifest)
      OBVIOUS
    <3>2. e # None
      BY <3>1 DEF SegmentHashOf, NoneIsNoHash
    <3>3. core.link = [seq |-> NumberOf(p), hash |-> e]
      BY <2>6, <3>1 DEF Continues
    <3>4. core.link.hash = e
      BY <3>3
    <3> QED
      BY <2>5, <3>2, <3>4 DEF Genesis
  <2>10. NumberOf(segs[i]) \in Integrity(bad).cross_segment_continuity
    <3>1. Integrity(bad).cross_segment_continuity =
            {NumberOf(bad[k]) : k \in {j \in DOMAIN bad : ~CrossSegment(bad, bad[j])}}
      BY FaultsFound
    <3>2. i \in {j \in DOMAIN bad : ~CrossSegment(bad, bad[j])}
      BY <2>7, <2>9
    <3> QED
      BY <1>3, <2>7, <2>8, <3>1, <3>2
  <2>11. \A k \in 1..n : SegmentManifest(segs[k])
    BY <1>1, VerdictMeans
  <2>12. SegmentManifest(v)
    <3>1. SegmentManifest(s)
      BY <1>3, <2>11
    <3>2. CoversExactly(v)
      <4>1. CoversExactly(s)
        BY <3>1 DEF SegmentManifest
      <4>2. v.manifest.core.list = c.list /\ v.manifest.core.hashes = c.hashes
        BY <2>5, <2>6
      <4>3. \A k : ListsMatch(s, k) => ListsMatch(v, k)
        BY <1>3, <2>6, <4>2 DEF ListsMatch
      <4> QED
        BY <1>3, <2>6, <4>1, <4>2, <4>3 DEF CoversExactly
    <3> QED
      BY <1>3, <2>5, <2>6, <3>1, <3>2 DEF SegmentManifest
  <2>13. {k \in DOMAIN bad : ~SegmentManifest(bad[k])} = {}
    BY <2>7, <2>11, <2>12
  <2>14. Integrity(bad).segment_manifest =
           {NumberOf(bad[k]) : k \in {j \in DOMAIN bad : ~SegmentManifest(bad[j])}}
    BY FaultsFound
  <2>15. Integrity(bad).segment_manifest = {}
    BY <2>13, <2>14
  <2> QED
    BY <2>1, <2>2, <2>10, <2>15 DEF WV_11
<1> QED
  BY <1>5, <1>6

\* The rows of the projection are those of events in evidence.
LEMMA HeldRows ==
  ASSUME SealedOK, NEW segs, NEW n, InHand(segs, n), NEW r \in Rows(segs)
  PROVE  \E x \in Nat \ {0} : r = [id |-> x, row |-> RowUpTo(x)]
<1>1. DOMAIN segs = 1..n
  BY InHandSeq
<1> DEFINE of(i) == {[id |-> segs[i].objects[j].content.id, row |-> segs[i].objects[j].row] :
                       j \in DOMAIN segs[i].objects}
<1>2. r \in UNION {of(i) : i \in DOMAIN segs}
  BY DEF Rows
<1>3. PICK i \in 1..n : r \in of(i)
  <2> HIDE DEF of
  <2> QED
    BY <1>1, <1>2
<1>4. PICK j \in DOMAIN segs[i].objects :
        r = [id |-> segs[i].objects[j].content.id, row |-> segs[i].objects[j].row]
  BY <1>3
<1> HIDE DEF of
<1>5. PICK a \in Nat \ {0}, m \in Nat \ {0} : Holds(segs[i], segs[i - 1], i, a, m)
  BY HeldSegment
<1>6. PICK x : x = a + j - 1
  OBVIOUS
<1>7. segs[i].objects[j] = ObjectOf(x) /\ x \in Nat \ {0}
  <2>1. segs[i].objects = [k \in 1..m |-> ObjectOf(a + k - 1)]
    BY <1>5 DEF Holds
  <2>2. j \in 1..m
    BY <2>1
  <2> QED
    BY <1>6, <2>1, <2>2
<1>8. PICK o : o = ObjectOf(x)
  OBVIOUS
<1>9. o.content.id = x /\ o.row = RowUpTo(x)
  BY <1>8 DEF ObjectOf
<1> QED
  BY <1>4, <1>7, <1>8, <1>9

\* A row hash chains at least its own event.
LEMMA RowIsNotEmpty ==
  ASSUME NEW x \in Nat \ {0}
  PROVE  RowUpTo(x) # <<>>
<1>1. DOMAIN RowUpTo(x) = 1..x
  BY DEF RowUpTo
<1> QED
  BY <1>1, SeqIsNotEmpty

\* WV-7: a projection that drifted, lacks a row or has one more.
LEMMA CaseProjected ==
  ASSUME SealedOK, NEW segs, NEW n, InHand(segs, n), NEW directory,
         OverallPass(segs, directory)
  PROVE  WV_7(segs, directory)
<1>1. PICK R : R = Rows(segs)
  OBVIOUS
<1>2. ASSUME NEW rows
      PROVE  ProjectionConsistency(segs, rows) = {r.id : r \in (rows \ R) \cup (R \ rows)}
  BY <1>1 DEF ProjectionConsistency
<1>3. ProjectionConsistency(segs, R) = {}
  BY <1>2
<1>4. ASSUME NEW r \in R
      PROVE  /\ ProjectionConsistency(segs, (R \ {r}) \cup {[r EXCEPT !.row = <<>>]}) = {r.id}
             /\ ProjectionConsistency(segs, R \ {r}) = {r.id}
  <2>1. PICK x \in Nat \ {0} : r = [id |-> x, row |-> RowUpTo(x)]
    BY <1>1, HeldRows
  <2>2. PICK t : t = [r EXCEPT !.row = <<>>]
    OBVIOUS
  <2>3. t = [id |-> x, row |-> <<>>] /\ t.id = x /\ t.row = <<>> /\ r.id = x
    BY <2>1, <2>2
  <2>4. t \notin R
    <3> SUFFICES ASSUME t \in R PROVE FALSE
      OBVIOUS
    <3>1. PICK y \in Nat \ {0} : t = [id |-> y, row |-> RowUpTo(y)]
      BY <1>1, HeldRows
    <3>2. t.row = RowUpTo(y)
      BY <3>1
    <3> QED
      BY <2>3, <3>2, RowIsNotEmpty
  <2>5. PICK drifted, lacking : drifted = (R \ {r}) \cup {t} /\ lacking = R \ {r}
    OBVIOUS
  <2>6. (drifted \ R) \cup (R \ drifted) = {r, t} /\ (lacking \ R) \cup (R \ lacking) = {r}
    BY <1>4, <2>4, <2>5
  <2>7. ProjectionConsistency(segs, drifted) = {e.id : e \in {r, t}}
    BY <1>2, <2>6
  <2>8. ProjectionConsistency(segs, lacking) = {e.id : e \in {r}}
    BY <1>2, <2>6
  <2>9. {e.id : e \in {r, t}} = {x} /\ {e.id : e \in {r}} = {x}
    BY <2>3
  <2> QED
    BY <2>2, <2>3, <2>5, <2>7, <2>8, <2>9
<1>5. ProjectionConsistency(segs, R \cup {[id |-> 0, row |-> <<>>]}) = {0}
  <2>1. PICK t : t = [id |-> 0, row |-> <<>>]
    OBVIOUS
  <2>2. t.id = 0
    BY <2>1
  <2>3. t \notin R
    <3> SUFFICES ASSUME t \in R PROVE FALSE
      OBVIOUS
    <3>1. PICK y \in Nat \ {0} : t = [id |-> y, row |-> RowUpTo(y)]
      BY <1>1, HeldRows
    <3>2. t.id = y
      BY <3>1
    <3> QED
      BY <2>2, <3>2
  <2>4. PICK rows : rows = R \cup {t}
    OBVIOUS
  <2>5. (rows \ R) \cup (R \ rows) = {t}
    BY <2>3, <2>4
  <2>6. ProjectionConsistency(segs, rows) = {e.id : e \in {t}}
    BY <1>2, <2>5
  <2> QED
    BY <2>1, <2>2, <2>4, <2>6
<1> QED
  BY <1>1, <1>3, <1>4, <1>5 DEF WV_7

\* Their sequences are contiguous from genesis.
LEMMA HeldNumbers ==
  ASSUME SealedOK, NEW segs, NEW n, InHand(segs, n)
  PROVE  \A k \in 1..n : NumberOf(segs[k]) = k - 1
<1> SUFFICES ASSUME NEW k \in 1..n PROVE NumberOf(segs[k]) = k - 1
  OBVIOUS
<1>1. PICK a \in Nat \ {0}, m \in Nat \ {0} : Holds(segs[k], segs[k - 1], k, a, m)
  BY HeldSegment
<1> QED
  BY <1>1 DEF Holds, NumberOf

\* t is the part of s with the l elements from m on.
IsPart(t, s, m, l, S) ==
  t \in Seq(S) /\ Len(t) = l /\ \A k \in 1..l : t[k] = s[m + k - 1]

\* What SubSeq returns.
LEMMA SubSeqOf ==
  ASSUME NEW S, NEW s, NEW m \in Nat \ {0}, NEW n \in Nat, m <= n + 1,
         \A k \in m..n : s[k] \in S,
         NEW t, t = SubSeq(s, m, n), NEW l, l = n - m + 1
  PROVE  IsPart(t, s, m, l, S)
<1>1. SubSeq(s, m, n) \in Seq(S)
  BY SubSeqProperties
<1>2. Len(SubSeq(s, m, n)) = n - m + 1
  BY SubSeqProperties
<1>3. \A k \in 1..(n - m + 1) : SubSeq(s, m, n)[k] = s[m + k - 1]
  BY SubSeqProperties
<1> QED
  BY <1>1, <1>2, <1>3 DEF IsPart

\* The segments but one: those before it, then those after it.
LEMMA WithoutOne ==
  ASSUME NEW segs, NEW n \in Nat, segs = [k \in 1..n |-> segs[k]], NEW i \in 1..n
  PROVE  /\ DOMAIN Without(segs, i) = 1..(n - 1)
         /\ \A k \in 1..(n - 1) :
              Without(segs, i)[k] = IF k < i THEN segs[k] ELSE segs[k + 1]
<1>1. IsSeq(segs) /\ Len(segs) = n
  BY FunIsSeq
<1>2. PICK S : S = Members(segs)
  OBVIOUS
<1>3. \A k \in 1..n : segs[k] \in S
  BY <1>1, <1>2 DEF Members
<1>4. PICK l, r : l = i - 1 /\ r = i + 1
  OBVIOUS
<1>5. l \in 0..(n - 1) /\ r \in Nat /\ i = l + 1 /\ i \in Nat
  BY <1>4
<1>6. PICK x, y : x = SubSeq(segs, 1, l) /\ y = SubSeq(segs, r, n)
  OBVIOUS
<1>7. x \in Seq(S) /\ Len(x) = l /\ \A k \in 1..l : x[k] = segs[k]
  <2>1. \A k \in 1..l : segs[k] \in S
    BY <1>3, <1>5
  <2>2. l \in Nat /\ 1 \in Nat \ {0} /\ 1 <= l + 1 /\ l = l - 1 + 1
    BY <1>5
  <2>3. IsPart(x, segs, 1, l, S)
    BY <1>6, <2>1, <2>2, SubSeqOf
  <2>4. \A k \in 1..l : 1 + k - 1 = k
    OBVIOUS
  <2> QED
    BY <2>2, <2>3, <2>4 DEF IsPart
<1>8. y \in Seq(S) /\ Len(y) = n - i /\ \A k \in 1..(n - i) : y[k] = segs[k + i]
  <2>1. \A k \in r..n : segs[k] \in S
    BY <1>3, <1>4, <1>5
  <2>2. PICK h : h = n - i
    OBVIOUS
  <2>3. r \in Nat \ {0} /\ r <= n + 1 /\ h = n - r + 1 /\ n \in Nat
    BY <1>4, <1>5, <2>2
  <2>4. IsPart(y, segs, r, h, S)
    BY <1>6, <2>1, <2>3, SubSeqOf
  <2>5. \A k \in 1..h : r + k - 1 = k + i
    BY <1>4, <1>5, <2>2
  <2> QED
    BY <2>4, <2>5, <2>2 DEF IsPart
<1>9. PICK w : w = x \o y
  OBVIOUS
<1>10. /\ w \in Seq(S) /\ Len(w) = n - 1
      /\ \A k \in 1..(n - 1) : w[k] = IF k <= l THEN x[k] ELSE y[k - l]
  <2>1. /\ w \in Seq(S) /\ Len(w) = Len(x) + Len(y)
        /\ \A k \in 1..(Len(x) + Len(y)) : w[k] = IF k <= Len(x) THEN x[k] ELSE y[k - Len(x)]
    BY <1>9, <1>7, <1>8, ConcatProperties
  <2>2. Len(x) + Len(y) = n - 1
    BY <1>5, <1>7, <1>8
  <2> QED
    BY <1>7, <2>1, <2>2
<1>11. ASSUME NEW k \in 1..(n - 1) PROVE w[k] = IF k < i THEN segs[k] ELSE segs[k + 1]
  <2>1. CASE k < i
    <3>1. k <= l /\ k \in 1..l
      BY <1>5, <2>1
    <3> QED
      BY <1>10, <1>7, <2>1, <3>1
  <2>2. CASE ~(k < i)
    <3>1. ~(k <= l)
      BY <1>5, <2>2
    <3>2. PICK q \in 1..(n - i) : q = k - l
      BY <1>5, <2>2
    <3>3. q + i = k + 1
      BY <1>5, <3>2
    <3>4. w[k] = y[q]
      BY <1>10, <3>1, <3>2
    <3>5. y[q] = segs[q + i]
      BY <1>8
    <3> QED
      BY <2>2, <3>3, <3>4, <3>5
  <2> QED
    BY <2>1, <2>2
<1>12. w = Without(segs, i)
  BY <1>1, <1>4, <1>9, <1>6 DEF Without
<1>13. DOMAIN w = 1..(n - 1)
  BY <1>10
<1> QED
  BY <1>11, <1>12, <1>13

\* WV-9: a segment of the scope that is not there.
LEMMA CaseMissing ==
  ASSUME SealedOK, NEW segs, NEW n, InHand(segs, n), NEW i \in 1..n
  PROVE  WV_9(segs, i)
<1>1. segs = [k \in 1..n |-> segs[k]] /\ DOMAIN segs = 1..n /\ n \in Nat
  BY InHandSeq
<1>2. \A k \in 1..n : NumberOf(segs[k]) = k - 1
  BY HeldNumbers
<1>3. PICK w : w = Without(segs, i)
  OBVIOUS
<1>4. /\ DOMAIN w = 1..(n - 1)
      /\ \A k \in 1..(n - 1) : w[k] = IF k < i THEN segs[k] ELSE segs[k + 1]
  BY <1>1, <1>3, WithoutOne
<1>5. \A k \in 1..(n - 1) : NumberOf(w[k]) = IF k < i THEN k - 1 ELSE k
  <2> SUFFICES ASSUME NEW k \in 1..(n - 1)
               PROVE  NumberOf(w[k]) = IF k < i THEN k - 1 ELSE k
    OBVIOUS
  <2>1. k \in 1..n /\ k + 1 \in 1..n /\ k + 1 - 1 = k
    BY <1>1
  <2>2. CASE k < i
    BY <1>2, <1>4, <2>1, <2>2
  <2>3. CASE ~(k < i)
    <3>1. w[k] = segs[k + 1]
      BY <1>4, <2>3
    <3> QED
      BY <1>2, <2>1, <2>3, <3>1
  <2> QED
    BY <2>2, <2>3
<1>6. PICK scope : scope = Numbers(segs)
  OBVIOUS
<1>7. \A m : m \in scope <=> m \in 0..(n - 1)
  <2>1. scope = {NumberOf(segs[k]) : k \in 1..n}
    BY <1>1, <1>6 DEF Numbers
  <2>2. \A m \in 0..(n - 1) : m + 1 \in 1..n /\ m = NumberOf(segs[m + 1])
    BY <1>1, <1>2
  <2>3. \A k \in 1..n : NumberOf(segs[k]) \in 0..(n - 1)
    BY <1>1, <1>2
  <2> QED
    BY <2>1, <2>2, <2>3
<1>8. Numbers(w) \ scope = {}
  <2>1. Numbers(w) = {NumberOf(w[k]) : k \in 1..(n - 1)}
    BY <1>4 DEF Numbers
  <2>2. \A k \in 1..(n - 1) : NumberOf(w[k]) \in 0..(n - 1)
    BY <1>1, <1>5
  <2> QED
    BY <1>7, <2>1, <2>2
<1>9. ASSUME NEW m \in 0..(n - 1), m # i - 1
      PROVE  Cardinality({k \in DOMAIN w : NumberOf(w[k]) = m}) = 1
  <2>1. PICK T : T = {k \in DOMAIN w : NumberOf(w[k]) = m}
    OBVIOUS
  <2>2. \A k : k \in T <=> k \in 1..(n - 1) /\ (IF k < i THEN k - 1 ELSE k) = m
    BY <1>4, <1>5, <2>1
  <2>3. CASE m < i - 1
    <3>1. PICK x \in 1..(n - 1) : x = m + 1 /\ x < i
      BY <1>1, <2>3
    <3>2. x \in T
      BY <2>2, <3>1
    <3>3. \A k \in T : k = x
      BY <1>1, <2>2, <2>3, <3>1
    <3>4. T = {x}
      BY <3>2, <3>3
    <3> QED
      BY <2>1, <3>4, FS_Singleton
  <2>4. CASE m > i - 1
    <3>1. m \in 1..(n - 1) /\ ~(m < i)
      BY <1>1, <2>4
    <3>2. m \in T
      BY <2>2, <3>1
    <3>3. \A k \in T : k = m
      BY <1>1, <2>2, <2>4, <3>1
    <3>4. T = {m}
      BY <3>2, <3>3
    <3> QED
      BY <2>1, <3>4, FS_Singleton
  <2> QED
    BY <1>1, <1>9, <2>3, <2>4
<1>10. Cardinality({k \in DOMAIN w : NumberOf(w[k]) = i - 1}) # 1
  <2>1. {k \in DOMAIN w : NumberOf(w[k]) = i - 1} = {}
    BY <1>1, <1>4, <1>5
  <2> QED
    BY <2>1, FS_EmptySet
<1>11. {m \in scope : Cardinality({k \in DOMAIN w : NumberOf(w[k]) = m}) # 1} = {i - 1}
  <2>1. i - 1 \in 0..(n - 1)
    BY <1>1
  <2> QED
    BY <1>7, <1>9, <1>10, <2>1
<1>12. MissingIn(scope, w) = {i - 1}
  BY <1>8, <1>11 DEF MissingIn
<1> QED
  BY <1>2, <1>3, <1>6, <1>12 DEF WV_9

\* WV-10: adjacent segments that meet within one source offset, whatever the verdict.
LEMMA CaseOverlap ==
  ASSUME SealedOK, NEW segs, NEW n, InHand(segs, n)
  PROVE  WV_10(segs)
<1>1. DOMAIN segs = 1..n /\ n \in Nat
  BY InHandSeq
<1> SUFFICES ASSUME NEW i \in 1..n, i > 1,
                    OffsetOf[segs[i].objects[1].content.id] =
                      OffsetOf[segs[i - 1].objects[Len(segs[i - 1].objects)].content.id]
             PROVE  NumberOf(segs[i]) \in MissingEvents(segs)
  BY <1>1 DEF WV_10
<1>2. i - 1 \in 1..n
  BY <1>1
<1>3. PICK a \in Nat \ {0}, m \in Nat \ {0} : Holds(segs[i], segs[i - 1], i, a, m)
  BY HeldSegment
<1>4. PICK h : h = i - 1
  OBVIOUS
<1>5. PICK d \in Nat \ {0}, l \in Nat \ {0} : Holds(segs[h], segs[h - 1], h, d, l)
  BY <1>2, <1>4, HeldSegment
<1>6. PICK s, p : s = segs[i] /\ p = segs[h]
  OBVIOUS
<1>7. s.objects[1].content.id = a
  <2>1. s.objects = [k \in 1..m |-> ObjectOf(a + k - 1)]
    BY <1>3, <1>6 DEF Holds
  <2>2. s.objects[1] = ObjectOf(a + 1 - 1) /\ a + 1 - 1 = a
    BY <2>1
  <2> QED
    BY <2>2 DEF ObjectOf
<1>8. p.objects[Len(p.objects)].content.id = d + l - 1
  <2>1. p.objects = [k \in 1..l |-> ObjectOf(d + k - 1)] /\ Len(p.objects) = l
    BY <1>5, <1>6 DEF Holds
  <2>2. l \in 1..l
    OBVIOUS
  <2>3. p.objects[l] = ObjectOf(d + l - 1)
    BY <2>1, <2>2
  <2> QED
    BY <2>1, <2>3 DEF ObjectOf
<1>9. /\ s.manifest.core.offsets.first = OffsetOf[a]
      /\ p.manifest.core.offsets.last = OffsetOf[d + l - 1]
  BY <1>3, <1>5, <1>6 DEF Holds
<1>10. Overlaps(s, p)
  BY <1>4, <1>6, <1>7, <1>8, <1>9 DEF Overlaps
<1>11. PICK t : t = Sorted(segs)
  OBVIOUS
<1>12. DOMAIN t = 1..n /\ \A k \in 1..n : t[k] = segs[k]
  BY <1>1, <1>11, HeldNumbers, SortedAlready
<1>13. i \in {j \in DOMAIN t : ~Corroborated(t[j]) \/ (j > 1 /\ Overlaps(t[j], t[j - 1]))}
  BY <1>2, <1>4, <1>6, <1>10, <1>12
<1>14. MissingEvents(segs) = {NumberOf(t[k]) : k \in {j \in DOMAIN t :
         ~Corroborated(t[j]) \/ (j > 1 /\ Overlaps(t[j], t[j - 1]))}}
  BY <1>11 DEF MissingEvents
<1> QED
  BY <1>12, <1>13, <1>14

\* All the cases, of segments that pass.
LEMMA CasesHold ==
  ASSUME NoneIsNoHash, IInv, SoundInv, GenuineInv
  PROVE  VerifierCasesHold
<1> SUFFICES ASSUME package # None, damage = 0, trust # None
             PROVE  /\ WV_10(Segments)
                    /\ Passes =>
                         /\ WV_1(Segments) /\ WV_7(Segments, trust["signing"])
                         /\ WV_12(trust["export"])
                         /\ \A i \in DOMAIN Segments :
                              /\ WV_2(Segments, trust["signing"], i) /\ WV_3(Segments, i)
                              /\ WV_4(Segments, i) /\ WV_5(Segments, trust["signing"], i)
                              /\ WV_6(Segments, trust["signing"], i) /\ WV_9(Segments, i)
                              /\ WV_11(Segments, i) /\ WV_14(Segments, trust["signing"], i)
  BY DEF VerifierCasesHold
<1>1. PICK segs, keys, n : segs = Segments /\ keys = trust["signing"] /\ n = Len(package.parts)
  OBVIOUS
<1>2. InHand(segs, n) /\ SealedOK
  BY <1>1, GenuineHand
<1>3. WV_10(segs)
  BY <1>2, CaseOverlap
<1>4. ASSUME Passes
      PROVE  /\ WV_1(segs) /\ WV_7(segs, keys) /\ WV_12(trust["export"])
             /\ \A i \in DOMAIN segs :
                  /\ WV_2(segs, keys, i) /\ WV_3(segs, i) /\ WV_4(segs, i)
                  /\ WV_5(segs, keys, i) /\ WV_6(segs, keys, i)
                  /\ WV_9(segs, i) /\ WV_11(segs, i) /\ WV_14(segs, keys, i)
  <2>1. OverallPass(segs, keys) /\ EnvelopeVerifies(trust["export"])
    BY <1>1, <1>4 DEF Passes
  <2>2. DOMAIN segs = 1..n
    BY <1>2, InHandSeq
  <2>3. DOMAIN keys = Keys
    <3>1. trust \in [Planes -> [Keys -> TrustEntries \cup {None}]]
      BY DEF IInv, RegistryTypeOK
    <3> QED
      BY <1>1, <3>1, OfflineAssumption
  <2>4. WV_1(segs)
    <3>1. \A i \in DOMAIN segs : SegmentManifest(segs[i])
      BY <2>1, VerdictMeans
    <3>2. Integrity(segs).segment_manifest =
            {NumberOf(segs[i]) : i \in {j \in DOMAIN segs : ~SegmentManifest(segs[j])}}
      BY FaultsFound
    <3> QED
      BY <3>1, <3>2 DEF WV_1
  <2>5. WV_7(segs, keys)
    BY <1>2, <2>1, CaseProjected
  <2>6. WV_12(trust["export"])
    BY <2>1 DEF WV_12
  <2>7. ASSUME NEW i \in 1..n
        PROVE  /\ WV_2(segs, keys, i) /\ WV_3(segs, i) /\ WV_4(segs, i)
               /\ WV_5(segs, keys, i) /\ WV_6(segs, keys, i)
               /\ WV_9(segs, i) /\ WV_11(segs, i) /\ WV_14(segs, keys, i)
    <3>1. WV_2(segs, keys, i) /\ WV_14(segs, keys, i)
      BY <1>2, <2>1, CaseTampered
    <3>2. WV_3(segs, i)
      BY <1>2, <2>1, CaseWithheld
    <3>3. WV_4(segs, i)
      BY <1>2, <2>1, CaseUnlinked
    <3>4. WV_5(segs, keys, i)
      BY <1>2, <2>1, <2>3, CaseForged
    <3>5. WV_6(segs, keys, i)
      BY <1>2, <2>1, CaseToken
    <3>6. WV_9(segs, i)
      BY <1>2, CaseMissing
    <3>7. WV_11(segs, i)
      BY <1>2, <2>1, CaseRelinked
    <3> QED
      BY <3>1, <3>2, <3>3, <3>4, <3>5, <3>6, <3>7
  <2> QED
    BY <2>2, <2>4, <2>5, <2>6, <2>7
<1> QED
  BY <1>1, <1>3, <1>4

\* Of any package built from unaltered evidence, however many segments and objects
\* it has, every case of the verifier's suite comes out as the suite says.
THEOREM CasesComeOut ==
  ASSUME NoneIsNoHash
  PROVE  Spec => []VerifierCasesHold
<1>1. IInv /\ SoundInv /\ GenuineInv => VerifierCasesHold
  BY CasesHold
<1> QED
  BY <1>1, RegistryKept, EvidenceKept, GenuineKept, PTL
=============================================================================
