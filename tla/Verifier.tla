------------------------------ MODULE Verifier ------------------------------
(***************************************************************************)
(* The independent verifier: what verifySegments recomputes over the       *)
(* segments of an export package, and how its checks make up the verdict   *)
(* of the verifier's command line.                                         *)
(*                                                                         *)
(* A check is the set of the sequences of the segments it finds fault      *)
(* with; it passes if that set is empty.                                   *)
(*                                                                         *)
(* A hash is the value it commits to (SHA-256 taken as injective): an      *)
(* event_hash is the content of the change event, a row_hash the sequence  *)
(* of event hashes chained so far, a manifest_hash the manifest's core.    *)
(* A signature is the pair of a key and what was signed.                   *)
(***************************************************************************)
EXTENDS KeyRegistry, Sequences

CONSTANTS
  OffsetOf,     \* consumed_offset_key, by change event
  Gapped        \* change events captured with gap_detected

\* A change event in evidence: content, carried hashes.
\*   object   [content : [id, rev], event, prev, row]
\* A manifest: its core and the hash it carries.
\*   core     [seq, list : Seq([id, key]), hashes : Seq([event, row]), lastRow,
\*             offsets : [first, last], gap, link : None or [seq, hash]]
\* An anchor record: the head, the signature over it, the token's imprint.
\*   head     [seq, hash, lastRow, at];  record [head, key, signed, imprint]
\* A parsed segment: [manifest, objects, anchor].

EventHash(content)   == content
RowHash(prev, event) == Append(prev, event)

\* The segment hash the genesis segment links to (all zero).
Genesis == None

\* segmentHashOf throws for a manifest that should have a predecessor and has none.
Hashable(m) == m.core.seq = 0 \/ m.core.link # None

SegmentHashOf(m) ==
  [manifest |-> m.hash, lastRow |-> m.core.lastRow,
   previous |-> IF m.core.seq = 0 THEN Genesis ELSE m.core.link.hash]

NumberOf(s) == s.manifest.core.seq

-----------------------------------------------------------------------------
(* Steps 1-3, per segment.                                                 *)

EventHashOk(o) == o.event = EventHash(o.content)
RowHashOk(o)   == o.row = RowHash(o.prev, o.event)

PerObjectHash(s) ==
  s.objects # <<>> /\ \A i \in DOMAIN s.objects : EventHashOk(s.objects[i])

\* Each object continues the one before it and is the one its lists name.
LinkOk(s, i) == i = 1 \/ s.objects[i].prev = s.objects[i - 1].row

ListsMatch(s, i) ==
  LET c == s.manifest.core  o == s.objects[i]
  IN /\ i \in DOMAIN c.list   /\ c.list[i].id = o.content.id
     /\ i \in DOMAIN c.hashes /\ c.hashes[i] = [event |-> o.event, row |-> o.row]

ObjectChain(s) ==
  /\ s.objects # <<>>
  /\ \A i \in DOMAIN s.objects :
       RowHashOk(s.objects[i]) /\ LinkOk(s, i) /\ ListsMatch(s, i)

\* The object set matches the manifest's lists in number and content.
CoversExactly(s) ==
  /\ Len(s.objects) = Len(s.manifest.core.list)
  /\ Len(s.manifest.core.hashes) = Len(s.manifest.core.list)
  /\ \A i \in DOMAIN s.objects : ListsMatch(s, i)

SegmentManifest(s) ==
  LET c == s.manifest.core
  IN /\ s.manifest.hash = c
     /\ CoversExactly(s)
     /\ c.hashes # <<>> => c.lastRow = c.hashes[Len(c.hashes)].row

-----------------------------------------------------------------------------
(* Steps 4-6, across segments.                                             *)

\* Where the i-th segment goes in a stable sort by sequence.
Place(segs, i) ==
  1 + Cardinality({j \in DOMAIN segs :
        \/ NumberOf(segs[j]) < NumberOf(segs[i])
        \/ NumberOf(segs[j]) = NumberOf(segs[i]) /\ j < i})

\* sortBySequence
Sorted(segs) ==
  [k \in DOMAIN segs |-> segs[CHOOSE i \in DOMAIN segs : Place(segs, i) = k]]

\* The last segment with the preceding sequence, if there is one.
Predecessors(segs, s) ==
  LET before == {i \in DOMAIN segs : NumberOf(segs[i]) = NumberOf(s) - 1}
  IN {segs[i] : i \in {j \in before : \A k \in before : k <= j}}

FaultyBoundary(p) ==             \* of the object, not of the manifest
  IF p.objects = <<>> THEN None ELSE p.objects[Len(p.objects)].row
Boundary(p) == p.manifest.core.lastRow

\* verifyCrossSegment for a segment that is not the genesis.
Continues(s, p) ==
  /\ s.manifest.core.link = [seq |-> NumberOf(p), hash |-> SegmentHashOf(p.manifest)]
  /\ s.objects # <<>>
  /\ s.objects[1].prev = Boundary(p)

CrossSegment(segs, s) ==
  IF NumberOf(s) = 0
  THEN Predecessors(segs, s) = {} /\ s.manifest.core.link = None
  ELSE \E p \in Predecessors(segs, s) : Continues(s, p)

Numbers(segs) == {NumberOf(segs[i]) : i \in DOMAIN segs}

FaultyScope(segs) == UNION {i..(j + 1) : i \in Numbers(segs), j \in Numbers(segs)}
\* scopeFromManifests: from the lowest sequence present to the highest.
Scope(segs) == UNION {i..j : i \in Numbers(segs), j \in Numbers(segs)}

\* The sequences of a scope that are missing, or there more than once, and those
\* outside of it.
MissingIn(scope, segs) ==
  (Numbers(segs) \ scope)
  \cup {n \in scope : Cardinality({i \in DOMAIN segs : NumberOf(segs[i]) = n}) # 1}
MissingSegments(segs) == MissingIn(Scope(segs), segs)

\* The source's own account of what it delivered, bound to the objects.
Corroborated(s) ==
  LET c == s.manifest.core
  IN /\ ~c.gap
     /\ s.objects # <<>>
     /\ \A i \in DOMAIN s.objects : s.objects[i].content.id \notin Gapped
     /\ c.offsets = [first |-> OffsetOf[s.objects[1].content.id],
                     last  |-> OffsetOf[s.objects[Len(s.objects)].content.id]]

\* A segment begins with the offset its predecessor ends with.
Overlaps(s, p) == s.manifest.core.offsets.first = p.manifest.core.offsets.last

MissingEvents(segs) ==
  LET sorted == Sorted(segs)
  IN {NumberOf(sorted[i]) : i \in {j \in DOMAIN sorted :
        \/ ~Corroborated(sorted[j])
        \/ j > 1 /\ Overlaps(sorted[j], sorted[j - 1])}}

-----------------------------------------------------------------------------
(* Steps 7-8: the anchor record of a segment.                              *)

\* The anchored head is the recomputed head of this segment.
HeadIsOf(s) ==
  /\ s.anchor.head.seq = NumberOf(s)
  /\ s.anchor.head.hash = SegmentHashOf(s.manifest)
  /\ s.anchor.head.lastRow = s.manifest.core.lastRow

\* A signature is [key, over]: it verifies with the key's public half.
FaultyVerifies(signature, key, over) == signature.over = over    \* by whatever key
Verifies(signature, key, over) == signature = [key |-> key, over |-> over]

HsmSignature(s, directory) ==
  /\ s.anchor # None
  /\ HeadIsOf(s)
  /\ KeyAccepted(directory, s.anchor.key, s.anchor.head.at)
  /\ Verifies(s.anchor.signature, s.anchor.key, s.anchor.head)

AnchorToken(s) == s.anchor # None /\ s.anchor.imprint = s.anchor.head

-----------------------------------------------------------------------------
(* verifySegments and the report.                                          *)

Faulted(segs, Passes(_)) ==
  {NumberOf(segs[i]) : i \in {j \in DOMAIN segs : ~Passes(segs[j])}}

\* The checks that only recompute hashes and links: steps 1-5.
Integrity(segs) ==
  [per_object_hash          |-> Faulted(segs, PerObjectHash),
   object_chain             |-> Faulted(segs, ObjectChain),
   segment_manifest         |-> Faulted(segs, SegmentManifest),
   cross_segment_continuity |-> Faulted(segs, LAMBDA s : CrossSegment(segs, s)),
   no_missing_segment       |-> MissingSegments(segs)]

\* Steps 7-8, against the published keys.
Attestation(segs, directory) ==
  [hsm_signature |-> Faulted(segs, LAMBDA s : HsmSignature(s, directory)),
   anchor_token  |-> Faulted(segs, AnchorToken)]

AllPass(checks) == \A c \in DOMAIN checks : checks[c] = {}

FaultyOverallPass(segs, directory) ==       \* steps 1-6 only
  AllPass(Integrity(segs)) /\ MissingEvents(segs) = {}
\* The overall result: PASS only if every required check has run and passed.
OverallPass(segs, directory) ==
  /\ AllPass(Integrity(segs))
  /\ MissingEvents(segs) = {}
  /\ AllPass(Attestation(segs, directory))

=============================================================================
