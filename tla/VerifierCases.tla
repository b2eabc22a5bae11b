---------------------------- MODULE VerifierCases ----------------------------
(***************************************************************************)
(* The verifier's conformance cases (conformance/wv/cases.ts) asked of     *)
(* every package that can be built and passes, where the suite asks them   *)
(* of one chain of three events; and step 9, the advisory comparison with  *)
(* a projection.  WV-8 and WV-13 are about WORM and about anchoring: see   *)
(* ImmutableStore and Anchoring.                                           *)
(***************************************************************************)
EXTENDS OfflineVerification

\* recomputeProjectionConsistency: the ids that drifted, are missing, or are extra.
Rows(segs) ==
  UNION {{[id |-> segs[i].objects[j].content.id, row |-> segs[i].objects[j].row] :
            j \in DOMAIN segs[i].objects} : i \in DOMAIN segs}
ProjectionConsistency(segs, rows) ==
  {r.id : r \in (rows \ Rows(segs)) \cup (Rows(segs) \ rows)}

Tampered(segs, i, j) == [segs EXCEPT ![i].objects[j].content.rev = 1]
Without(segs, i) == SubSeq(segs, 1, i - 1) \o SubSeq(segs, i + 1, Len(segs))

\* The manifest hash is what its core hashes to.
WV_1(segs) == Integrity(segs).segment_manifest = {}

\* An event altered after it was anchored: located, and the signature still holds.
WV_2(segs, directory, i) ==
  \A j \in DOMAIN segs[i].objects :
    LET bad == Tampered(segs, i, j)
    IN /\ Integrity(bad).per_object_hash = {NumberOf(segs[i])}
       /\ Attestation(bad, directory).hsm_signature = {}

\* An object withheld.
WV_3(segs, i) ==
  Integrity([segs EXCEPT ![i].objects = Tail(@)]).segment_manifest = {NumberOf(segs[i])}

\* A row that does not continue the one before it.
WV_4(segs, i) ==
  \A j \in DOMAIN segs[i].objects :
    j > 1 => Integrity([segs EXCEPT ![i].objects[j].prev = <<>>]).object_chain = {NumberOf(segs[i])}

\* A signature that is not the key's, and a key nobody published.
WV_5(segs, directory, i) ==
  /\ Attestation([segs EXCEPT ![i].anchor.signature.key = None], directory).hsm_signature
       = {NumberOf(segs[i])}
  /\ Attestation(segs, [k \in DOMAIN directory |-> None]).hsm_signature = Numbers(segs)

\* A token of something else.
WV_6(segs, directory, i) ==
  Attestation([segs EXCEPT ![i].anchor.imprint = None], directory).anchor_token = {NumberOf(segs[i])}

\* A projection that drifted, or lacks a row, or has one more, is located and fails nothing else.
WV_7(segs, directory) ==
  /\ ProjectionConsistency(segs, Rows(segs)) = {}
  /\ \A r \in Rows(segs) :
       /\ ProjectionConsistency(segs, (Rows(segs) \ {r}) \cup {[r EXCEPT !.row = <<>>]}) = {r.id}
       /\ ProjectionConsistency(segs, Rows(segs) \ {r}) = {r.id}
  /\ ProjectionConsistency(segs, Rows(segs) \cup {[id |-> 0, row |-> <<>>]}) = {0}
  /\ OverallPass(segs, directory)

\* A segment of the requested scope that is not there, also the first or the last.
WV_9(segs, i) == MissingIn(Numbers(segs), Without(segs, i)) = {NumberOf(segs[i])}

\* Adjacent segments that meet within one source offset.
WV_10(segs) ==
  \A i \in DOMAIN segs :
    i > 1 /\ OffsetOf[segs[i].objects[1].content.id]
               = OffsetOf[segs[i - 1].objects[Len(segs[i - 1].objects)].content.id]
      => NumberOf(segs[i]) \in MissingEvents(segs)

\* The genesis has no predecessor; a later segment with a wrong one is located,
\* though its own manifest is consistent.
Relinked(m) ==
  LET core == [m.core EXCEPT !.link.hash = Genesis] IN [core |-> core, hash |-> core]
WV_11(segs, i) ==
  IF NumberOf(segs[i]) = 0 THEN segs[i].manifest.core.link = None
  ELSE LET bad == [segs EXCEPT ![i].manifest = Relinked(@)]
       IN /\ NumberOf(segs[i]) \in Integrity(bad).cross_segment_continuity
          /\ Integrity(bad).segment_manifest = {}

\* The package verifies with nothing but the sidecar and the trust file.
WV_12(directory) == EnvelopeVerifies(directory)

\* The exported package fails as a whole when one of its objects is altered.
WV_14(segs, directory, i) ==
  \A j \in DOMAIN segs[i].objects : ~OverallPass(Tampered(segs, i, j), directory)

-----------------------------------------------------------------------------
\* Whatever was sealed and exported, each case of the suite comes out as the suite
\* says: what is altered is found by the check that is there to find it, in the
\* segment it was altered in.
VerifierCasesHold ==
  package # None /\ damage = 0 /\ trust # None =>
    LET segs == Segments
        keys == trust["signing"]
    IN /\ WV_10(segs)
       /\ Passes =>
            /\ WV_1(segs) /\ WV_7(segs, keys) /\ WV_12(trust["export"])
            /\ \A i \in DOMAIN segs :
                 /\ WV_2(segs, keys, i) /\ WV_3(segs, i) /\ WV_4(segs, i)
                 /\ WV_5(segs, keys, i) /\ WV_6(segs, keys, i)
                 /\ WV_9(segs, i) /\ WV_11(segs, i) /\ WV_14(segs, keys, i)
=============================================================================
