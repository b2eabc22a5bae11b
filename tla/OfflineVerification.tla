------------------------- MODULE OfflineVerification -------------------------
(***************************************************************************)
(* From sealed evidence to an auditor's verdict: segments sealed, signed   *)
(* and anchored over time while keys are rotated and revoked, the evidence *)
(* read from WORM, built into an export package, handed over together with *)
(* the sidecar objects, and verified against the trust file published      *)
(* last.  The evidence in hand may differ from what was sealed, in the     *)
(* copy the package is built from, in the package or in the sidecar.       *)
(***************************************************************************)
EXTENDS Verifier

CONSTANTS
  Events,       \* number of change events, 1..Events in the global order
  MaxEvents,    \* EVW_MAX_EVENTS
  MaxSegments,  \* bound on segments
  MaxDamage     \* bound on alterations

ASSUME OfflineAssumption ==
  /\ Planes = {"signing", "export"}
  /\ Events \in Nat /\ MaxEvents \in Nat \ {0}
  /\ MaxSegments \in Nat /\ MaxDamage \in Nat

VARIABLES
  now,          \* wall-clock time
  holder,       \* [Planes -> the key the running process of the plane signs with]
  sealed,       \* WORM: the segments, with their anchor record or None
  copy,         \* segments read from WORM for an export, or None
  sidecar,      \* objects handed over with the package, by object key
  package,      \* the export package, or None
  damage        \* alterations so far

evars == <<now, holder, sealed, copy, sidecar, package, damage>>
vars  == <<kvars, evars>>

WormKeys == (0..(MaxSegments - 1)) \X (1..MaxEvents)

Init ==
  /\ RegistryInit
  /\ now = 0
  /\ holder = FirstKey
  /\ sealed = <<>>
  /\ copy = None
  /\ sidecar = [w \in WormKeys |-> None]
  /\ package = None
  /\ damage = 0

-----------------------------------------------------------------------------
(* Sealing and anchoring, as EvidenceWriter leaves them in WORM.           *)

EventsOf(segs) == IF segs = <<>> THEN 0 ELSE segs[Len(segs)].upto

NextSeq(segs) == Len(segs)

RowUpTo(k) == [i \in 1..k |-> [id |-> i, rev |-> 0]]

ObjectOf(k) == [content |-> [id |-> k, rev |-> 0], event |-> [id |-> k, rev |-> 0],
                prev |-> RowUpTo(k - 1), row |-> RowUpTo(k)]

\* The core of the next segment, over the events from a to b.
CoreOf(segs, a, b) ==
  [seq     |-> NextSeq(segs),
   list    |-> [i \in 1..(b - a + 1) |-> [id |-> a + i - 1, key |-> <<Len(segs), i>>]],
   hashes  |-> [i \in 1..(b - a + 1) |-> [event |-> [id |-> a + i - 1, rev |-> 0],
                                          row |-> RowUpTo(a + i - 1)]],
   lastRow |-> RowUpTo(b),
   offsets |-> [first |-> OffsetOf[a], last |-> OffsetOf[b]],
   gap     |-> \E e \in a..b : e \in Gapped,
   link    |-> IF segs = <<>> THEN None
               ELSE LET p == segs[Len(segs)].manifest
                    IN [seq |-> p.core.seq, hash |-> SegmentHashOf(p)]]

\* signAnchorPayload and the provider's token over the same payload.
AnchorOf(m, key, at) ==
  LET head == [seq |-> m.core.seq, hash |-> SegmentHashOf(m),
               lastRow |-> m.core.lastRow, at |-> at]
  IN [head |-> head, key |-> key,
      signature |-> [key |-> key, over |-> head], imprint |-> head]

Seal(n, anchored) ==
  LET a == EventsOf(sealed) + 1
      b == EventsOf(sealed) + n
      c == CoreOf(sealed, a, b)
      m == [core |-> c, hash |-> c]
  IN /\ Len(sealed) < MaxSegments
     /\ b <= Events
     /\ sealed' = Append(sealed,
          [manifest |-> m, objects |-> [i \in 1..n |-> ObjectOf(a + i - 1)],
           anchor |-> IF anchored THEN AnchorOf(m, holder["signing"], now) ELSE None,
           upto |-> b])
     /\ UNCHANGED <<kvars, now, holder, copy, sidecar, package, damage>>

Tick ==
  /\ now + 1 \in Times
  /\ now' = now + 1
  /\ UNCHANGED <<kvars, holder, sealed, copy, sidecar, package, damage>>

\* A signing process is restarted with the active key of its plane.
Adopt(p) ==
  /\ holder[p] # active[p]
  /\ holder' = [holder EXCEPT ![p] = active[p]]
  /\ UNCHANGED <<kvars, now, sealed, copy, sidecar, package, damage>>

-----------------------------------------------------------------------------
(* Export.                                                                 *)

\* Every manifest, anchor record and object is read; a segment without an
\* anchor record makes the read fail.
ReadEvidence ==
  /\ copy = None
  /\ sealed # <<>>
  /\ \A i \in DOMAIN sealed : sealed[i].anchor # None
  /\ copy' = [i \in DOMAIN sealed |->
                [manifest |-> sealed[i].manifest, anchor |-> sealed[i].anchor]]
  /\ sidecar' = [w \in WormKeys |->
       IF w[1] + 1 \in DOMAIN sealed /\ w[2] \in DOMAIN sealed[w[1] + 1].objects
       THEN sealed[w[1] + 1].objects[w[2]] ELSE None]
  /\ UNCHANGED <<kvars, now, holder, sealed, package, damage>>

CopyNumbers == {NumberOf(copy[i]) : i \in DOMAIN copy}

\* continuityProblems finds none: contiguous from genesis, no sequence twice,
\* an anchor record each.  An object of the last segment is selected.
Continuous ==
  /\ copy # <<>>
  /\ \A i, j \in DOMAIN copy : NumberOf(copy[i]) = NumberOf(copy[j]) => i = j
  /\ CopyNumbers = 0..(Cardinality(CopyNumbers) - 1)
  /\ \A i \in DOMAIN copy : copy[i].anchor # None
  /\ \E i \in DOMAIN copy :
       NumberOf(copy[i]) = Cardinality(CopyNumbers) - 1 /\ copy[i].manifest.core.list # <<>>

Content(pkg) == [parts |-> pkg.parts, at |-> pkg.at]

Build ==
  /\ copy # None
  /\ package = None
  /\ Continuous
  /\ LET content == [parts |-> Sorted(copy), at |-> now]
     IN package' = [parts |-> content.parts, at |-> content.at, hash |-> content,
                    key |-> holder["export"],
                    signature |-> [key |-> holder["export"], over |-> content]]
  /\ UNCHANGED <<kvars, now, holder, sealed, copy, sidecar, damage>>

-----------------------------------------------------------------------------
(* Alterations of the evidence in hand.  Nothing in them knows a key.      *)

Altered(o) ==
  LET c == [o.content EXCEPT !.rev = 1]
      p == [o EXCEPT !.prev = <<>>]
  IN {[o EXCEPT !.content = c],
      [o EXCEPT !.content = c, !.event = c],
      [o EXCEPT !.content = c, !.event = c, !.row = RowHash(o.prev, c)],
      p, [p EXCEPT !.row = RowHash(p.prev, p.event)]}

ButLast(s) == SubSeq(s, 1, Len(s) - 1)

AlteredCores(c) ==
  {[c EXCEPT !.seq = @ + 1], [c EXCEPT !.gap = ~@],
   [c EXCEPT !.list = ButLast(@)],
   [c EXCEPT !.list = ButLast(@), !.hashes = ButLast(@),
             !.lastRow = RowUpTo(Len(@) - 1)]}
  \cup (IF c.link = None THEN {} ELSE {[c EXCEPT !.link.hash = Genesis]})

AlteredManifests(m) ==
  UNION {{[core |-> c, hash |-> m.hash], [core |-> c, hash |-> c]} : c \in AlteredCores(m.core)}

\* One object is altered, replaced by another of the sidecar or missing.
AlterObject ==
  \E w \in WormKeys :
    /\ sidecar[w] # None
    /\ \E o \in Altered(sidecar[w]) \cup {None} \cup {sidecar[x] : x \in WormKeys} :
         o # sidecar[w] /\ sidecar' = [sidecar EXCEPT ![w] = o]
    /\ UNCHANGED <<copy, package>>

AlterCopy ==
  /\ package = None
  /\ \E i \in DOMAIN copy :
       \/ \E m \in AlteredManifests(copy[i].manifest) \cup {copy[j].manifest : j \in DOMAIN copy} :
            m # copy[i].manifest /\ copy' = [copy EXCEPT ![i].manifest = m]
       \/ \E r \in {None} \cup {copy[j].anchor : j \in DOMAIN copy} :
            r # copy[i].anchor /\ copy' = [copy EXCEPT ![i].anchor = r]
       \/ /\ copy[i].anchor # None
          /\ copy' = [copy EXCEPT ![i].anchor.head.at = @ - 1]
       \/ copy' = SubSeq(copy, 1, i - 1) \o SubSeq(copy, i + 1, Len(copy))
       \/ copy' = Append(copy, copy[i])
  /\ UNCHANGED <<sidecar, package>>

\* The tail of the package is cut off, or it is given another date.
AlterPackage ==
  /\ package # None
  /\ \/ Len(package.parts) > 1 /\ package' = [package EXCEPT !.parts = ButLast(@)]
     \/ package' = [package EXCEPT !.at = @ + 1]
  /\ UNCHANGED <<copy, sidecar>>

Alter ==
  /\ copy # None
  /\ damage < MaxDamage
  /\ damage' = damage + 1
  /\ AlterObject \/ AlterCopy \/ AlterPackage
  /\ UNCHANGED <<kvars, now, holder, sealed>>

Next ==
  \/ RegistryNext /\ UNCHANGED evars
  \/ Tick
  \/ \E p \in Planes : Adopt(p)
  \/ \E n \in 1..MaxEvents, anchored \in BOOLEAN : Seal(n, anchored)
  \/ ReadEvidence
  \/ Build
  \/ Alter

Spec == Init /\ [][Next]_vars

-----------------------------------------------------------------------------
(* runExportVerification and exitCodeFor.                                  *)

ObjectsFor(m) == [i \in DOMAIN m.core.list |-> sidecar[m.core.list[i].key]]

Segments == [i \in DOMAIN package.parts |->
  [manifest |-> package.parts[i].manifest, anchor |-> package.parts[i].anchor,
   objects |-> ObjectsFor(package.parts[i].manifest)]]

\* An object is not in the sidecar, or segmentHashOf throws: exit code 2.
Unusable ==
  \/ \E i \in DOMAIN package.parts :
       \E j \in DOMAIN Segments[i].objects : Segments[i].objects[j] = None
  \/ \E i \in DOMAIN package.parts : ~Hashable(package.parts[i].manifest)

\* verifyExportSignature
EnvelopeVerifies(directory) ==
  /\ package.hash = Content(package)
  /\ KeyAccepted(directory, package.key, package.at)
  /\ Verifies(package.signature, package.key, Content(package))

\* Exit code 0, with the trust file in hand.
Passes ==
  /\ package # None
  /\ trust # None
  /\ ~Unusable
  /\ EnvelopeVerifies(trust["export"])
  /\ OverallPass(Segments, trust["signing"])

-----------------------------------------------------------------------------
(* Properties.                                                             *)

\* Soundness: what passes is the sealed evidence from genesis on, every segment
\* once, with every object and anchor record as it was written, although the
\* export builder looks into none of them.
PassIsGenuine ==
  Passes =>
    /\ Len(package.parts) \in 1..Len(sealed)
    /\ \A i \in DOMAIN package.parts :
         /\ Segments[i].manifest = sealed[i].manifest
         /\ Segments[i].objects = sealed[i].objects
         /\ Segments[i].anchor = sealed[i].anchor

KeyKnown(p, key, at) ==
  trust[p][key] # None /\ IsValidAt(p, key, at) /\ key \in Ed25519

\* Every signature in the package is by a key the registry vouches for, and the
\* trust file in hand knows it.
KeysInOrder ==
  /\ KeyKnown("export", package.key, package.at)
  /\ \A i \in DOMAIN package.parts :
       KeyKnown("signing", package.parts[i].anchor.key, package.parts[i].anchor.head.at)

\* No event of the package was captured with a gap, and no two segments meet
\* within one source offset (one snapshot).
SourceContinuous ==
  \A i \in DOMAIN package.parts :
    LET c == package.parts[i].manifest.core
    IN ~c.gap /\ (i > 1 => c.offsets.first # package.parts[i - 1].manifest.core.offsets.last)

\* Completeness: unaltered evidence passes, with any trust file that knows its
\* keys, however many rotations and revocations ago they signed.
GenuinePasses ==
  package # None /\ damage = 0 /\ trust # None =>
    (KeysInOrder /\ SourceContinuous => Passes)

WhereAltered ==
  {i \in DOMAIN package.parts : Segments[i].objects # sealed[i].objects}

Located ==
  LET checks == Integrity(Segments) IN UNION {checks[c] : c \in DOMAIN checks}

\* The recomputation names exactly the segments whose objects are not those that
\* were sealed: not their neighbours, whose hashes depend on them.
LocatesAlteration ==
  package # None =>
    (/\ ~Unusable
     /\ Len(package.parts) <= Len(sealed)
     /\ package.parts = [i \in DOMAIN package.parts |->
          [manifest |-> sealed[i].manifest, anchor |-> sealed[i].anchor]]
     => Located = {i - 1 : i \in WhereAltered})

\* A verdict of PASS lasts: another trust file changes it only if a key that
\* signed the evidence has been revoked as of its signature or before.
RevokedBefore(p, key, at) ==
  trust'[p][key] # None /\ trust'[p][key].revoked # None /\ trust'[p][key].revoked <= at

PassLasts ==
  [][Passes /\ UNCHANGED <<package, sidecar>> /\ ~Passes' =>
       \/ RevokedBefore("export", package.key, package.at)
       \/ \E i \in DOMAIN package.parts :
            RevokedBefore("signing", package.parts[i].anchor.key,
                          package.parts[i].anchor.head.at)]_vars

=============================================================================
