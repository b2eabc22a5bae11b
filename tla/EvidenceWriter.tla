--------------------------- MODULE EvidenceWriter ---------------------------
(***************************************************************************)
(* The evidence-writer service: the Redis read loop and the sweep timer of *)
(* main.ts, SegmentAccumulator, SegmentSealer, EvidenceWriter.append and   *)
(* EvidenceWriterService.#sealAndAnchor, over the WORM store, whose puts   *)
(* look first whether the key exists and take a failed look for "no".      *)
(*                                                                         *)
(* Node runs one synchronous block at a time, so a step of this module is  *)
(* the code between two awaits.  The read loop awaits each ingest(); the   *)
(* timer starts sweep() without awaiting anything, so a sweep interleaves  *)
(* with an ingest, and with earlier sweeps, at every await.                *)
(*                                                                         *)
(* Data abstraction.  A change event is an integer: its place in the       *)
(* frozen global order (compareCce).  A hash is the value it commits to    *)
(* (SHA-256 taken as injective): a row_hash is the sequence of events      *)
(* chained so far, a segment_hash the sequence of segments.                *)
(***************************************************************************)
EXTENDS Integers, Sequences, FiniteSets

CONSTANTS
  Dbs,          \* db_ids seen on the CCE stream
  OwnDb,        \* the db_id the service is configured with (CDC_DB_ID)
  Cces,         \* change events that reach the stream
  DbOf,         \* [Cces -> Dbs]
  Malformed,    \* events the accumulator's admission gate refuses
  Unverifiable, \* admitted events whose event_hash does not recompute
  Unlistable,   \* admitted events a manifest may not list (no UUID as id)
  Invalid,      \* admitted events validateCceFull refuses
  MaxEvents,    \* EVW_MAX_EVENTS
  Sweeps,       \* sweep() calls that may be in flight together
  Faults,       \* what may go wrong, a subset of FaultKinds
  MaxRestarts,  \* bound on process restarts
  None

FaultKinds == {"put_lost", "put_ambiguous", "stat_fails", "sign_throws",
               "anchor_unavailable", "stop"}

ASSUME ConstantsAssumption ==
  /\ IsFiniteSet(Dbs)
  /\ OwnDb \in Dbs
  /\ Cces \subseteq Nat
  /\ DbOf \in [Cces -> Dbs]
  /\ Malformed \subseteq Cces
  /\ Unverifiable \subseteq Cces
  /\ Unlistable \subseteq Cces
  /\ Invalid \subseteq Cces
  /\ MaxEvents \in Nat \ {0}
  /\ "ingest" \notin Sweeps
  /\ Faults \subseteq FaultKinds
  /\ MaxRestarts \in Nat

\* The asynchronous calls of the process: the read loop's and the timer's.
Calls == {"ingest"} \cup Sweeps

VARIABLES
  bus,          \* events not yet read from the CCE stream
  ingested,     \* events handed to ingest() so far (history)
  status,       \* "detached" (XREAD from '$'), "attached", "stopping"
  restarts,
  open,         \* [Dbs -> the open segment's objects, kept in global order]
  aged,         \* [Dbs -> the open segment has passed maxAgeMs]
  nextSeq,      \* [Dbs -> segment_sequence of the open or next segment]
  previous,     \* #previous: the manifest of the last finished segment
  phase,        \* [Calls -> where the call is suspended]
  queue,        \* [Calls -> seal-ready segments still to be processed]
  man,          \* [Calls -> the manifest being sealed and anchored]
  written,      \* [Calls -> objects of man already put]
  objects,      \* WORM: evidence objects, every version of them
  manifests,    \* WORM: segment manifests, every version of them
  anchors,      \* WORM: anchor records, every version of them
  own,          \* the manifests this process has put (history)
  dlq,          \* events recorded in the dead letter queue
  alarms        \* alarms this process has raised

stream == <<bus, ingested, status, restarts>>
acc    == <<open, aged, nextSeq>>
calls  == <<phase, queue, man, written>>
worm   == <<objects, manifests, anchors, own>>
vars   == <<stream, acc, previous, calls, worm, dlq, alarms>>

-----------------------------------------------------------------------------
(* Shapes of the data.                                                     *)

Row      == Seq(Cces)          \* row_hash: the chained events
SegHash  == Seq(Seq(Cces))     \* segment_hash: the chained segments

Objects   == Seq(Cces) \ {<<>>}
SealReady == [db : Dbs, seq : Nat, objs : Objects]
Manifest  == [db : Dbs, seq : Nat, objs : Objects,
              boundary : Row,  \* prev_row_hash of the first object
              link : SegHash]  \* previous_segment.segment_hash
Object    == [db : Dbs, seq : Nat, idx : Nat, cce : Cces, prev : Row]
Anchor    == [db : Dbs, seq : Nat, head : Manifest]
Alarm     == [kind : {"VERIFICATION_FAILED", "SEAL_WRITE_FAILED"},
              db : Dbs, seq : Nat,
              objs : Objects]  \* the segment that seq names in this process
Phase     == {"idle", "object", "manifest", "sign", "anchor", "record", "next"}

SegmentHash(m)   == Append(m.link, m.objs)
LastRow(m)       == m.boundary \o m.objs
RowBefore(m, i)  == m.boundary \o SubSeq(m.objs, 1, i - 1)

\* The i-th object of a segment as it is put at its final placement.
ObjectAt(m, i) ==
  [db |-> m.db, seq |-> m.seq, idx |-> i, cce |-> m.objs[i],
   prev |-> RowBefore(m, i)]

SameKey(x, y) == x.db = y.db /\ x.seq = y.seq

Init ==
  /\ bus = Cces
  /\ ingested = {}
  /\ status = "detached"
  /\ restarts = 0
  /\ open = [db \in Dbs |-> <<>>]
  /\ aged = [db \in Dbs |-> FALSE]
  /\ nextSeq = [db \in Dbs |-> 0]
  /\ previous = None
  /\ phase = [t \in Calls |-> "idle"]
  /\ queue = [t \in Calls |-> <<>>]
  /\ man = [t \in Calls |-> None]
  /\ written = [t \in Calls |-> 0]
  /\ objects = {}
  /\ manifests = {}
  /\ anchors = {}
  /\ own = {}
  /\ dlq = {}
  /\ alarms = {}

-----------------------------------------------------------------------------
(* SegmentSealer.seal up to its first await.  A definition named Faulty... *)
(* is a plausible bug in the definition that follows it; nothing uses it   *)
(* but the checks that a property would notice the bug.                    *)

FaultyBuildManifest(seg, prev) ==   \* links to the predecessor's own link
  [db       |-> seg.db,
   seq      |-> seg.seq,
   objs     |-> seg.objs,
   boundary |-> IF seg.seq = 0 THEN <<>> ELSE LastRow(prev),
   link     |-> IF seg.seq = 0 THEN <<>> ELSE prev.link]

\* The manifest built for a segment on top of the #previous it was given.
BuildManifest(seg, prev) ==
  [db       |-> seg.db,
   seq      |-> seg.seq,
   objs     |-> seg.objs,
   boundary |-> IF seg.seq = 0 THEN <<>> ELSE LastRow(prev),
   link     |-> IF seg.seq = 0 THEN <<>> ELSE SegmentHash(prev)]

FaultyVerified(seg, prev) ==        \* without the SEQUENCE rule
  IF seg.seq = 0 THEN prev = None ELSE prev # None /\ prev.db = seg.db

\* verifyCrossSegment, and the early return for a missing predecessor.
Verified(seg, prev) ==
  \/ seg.seq = 0 /\ prev = None
  \/ /\ seg.seq # 0
     /\ prev # None
     /\ prev.db = seg.db
     /\ seg.seq = prev.seq + 1

AlarmFor(kind, seg) ==
  [kind |-> kind, db |-> seg.db, seq |-> seg.seq, objs |-> seg.objs]

EventsOf(objs) == {objs[i] : i \in 1..Len(objs)}

\* verifySegmentChain: every event_hash recomputes.  The rest of what it
\* checks establishChain has just made.
ChainVerifies(seg) == EventsOf(seg.objs) \cap Unverifiable = {}

\* buildSegmentManifest does not throw.
ManifestBuilds(seg) == EventsOf(seg.objs) \cap Unlistable = {}

\* The four exits of seal() before its first put, all of them one alarm: no
\* predecessor and CROSS_SEGMENT, INTRA_CHAIN, MANIFEST.
Sealable(seg, prev) ==
  Verified(seg, prev) /\ ChainVerifies(seg) /\ ManifestBuilds(seg)

\* Call t takes the first of the seal-ready segments q, if there is one.
BeginSeal(t, q) ==
  IF q = <<>>
  THEN /\ phase' = [phase EXCEPT ![t] = "idle"]
       /\ queue' = [queue EXCEPT ![t] = <<>>]
       /\ man' = [man EXCEPT ![t] = None]
       /\ written' = [written EXCEPT ![t] = 0]
       /\ UNCHANGED alarms
  ELSE /\ queue' = [queue EXCEPT ![t] = Tail(q)]
       /\ written' = [written EXCEPT ![t] = 0]
       /\ IF Sealable(Head(q), previous)
          THEN /\ man' = [man EXCEPT ![t] = BuildManifest(Head(q), previous)]
               /\ phase' = [phase EXCEPT ![t] = "object"]
               /\ UNCHANGED alarms
          ELSE /\ man' = [man EXCEPT ![t] = None]
               /\ phase' = [phase EXCEPT ![t] = "next"]
               /\ alarms' = alarms \cup
                    {AlarmFor("VERIFICATION_FAILED", Head(q))}

-----------------------------------------------------------------------------
(* SegmentAccumulator.                                                     *)

SequenceAfter(seq) == seq + 1

\* Event c placed into the ordered buffer s after its k smaller elements.
InsertAt(s, k, c) == SubSeq(s, 1, k) \o <<c>> \o SubSeq(s, k + 1, Len(s))

IsPlace(s, k, c) ==
  /\ \A i \in 1..k : s[i] < c
  /\ \A i \in (k + 1)..Len(s) : c < s[i]

Ready(db, seq, objs) == [db |-> db, seq |-> seq, objs |-> objs]

FaultyOpenSegment(db) == Ready(db, nextSeq[db], <<>>)   \* emptied too early
OpenSegment(db) == Ready(db, nextSeq[db], open[db])

FaultyBuffer(db, expired) == open[db]     \* the sealed segment stays open
Buffer(db, expired) == IF expired THEN <<>> ELSE open[db]

\* add() followed by the first synchronous part of each seal.
Accumulate(c) ==
  LET db      == DbOf[c]
      expired == open[db] # <<>> /\ aged[db]
      first   == IF expired THEN <<OpenSegment(db)>> ELSE <<>>
      seq     == IF expired THEN SequenceAfter(nextSeq[db]) ELSE nextSeq[db]
      buffer  == Buffer(db, expired)
  IN \E k \in 0..Len(buffer) :
       /\ IsPlace(buffer, k, c)
       /\ LET objs == InsertAt(buffer, k, c)
              full == Len(objs) >= MaxEvents
          IN /\ open' = [open EXCEPT ![db] = IF full THEN <<>> ELSE objs]
             /\ aged' = [aged EXCEPT ![db] = FALSE]
             /\ nextSeq' = [nextSeq EXCEPT ![db] =
                              IF full THEN SequenceAfter(seq) ELSE seq]
             /\ BeginSeal("ingest",
                  IF full THEN Append(first, Ready(db, seq, objs)) ELSE first)

\* The read loop hands the next stream entry to ingest().
Ingest(c) ==
  /\ status # "stopping"
  /\ phase["ingest"] = "idle"
  /\ c \in bus
  /\ bus' = bus \ {c}
  /\ ingested' = ingested \cup {c}
  /\ status' = "attached"
  /\ IF c \in Malformed
     THEN UNCHANGED <<acc, calls, alarms>>
     ELSE Accumulate(c)
  /\ UNCHANGED <<restarts, previous, worm, dlq>>

\* An entry is added while the loop still reads from '$': it is never seen.
Miss(c) ==
  /\ status = "detached"
  /\ c \in bus
  /\ bus' = bus \ {c}
  /\ UNCHANGED <<ingested, status, restarts, acc, previous, calls, worm, dlq,
                 alarms>>

\* Wall-clock time passes the age cap of an open segment.
Age(db) ==
  /\ open[db] # <<>>
  /\ ~aged[db]
  /\ aged' = [aged EXCEPT ![db] = TRUE]
  /\ UNCHANGED <<stream, open, nextSeq, previous, calls, worm, dlq, alarms>>

Orderings(S) ==
  {q \in [1..Cardinality(S) -> S] :
     \A i, j \in 1..Cardinality(S) : i # j => q[i] # q[j]}

\* The timer fires: acc.sweep() seals every aged segment, in Map order.
Sweep(t) ==
  LET due == {db \in Dbs : open[db] # <<>> /\ aged[db]}
  IN /\ status # "stopping"
     /\ phase[t] = "idle"
     /\ due # {}
     /\ open' = [db \in Dbs |-> IF db \in due THEN <<>> ELSE open[db]]
     /\ aged' = [db \in Dbs |-> IF db \in due THEN FALSE ELSE aged[db]]
     /\ nextSeq' = [db \in Dbs |->
          IF db \in due THEN SequenceAfter(nextSeq[db]) ELSE nextSeq[db]]
     /\ \E q \in Orderings(due) :
          BeginSeal(t, [i \in 1..Cardinality(due) |-> OpenSegment(q[i])])
     /\ UNCHANGED <<stream, previous, worm, dlq>>

-----------------------------------------------------------------------------
(* The awaits of seal() and #sealAndAnchor.                                *)

MoveTo(t, p) ==
  /\ phase' = [phase EXCEPT ![t] = p]
  /\ UNCHANGED <<queue, man>>

\* putImmutable as the caller sees it.  It stores the object where the look
\* for an existing one finds none, and also where that look fails, which adds
\* a version over the existing one.  It rejects because the key exists,
\* because the request was lost, or after the object was stored (the response
\* was lost).
Stores(exists)  == ~exists \/ "stat_fails" \in Faults
Rejects(exists) == exists \/ "put_lost" \in Faults
RejectsStored(exists) == Stores(exists) /\ "put_ambiguous" \in Faults

FaultyWriteFailed(t) ==               \* alarms, but does not return
  /\ alarms' = alarms \cup {AlarmFor("SEAL_WRITE_FAILED", man[t])}
  /\ MoveTo(t, "sign")
  /\ UNCHANGED written

QuietWriteFailed(t) ==                \* returns, but does not alarm
  /\ MoveTo(t, "next")
  /\ UNCHANGED <<written, alarms>>

WriteFailed(t) ==
  /\ alarms' = alarms \cup {AlarmFor("SEAL_WRITE_FAILED", man[t])}
  /\ MoveTo(t, "next")
  /\ UNCHANGED written

FaultyAfterObject(t, i) ==            \* the last object is left out
  IF i + 1 >= Len(man[t].objs) THEN "manifest" ELSE "object"
AfterObject(t, i) == IF i = Len(man[t].objs) THEN "manifest" ELSE "object"

\* EvidenceWriter.append of the next object, and the sealer's loop around it.
PutObject(t) ==
  /\ phase[t] = "object"
  /\ LET i      == written[t] + 1
         obj    == ObjectAt(man[t], i)
         exists == \E o \in objects : SameKey(o, obj) /\ o.idx = i
         valid  == obj.cce \notin Invalid
     IN \/ /\ valid /\ Stores(exists)
           /\ objects' = objects \cup {obj}
           /\ written' = [written EXCEPT ![t] = i]
           /\ MoveTo(t, AfterObject(t, i))
           /\ UNCHANGED <<dlq, alarms>>
        \/ /\ ~valid \/ Rejects(exists)
           /\ dlq' = dlq \cup {obj.cce}
           /\ WriteFailed(t)
           /\ UNCHANGED objects
        \/ /\ valid /\ RejectsStored(exists)
           /\ objects' = objects \cup {obj}
           /\ dlq' = dlq \cup {obj.cce}
           /\ WriteFailed(t)
  /\ UNCHANGED <<stream, acc, previous, manifests, anchors, own>>

\* The manifest put that makes the segment SEALED.
PutManifest(t) ==
  /\ phase[t] = "manifest"
  /\ LET exists == \E m \in manifests : SameKey(m, man[t])
     IN \/ /\ Stores(exists)
           /\ manifests' = manifests \cup {man[t]}
           /\ own' = own \cup {man[t]}
           /\ MoveTo(t, "sign")
           /\ UNCHANGED <<written, alarms>>
        \/ /\ Rejects(exists)
           /\ WriteFailed(t)
           /\ UNCHANGED <<manifests, own>>
        \/ /\ RejectsStored(exists)
           /\ manifests' = manifests \cup {man[t]}
           /\ own' = own \cup {man[t]}
           /\ WriteFailed(t)
  /\ UNCHANGED <<stream, acc, previous, objects, anchors, dlq>>

\* An exception leaves #sealAndAnchor: the call's remaining segments go too.
Abort(t) ==
  /\ phase' = [phase EXCEPT ![t] = "idle"]
  /\ queue' = [queue EXCEPT ![t] = <<>>]
  /\ man' = [man EXCEPT ![t] = None]
  /\ written' = [written EXCEPT ![t] = 0]

Sign(t) ==
  /\ phase[t] = "sign"
  /\ \/ MoveTo(t, "anchor") /\ UNCHANGED written
     \/ "sign_throws" \in Faults /\ Abort(t)
  /\ UNCHANGED <<stream, acc, previous, worm, dlq, alarms>>

\* The last statement of #sealAndAnchor.
Finish(t) ==
  /\ previous' = man[t]
  /\ MoveTo(t, "next")
  /\ UNCHANGED written

\* requestAnchor answers with a verified token.
TokenVerified(t) ==
  /\ phase[t] = "anchor"
  /\ MoveTo(t, "record")
  /\ UNCHANGED <<written, stream, acc, previous, worm, dlq, alarms>>

\* requestAnchor answers pending or failed: the segment is left unanchored.
NoToken(t) ==
  /\ phase[t] = "anchor"
  /\ "anchor_unavailable" \in Faults
  /\ Finish(t)
  /\ UNCHANGED <<stream, acc, worm, dlq, alarms>>

\* The anchor record is put under the service's own db_id.
PutAnchor(t) ==
  /\ phase[t] = "record"
  /\ LET rec    == [db |-> OwnDb, seq |-> man[t].seq, head |-> man[t]]
         exists == \E a \in anchors : SameKey(a, rec)
     IN \/ /\ Stores(exists)
           /\ anchors' = anchors \cup {rec}
           /\ Finish(t)
        \/ /\ Rejects(exists)
           /\ Abort(t)
           /\ UNCHANGED <<anchors, previous>>
        \/ /\ RejectsStored(exists)
           /\ anchors' = anchors \cup {rec}
           /\ Abort(t)
           /\ UNCHANGED previous
  /\ UNCHANGED <<stream, acc, objects, manifests, own, dlq, alarms>>

\* The for loop around #sealAndAnchor goes on to the call's next segment.
NextSegment(t) ==
  /\ phase[t] = "next"
  /\ BeginSeal(t, queue[t])
  /\ UNCHANGED <<stream, acc, previous, worm, dlq>>

-----------------------------------------------------------------------------
(* The process.                                                            *)

\* SIGTERM: the loop ends, the timer is cleared; nothing is flushed.
Stop ==
  /\ "stop" \in Faults
  /\ status # "stopping"
  /\ phase["ingest"] = "idle"
  /\ status' = "stopping"
  /\ UNCHANGED <<bus, ingested, restarts, acc, previous, calls, worm, dlq,
                 alarms>>

\* The process dies and is started again: only WORM survives (the dead letter
\* queue is InMemoryDlqStore), and the stream is read from '$' again.
Restart ==
  /\ restarts < MaxRestarts
  /\ restarts' = restarts + 1
  /\ status' = "detached"
  /\ open' = [db \in Dbs |-> <<>>]
  /\ aged' = [db \in Dbs |-> FALSE]
  /\ nextSeq' = [db \in Dbs |-> 0]
  /\ previous' = None
  /\ phase' = [t \in Calls |-> "idle"]
  /\ queue' = [t \in Calls |-> <<>>]
  /\ man' = [t \in Calls |-> None]
  /\ written' = [t \in Calls |-> 0]
  /\ dlq' = {}
  /\ alarms' = {}
  /\ own' = {}
  /\ UNCHANGED <<bus, ingested, objects, manifests, anchors>>

Continue(t) ==
  \/ PutObject(t)
  \/ PutManifest(t)
  \/ Sign(t)
  \/ TokenVerified(t)
  \/ NoToken(t)
  \/ PutAnchor(t)
  \/ NextSegment(t)

Environment ==
  \/ \E c \in Cces : Miss(c)
  \/ \E db \in Dbs : Age(db)
  \/ Stop
  \/ Restart

StartCall ==
  \/ \E c \in Cces : Ingest(c)
  \/ \E t \in Sweeps : Sweep(t)

Next ==
  \/ StartCall
  \/ \E t \in Calls : Continue(t)
  \/ Environment

Spec == Init /\ [][Next]_vars

\* The event loop runs what is ready, the timer keeps firing, time passes, and
\* every put, the signer and the provider answer, one way or the other.
Fairness ==
  /\ \A t \in Calls : WF_vars(Continue(t))
  /\ \A t \in Sweeps : WF_vars(Sweep(t))
  /\ \A db \in Dbs : WF_vars(Age(db))

FairSpec == Spec /\ Fairness

-----------------------------------------------------------------------------
(* Properties.                                                             *)

\* Types of the state; in particular no segment or manifest is ever empty.
TypeOK ==
  /\ bus \subseteq Cces
  /\ ingested \subseteq Cces
  /\ status \in {"detached", "attached", "stopping"}
  /\ restarts \in 0..MaxRestarts
  /\ open \in [Dbs -> Seq(Cces)]
  /\ aged \in [Dbs -> BOOLEAN]
  /\ nextSeq \in [Dbs -> Nat]
  /\ previous \in Manifest \cup {None}
  /\ phase \in [Calls -> Phase]
  /\ queue \in [Calls -> Seq(SealReady)]
  /\ man \in [Calls -> Manifest \cup {None}]
  /\ written \in [Calls -> Nat]
  /\ objects \subseteq Object
  /\ manifests \subseteq Manifest
  /\ anchors \subseteq Anchor
  /\ own \subseteq Manifest
  /\ dlq \subseteq Cces
  /\ alarms \subseteq Alarm

Follows(m, p) ==
  /\ m.db = p.db
  /\ m.seq = p.seq + 1
  /\ m.link = SegmentHash(p)
  /\ m.boundary = LastRow(p)

IsGenesis(m) == m.seq = 0 /\ m.link = <<>> /\ m.boundary = <<>>

\* The manifests one process puts form one chain per database, from genesis,
\* without a gap or a fork, whatever overlaps or fails and whatever earlier
\* processes left in WORM: none is linked to a manifest that is missing, and
\* no two have the same sequence.
ChainLinked ==
  /\ \A m \in own : IsGenesis(m) \/ \E p \in own : Follows(m, p)
  /\ \A m, p \in own : SameKey(m, p) => m = p

\* Of all processes together: no two manifests in WORM have one key (WORM
\* specification: "Segment sequences are contiguous from 0 per db_id. No gaps,
\* no reuse").
SequencesNotReused == \A m, p \in manifests : SameKey(m, p) => m = p

\* A manifest is put only after all its objects are durable at their final
\* placement with the prev_row_hash the manifest's chain implies.
ManifestBacked ==
  \A m \in manifests : \A i \in 1..Len(m.objs) : ObjectAt(m, i) \in objects

\* An anchor record never attests a head whose manifest is not in WORM: no
\* segment skips SEALED on its way to ANCHORED.
AnchorBacked == \A a \in anchors : a.head \in manifests

Sealed == UNION {EventsOf(m.objs) : m \in manifests}

\* No change event is sealed in two segments.
SealedOnce ==
  \A m, p \in manifests : \A i \in 1..Len(m.objs) : \A j \in 1..Len(p.objs) :
    m.objs[i] = p.objs[j] => m = p /\ i = j

\* Failing closed: once a segment has failed, the process never seals a later
\* segment of that database, so a lost segment cannot be papered over.
FailureHaltsChain ==
  [][\A m \in own' \ own :
       ~\E a \in alarms : a.db = m.db /\ a.seq < m.seq]_vars

PastVerification(t) == man[t] # None /\ phase[t] # "next"

\* Of the calls that overlap, at most one per database is past verification:
\* a call that begins while another seals for its database finds #previous
\* stale, and verifyCrossSegment turns it away.
OneSealAtATime ==
  \A t, u \in Calls : t # u /\ PastVerification(t) /\ PastVerification(u) =>
    man[t].db # man[u].db

\* The log of a database: the segments its last manifest commits to.
LogOf(db) ==
  LET chain == {m \in manifests : m.db = db}
      tip   == CHOOSE m \in chain : \A p \in chain : p.seq <= m.seq
  IN IF chain = {} THEN <<>> ELSE SegmentHash(tip)

\* The service implements the append-only log of sealed segments: up to the
\* step that puts a second manifest under one key (a failed look for the first
\* lets it), WORM gains a segment of fresh events at the end of a log, or none.
Log == INSTANCE EvidenceLog WITH log <- [db \in Dbs |-> LogOf(db)]
LogStep == [Log!Next]_([db \in Dbs |-> LogOf(db)])
ImplementsLog == Log!Init /\ [][SequencesNotReused' => LogStep]_vars

Admitted == ingested \ Malformed

\* Every event the service admits is sealed: on an anchor outage "sealing/
\* object-append continues" (WORM specification).
EventuallySealed == \A c \in Cces : c \in Admitted ~> c \in Sealed

Alarmed == UNION {EventsOf(a.objs) : a \in alarms}

\* No event disappears in silence: every event the service admits is sealed,
\* or in a segment an alarm has named.
EventuallySettled == \A c \in Cces : c \in Admitted ~> c \in Sealed \cup Alarmed

=============================================================================
