----------------------------- MODULE RecordProofs -----------------------------
(***************************************************************************)
(* What a canonical change event says, for any records, contexts, tables   *)
(* and sensitive columns: an envelope id stands for one thing at the       *)
(* source (IdentityExact), and what an emitted event says is true of the   *)
(* records it was made from (HonestEvents).  Of a MySQL source, every      *)
(* emitted event passes the repository's conformance suite                 *)
(* (ConformanceHolds), and events are sealed in the order in which the     *)
(* source committed them (OrderFollowsCommits).                            *)
(***************************************************************************)
EXTENDS Conformance, FiniteSetTheorems, SequenceTheorems, WellFoundedInduction, TLAPS

-----------------------------------------------------------------------------
(* The inductive invariant.                                                *)

Captured == {r \in Records : Mappable(r)}
Changes == {Change(r) : r \in Captured}

GroupShape(g) ==
  g = [tx_id |-> g.tx_id, commit_ts |-> g.commit_ts, ingest_ts |-> g.ingest_ts,
       offset |-> g.offset, phase |-> g.phase, epoch |-> g.epoch, changes |-> g.changes,
       records |-> g.records]

\* The changes of a group are those of its records, of which there is one.
ChangesMatch(g) ==
  /\ g.records \in SUBSET Captured /\ g.records # {} /\ g.changes \in Seq(Changes)
  /\ \A i \in DOMAIN g.changes : \E r \in g.records : g.changes[i] = Change(r)
  /\ \A r \in g.records : \E i \in DOMAIN g.changes : g.changes[i] = Change(r)

Timed(g) == g.commit_ts \in Nat \cup {Null} /\ g.ingest_ts \in Nat

\* A transaction of the stream has the GTID of its records, and no epoch.
Transaction(g) ==
  /\ GroupShape(g) /\ ChangesMatch(g) /\ Timed(g)
  /\ g.epoch = Null /\ g.tx_id # Null /\ g.offset.gtid = g.tx_id
  /\ \A r \in g.records : r.gtid = g.tx_id

\* A record without a GTID, captured at a time, is a group of its own.
ReadAt(g, r, at) ==
  /\ r.gtid = Null /\ g.records = {r} /\ g.phase = SnapshotPhase(r)
  /\ g.epoch = SnapshotEpochOf(Mapped(r, at)) /\ g.epoch # Null
  /\ g.tx_id = SnapshotTxId(g.epoch, Change(r).object)
  /\ g.offset = Mapped(r, at).offset

Single(g) ==
  /\ GroupShape(g) /\ ChangesMatch(g) /\ Timed(g)
  /\ \E r \in Records, at \in Instants : ReadAt(g, r, at)

GroupOK(g) == Transaction(g) \/ Single(g)

Accepted == {"EMIT", "DUPLICATE", "INTEGRITY_VIOLATION"}

\* An entry was built from a group in this context, and what was accepted
\* breaks no rule of the contract.
EntryOf(e, g) ==
  /\ e.cce = Sealed(Core(g, context)) /\ e.records = g.records
  /\ e.outcome \in Accepted => Violations(Sealed(Core(g, context))) = {}

\* Two emitted events have two ids.
EmittedApart(done) ==
  \A i, j \in {k \in DOMAIN done : done[k].outcome = "EMIT"} :
    i # j => done[i].cce.core.envelope_id # done[j].cce.core.envelope_id

EntriesOK(done) ==
  /\ EmittedApart(done)
  /\ \E S : done \in Seq(S) /\ \A e \in S : \E g : GroupOK(g) /\ EntryOf(e, g)

RecordInv ==
  /\ context \in Contexts
  /\ group = Null \/ Transaction(group)
  /\ EntriesOK(settled)

-----------------------------------------------------------------------------
(* Building groups and entries.                                            *)

\* What add() buffers for a mapped record: in a new group, or in the open one.
Alone(ev, r) == [Opened(ev) EXCEPT !.records = @ \cup {r}]
Joined(g, ev, r) ==
  [[g EXCEPT !.changes = Append(@, ev.change)] EXCEPT !.records = @ \cup {r}]

\* A group of one record is a transaction or a group of its own, by its GTID.
LEMMA OpenedGroup ==
  ASSUME NEW r \in Captured, NEW at \in Instants, NEW g, g = Alone(Mapped(r, at), r)
  PROVE  /\ r.gtid # Null => Transaction(g)
         /\ r.gtid = Null => Single(g)
<1> DEFINE ev == Mapped(r, at)
<1>1. /\ ev.tx_id = r.gtid /\ ev.change = Change(r) /\ ev.offset.gtid = r.gtid
      /\ ev.phase = SnapshotPhase(r) /\ ev.offset = Mapped(r, at).offset
  BY DEF Mapped
<1> DEFINE epoch == IF ev.tx_id # Null THEN Null ELSE SnapshotEpochOf(ev)
<1>2. epoch = IF r.gtid # Null THEN Null ELSE SnapshotEpochOf(Mapped(r, at))
  BY <1>1
<1>3. g = [tx_id |-> IF epoch = Null THEN ev.tx_id ELSE SnapshotTxId(epoch, ev.change.object),
           commit_ts |-> ev.commit_ts, ingest_ts |-> ev.ingest_ts, offset |-> ev.offset,
           phase |-> ev.phase, epoch |-> epoch, changes |-> <<ev.change>>, records |-> {r}]
  BY DEF Alone, Opened
<1> HIDE DEF epoch, ev
<1>4. /\ g.tx_id = (IF epoch = Null THEN ev.tx_id ELSE SnapshotTxId(epoch, ev.change.object))
      /\ g.offset = ev.offset /\ g.phase = ev.phase /\ g.epoch = epoch
      /\ g.changes = <<Change(r)>> /\ g.records = {r}
  BY <1>1, <1>3
<1>5. GroupShape(g)
  BY <1>3 DEF GroupShape
<1>9. Timed(g)
  <2>1. g.commit_ts = r.ts /\ g.ingest_ts = at
    BY <1>3 DEF ev, Mapped
  <2>2. r.ts \in Nat \cup {Null} /\ at \in Nat
    BY RecordAssumption, ChangeEventsAssumption DEF Captured
  <2> QED
    BY <2>1, <2>2 DEF Timed
<1>6. ChangesMatch(g)
  <2>1. Change(r) \in Changes
    BY DEF Changes
  <2> DEFINE c == Change(r)
  <2> HIDE DEF c
  <2>2. <<c>> \in Seq(Changes) /\ DOMAIN <<c>> = {1} /\ <<c>>[1] = c
    BY <2>1 DEF c
  <2>3. g.changes = <<c>>
    BY <1>4 DEF c
  <2> QED
    BY <1>4, <2>2, <2>3 DEF ChangesMatch, c
<1>7. CASE r.gtid # Null
  BY <1>1, <1>2, <1>4, <1>5, <1>6, <1>7, <1>9 DEF Transaction
<1>8. CASE r.gtid = Null
  <2>1. epoch = SnapshotEpochOf(Mapped(r, at)) /\ epoch # Null
    BY <1>2, <1>8, NullAssumption DEF Captured
  <2>2. ReadAt(g, r, at)
    BY <1>1, <1>4, <1>8, <2>1 DEF ReadAt
  <2> QED
    BY <1>5, <1>6, <1>8, <1>9, <2>2 DEF Single, Captured
<1> QED
  BY <1>7, <1>8

\* A record joins the transaction of its GTID.
LEMMA JoinedGroup ==
  ASSUME NEW r \in Captured, NEW at \in Instants, NEW g, Transaction(g), g.tx_id = r.gtid,
         NEW h, h = Joined(g, Mapped(r, at), r)
  PROVE  Transaction(h)
<1> DEFINE c == Change(r)
           s == g.changes
<1>1. Mapped(r, at).change = c
  BY DEF Mapped
<1>2. h = [tx_id |-> g.tx_id, commit_ts |-> g.commit_ts, ingest_ts |-> g.ingest_ts,
           offset |-> g.offset, phase |-> g.phase, epoch |-> g.epoch, changes |-> Append(s, c),
           records |-> g.records \cup {r}]
  <2>1. GroupShape(g)
    BY DEF Transaction
  <2>2. Joined(g, Mapped(r, at), r) =
          [[g EXCEPT !.changes = Append(s, c)] EXCEPT !.records = g.records \cup {r}]
    BY <1>1, <2>1 DEF Joined, GroupShape
  <2> HIDE DEF c, s
  <2> QED
    BY <2>1, <2>2 DEF GroupShape
<1>3. c \in Changes /\ s \in Seq(Changes)
  BY DEF Changes, Transaction, ChangesMatch
<1> HIDE DEF c, s
<1>4. /\ Append(s, c) \in Seq(Changes) /\ DOMAIN Append(s, c) = 1..(Len(s) + 1)
      /\ DOMAIN s = 1..Len(s) /\ Len(s) \in Nat /\ Append(s, c)[Len(s) + 1] = c
      /\ \A i \in 1..Len(s) : Append(s, c)[i] = s[i]
  BY <1>3
<1>5. h.changes = Append(s, c) /\ h.records = g.records \cup {r}
  BY <1>2
<1>6. ChangesMatch(h)
  <2>1. h.records \in SUBSET Captured /\ h.records # {}
    BY <1>5 DEF Transaction, ChangesMatch
  <2>2. ASSUME NEW i \in DOMAIN h.changes PROVE \E q \in h.records : h.changes[i] = Change(q)
    <3>1. CASE i = Len(s) + 1
      BY <1>4, <1>5, <3>1 DEF c
    <3>2. CASE i # Len(s) + 1
      <4>1. i \in 1..Len(s)
        BY <1>4, <1>5, <2>2, <3>2
      <4>2. PICK q \in g.records : s[i] = Change(q)
        BY <1>4, <4>1 DEF Transaction, ChangesMatch, s
      <4> QED
        BY <1>4, <1>5, <4>1, <4>2
    <3> QED
      BY <3>1, <3>2
  <2>3. ASSUME NEW q \in h.records PROVE \E i \in DOMAIN h.changes : h.changes[i] = Change(q)
    <3>1. CASE q = r
      <4>1. Len(s) + 1 \in DOMAIN h.changes
        BY <1>4, <1>5
      <4> QED
        BY <1>4, <1>5, <3>1, <4>1 DEF c
    <3>2. CASE q \in g.records
      <4>1. PICK i \in DOMAIN s : s[i] = Change(q)
        BY <3>2 DEF Transaction, ChangesMatch, s
      <4>2. i \in DOMAIN h.changes /\ h.changes[i] = s[i]
        BY <1>4, <1>5, <4>1
      <4> QED
        BY <4>1, <4>2
    <3> QED
      BY <1>5, <2>3, <3>1, <3>2
  <2> QED
    BY <1>4, <1>5, <2>1, <2>2, <2>3 DEF ChangesMatch
<1>7. /\ h.epoch = g.epoch /\ h.tx_id = g.tx_id /\ h.offset = g.offset
      /\ GroupShape(h) /\ h.commit_ts = g.commit_ts /\ h.ingest_ts = g.ingest_ts
  BY <1>2 DEF GroupShape
<1> QED
  BY <1>5, <1>6, <1>7 DEF Transaction, Timed

LEMMA TwoInOrder ==
  ASSUME NEW a, NEW b
  PROVE  <<>> \o <<b>> = <<b>> /\ <<a>> \o <<b>> = <<a, b>>
<1> DEFINE S == {a, b}
           s == <<a>> \o <<b>>
<1>1. <<a>> \in Seq(S) /\ <<b>> \in Seq(S) /\ <<>> \in Seq(S)
  OBVIOUS
<1>2. Len(<<a>>) = 1 /\ Len(<<b>>) = 1 /\ <<a>>[1] = a /\ <<b>>[1] = b
  OBVIOUS
<1>3. <<>> \o <<b>> = <<b>>
  BY <1>1, ConcatEmptySeq
<1>4. s \in Seq(S) /\ Len(s) = 2 /\ s[1] = a /\ s[2] = b
  BY <1>1, <1>2, ConcatProperties
<1>5. s = [i \in 1..2 |-> s[i]] /\ <<a, b>> = [i \in 1..2 |-> <<a, b>>[i]]
  BY <1>4
<1> HIDE DEF s
<1>6. \A i \in 1..2 : s[i] = <<a, b>>[i]
  BY <1>4
<1>7. s = <<a, b>>
  BY <1>5, <1>6
<1> QED
  BY <1>3, <1>7 DEF s

\* add() completes and leaves groups that say what their records are.
LEMMA AddedGroups ==
  ASSUME group = Null \/ Transaction(group), NEW r \in Captured, NEW at \in Instants,
         NEW added, added = Added(group, Mapped(r, at), r)
  PROVE  /\ added.group = Null \/ Transaction(added.group)
         /\ \/ added.completed = <<>>
            \/ \E g : GroupOK(g) /\ added.completed = <<g>>
            \/ \E g, h : GroupOK(g) /\ GroupOK(h) /\ added.completed = <<g, h>>
<1> DEFINE ev == Mapped(r, at)
           joins == group # Null /\ ev.tx_id # Null /\ group.tx_id = ev.tx_id
           next == IF joins THEN Joined(group, ev, r) ELSE Alone(ev, r)
<1>1. ev.tx_id = r.gtid
  BY DEF Mapped
<1>2. added = [completed |-> (IF joins THEN <<>> ELSE Held(group))
                               \o (IF ev.tx_id = Null THEN <<next>> ELSE <<>>),
               group |-> IF ev.tx_id = Null THEN Null ELSE next]
  BY DEF Added, Joined, Alone
<1>3. r.gtid # Null => Transaction(next)
  <2>1. CASE joins
    BY <1>1, <2>1, JoinedGroup
  <2>2. CASE ~joins
    BY <2>2, OpenedGroup
  <2> QED
    BY <2>1, <2>2
<1>4. r.gtid = Null => ~joins /\ Single(next)
  BY <1>1, OpenedGroup
<1> HIDE DEF ev, joins, next
<1>5. CASE r.gtid # Null
  <2>1. added.group = next
    BY <1>1, <1>2, <1>5
  <2>2. added.completed = IF joins THEN <<>> ELSE Held(group)
    <3>1. added.completed = (IF joins THEN <<>> ELSE Held(group)) \o <<>>
      BY <1>1, <1>2, <1>5
    <3>2. <<>> \o <<>> = <<>> /\ \A g : <<g>> \o <<>> = <<g>>
      OBVIOUS
    <3> QED
      BY <3>1, <3>2 DEF Held
  <2> QED
    BY <1>3, <1>5, <2>1, <2>2 DEF Held, GroupOK
<1>6. CASE r.gtid = Null
  <2>1. added.group = Null
    BY <1>1, <1>2, <1>6
  <2>2. added.completed = Held(group) \o <<next>>
    BY <1>1, <1>2, <1>4, <1>6
  <2>3. <<>> \o <<next>> = <<next>> /\ <<group>> \o <<next>> = <<group, next>>
    BY TwoInOrder
  <2> QED
    BY <1>4, <1>6, <2>1, <2>2, <2>3 DEF Held, GroupOK
<1> QED
  BY <1>5, <1>6

\* A finalized group becomes an entry that was built from it.
LEMMA FinalizedEntries ==
  ASSUME NEW done, EntriesOK(done), NEW g, GroupOK(g)
  PROVE  EntriesOK(Finalized(done, g))
<1>1. PICK S : done \in Seq(S) /\ \A e \in S : \E h : GroupOK(h) /\ EntryOf(e, h)
  BY DEF EntriesOK
<1>2. PICK known :
        /\ known = {done[i].cce : i \in {j \in DOMAIN done : done[j].outcome = "EMIT"}}
        /\ Finalized(done, g) = Append(done,
             [cce |-> Sealed(Core(g, context)), records |-> g.records,
              outcome |-> Outcome(Sealed(Core(g, context)), known)])
  BY DEF Finalized
<1> DEFINE c == Sealed(Core(g, context))
<1>3. PICK e : e = [cce |-> c, records |-> g.records, outcome |-> Outcome(c, known)]
  OBVIOUS
<1>4. EntryOf(e, g)
  <2>1. Outcome(c, known) \in Accepted => Violations(c) = {}
    BY DEF Outcome, Accepted
  <2> HIDE DEF c
  <2>2. e.cce = c /\ e.records = g.records /\ e.outcome = Outcome(c, known)
    BY <1>3
  <2> QED
    BY <2>1, <2>2 DEF EntryOf, c
<1> DEFINE T == S \cup {e}
<1>5. done \in Seq(T) /\ e \in T
  BY <1>1
<1>6. \A f \in T : \E h : GroupOK(h) /\ EntryOf(f, h)
  BY <1>1, <1>4
<1> HIDE DEF T
<1>7. Append(done, e) \in Seq(T)
  BY <1>5
<1>8. e.outcome = "EMIT" =>
        \A i \in DOMAIN done :
          done[i].outcome = "EMIT" => done[i].cce.core.envelope_id # e.cce.core.envelope_id
  <2>1. Outcome(c, known) = "EMIT" => Guard(c, known) = "EMIT"
    BY DEF Outcome
  <2> HIDE DEF c
  <2>2. Guard(c, known) = "EMIT" => \A k \in known : k.core.envelope_id # c.core.envelope_id
    BY DEF Guard
  <2>3. e.cce = c /\ e.outcome = Outcome(c, known)
    BY <1>3
  <2> QED BY <1>2, <2>1, <2>2, <2>3
<1>9. PICK more : more = Append(done, e)
  OBVIOUS
<1>10. /\ Len(done) \in Nat /\ DOMAIN done = 1..Len(done) /\ DOMAIN more = 1..(Len(done) + 1)
       /\ more[Len(done) + 1] = e /\ \A i \in 1..Len(done) : more[i] = done[i]
  BY <1>5, <1>9
<1>11. EmittedApart(more)
  <2> SUFFICES ASSUME NEW i \in DOMAIN more, NEW j \in DOMAIN more, i # j,
                      more[i].outcome = "EMIT", more[j].outcome = "EMIT"
               PROVE  more[i].cce.core.envelope_id # more[j].cce.core.envelope_id
    BY DEF EmittedApart
  <2>1. i = Len(done) + 1 \/ (i \in DOMAIN done /\ more[i] = done[i])
    BY <1>10
  <2>2. j = Len(done) + 1 \/ (j \in DOMAIN done /\ more[j] = done[j])
    BY <1>10
  <2>3. EmittedApart(done)
    BY DEF EntriesOK
  <2> QED BY <1>8, <1>10, <2>1, <2>2, <2>3 DEF EmittedApart
<1> QED
  BY <1>2, <1>3, <1>6, <1>7, <1>9, <1>11 DEF EntriesOK

LEMMA FinalizedAllEntries ==
  ASSUME NEW done, EntriesOK(done), NEW r \in Captured, NEW at \in Instants,
         group = Null \/ Transaction(group)
  PROVE  EntriesOK(FinalizedAll(done, Added(group, Mapped(r, at), r).completed))
<1>1. PICK gs : gs = Added(group, Mapped(r, at), r).completed
  OBVIOUS
<1>2. \/ gs = <<>>
      \/ \E g : GroupOK(g) /\ gs = <<g>>
      \/ \E g, h : GroupOK(g) /\ GroupOK(h) /\ gs = <<g, h>>
  BY <1>1, AddedGroups
<1>3. CASE gs = <<>>
  <2>1. FinalizedAll(done, gs) = done
    BY <1>3 DEF FinalizedAll
  <2> QED
    BY <1>1, <2>1
<1>4. ASSUME NEW g, GroupOK(g), gs = <<g>>
      PROVE  EntriesOK(FinalizedAll(done, gs))
  <2>1. Len(gs) = 1 /\ gs[1] = g
    BY <1>4
  <2>2. FinalizedAll(done, gs) = Finalized(done, g)
    BY <2>1 DEF FinalizedAll
  <2> QED
    BY <1>4, <2>2, FinalizedEntries
<1>5. ASSUME NEW g, NEW h, GroupOK(g), GroupOK(h), gs = <<g, h>>
      PROVE  EntriesOK(FinalizedAll(done, gs))
  <2>1. Len(gs) = 2 /\ gs[1] = g /\ gs[2] = h
    BY <1>5
  <2>2. FinalizedAll(done, gs) = Finalized(Finalized(done, g), h)
    BY <2>1 DEF FinalizedAll
  <2>3. EntriesOK(Finalized(done, g))
    BY <1>5, FinalizedEntries
  <2> QED
    BY <1>5, <2>2, <2>3, FinalizedEntries
<1> QED
  BY <1>1, <1>2, <1>3, <1>4, <1>5

LEMMA AlwaysRecordInv == Spec => []RecordInv
<1>1. Init => RecordInv
  <2> SUFFICES ASSUME Init PROVE RecordInv
    OBVIOUS
  <2>1. settled \in Seq({})
    BY DEF Init
  <2>2. EntriesOK(settled)
    BY <2>1 DEF EntriesOK, EmittedApart
  <2> QED
    BY <2>2 DEF Init, RecordInv
<1>2. RecordInv /\ [Next]_cvars => RecordInv'
  <2> SUFFICES ASSUME RecordInv, [Next]_cvars PROVE RecordInv'
    OBVIOUS
  <2>1. \A done : context' = context => (EntriesOK(done)' <=> EntriesOK(done))
    BY DEF EntriesOK, EntryOf
  <2>2. CASE UNCHANGED cvars
    BY <2>1, <2>2 DEF RecordInv, cvars
  <2>3. CASE Process
    <3>1. PICK r \in Records, at \in Instants :
            /\ context' = context
            /\ \/ UNCHANGED <<group, settled>>
               \/ /\ r \in Captured
                  /\ group' = Added(group, Mapped(r, at), r).group
                  /\ settled' = FinalizedAll(settled, Added(group, Mapped(r, at), r).completed)
      BY <2>3 DEF Process, Captured
    <3> QED
      BY <2>1, <3>1, AddedGroups, FinalizedAllEntries DEF RecordInv
  <2>4. CASE Flush
    <3>1. /\ context' = context /\ group' = Null /\ GroupOK(group)
          /\ settled' = Finalized(settled, group)
      BY <2>4 DEF Flush, RecordInv, GroupOK
    <3> QED
      BY <2>1, <3>1, FinalizedEntries DEF RecordInv
  <2> QED
    BY <2>2, <2>3, <2>4 DEF Next
<1> QED
  BY <1>1, <1>2, PTL DEF Spec

-----------------------------------------------------------------------------
(* What an accepted event is known to satisfy.                             *)

LEMMA NoRuleBroken ==
  ASSUME NEW core, Violations(Sealed(core)) = {}
  PROVE  /\ V16(core) /\ \A k \in RealKeys : core.offset[k] # Empty
         /\ \A i \in DOMAIN core.changes : WellOperated(core.changes[i])
<1>1. Sealed(core).core = core
  BY DEF Sealed
<1>2. \A ok, rule : IfNot(ok, rule) = {} => ok
  BY DEF IfNot
<1>3. /\ Schema(core) = {} /\ IfNot(V16(core), "V16") = {}
      /\ IfNot(\A k \in RealKeys : core.offset[k] # Empty, "V11") = {}
  BY <1>1 DEF Violations
<1>4. \A i \in DOMAIN core.changes : IfNot(WellOperated(core.changes[i]), "V5") = {}
  <2>1. UNION {IfNot(WellOperated(core.changes[i]), "V5") : i \in DOMAIN core.changes} = {}
    BY <1>3 DEF Schema
  <2> QED
    BY <2>1
<1>5. V16(core)
  BY <1>2, <1>3
<1>6. \A k \in RealKeys : core.offset[k] # Empty
  BY <1>2, <1>3
<1>7. \A i \in DOMAIN core.changes : WellOperated(core.changes[i])
  BY <1>2, <1>4
<1> QED
  BY <1>5, <1>6, <1>7

\* What has no GTID is only accepted as a snapshot read.
LEMMA AcceptedRead ==
  ASSUME NEW g, NEW r, NEW at, ReadAt(g, r, at), NEW given,
         Violations(Sealed(Core(g, given))) = {}
  PROVE  r.snapshot # "false"
<1>1. V16(Core(g, given)) /\ Core(g, given).offset = g.offset
  BY NoRuleBroken DEF Core
<1>2. \A k \in RealKeys : g.offset[k] = Null
  BY DEF ReadAt, RealKeys, Mapped
<1>3. ~HasRealKey(Core(g, given).offset)
  BY <1>1, <1>2 DEF HasRealKey
<1>4. Core(g, given).completeness = DefaultCompleteness(g)
  <2>1. Core(g, given).completeness = Completeness(g, given.continuity)
    BY DEF Core
  <2> QED
    BY <2>1 DEF Completeness, ReadAt
<1>5. DefaultCompleteness(g).snapshot_phase = SnapshotPhase(r)
  BY DEF DefaultCompleteness, ReadAt
<1>6. SnapshotPhase(r) \in SnapshotPhases
  BY <1>1, <1>3, <1>4, <1>5 DEF V16
<1> QED
  BY <1>6 DEF SnapshotPhase, SnapshotPhases

-----------------------------------------------------------------------------
(* Identity.                                                               *)

LEMMA ReadIdentity ==
  ASSUME NEW g, NEW r \in Reads, NEW at \in Instants, ReadAt(g, r, at),
         NEW h, NEW s \in Reads, NEW to \in Instants, ReadAt(h, s, to)
  PROVE  /\ g.tx_id = h.tx_id => Origin(r) = Origin(s)
         /\ Origin(r) = Origin(s) /\ r.ts # Null => g.tx_id = h.tx_id
<1> DEFINE rStart == Coalesce(r.ts, at)
           sStart == Coalesce(s.ts, to)
<1>1. /\ g.tx_id = [epoch |-> [file |-> r.file, pos |-> r.pos, start |-> rStart],
                    row |-> [name |-> r.table, key |-> PrimaryKey(r)]]
      /\ h.tx_id = [epoch |-> [file |-> s.file, pos |-> s.pos, start |-> sStart],
                    row |-> [name |-> s.table, key |-> PrimaryKey(s)]]
  BY DEF ReadAt, SnapshotTxId, SnapshotEpochOf, SnapshotEpochId, Mapped, Change, RowKeyHash
<1>2. /\ Origin(r) = [run |-> r.run, table |-> r.table, key |-> PrimaryKey(r)]
      /\ Origin(s) = [run |-> s.run, table |-> s.table, key |-> PrimaryKey(s)]
  BY DEF Origin, Reads
<1>3. ASSUME g.tx_id = h.tx_id PROVE Origin(r) = Origin(s)
  <2> HIDE DEF rStart, sStart
  <2>1. r.file = s.file /\ r.pos = s.pos /\ rStart = sStart
    BY <1>1, <1>3
  <2>2. r.table = s.table /\ PrimaryKey(r) = PrimaryKey(s)
    BY <1>1, <1>3
  <2>3. r.ts = s.ts \/ Null \in {r.ts, s.ts}
    BY <2>1 DEF rStart, sStart, Coalesce
  <2>4. r.run = s.run
    BY <2>1, <2>3, SourceAssumption
  <2> QED
    BY <1>2, <2>2, <2>4
<1>4. ASSUME Origin(r) = Origin(s), r.ts # Null PROVE g.tx_id = h.tx_id
  <2>1. r.file = s.file /\ r.pos = s.pos /\ r.ts = s.ts
    BY <1>4, SourceAssumption
  <2>2. rStart = sStart
    BY <1>4, <2>1 DEF Coalesce
  <2>3. r.table = s.table /\ PrimaryKey(r) = PrimaryKey(s)
    BY <1>2, <1>4
  <2> HIDE DEF rStart, sStart
  <2> QED
    BY <1>1, <2>1, <2>2, <2>3
<1> QED
  BY <1>3, <1>4

\* A transaction is no snapshot read, neither by its id nor by its origin.
LEMMA TransactionIsNoRead ==
  ASSUME NEW g, Transaction(g), NEW r \in g.records,
         NEW h, NEW s \in Records, NEW at \in Instants, ReadAt(h, s, at)
  PROVE  g.tx_id # h.tx_id /\ Origin(r) # Origin(s)
<1>1. r \in Records /\ r.gtid = g.tx_id /\ r.gtid # Null /\ s.gtid = Null
  BY DEF Transaction, ChangesMatch, ReadAt, Captured
<1>2. h.tx_id = SnapshotTxId(SnapshotEpochOf(Mapped(s, at)), Change(s).object)
  BY DEF ReadAt
<1>3. /\ Origin(r) = [tx |-> r.gtid]
      /\ Origin(s) = [run |-> s.run, table |-> s.table, key |-> PrimaryKey(s)]
  BY <1>1 DEF Origin
<1>4. DOMAIN Origin(r) = {"tx"} /\ "run" \in DOMAIN Origin(s)
  BY <1>3
<1> QED
  BY <1>1, <1>2, <1>4, SourceAssumption

LEMMA IdentityOfGroups ==
  ASSUME NEW g, GroupOK(g), Violations(Sealed(Core(g, context))) = {}, NEW r \in g.records,
         NEW h, GroupOK(h), Violations(Sealed(Core(h, context))) = {}, NEW s \in h.records
  PROVE  /\ g.tx_id = h.tx_id => Origin(r) = Origin(s)
         /\ Origin(r) = Origin(s) /\ r.ts # Null => g.tx_id = h.tx_id
<1>1. ASSUME NEW f, Single(f), Violations(Sealed(Core(f, context))) = {}, NEW q \in f.records
      PROVE  q \in Reads /\ \E at \in Instants : ReadAt(f, q, at)
  <2>1. PICK p \in Records, at \in Instants : ReadAt(f, p, at)
    BY <1>1 DEF Single
  <2>2. q = p /\ p.gtid = Null
    BY <1>1, <2>1 DEF ReadAt
  <2>3. p.snapshot # "false"
    BY <1>1, <2>1, AcceptedRead
  <2> QED
    BY <2>1, <2>2, <2>3 DEF Reads
<1>2. CASE Transaction(g) /\ Transaction(h)
  <2>1. r.gtid = g.tx_id /\ s.gtid = h.tx_id /\ r.gtid # Null /\ s.gtid # Null
    BY <1>2 DEF Transaction
  <2>2. Origin(r) = [tx |-> r.gtid] /\ Origin(s) = [tx |-> s.gtid]
    BY <2>1 DEF Origin
  <2>3. [tx |-> r.gtid].tx = r.gtid /\ [tx |-> s.gtid].tx = s.gtid
    OBVIOUS
  <2> QED
    BY <2>1, <2>2, <2>3
<1>3. CASE Transaction(g) /\ Single(h)
  <2>1. s \in Records /\ \E at \in Instants : ReadAt(h, s, at)
    BY <1>1, <1>3 DEF Reads
  <2> QED
    BY <1>3, <2>1, TransactionIsNoRead
<1>4. CASE Single(g) /\ Transaction(h)
  <2>1. r \in Records /\ \E at \in Instants : ReadAt(g, r, at)
    BY <1>1, <1>4 DEF Reads
  <2> QED
    BY <1>4, <2>1, TransactionIsNoRead
<1>5. CASE Single(g) /\ Single(h)
  <2>1. PICK at \in Instants : ReadAt(g, r, at) /\ r \in Reads
    BY <1>1, <1>5
  <2>2. PICK to \in Instants : ReadAt(h, s, to) /\ s \in Reads
    BY <1>1, <1>5
  <2> QED
    BY <2>1, <2>2, ReadIdentity
<1> QED
  BY <1>2, <1>3, <1>4, <1>5 DEF GroupOK

\* An accepted entry was built from a group, and breaks no rule.
LEMMA EntryGroup ==
  ASSUME EntriesOK(settled), NEW i \in DOMAIN settled
  PROVE  \E g : GroupOK(g) /\ EntryOf(settled[i], g)
<1>1. PICK S : settled \in Seq(S) /\ \A e \in S : \E g : GroupOK(g) /\ EntryOf(e, g)
  BY DEF EntriesOK
<1>2. settled[i] \in S
  BY <1>1
<1> QED
  BY <1>1, <1>2

\* Identity: whatever is captured, in whatever order, at whatever times and however
\* often, an envelope id stands for one transaction or one row of one snapshot run, and
\* that has one id (build.ts, uuid.ts, snapshot.ts).
THEOREM EnvelopeIdIsExact == Spec => []IdentityExact
<1>1. RecordInv => IdentityExact
  <2> SUFFICES ASSUME RecordInv, NEW i \in Built, NEW j \in Built,
                      NEW r \in settled[i].records, NEW s \in settled[j].records
               PROVE
        LET sameId == settled[i].cce.core.envelope_id = settled[j].cce.core.envelope_id
        IN /\ sameId => Origin(r) = Origin(s)
           /\ Origin(r) = Origin(s) /\ r.ts # Null => sameId
    BY DEF IdentityExact
  <2>1. /\ i \in DOMAIN settled /\ settled[i].outcome \in Accepted
        /\ j \in DOMAIN settled /\ settled[j].outcome \in Accepted
    BY DEF Built, Accepted
  <2>2. PICK g : GroupOK(g) /\ EntryOf(settled[i], g)
    BY <2>1, EntryGroup DEF RecordInv
  <2>3. PICK h : GroupOK(h) /\ EntryOf(settled[j], h)
    BY <2>1, EntryGroup DEF RecordInv
  <2>4. /\ settled[i].cce.core.envelope_id = [tx_id |-> g.tx_id]
        /\ settled[j].cce.core.envelope_id = [tx_id |-> h.tx_id]
    <3>1. settled[i].cce = Sealed(Core(g, context)) /\ settled[j].cce = Sealed(Core(h, context))
      BY <2>2, <2>3 DEF EntryOf
    <3>2. \A core : Sealed(core).core = core
      BY DEF Sealed
    <3>3. /\ Core(g, context).envelope_id = [tx_id |-> g.tx_id]
          /\ Core(h, context).envelope_id = [tx_id |-> h.tx_id]
      BY DEF Core, EnvelopeId
    <3> QED
      BY <3>1, <3>2, <3>3
  <2>5. [tx_id |-> g.tx_id].tx_id = g.tx_id /\ [tx_id |-> h.tx_id].tx_id = h.tx_id
    OBVIOUS
  <2>6. /\ g.tx_id = h.tx_id => Origin(r) = Origin(s)
        /\ Origin(r) = Origin(s) /\ r.ts # Null => g.tx_id = h.tx_id
    BY <2>1, <2>2, <2>3, IdentityOfGroups DEF EntryOf
  <2> QED
    BY <2>4, <2>5, <2>6
<1> QED
  BY <1>1, AlwaysRecordInv, PTL

-----------------------------------------------------------------------------
(* What an event says of its records.                                      *)

\* Doubt about the stream or its source is never HEALTHY.
LEMMA HealthyIsKnown ==
  ASSUME NEW attestation, attestation # Null => attestation.state \in DOMAIN Rank,
         NEW continuity, CombineFidelity(attestation, continuity).state = "HEALTHY"
  PROVE  /\ attestation # Null /\ attestation.state = "HEALTHY"
         /\ continuity # Null /\ ~continuity.gap_detected
<1> DEFINE base == Coalesce(attestation, Unattested)
           doubt == IF continuity = Null THEN "completeness not attested"
                    ELSE IF continuity.gap_detected THEN "completeness gap detected" ELSE Null
           state == IF doubt # Null THEN Worst(base.state, "DEGRADED") ELSE base.state
<1>1. CombineFidelity(attestation, continuity).state = state
  BY DEF CombineFidelity
<1>2. /\ Worst("HEALTHY", "DEGRADED") = "DEGRADED"
      /\ Worst("DEGRADED", "DEGRADED") = "DEGRADED"
      /\ Worst("COMPROMISED", "DEGRADED") = "COMPROMISED"
  BY DEF Worst, Rank
<1>3. DOMAIN Rank = {"HEALTHY", "DEGRADED", "COMPROMISED"}
  BY DEF Rank
<1>4. base.state \in {"HEALTHY", "DEGRADED", "COMPROMISED"}
  BY <1>3 DEF Coalesce, Unattested
<1>5. state = "HEALTHY"
  BY <1>1
<1>6. doubt = Null /\ base.state = "HEALTHY"
  <2> HIDE DEF base, doubt
  <2> QED
    BY <1>2, <1>4, <1>5
<1>7. attestation # Null /\ attestation.state = "HEALTHY"
  BY <1>6 DEF Coalesce, Unattested
<1>8. continuity # Null /\ ~continuity.gap_detected
  BY <1>6, NullAssumption
<1> QED
  BY <1>7, <1>8

LEMMA EntryAttested ==
  ASSUME NEW g, GroupOK(g), NEW e, EntryOf(e, g), context \in Contexts,
         Violations(Sealed(Core(g, context))) = {}
  PROVE  Attested(e)
<1> DEFINE core == Core(g, context)
           known == IF g.epoch # Null THEN DefaultCompleteness(g) ELSE context.continuity
<1>1. e.cce.core = core /\ e.records = g.records
  BY DEF EntryOf, Sealed
<1>2. core.fidelity = BuildFidelity(CombineFidelity(context.attestation, known))
  <2>1. core.fidelity = BuildFidelity(Fidelity(g, context.attestation, context.continuity))
    BY DEF Core
  <2>2. Fidelity(g, context.attestation, context.continuity)
          = CombineFidelity(context.attestation, known)
    BY DEF Fidelity
  <2> QED
    BY <2>1, <2>2
<1>3. core.fidelity.state = CombineFidelity(context.attestation, known).state
  <2>1. \A state, reason : BuildFidelity([state |-> state, reason |-> reason]).state = state
    BY DEF BuildFidelity
  <2>2. \E state, reason :
          CombineFidelity(context.attestation, known) = [state |-> state, reason |-> reason]
    BY DEF CombineFidelity
  <2> QED
    BY <1>2, <2>1, <2>2
<1>4. core.offset = g.offset /\ \A k \in RealKeys : core.offset[k] # Empty
  BY NoRuleBroken DEF Core
<1>5. context.attestation # Null => context.attestation.state \in DOMAIN Rank
  BY ContextAssumption
<1> HIDE DEF core, known
<1>6. core.fidelity.state = "HEALTHY" =>
        /\ context.attestation # Null /\ context.attestation.state = "HEALTHY"
        /\ known # Null /\ ~known.gap_detected
  BY <1>3, <1>5, HealthyIsKnown
<1>7. CASE Transaction(g)
  <2>1. known = context.continuity
    BY <1>7 DEF known, Transaction
  <2>2. HasRealKey(core.offset)
    BY <1>4, <1>7 DEF HasRealKey, RealKeys, Transaction
  <2> QED
    BY <1>1, <1>6, <2>1, <2>2 DEF Attested
<1>8. CASE Single(g)
  <2>1. PICK r \in Records, at \in Instants : ReadAt(g, r, at)
    BY <1>8 DEF Single
  <2>2. r.snapshot # "false" /\ g.records = {r}
    BY <2>1, AcceptedRead DEF ReadAt
  <2>3. \A q \in e.records : q.snapshot # "false"
    BY <1>1, <2>2
  <2> QED
    BY <1>1, <1>6, <2>3 DEF Attested
<1> QED
  BY <1>7, <1>8 DEF GroupOK

\* Whoever the correlation names was near, and was the only one or had the only key.
LEMMA NamedActor ==
  ASSUME NEW query, NEW audit, IsFiniteSet(audit),
         query.connection_id = Null, query.thread_id = Null,
         NEW actor, actor = CorrelateActor(query, audit), actor.confidence # "unattributed"
  PROVE  /\ \A c \in audit : ~c.tampered
         /\ \E c \in InWindow(query, audit) :
              /\ c.ref = actor.ref
              /\ \A d \in InWindow(query, audit) \ {c} : c.gtid = query.gtid /\ d.gtid # c.gtid
<1> DEFINE near == InWindow(query, audit)
           hard == Keyed(query, audit)
<1>1. near \subseteq audit /\ hard \subseteq near
  BY DEF InWindow, Keyed
<1>2. IsFiniteSet(near) /\ IsFiniteSet(hard)
  BY <1>1, FS_Subset
<1>3. \A c \in near : c \in hard <=> query.gtid # Null /\ c.gtid = query.gtid
  BY DEF Keyed, HardKeys
<1>4. actor = IF \E c \in audit : c.tampered THEN Unattributed
              ELSE IF Cardinality(hard) = 1 THEN [confidence |-> "exact", ref |-> Only(hard).ref]
              ELSE IF Cardinality(near) = 1 THEN [confidence |-> "probable", ref |-> Only(near).ref]
              ELSE Unattributed
  BY DEF CorrelateActor
<1>5. Unattributed.confidence = "unattributed"
  BY DEF Unattributed
<1> HIDE DEF near, hard
<1>6. \A c \in audit : ~c.tampered
  BY <1>4, <1>5
<1>7. CASE Cardinality(hard) = 1
  <2>1. PICK c : hard = {c}
    BY <1>2, <1>7, FS_Singleton
  <2>2. Only(hard) = c
    BY <2>1 DEF Only
  <2>3. actor.ref = c.ref
    BY <1>4, <1>6, <1>7, <2>2
  <2>4. c \in near /\ \A d \in near \ {c} : c.gtid = query.gtid /\ d.gtid # c.gtid
    BY <1>1, <1>3, <2>1
  <2> QED
    BY <1>6, <2>3, <2>4 DEF near
<1>8. CASE Cardinality(hard) # 1
  <2>1. Cardinality(near) = 1 /\ actor.ref = Only(near).ref
    BY <1>4, <1>5, <1>6, <1>8
  <2>2. PICK c : near = {c}
    BY <1>2, <2>1, FS_Singleton
  <2>3. Only(near) = c
    BY <2>2 DEF Only
  <2>4. c \in near /\ c.ref = actor.ref /\ near \ {c} = {}
    BY <2>1, <2>2, <2>3
  <2> QED
    BY <1>6, <2>4 DEF near
<1> QED
  BY <1>7, <1>8

LEMMA EntryBlamed ==
  ASSUME NEW g, GroupOK(g), NEW e, EntryOf(e, g), context \in Contexts
  PROVE  Blamed(e)
<1> DEFINE core == Core(g, context)
           query == Query(g)
<1>1. e.cce.core = core /\ e.records = g.records
  BY DEF EntryOf, Sealed
<1>2. /\ core.actor = CorrelateActor(query, context.audit) /\ core.tx_id = g.tx_id
      /\ core.commit_ts = Coalesce(g.commit_ts, g.ingest_ts)
  BY DEF Core
<1>3. /\ query.commit_ts = Coalesce(g.commit_ts, g.ingest_ts) /\ query.gtid = g.tx_id
      /\ query.connection_id = Null /\ query.thread_id = Null
      /\ query.tables = {g.changes[i].object.name : i \in DOMAIN g.changes}
  BY DEF Query
<1>4. {g.changes[i].object.name : i \in DOMAIN g.changes} = {r.table : r \in g.records}
  <2>1. \A r : Change(r).object.name = r.table
    BY DEF Change
  <2>2. ChangesMatch(g)
    BY DEF GroupOK, Transaction, Single
  <2>3. \A i \in DOMAIN g.changes : \E r \in g.records : g.changes[i].object.name = r.table
    BY <2>1, <2>2 DEF ChangesMatch
  <2>4. \A r \in g.records : \E i \in DOMAIN g.changes : g.changes[i].object.name = r.table
    BY <2>1, <2>2 DEF ChangesMatch
  <2> QED
    BY <2>3, <2>4
<1>5. IsFiniteSet(context.audit)
  BY ContextAssumption
<1> HIDE DEF core, query
<1>6. InWindow(query, context.audit) =
        {c \in context.audit :
           /\ c.at - e.cce.core.commit_ts \in -Window..Window
           /\ c.objects = {} \/ c.objects \cap {r.table : r \in e.records} # {}}
  BY <1>1, <1>2, <1>3, <1>4 DEF InWindow
<1>7. core.actor.confidence # "unattributed" =>
        /\ \A c \in context.audit : ~c.tampered
        /\ \E c \in InWindow(query, context.audit) :
             /\ c.ref = core.actor.ref
             /\ \A d \in InWindow(query, context.audit) \ {c} :
                  c.gtid = query.gtid /\ d.gtid # c.gtid
  BY <1>2, <1>3, <1>5, NamedActor
<1> QED
  BY <1>1, <1>2, <1>3, <1>6, <1>7 DEF Blamed

-----------------------------------------------------------------------------
(* Masking.                                                                *)

\* A masked image has the columns of the image, and hides the sensitive ones.
LEMMA MaskedImage ==
  ASSUME NEW image, NEW table, image # Null => MaskImage(image, table) # Null
  PROVE  /\ DOMAIN Image(MaskImage(image, table)) = DOMAIN Image(image)
         /\ \A c \in DOMAIN Image(image) :
              /\ image # Null
              /\ MaskImage(image, table)[c] = IF IsSensitiveColumn(c, table)
                                              THEN Masked(image[c]) ELSE image[c]
<1>1. CASE image = Null
  <2>1. Image(image) = <<>> /\ Image(MaskImage(image, table)) = <<>>
    BY <1>1 DEF Image, MaskImage
  <2>2. DOMAIN <<>> = {}
    OBVIOUS
  <2> QED
    BY <2>1, <2>2
<1>2. CASE image # Null
  <2>1. /\ Image(image) = image
        /\ Image(MaskImage(image, table)) = MaskImage(image, table)
        /\ MaskImage(image, table) =
             [c \in DOMAIN image |->
               IF IsSensitiveColumn(c, table) THEN Masked(image[c]) ELSE image[c]]
    BY <1>2 DEF Image, MaskImage
  <2> QED
    BY <1>2, <2>1
<1> QED
  BY <1>1, <1>2

\* The value an image has in a column, and Null where it has none.
LEMMA ValueInImage ==
  ASSUME NEW image, NEW c
  PROVE  /\ c \in DOMAIN Image(image) => OrNull(ValueAt(image, c)) = image[c]
         /\ c \notin DOMAIN Image(image) => OrNull(ValueAt(image, c)) = Null
<1>1. \A v : <<v>> # <<>> /\ <<v>>[1] = v
  OBVIOUS
<1> QED
  BY <1>1 DEF ValueAt, OrNull

\* The parts of a captured change, as its item shows them.
LEMMA ItemParts ==
  ASSUME NEW r \in Records, NEW seq, NEW item, item = Item(Change(r), seq)
  PROVE  LET change == Change(r)
             table == r.table
         IN /\ item.operation = Operation(r) /\ item.object.name = table
            /\ item.before = MaskImage(change.before, table)
            /\ item.after = MaskImage(change.after, table)
            /\ item.field_changes = MaskFieldChanges(DiffFields(change), table)
            /\ change.operation = Operation(r)
            /\ change.before \in {Null, r.before} /\ change.after \in {Null, r.after}
            /\ change.before # Null => MaskImage(change.before, table) # Null
            /\ change.after # Null => MaskImage(change.after, table) # Null
<1> DEFINE change == Change(r)
<1>1. /\ change.operation = Operation(r) /\ change.object.name = r.table
      /\ change.before \in {Null, r.before} /\ change.after \in {Null, r.after}
  BY DEF Change
<1>2. \A image \in {r.before, r.after} \ {Null} : MaskImage(image, r.table) # Null
  BY NullAssumption
<1>3. /\ item.operation = change.operation /\ item.object = change.object
      /\ item.before = MaskImage(change.before, change.object.name)
      /\ item.after = MaskImage(change.after, change.object.name)
      /\ item.field_changes = MaskFieldChanges(DiffFields(change), change.object.name)
  BY DEF Item
<1> HIDE DEF change
<1> QED
  BY <1>1, <1>2, <1>3 DEF change

LEMMA MaskedFields ==
  ASSUME NEW fields, NEW table, MaskFieldChanges(fields, table) # Null
  PROVE  /\ fields # Null /\ DOMAIN MaskFieldChanges(fields, table) = DOMAIN fields
         /\ \A c \in DOMAIN fields :
              MaskFieldChanges(fields, table)[c] =
                IF IsSensitiveColumn(c, table)
                THEN [old |-> Masked(fields[c].old), new |-> Masked(fields[c].new)] ELSE fields[c]
  BY DEF MaskFieldChanges

LEMMA ItemConcealed ==
  ASSUME NEW r \in Records, NEW seq, NEW item, item = Item(Change(r), seq)
  PROVE  Concealed(item)
<1> DEFINE change == Change(r)
<1>1. \A v : Masked(v) \in {Null, "***"}
  BY DEF Masked
<1>2. ASSUME NEW image \in {change.before, change.after}, NEW c, IsSensitiveColumn(c, r.table)
      PROVE  OrNull(ValueAt(MaskImage(image, r.table), c)) \in {Null, "***"}
  <2>1. image # Null => MaskImage(image, r.table) # Null
    BY <1>2, ItemParts
  <2>2. CASE c \in DOMAIN Image(image)
    BY <1>1, <1>2, <2>1, <2>2, MaskedImage, ValueInImage
  <2>3. CASE c \notin DOMAIN Image(image)
    BY <2>1, <2>3, MaskedImage, ValueInImage
  <2> QED
    BY <2>2, <2>3
<1>3. ASSUME NEW c \in DOMAIN Image(item.field_changes), IsSensitiveColumn(c, r.table)
      PROVE  {item.field_changes[c].old, item.field_changes[c].new} \subseteq {Null, "***"}
  <2>1. item.field_changes = MaskFieldChanges(DiffFields(change), r.table)
    BY ItemParts
  <2>2. item.field_changes # Null
    <3>1. DOMAIN <<>> = {}
      OBVIOUS
    <3> QED
      BY <1>3, <3>1 DEF Image
  <2>3. Image(item.field_changes) = item.field_changes
    BY <2>2 DEF Image
  <2>4. item.field_changes[c] = [old |-> Masked(DiffFields(change)[c].old),
                                 new |-> Masked(DiffFields(change)[c].new)]
    BY <1>3, <2>1, <2>2, <2>3, MaskedFields
  <2> QED
    BY <1>1, <2>4
<1>4. /\ item.object.name = r.table /\ item.before = MaskImage(change.before, r.table)
      /\ item.after = MaskImage(change.after, r.table)
  BY ItemParts
<1> HIDE DEF change
<1>5. ASSUME NEW c, IsSensitiveColumn(c, r.table)
      PROVE  /\ OrNull(ValueAt(item.before, c)) \in {Null, "***"}
             /\ OrNull(ValueAt(item.after, c)) \in {Null, "***"}
             /\ c \in DOMAIN Image(item.field_changes) =>
                  {item.field_changes[c].old, item.field_changes[c].new} \subseteq {Null, "***"}
  BY <1>2, <1>3, <1>4, <1>5
<1> QED
  BY <1>4, <1>5 DEF Concealed

-----------------------------------------------------------------------------
(* Images and field changes.                                               *)

\* The field changes of a row operation: every changed column, old and new.
LEMMA FieldChanges ==
  ASSUME NEW r \in Records, NEW seq, NEW item, item = Item(Change(r), seq), WellOperated(item),
         item.operation \in RowOps
  PROVE  LET change == Change(r)
             old(c) == IF change.operation = "INSERT" THEN Null
                       ELSE OrNull(ValueAt(change.before, c))
             new(c) == IF change.operation = "DELETE" THEN Null
                       ELSE OrNull(ValueAt(change.after, c))
             shown(v, c) == IF IsSensitiveColumn(c, r.table) THEN Masked(v) ELSE v
         IN /\ DOMAIN item.field_changes = ChangedColumns(change)
            /\ \A c \in ChangedColumns(change) :
                 /\ item.field_changes[c].old = shown(old(c), c)
                 /\ item.field_changes[c].new = shown(new(c), c)
<1> DEFINE change == Change(r)
           fields == DiffFields(change)
<1>1. item.field_changes = MaskFieldChanges(fields, r.table) /\ item.operation = change.operation
  BY ItemParts
<1>2. MaskFieldChanges(fields, r.table) # Null
  BY <1>1 DEF WellOperated
<1>3. fields = [c \in ChangedColumns(change) |->
         [old |-> IF change.operation = "INSERT" THEN Null ELSE OrNull(ValueAt(change.before, c)),
          new |-> IF change.operation = "DELETE" THEN Null ELSE OrNull(ValueAt(change.after, c))]]
  BY <1>1 DEF DiffFields, SchemaOps, RowOps
<1> HIDE DEF change
<1>4. /\ DOMAIN item.field_changes = ChangedColumns(change)
      /\ \A c \in ChangedColumns(change) :
           item.field_changes[c] =
             IF IsSensitiveColumn(c, r.table)
             THEN [old |-> Masked(fields[c].old), new |-> Masked(fields[c].new)] ELSE fields[c]
  <2>1. DOMAIN fields = ChangedColumns(change)
    BY <1>3
  <2> HIDE DEF fields
  <2> QED
    BY <1>1, <1>2, <2>1, MaskedFields
<1>5. ASSUME NEW c \in ChangedColumns(change)
      PROVE  /\ fields[c].old = (IF change.operation = "INSERT" THEN Null
                                 ELSE OrNull(ValueAt(change.before, c)))
             /\ fields[c].new = (IF change.operation = "DELETE" THEN Null
                                 ELSE OrNull(ValueAt(change.after, c)))
  BY <1>3
<1> HIDE DEF fields
<1>6. ASSUME NEW c \in ChangedColumns(change)
      PROVE  /\ item.field_changes[c].old = (IF IsSensitiveColumn(c, r.table)
                                             THEN Masked(fields[c].old) ELSE fields[c].old)
             /\ item.field_changes[c].new = (IF IsSensitiveColumn(c, r.table)
                                             THEN Masked(fields[c].new) ELSE fields[c].new)
  <2>1. CASE IsSensitiveColumn(c, r.table)
    <3>1. item.field_changes[c] = [old |-> Masked(fields[c].old), new |-> Masked(fields[c].new)]
      BY <1>4, <1>6, <2>1
    <3> QED
      BY <2>1, <3>1
  <2>2. CASE ~IsSensitiveColumn(c, r.table)
    BY <1>4, <1>6, <2>2
  <2> QED
    BY <2>1, <2>2
<1> QED
  BY <1>4, <1>5, <1>6 DEF change

\* A column of a row operation that is not changed is in both images, with one value.
LEMMA UnchangedColumns ==
  ASSUME NEW change, change.operation \in RowOps, NEW c, c \notin ChangedColumns(change),
         change.operation = "INSERT" => change.before = Null,
         change.operation = "DELETE" => change.after = Null,
         c \in DOMAIN Image(change.before) \/ c \in DOMAIN Image(change.after)
  PROVE  /\ c \in DOMAIN Image(change.before) /\ c \in DOMAIN Image(change.after)
         /\ Image(change.before)[c] = Image(change.after)[c]
<1>1. DOMAIN Image(Null) = {}
  <2>1. DOMAIN <<>> = {}
    OBVIOUS
  <2> QED
    BY <2>1 DEF Image
<1>2. change.operation = "UPDATE"
  BY <1>1 DEF ChangedColumns, RowOps
<1>3. ValueAt(change.before, c) = ValueAt(change.after, c)
  BY <1>2 DEF ChangedColumns
<1>4. \A v, w : <<v>> # <<>> /\ (<<v>> = <<w>> => v = w)
  OBVIOUS
<1>5. CASE c \in DOMAIN Image(change.before)
  <2>1. ValueAt(change.before, c) = <<change.before[c]>>
    BY <1>5 DEF ValueAt
  <2>2. c \in DOMAIN Image(change.after)
    BY <1>3, <1>4, <2>1 DEF ValueAt
  <2>3. change.before # Null /\ change.after # Null
    BY <1>1, <1>5, <2>2
  <2>4. ValueAt(change.after, c) = <<change.after[c]>>
    BY <2>2 DEF ValueAt
  <2> QED
    BY <1>3, <1>4, <1>5, <2>1, <2>2, <2>3, <2>4 DEF Image
<1>6. CASE c \in DOMAIN Image(change.after)
  <2>1. ValueAt(change.after, c) = <<change.after[c]>>
    BY <1>6 DEF ValueAt
  <2>2. c \in DOMAIN Image(change.before)
    BY <1>3, <1>4, <2>1 DEF ValueAt
  <2> QED
    BY <1>5, <2>2
<1> QED
  BY <1>5, <1>6

LEMMA ItemConsistent ==
  ASSUME NEW r \in Records, NEW seq, NEW item, item = Item(Change(r), seq), WellOperated(item)
  PROVE  Consistent(item)
<1> SUFFICES ASSUME item.operation \in RowOps
             PROVE  /\ \A c \in DOMAIN Image(item.after) :
                         IF c \in DOMAIN item.field_changes
                         THEN item.field_changes[c].new = item.after[c]
                         ELSE c \in DOMAIN Image(item.before) /\ item.before[c] = item.after[c]
                    /\ \A c \in DOMAIN Image(item.before) :
                         IF c \in DOMAIN item.field_changes
                         THEN item.field_changes[c].old = item.before[c]
                         ELSE c \in DOMAIN Image(item.after)
  BY DEF Consistent
<1> DEFINE change == Change(r)
           shown(v, c) == IF IsSensitiveColumn(c, r.table) THEN Masked(v) ELSE v
<1>1. /\ change.operation \in RowOps
      /\ item.before = MaskImage(change.before, r.table)
      /\ item.after = MaskImage(change.after, r.table)
      /\ change.before # Null => MaskImage(change.before, r.table) # Null
      /\ change.after # Null => MaskImage(change.after, r.table) # Null
  BY ItemParts
<1>2. /\ change.operation = "INSERT" => change.before = Null
      /\ change.operation = "DELETE" => change.after = Null
  BY DEF Change
<1>3. /\ DOMAIN item.field_changes = ChangedColumns(change)
      /\ \A c \in ChangedColumns(change) :
           /\ item.field_changes[c].old =
                shown(IF change.operation = "INSERT" THEN Null
                      ELSE OrNull(ValueAt(change.before, c)), c)
           /\ item.field_changes[c].new =
                shown(IF change.operation = "DELETE" THEN Null
                      ELSE OrNull(ValueAt(change.after, c)), c)
  BY FieldChanges
<1> HIDE DEF change
<1>4. /\ DOMAIN Image(item.before) = DOMAIN Image(change.before)
      /\ \A c \in DOMAIN Image(change.before) :
           change.before # Null /\ item.before[c] = shown(change.before[c], c)
  BY <1>1, MaskedImage
<1>5. /\ DOMAIN Image(item.after) = DOMAIN Image(change.after)
      /\ \A c \in DOMAIN Image(change.after) :
           change.after # Null /\ item.after[c] = shown(change.after[c], c)
  BY <1>1, MaskedImage
<1>6. ASSUME NEW c \in DOMAIN Image(item.after), c \in DOMAIN item.field_changes
      PROVE  item.field_changes[c].new = item.after[c]
  <2>1. change.operation # "DELETE"
    BY <1>2, <1>5, <1>6
  <2>2. OrNull(ValueAt(change.after, c)) = change.after[c]
    BY <1>5, <1>6, ValueInImage
  <2>3. item.field_changes[c].new = shown(change.after[c], c)
    BY <1>3, <1>6, <2>1, <2>2
  <2> QED
    BY <1>5, <1>6, <2>3
<1>7. ASSUME NEW c \in DOMAIN Image(item.before), c \in DOMAIN item.field_changes
      PROVE  item.field_changes[c].old = item.before[c]
  <2>1. change.operation # "INSERT"
    BY <1>2, <1>4, <1>7
  <2>2. OrNull(ValueAt(change.before, c)) = change.before[c]
    BY <1>4, <1>7, ValueInImage
  <2>3. item.field_changes[c].old = shown(change.before[c], c)
    BY <1>3, <1>7, <2>1, <2>2
  <2> QED
    BY <1>4, <1>7, <2>3
<1>8. ASSUME NEW c, c \in DOMAIN Image(item.before) \/ c \in DOMAIN Image(item.after),
             c \notin DOMAIN item.field_changes
      PROVE  /\ c \in DOMAIN Image(item.before) /\ c \in DOMAIN Image(item.after)
             /\ item.before[c] = item.after[c]
  <2>1. /\ c \in DOMAIN Image(change.before) /\ c \in DOMAIN Image(change.after)
        /\ Image(change.before)[c] = Image(change.after)[c]
    BY <1>1, <1>2, <1>3, <1>4, <1>5, <1>8, UnchangedColumns
  <2>2. change.before[c] = change.after[c]
    BY <1>4, <1>5, <2>1 DEF Image
  <2> QED
    BY <1>4, <1>5, <2>1, <2>2
<1> QED
  BY <1>6, <1>7, <1>8

-----------------------------------------------------------------------------
\* What an emitted event says is true of its records, whatever is captured and under
\* whatever attestation, continuity and audit feed (INV-2): its fidelity, its actor, what
\* it hides and what it changed.
THEOREM EventsAreHonest == Spec => []HonestEvents
<1>1. RecordInv => HonestEvents
  <2> SUFFICES ASSUME RecordInv, NEW i \in Emitted
               PROVE  /\ Attested(settled[i]) /\ Blamed(settled[i])
                      /\ \A n \in DOMAIN settled[i].cce.core.changes :
                           /\ Concealed(settled[i].cce.core.changes[n])
                           /\ Consistent(settled[i].cce.core.changes[n])
    BY DEF HonestEvents
  <2>1. i \in DOMAIN settled /\ settled[i].outcome \in Accepted /\ context \in Contexts
    BY DEF Emitted, Accepted, RecordInv
  <2>2. PICK g : GroupOK(g) /\ EntryOf(settled[i], g)
    BY <2>1, EntryGroup DEF RecordInv
  <2>3. Violations(Sealed(Core(g, context))) = {}
    BY <2>1, <2>2 DEF EntryOf
  <2>4. Attested(settled[i]) /\ Blamed(settled[i])
    BY <2>1, <2>2, <2>3, EntryAttested, EntryBlamed
  <2>5. settled[i].cce.core.changes = [n \in DOMAIN g.changes |-> Item(g.changes[n], n - 1)]
    BY <2>2 DEF EntryOf, Sealed, Core
  <2>6. ASSUME NEW n \in DOMAIN g.changes
        PROVE  Concealed(Item(g.changes[n], n - 1)) /\ Consistent(Item(g.changes[n], n - 1))
    <3>1. PICK r \in Records : g.changes[n] = Change(r)
      BY <2>2 DEF GroupOK, Transaction, Single, ChangesMatch, Captured
    <3>2. WellOperated(Item(g.changes[n], n - 1))
      <4>1. \A m \in DOMAIN Core(g, context).changes : WellOperated(Core(g, context).changes[m])
        BY <2>3, NoRuleBroken
      <4>2. Core(g, context).changes = [m \in DOMAIN g.changes |-> Item(g.changes[m], m - 1)]
        BY DEF Core
      <4> QED
        BY <4>1, <4>2
    <3> QED
      BY <3>1, <3>2, ItemConcealed, ItemConsistent
  <2> QED
    BY <2>4, <2>5, <2>6
<1> QED
  BY <1>1, AlwaysRecordInv, PTL

-----------------------------------------------------------------------------
(* The cases of the conformance suite.                                     *)

\* What an event must satisfy for no rule to be broken.
Lawful(core) ==
  /\ \A i \in DOMAIN core.changes : WellOperated(core.changes[i])
  /\ core.fidelity.state # "HEALTHY" => core.fidelity.reason # Null
  /\ core.actor.confidence # "unattributed" => core.actor.ref # Null
  /\ HasRealKey(core.offset) \/ BinlogPair(core.offset)
  /\ core.envelope_id = EnvelopeId(core.tx_id)
  /\ V4(core) /\ V6(core) /\ V16(core) /\ V17(core) /\ V18(core)
  /\ \A k \in RealKeys : core.offset[k] # Empty

LEMMA ValidIsLawful ==
  ASSUME NEW core
  PROVE  Valid(core) <=> Lawful(core)
<1>1. Sealed(core).core = core /\ Sealed(core).event_hash = core
  BY DEF Sealed
<1>2. \A ok, rule : IfNot(ok, rule) = {} <=> ok
  BY DEF IfNot
<1>3. Schema(core) = {} <=>
        /\ \A i \in DOMAIN core.changes : WellOperated(core.changes[i])
        /\ core.fidelity.state # "HEALTHY" => core.fidelity.reason # Null
        /\ core.actor.confidence # "unattributed" => core.actor.ref # Null
        /\ HasRealKey(core.offset) \/ BinlogPair(core.offset)
  <2>1. UNION {IfNot(WellOperated(core.changes[i]), "V5") : i \in DOMAIN core.changes} = {}
          <=> \A i \in DOMAIN core.changes : IfNot(WellOperated(core.changes[i]), "V5") = {}
    OBVIOUS
  <2>2. Schema(core) = {} <=>
          /\ UNION {IfNot(WellOperated(core.changes[i]), "V5") : i \in DOMAIN core.changes} = {}
          /\ IfNot(core.fidelity.state # "HEALTHY" => core.fidelity.reason # Null, "V8") = {}
          /\ IfNot(core.actor.confidence # "unattributed" => core.actor.ref # Null, "V10") = {}
          /\ IfNot(HasRealKey(core.offset) \/ BinlogPair(core.offset), "V11") = {}
    <3>1. PICK a, b, c, d :
            /\ a = UNION {IfNot(WellOperated(core.changes[i]), "V5") : i \in DOMAIN core.changes}
            /\ b = IfNot(core.fidelity.state # "HEALTHY" => core.fidelity.reason # Null, "V8")
            /\ c = IfNot(core.actor.confidence # "unattributed" => core.actor.ref # Null, "V10")
            /\ d = IfNot(HasRealKey(core.offset) \/ BinlogPair(core.offset), "V11")
      OBVIOUS
    <3>2. Schema(core) = a \cup b \cup c \cup d
      BY <3>1 DEF Schema
    <3>3. a \cup b \cup c \cup d = {} <=> a = {} /\ b = {} /\ c = {} /\ d = {}
      OBVIOUS
    <3> QED BY <3>1, <3>2, <3>3
  <2>3. (\A i \in DOMAIN core.changes : IfNot(WellOperated(core.changes[i]), "V5") = {})
          <=> \A i \in DOMAIN core.changes : WellOperated(core.changes[i])
    BY <1>2
  <2>4. /\ IfNot(core.fidelity.state # "HEALTHY" => core.fidelity.reason # Null, "V8") = {}
             <=> (core.fidelity.state # "HEALTHY" => core.fidelity.reason # Null)
        /\ IfNot(core.actor.confidence # "unattributed" => core.actor.ref # Null, "V10") = {}
             <=> (core.actor.confidence # "unattributed" => core.actor.ref # Null)
        /\ IfNot(HasRealKey(core.offset) \/ BinlogPair(core.offset), "V11") = {}
             <=> (HasRealKey(core.offset) \/ BinlogPair(core.offset))
    BY <1>2
  <2> QED BY <2>1, <2>2, <2>3, <2>4
<1>4. Violations(Sealed(core)) = {} <=>
        /\ Schema(core) = {}
        /\ IfNot(core.envelope_id = EnvelopeId(core.tx_id), "V3") = {}
        /\ IfNot(V4(core), "V4") = {} /\ IfNot(V6(core), "V6") = {}
        /\ IfNot(\A k \in RealKeys : core.offset[k] # Empty, "V11") = {}
        /\ IfNot(V16(core), "V16") = {} /\ IfNot(V17(core), "V17") = {}
        /\ IfNot(V18(core), "V18") = {} /\ IfNot(core = core, "V12") = {}
  BY <1>1 DEF Violations
<1>5. /\ IfNot(core.envelope_id = EnvelopeId(core.tx_id), "V3") = {}
           <=> core.envelope_id = EnvelopeId(core.tx_id)
      /\ IfNot(V4(core), "V4") = {} <=> V4(core)
      /\ IfNot(V6(core), "V6") = {} <=> V6(core)
      /\ IfNot(\A k \in RealKeys : core.offset[k] # Empty, "V11") = {}
           <=> \A k \in RealKeys : core.offset[k] # Empty
      /\ IfNot(V16(core), "V16") = {} <=> V16(core)
      /\ IfNot(V17(core), "V17") = {} <=> V17(core)
      /\ IfNot(V18(core), "V18") = {} <=> V18(core)
      /\ IfNot(core = core, "V12") = {}
  <2>1. IfNot(core.envelope_id = EnvelopeId(core.tx_id), "V3") = {}
          <=> core.envelope_id = EnvelopeId(core.tx_id)
    BY DEF IfNot
  <2>2. IfNot(V4(core), "V4") = {} <=> V4(core)
    BY DEF IfNot
  <2>3. IfNot(V6(core), "V6") = {} <=> V6(core)
    BY DEF IfNot
  <2>4. IfNot(\A k \in RealKeys : core.offset[k] # Empty, "V11") = {}
          <=> \A k \in RealKeys : core.offset[k] # Empty
    BY DEF IfNot
  <2>5. IfNot(V16(core), "V16") = {} <=> V16(core)
    BY DEF IfNot
  <2>6. IfNot(V17(core), "V17") = {} <=> V17(core)
    BY DEF IfNot
  <2>7. IfNot(V18(core), "V18") = {} <=> V18(core)
    BY DEF IfNot
  <2>8. IfNot(core = core, "V12") = {}
    BY DEF IfNot
  <2> QED BY <2>1, <2>2, <2>3, <2>4, <2>5, <2>6, <2>7, <2>8
<1> QED BY <1>3, <1>4, <1>5 DEF Valid, Lawful

\* What is not so is the rule that the contract reports.
LEMMA RuleReported ==
  ASSUME NEW core
  PROVE  /\ ~V16(core) => RejectsWith(core, "V16")
         /\ ~V18(core) => RejectsWith(core, "V18")
         /\ (\E k \in RealKeys : core.offset[k] = Empty) => RejectsWith(core, "V11")
<1>1. Sealed(core).core = core
  BY DEF Sealed
<1>2. \A rule : IfNot(FALSE, rule) = {rule}
  BY DEF IfNot
<1>3. /\ IfNot(V16(core), "V16") \subseteq Violations(Sealed(core))
      /\ IfNot(V18(core), "V18") \subseteq Violations(Sealed(core))
      /\ IfNot(\A k \in RealKeys : core.offset[k] # Empty, "V11") \subseteq Violations(Sealed(core))
  BY <1>1 DEF Violations
<1>4. ASSUME ~V16(core) PROVE RejectsWith(core, "V16")
  BY <1>3, <1>4 DEF IfNot, RejectsWith
<1>5. ASSUME ~V18(core) PROVE RejectsWith(core, "V18")
  BY <1>3, <1>5 DEF IfNot, RejectsWith
<1>6. ASSUME NEW k \in RealKeys, core.offset[k] = Empty PROVE RejectsWith(core, "V11")
  <2>1. ~\A l \in RealKeys : core.offset[l] # Empty
    BY <1>6
  <2> QED BY <1>3, <2>1 DEF IfNot, RejectsWith
<1> QED BY <1>4, <1>5, <1>6

-----------------------------------------------------------------------------
\* What is known of an emitted event.

CoreShape(core) ==
  core = [schema_version |-> core.schema_version, envelope_id |-> core.envelope_id,
          engine |-> core.engine, tx_id |-> core.tx_id, commit_ts |-> core.commit_ts,
          ingest_ts |-> core.ingest_ts, statement_count |-> core.statement_count,
          offset |-> core.offset, fidelity |-> core.fidelity, completeness |-> core.completeness,
          actor |-> core.actor, changes |-> core.changes]

\* Its changes are those of captured records, numbered from 0.
ItemsMatch(core) ==
  \E n \in Nat \ {0} :
    /\ DOMAIN core.changes = 1..n
    /\ \A i \in 1..n : \E r \in Captured : core.changes[i] = Item(Change(r), i - 1)

\* It is a transaction of the stream, or a row that a snapshot read.
OfStream(core) ==
  /\ core.offset.gtid = core.tx_id
  /\ core.completeness.snapshot_epoch_id = Null
  /\ \E r \in Records : core.tx_id = r.gtid /\ r.gtid # Null

OfRead(core, r, at) ==
  LET epoch == SnapshotEpochOf(Mapped(r, at))
  IN /\ core.offset = Mapped(r, at).offset
     /\ core.tx_id = SnapshotTxId(epoch, Change(r).object)
     /\ core.completeness = [consumed_offset_key |-> SnapshotConsumedOffsetKey(epoch), gap_detected |-> FALSE,
                             snapshot_phase |-> SnapshotPhase(r), snapshot_epoch_id |-> epoch,
                             snapshot_coverage |-> Null]
     /\ core.changes[1].object = Change(r).object

EventOK(core) ==
  /\ CoreShape(core) /\ Lawful(core) /\ ItemsMatch(core)
  /\ core.schema_version = SchemaVersion(core.offset)
  /\ core.commit_ts \in Nat
  /\ OfStream(core) \/ \E r \in Reads \cap Captured, at \in Instants : OfRead(core, r, at)

LEMMA BuiltEvent ==
  ASSUME NEW g, GroupOK(g), Violations(Sealed(Core(g, context))) = {}, context \in Contexts
  PROVE  EventOK(Core(g, context))
<1>1. PICK core : core = Core(g, context)
  OBVIOUS
<1>2. /\ core.schema_version = SchemaVersion(g.offset) /\ core.offset = g.offset
      /\ core.tx_id = g.tx_id /\ core.commit_ts = Coalesce(g.commit_ts, g.ingest_ts)
      /\ core.completeness = Completeness(g, context.continuity)
      /\ core.changes = [i \in DOMAIN g.changes |-> Item(g.changes[i], i - 1)]
  BY <1>1 DEF Core
<1>3. CoreShape(core)
  BY <1>1 DEF Core, CoreShape
<1>4. Lawful(core)
  BY <1>1, ValidIsLawful DEF Valid
<1>5. GroupShape(g) /\ ChangesMatch(g) /\ Timed(g)
  BY DEF GroupOK, Transaction, Single
<1>6. core.commit_ts \in Nat
  BY <1>2, <1>5 DEF Timed, Coalesce
<1>7. ItemsMatch(core)
  <2>1. PICK n \in Nat : n = Len(g.changes)
    BY <1>5 DEF ChangesMatch
  <2>2. DOMAIN g.changes = 1..n
    BY <1>5, <2>1 DEF ChangesMatch
  <2>3. n # 0
    <3>1. PICK r \in g.records : TRUE
      BY <1>5 DEF ChangesMatch
    <3>2. \E i \in 1..n : g.changes[i] = Change(r)
      BY <1>5, <2>2 DEF ChangesMatch
    <3> QED BY <3>2
  <2>4. DOMAIN core.changes = 1..n /\ \A i \in 1..n : core.changes[i] = Item(g.changes[i], i - 1)
    BY <1>2, <2>2
  <2>5. \A i \in 1..n : \E r \in Captured : g.changes[i] = Change(r)
    BY <1>5, <2>2 DEF ChangesMatch
  <2> QED BY <2>1, <2>3, <2>4, <2>5 DEF ItemsMatch
<1>8. CASE Transaction(g)
  <2>1. core.completeness.snapshot_epoch_id = Null
    <3>1. g.epoch = Null
      BY <1>8 DEF Transaction
    <3>2. core.completeness = Coalesce(context.continuity, DefaultCompleteness(g))
      BY <1>2, <3>1 DEF Completeness
    <3>3. DefaultCompleteness(g).snapshot_epoch_id = Null
      BY <3>1 DEF DefaultCompleteness
    <3> QED BY <3>2, <3>3, ConformanceAssumption DEF Coalesce
  <2>2. g.offset.gtid = g.tx_id /\ g.tx_id # Null
    BY <1>8 DEF Transaction
  <2>3. \E r \in Records : g.tx_id = r.gtid
    BY <1>5, <1>8 DEF Transaction, ChangesMatch, Captured
  <2> QED BY <1>1, <1>2, <1>3, <1>4, <1>6, <1>7, <2>1, <2>2, <2>3 DEF EventOK, OfStream
<1>9. CASE Single(g)
  <2>1. PICK r \in Records, at \in Instants : ReadAt(g, r, at)
    BY <1>9 DEF Single
  <2>2. r.snapshot # "false" /\ r.gtid = Null /\ r \in Captured
    BY <1>5, <2>1, AcceptedRead DEF ReadAt, ChangesMatch
  <2>3. r \in Reads \cap Captured
    BY <2>1, <2>2 DEF Reads
  <2>4. core.completeness = DefaultCompleteness(g)
    BY <1>2, <2>1 DEF Completeness, ReadAt
  <2>5. core.changes[1].object = Change(r).object
    <3>1. PICK n \in Nat \ {0} : DOMAIN core.changes = 1..n
      BY <1>7 DEF ItemsMatch
    <3>2. 1 \in DOMAIN core.changes
      BY <3>1
    <3>3. 1 \in DOMAIN g.changes /\ core.changes[1] = Item(g.changes[1], 1 - 1)
      BY <1>2, <3>2
    <3>4. g.changes[1] = Change(r)
      BY <1>5, <2>1, <3>3 DEF ChangesMatch, ReadAt
    <3> QED BY <3>3, <3>4 DEF Item
  <2>6. PICK epoch : epoch = SnapshotEpochOf(Mapped(r, at))
    OBVIOUS
  <2>7. g.epoch = epoch /\ epoch # Null /\ g.phase = SnapshotPhase(r)
    BY <2>1, <2>6 DEF ReadAt
  <2>8. core.completeness = [consumed_offset_key |-> SnapshotConsumedOffsetKey(epoch), gap_detected |-> FALSE,
                             snapshot_phase |-> SnapshotPhase(r), snapshot_epoch_id |-> epoch,
                             snapshot_coverage |-> Null]
    BY <2>4, <2>7 DEF DefaultCompleteness
  <2>9. core.offset = Mapped(r, at).offset /\ core.tx_id = SnapshotTxId(epoch, Change(r).object)
    BY <1>2, <2>1, <2>6 DEF ReadAt
  <2>10. OfRead(core, r, at)
    BY <2>5, <2>6, <2>8, <2>9 DEF OfRead
  <2> QED BY <1>1, <1>2, <1>3, <1>4, <1>6, <1>7, <2>1, <2>3, <2>10 DEF EventOK
<1> QED BY <1>8, <1>9 DEF GroupOK

-----------------------------------------------------------------------------
\* C-3: the images of a change are those its operation has.
LEMMA CaseOperations ==
  ASSUME NEW core, EventOK(core)
  PROVE  C3(core)
<1>1. PICK n \in Nat \ {0} : DOMAIN core.changes = 1..n
                             /\ \A i \in 1..n : \E r \in Captured : core.changes[i] = Item(Change(r), i - 1)
  BY DEF EventOK, ItemsMatch
<1> SUFFICES ASSUME NEW i \in 1..n, NEW item, item = core.changes[i]
             PROVE  CASE item.operation = "INSERT"   -> /\ item.before = Null /\ item.after # Null
                                                        /\ item.field_changes # Null
                      [] item.operation = "UPDATE"   -> Null \notin {item.before, item.after, item.field_changes}
                      [] item.operation = "DELETE"   -> /\ item.before # Null /\ item.after = Null
                                                        /\ item.field_changes # Null
                      [] item.operation = "DDL"      -> item.field_changes = Null /\ item.ddl # Null
                      [] item.operation = "TRUNCATE" -> item.field_changes = Null
  BY <1>1 DEF C3
<1>2. PICK r \in Captured : item = Item(Change(r), i - 1)
  BY <1>1
<1>3. PICK c : c = Change(r)
  OBVIOUS
<1>4. /\ item.operation = c.operation /\ item.object = c.object /\ item.ddl = c.ddl
      /\ item.before = MaskImage(c.before, c.object.name)
      /\ item.after = MaskImage(c.after, c.object.name)
      /\ item.field_changes = MaskFieldChanges(DiffFields(c), c.object.name)
  BY <1>2, <1>3 DEF Item
<1>5. WellOperated(item) /\ (item.operation \in RowOps => item.object.key # Null)
  BY <1>1 DEF EventOK, Lawful, V6
<1>6. /\ c.operation = Operation(r) /\ c.object = [name |-> r.table, key |-> PrimaryKey(r)]
      /\ c.before = (IF Operation(r) = "INSERT" THEN Null ELSE r.before)
      /\ c.after = (IF Operation(r) \in SchemaOps \cup {"DELETE"} THEN Null ELSE r.after)
  BY <1>3 DEF Change
<1>7. c.object.name = r.table /\ c.object.key = PrimaryKey(r)
  BY <1>6
<1>8. r \in Records /\ Operation(r) \in {"INSERT", "UPDATE", "DELETE", "DDL", "TRUNCATE"}
  BY DEF Captured, Mappable, Operation
<1>9. \A image : image = Null => MaskImage(image, r.table) = Null
  BY DEF MaskImage
<1>10. \A image \in {r.before, r.after} : image # Null => MaskImage(image, r.table) # Null
  BY <1>8, NullAssumption
<1>11. Operation(r) \in RowOps => (IF Operation(r) = "INSERT" THEN r.after ELSE r.before) # Null
  BY <1>4, <1>5, <1>6, <1>7 DEF PrimaryKey, RowOps, SchemaOps
<1>12. Operation(r) = "UPDATE" => r.after # Null
  BY <1>8, RecordAssumption DEF Operation
<1>13. Operation(r) \in SchemaOps => item.field_changes = Null
  BY <1>4, <1>6 DEF DiffFields, MaskFieldChanges
<1>14. CASE Operation(r) = "INSERT"
  BY <1>4, <1>5, <1>6, <1>7, <1>9, <1>10, <1>11, <1>14 DEF WellOperated, RowOps, SchemaOps
<1>15. CASE Operation(r) = "UPDATE"
  BY <1>4, <1>5, <1>6, <1>7, <1>10, <1>11, <1>12, <1>15 DEF WellOperated, RowOps, SchemaOps
<1>16. CASE Operation(r) = "DELETE"
  BY <1>4, <1>5, <1>6, <1>7, <1>9, <1>10, <1>11, <1>16 DEF WellOperated, RowOps, SchemaOps
<1>17. CASE Operation(r) = "DDL"
  BY <1>4, <1>5, <1>6, <1>13, <1>17 DEF WellOperated, SchemaOps
<1>18. CASE Operation(r) = "TRUNCATE"
  BY <1>4, <1>6, <1>13, <1>18 DEF SchemaOps
<1> QED BY <1>8, <1>14, <1>15, <1>16, <1>17, <1>18

\* C-6: a replay is recognized, and what was changed is seen.
LEMMA CaseReplay ==
  ASSUME NEW core, EventOK(core)
  PROVE  C6(core)
<1>1. \A c : Sealed(c).core = c /\ Sealed(c).event_hash = c
  BY DEF Sealed
<1>2. Guard(Sealed(core), {}) = "EMIT"
  BY DEF Guard
<1>3. PICK other : other = Perturbed(core)
  OBVIOUS
<1>4. other.envelope_id = core.envelope_id /\ other # core
  <2>1. PICK item : item = core.changes[1]
    OBVIOUS
  <2>2. PICK image : image = OtherImage(item.after)
    OBVIOUS
  <2>3. image # item.after
    <3>1. [amount |-> "998.00"].amount = "998.00" /\ [amount |-> "999.00"].amount = "999.00"
      OBVIOUS
    <3>2. "998.00" # "999.00"
      OBVIOUS
    <3>3. [amount |-> "998.00"] # [amount |-> "999.00"]
      BY <3>1, <3>2
    <3> QED BY <2>2, <3>3 DEF OtherImage
  <2>4. other = [core EXCEPT !.changes[1].after = image]
    BY <1>3, <2>1, <2>2 DEF Perturbed
  <2>5. 1 \in DOMAIN core.changes /\ "after" \in DOMAIN item
    <3>1. PICK n \in Nat \ {0} : DOMAIN core.changes = 1..n
                             /\ \A i \in 1..n : \E r \in Captured : core.changes[i] = Item(Change(r), i - 1)
      BY DEF EventOK, ItemsMatch
    <3>2. PICK r \in Captured : core.changes[1] = Item(Change(r), 1 - 1)
      BY <3>1
    <3> QED BY <2>1, <3>1, <3>2 DEF Item
  <2>6. "changes" \in DOMAIN core /\ "envelope_id" \in DOMAIN core
    <3>1. CoreShape(core)
      BY DEF EventOK
    <3> QED BY <3>1 DEF CoreShape
  <2>7. other.changes[1].after = image
    <3>1. PICK items : items = [core.changes EXCEPT ![1].after = image]
      OBVIOUS
    <3>2. other.changes = items
      BY <2>4, <2>6, <3>1
    <3>3. items[1].after = image
      BY <2>1, <2>5, <3>1
    <3> QED BY <3>2, <3>3
  <2>8. other.envelope_id = core.envelope_id
    BY <2>4, <2>6
  <2> QED BY <2>1, <2>3, <2>7, <2>8
<1>5. Guard(Sealed(core), {Sealed(core)}) = "DUPLICATE"
  BY <1>1 DEF Guard
<1>6. Guard(Sealed(other), {Sealed(core)}) = "INTEGRITY_VIOLATION"
  BY <1>1, <1>4 DEF Guard
<1> QED BY <1>2, <1>3, <1>5, <1>6 DEF C6

\* C-10: how many sessions are near decides what is said of them.
LEMMA CaseAttribution ==
  ASSUME context \in Contexts, NEW c \in context.audit
  PROVE  C10(c)
<1> DEFINE query == [commit_ts |-> c.at, tables |-> c.objects, connection_id |-> Null,
                     thread_id |-> Null, gtid |-> Null]
           by    == [query EXCEPT !.connection_id = c.connection_id]
           other == [c EXCEPT !.ref = Empty, !.connection_id = Empty]
<1> SUFFICES ASSUME ~c.tampered
             PROVE  /\ CorrelateActor(query, {}).confidence = "unattributed"
                    /\ CorrelateActor(query, {c}).confidence = "probable"
                    /\ c.connection_id # Null => CorrelateActor(by, {c}).confidence = "exact"
                    /\ CorrelateActor(query, {c, other}).confidence = "unattributed"
  BY DEF C10
<1>1. /\ c.at \in Int /\ c.ref # Empty
      /\ {"ref", "at", "objects", "connection_id", "tampered"} \subseteq DOMAIN c
  BY ConformanceAssumption
<1>2. /\ query.commit_ts = c.at /\ query.tables = c.objects
      /\ query.connection_id = Null /\ query.thread_id = Null /\ query.gtid = Null
      /\ by.commit_ts = c.at /\ by.tables = c.objects /\ by.connection_id = c.connection_id
  OBVIOUS
<1>3. /\ other.at = c.at /\ other.objects = c.objects /\ other.tampered = c.tampered /\ other # c
  <2>1. other.ref = Empty
    BY <1>1
  <2> QED BY <1>1, <2>1
<1> HIDE DEF query, by, other
<1>4. \A q, d : q.commit_ts = c.at /\ q.tables = c.objects /\ d.at = c.at /\ d.objects = c.objects
         => /\ d.at - q.commit_ts \in -Window..Window
            /\ d.objects = {} \/ d.objects \cap q.tables # {}
  <2>1. c.at - c.at \in -Window..Window
    BY <1>1, ChangeEventsAssumption
  <2> QED BY <2>1
<1>5. /\ InWindow(query, {}) = {} /\ InWindow(query, {c}) = {c} /\ InWindow(by, {c}) = {c}
      /\ InWindow(query, {c, other}) = {c, other}
  BY <1>2, <1>3, <1>4 DEF InWindow
<1>6. \A S : Keyed(query, S) = {}
  BY <1>2 DEF Keyed, HardKeys
<1>7. c.connection_id # Null => Keyed(by, {c}) = {c}
  BY <1>2, <1>5 DEF Keyed, HardKeys
<1>8. /\ Cardinality({}) = 0 /\ Cardinality({c}) = 1
      /\ Cardinality({c, other}) # 1
  <2>1. Cardinality({}) = 0 /\ Cardinality({c}) = 1
    BY FS_EmptySet, FS_Singleton
  <2>2. IsFiniteSet({c}) /\ other \notin {c} /\ {c} \cup {other} = {c, other}
    BY <1>3, FS_Singleton
  <2>3. Cardinality({c} \cup {other}) = Cardinality({c}) + 1
    BY <2>2, FS_AddElement
  <2> QED BY <2>1, <2>2, <2>3
<1>9. Unattributed.confidence = "unattributed"
  BY DEF Unattributed
<1>10. CorrelateActor(query, {}).confidence = "unattributed"
  BY <1>5, <1>6, <1>8, <1>9 DEF CorrelateActor
<1>11. CorrelateActor(query, {c}).confidence = "probable"
  <2>1. ~\E d \in {c} : d.tampered
    OBVIOUS
  <2>2. Cardinality(Keyed(query, {c})) # 1 /\ Cardinality(InWindow(query, {c})) = 1
    <3>1. Keyed(query, {c}) = {} /\ InWindow(query, {c}) = {c}
      BY <1>5, <1>6
    <3>2. Cardinality(Keyed(query, {c})) = Cardinality({})
      BY <3>1
    <3>3. Cardinality(InWindow(query, {c})) = Cardinality({c})
      BY <3>1
    <3>4. Cardinality({}) = 0 /\ Cardinality({c}) = 1
      BY <1>8
    <3> QED BY <3>2, <3>3, <3>4
  <2> QED BY <2>1, <2>2 DEF CorrelateActor
<1>12. c.connection_id # Null => CorrelateActor(by, {c}).confidence = "exact"
  BY <1>5, <1>7, <1>8, <1>9 DEF CorrelateActor
<1>13. CorrelateActor(query, {c, other}).confidence = "unattributed"
  BY <1>5, <1>6, <1>8, <1>9 DEF CorrelateActor
<1> QED BY <1>10, <1>11, <1>12, <1>13

-----------------------------------------------------------------------------
\* The cases of an event of the stream.

LEMMA StreamEvent ==
  ASSUME NEW core, EventOK(core), core.offset.gtid # Null
  PROVE  OfStream(core) /\ core.schema_version = "cce-1.0" /\ CoreShape(core)
<1>1. OfStream(core)
  <2>1. ASSUME NEW r \in Reads \cap Captured, NEW at \in Instants, OfRead(core, r, at) PROVE FALSE
    BY <2>1 DEF OfRead, Mapped, Reads
  <2> QED BY <2>1 DEF EventOK
<1>2. \A k \in RealKeys : core.offset[k] # Empty
  BY DEF EventOK, Lawful
<1>3. HasRealKey(core.offset)
  BY <1>2 DEF HasRealKey, RealKeys
<1> QED BY <1>1, <1>3 DEF EventOK, SchemaVersion

\* Without a real key, an event of another version, engine or phase is refused.
LEMMA NoRealKeyRefused ==
  ASSUME NEW core, ~HasRealKey(core.offset),
         core.schema_version # "cce-1.1" \/ core.engine \notin {"mysql", "mariadb"}
  PROVE  RejectsWith(core, "V16")
<1>1. ~V16(core)
  BY DEF V16
<1> QED BY <1>1, RuleReported

LEMMA OffsetsWithoutKey ==
  /\ \A k \in RealKeys : [NoOffset EXCEPT ![k] = Empty][k] = Empty
  /\ ~HasRealKey(BinlogOnly)
  /\ ~HasRealKey([BinlogOnly EXCEPT !.gtid = Empty])
<1>1. \A k \in RealKeys : k \in DOMAIN NoOffset
  BY DEF RealKeys, NoOffset
<1>2. \A k \in RealKeys : BinlogOnly[k] = Null /\ k \in DOMAIN BinlogOnly
  <2>1. \A k \in RealKeys : k \in DOMAIN NoOffset /\ NoOffset[k] = Null
    BY DEF RealKeys, NoOffset
  <2>2. \A k \in RealKeys : k # "binlog_file" /\ k # "binlog_pos"
    BY DEF RealKeys
  <2> QED BY <2>1, <2>2 DEF BinlogOnly
<1>3. ~HasRealKey(BinlogOnly)
  BY <1>2 DEF HasRealKey
<1>4. \A k \in RealKeys : [BinlogOnly EXCEPT !.gtid = Empty][k] \in {Null, Empty}
  BY <1>2
<1>5. ~HasRealKey([BinlogOnly EXCEPT !.gtid = Empty])
  BY <1>4 DEF HasRealKey
<1> QED BY <1>1, <1>3, <1>5

LEMMA CasesOfStream ==
  ASSUME NEW core, EventOK(core), core.offset.gtid # Null
  PROVE  /\ C_OFFSET_EMPTY(core) /\ C_STREAM_EMPTY_GTID(core) /\ C_STREAM_NOGTID(core)
         /\ C_NONMYSQL_BINLOG(core) /\ C_10_BINLOG(core)
<1>1. core.schema_version = "cce-1.0" /\ "cce-1.0" # "cce-1.1"
  BY StreamEvent
<1>2. {"offset", "schema_version", "engine", "completeness"} \subseteq DOMAIN core
  <2>1. CoreShape(core)
    BY DEF EventOK
  <2> QED BY <2>1 DEF CoreShape
<1>3. C_OFFSET_EMPTY(core)
  <2> SUFFICES ASSUME NEW k \in RealKeys
               PROVE  RejectsWith([core EXCEPT !.offset = [NoOffset EXCEPT ![k] = Empty]], "V11")
    BY DEF C_OFFSET_EMPTY
  <2>1. PICK offset : offset = [NoOffset EXCEPT ![k] = Empty]
    OBVIOUS
  <2>2. PICK other : other = [core EXCEPT !.offset = offset]
    OBVIOUS
  <2>3. other.offset = offset /\ offset[k] = Empty
    BY <1>2, <2>1, <2>2, OffsetsWithoutKey
  <2>4. RejectsWith(other, "V11")
    BY <2>3, RuleReported
  <2> QED BY <2>1, <2>2, <2>4
<1>4. C_STREAM_EMPTY_GTID(core)
  <2>1. PICK offset : offset = [BinlogOnly EXCEPT !.gtid = Empty]
    OBVIOUS
  <2>2. PICK other : other = [core EXCEPT !.offset = offset]
    OBVIOUS
  <2>3. other.offset = offset /\ other.schema_version = "cce-1.0" /\ ~HasRealKey(offset)
    BY <1>1, <1>2, <2>1, <2>2, OffsetsWithoutKey
  <2>4. RejectsWith(other, "V16")
    BY <1>1, <2>3, NoRealKeyRefused
  <2> QED BY <2>1, <2>2, <2>4 DEF C_STREAM_EMPTY_GTID
<1>5. ASSUME NEW phase, NEW epoch, NEW other, other = [Rephased(core, phase, epoch) EXCEPT !.offset = BinlogOnly]
      PROVE  RejectsWith(other, "V16")
  <2>1. PICK rephased : rephased = Rephased(core, phase, epoch)
    OBVIOUS
  <2>2. {"offset", "schema_version"} \subseteq DOMAIN rephased /\ rephased.schema_version = "cce-1.0"
    BY <1>1, <1>2, <2>1 DEF Rephased
  <2>3. other.offset = BinlogOnly /\ other.schema_version = "cce-1.0"
    BY <1>5, <2>1, <2>2
  <2> QED BY <1>1, <2>3, OffsetsWithoutKey, NoRealKeyRefused
<1>6. C_STREAM_NOGTID(core) /\ C_10_BINLOG(core)
  BY <1>5 DEF C_STREAM_NOGTID, C_10_BINLOG
<1>7. C_NONMYSQL_BINLOG(core)
  <2>1. PICK rephased : rephased = Rephased(core, "snapshot", SomeEpoch)
    OBVIOUS
  <2>2. {"offset", "schema_version", "engine"} \subseteq DOMAIN rephased
    BY <1>2, <2>1 DEF Rephased
  <2>3. PICK other : other = [rephased EXCEPT !.offset = BinlogOnly, !.schema_version = "cce-1.1",
                                              !.engine = "postgres"]
    OBVIOUS
  <2>4. other.offset = BinlogOnly /\ other.engine = "postgres"
    BY <2>2, <2>3
  <2>5. RejectsWith(other, "V16")
    BY <2>4, OffsetsWithoutKey, NoRealKeyRefused
  <2> QED BY <2>1, <2>3, <2>5 DEF C_NONMYSQL_BINLOG
<1> QED BY <1>3, <1>4, <1>6, <1>7

-----------------------------------------------------------------------------
\* The cases of a row that a snapshot read.

LEMMA ReadEvent ==
  ASSUME NEW core, EventOK(core), core.offset.gtid = Null
  PROVE  \E r \in Reads \cap Captured, at \in Instants :
           /\ OfRead(core, r, at)
           /\ r.file \in Nat /\ r.pos \in Nat /\ core.commit_ts = Coalesce(r.ts, at)
           /\ core.offset.binlog_file = r.file /\ core.offset.binlog_pos = r.pos
           /\ ~HasRealKey(core.offset)
<1>1. ~OfStream(core)
  BY DEF OfStream
<1>2. PICK r \in Reads \cap Captured, at \in Instants : OfRead(core, r, at)
  BY <1>1 DEF EventOK
<1>3. /\ core.offset.binlog_file = r.file /\ core.offset.binlog_pos = r.pos
      /\ \A k \in RealKeys : core.offset[k] = Null
  BY <1>2 DEF OfRead, Mapped, Reads, RealKeys
<1>4. ~HasRealKey(core.offset)
  BY <1>3 DEF HasRealKey
<1>5. V16(core) /\ V17(core)
  BY DEF EventOK, Lawful
<1>6. BinlogPair(core.offset) /\ core.completeness.snapshot_phase \in SnapshotPhases
  BY <1>4, <1>5 DEF V16
<1>7. r.file \in Nat /\ r.pos \in Nat
  <2>1. {r.file, r.pos} \subseteq Nat \cup {Null}
    BY RecordAssumption DEF Reads
  <2> QED BY <1>3, <1>6, <2>1 DEF BinlogPair
<1>8. core.commit_ts = Coalesce(r.ts, at)
  <2>1. core.completeness.snapshot_epoch_id = SnapshotEpochOf(Mapped(r, at))
    BY <1>2 DEF OfRead
  <2>2. SnapshotEpochOf(Mapped(r, at)) = SnapshotEpochId(r.file, r.pos, Coalesce(r.ts, at))
    BY DEF SnapshotEpochOf, Mapped
  <2>3. core.completeness.snapshot_epoch_id = SnapshotEpochId(r.file, r.pos, core.commit_ts)
    BY <1>3, <1>5, <1>6 DEF V17
  <2> QED BY <2>1, <2>2, <2>3 DEF SnapshotEpochId
<1> QED BY <1>2, <1>3, <1>4, <1>7, <1>8

\* The row read again: what differs, and what is as it was.
LEMMA AgainParts ==
  ASSUME NEW core, CoreShape(core), NEW r, NEW at, OfRead(core, r, at),
         NEW file, NEW pos, NEW start,
         NEW epoch, epoch = SnapshotEpochId(file, pos, start),
         NEW tx, tx = SnapshotTxId(epoch, core.changes[1].object),
         NEW again, again = Again(core, file, pos, start)
  PROVE  again = [schema_version |-> core.schema_version, envelope_id |-> EnvelopeId(tx),
          engine |-> core.engine, tx_id |-> tx, commit_ts |-> start,
          ingest_ts |-> core.ingest_ts, statement_count |-> core.statement_count,
          offset |-> [gtid |-> core.offset.gtid, binlog_file |-> file, binlog_pos |-> pos,
                      lsn |-> core.offset.lsn, scn |-> core.offset.scn,
                      resume_token |-> core.offset.resume_token],
          fidelity |-> core.fidelity,
          completeness |-> [consumed_offset_key |-> SnapshotConsumedOffsetKey(epoch),
                            gap_detected |-> core.completeness.gap_detected,
                            snapshot_phase |-> core.completeness.snapshot_phase,
                            snapshot_epoch_id |-> epoch,
                            snapshot_coverage |-> core.completeness.snapshot_coverage],
          actor |-> core.actor, changes |-> core.changes]
<1>1. PICK key, id : key = SnapshotConsumedOffsetKey(epoch) /\ id = EnvelopeId(tx)
  OBVIOUS
<1>2. again = [core EXCEPT !.tx_id = tx, !.envelope_id = id, !.commit_ts = start,
                  !.offset.binlog_file = file, !.offset.binlog_pos = pos,
                  !.completeness.snapshot_epoch_id = epoch,
                  !.completeness.consumed_offset_key = key]
  BY <1>1 DEF Again
<1>3. core.offset = [gtid |-> core.offset.gtid, binlog_file |-> core.offset.binlog_file,
                     binlog_pos |-> core.offset.binlog_pos, lsn |-> core.offset.lsn,
                     scn |-> core.offset.scn, resume_token |-> core.offset.resume_token]
  BY DEF OfRead, Mapped
<1>4. core.completeness = [consumed_offset_key |-> core.completeness.consumed_offset_key,
                           gap_detected |-> core.completeness.gap_detected,
                           snapshot_phase |-> core.completeness.snapshot_phase,
                           snapshot_epoch_id |-> core.completeness.snapshot_epoch_id,
                           snapshot_coverage |-> core.completeness.snapshot_coverage]
  BY DEF OfRead
<1>5. PICK a : a = [core EXCEPT !.tx_id = tx, !.envelope_id = id, !.commit_ts = start]
  OBVIOUS
<1>6. a = [schema_version |-> core.schema_version, envelope_id |-> id,
          engine |-> core.engine, tx_id |-> tx, commit_ts |-> start,
          ingest_ts |-> core.ingest_ts, statement_count |-> core.statement_count,
          offset |-> core.offset, fidelity |-> core.fidelity, completeness |-> core.completeness,
          actor |-> core.actor, changes |-> core.changes]
  BY <1>5 DEF CoreShape
<1>7. PICK offset : offset = [[core.offset EXCEPT !.binlog_file = file] EXCEPT !.binlog_pos = pos]
  OBVIOUS
<1>8. PICK completeness : completeness = [[core.completeness EXCEPT !.snapshot_epoch_id = epoch]
                                            EXCEPT !.consumed_offset_key = key]
  OBVIOUS
<1>9. PICK b : b = [a EXCEPT !.offset.binlog_file = file, !.offset.binlog_pos = pos]
  OBVIOUS
<1>10. b = [a EXCEPT !.offset = offset]
  BY <1>6, <1>7, <1>9
<1>11. again = [b EXCEPT !.completeness.snapshot_epoch_id = epoch, !.completeness.consumed_offset_key = key]
  BY <1>2, <1>5, <1>9
<1>12. b.completeness = core.completeness /\ "completeness" \in DOMAIN b
  BY <1>6, <1>10
<1>13. again = [b EXCEPT !.completeness = completeness]
  BY <1>8, <1>11, <1>12
<1>14. offset = [gtid |-> core.offset.gtid, binlog_file |-> file, binlog_pos |-> pos,
                      lsn |-> core.offset.lsn, scn |-> core.offset.scn,
                      resume_token |-> core.offset.resume_token]
  BY <1>3, <1>7
<1>15. completeness = [consumed_offset_key |-> key,
                           gap_detected |-> core.completeness.gap_detected,
                           snapshot_phase |-> core.completeness.snapshot_phase,
                           snapshot_epoch_id |-> epoch,
                           snapshot_coverage |-> core.completeness.snapshot_coverage]
  BY <1>4, <1>8
<1>16. again = [schema_version |-> core.schema_version, envelope_id |-> id,
          engine |-> core.engine, tx_id |-> tx, commit_ts |-> start,
          ingest_ts |-> core.ingest_ts, statement_count |-> core.statement_count,
          offset |-> offset, fidelity |-> core.fidelity, completeness |-> completeness,
          actor |-> core.actor, changes |-> core.changes]
  BY <1>6, <1>10, <1>13
<1> QED BY <1>1, <1>14, <1>15, <1>16

\* Read again at a position, it breaks no rule.
LEMMA AgainIsValid ==
  ASSUME NEW core, EventOK(core), core.offset.gtid = Null,
         NEW r, NEW at, OfRead(core, r, at), ~HasRealKey(core.offset),
         NEW file, file = core.offset.binlog_file, NEW pos, pos # Null, NEW start,
         NEW epoch, epoch = SnapshotEpochId(file, pos, start), epoch # Null
  PROVE  /\ Valid(Again(core, file, pos, start))
         /\ Again(core, file, pos, start).envelope_id
              = EnvelopeId(SnapshotTxId(epoch, core.changes[1].object))
<1>1. PICK tx : tx = SnapshotTxId(epoch, core.changes[1].object)
  OBVIOUS
<1>2. PICK again : again = Again(core, file, pos, start)
  OBVIOUS
<1>3. PICK offset : offset = [gtid |-> core.offset.gtid, binlog_file |-> file, binlog_pos |-> pos,
                      lsn |-> core.offset.lsn, scn |-> core.offset.scn,
                      resume_token |-> core.offset.resume_token]
  OBVIOUS
<1>4. PICK key : key = SnapshotConsumedOffsetKey(epoch)
  OBVIOUS
<1>5. PICK completeness : completeness = [consumed_offset_key |-> key,
                            gap_detected |-> core.completeness.gap_detected,
                            snapshot_phase |-> core.completeness.snapshot_phase,
                            snapshot_epoch_id |-> epoch,
                            snapshot_coverage |-> core.completeness.snapshot_coverage]
  OBVIOUS
<1>6. again = [schema_version |-> core.schema_version, envelope_id |-> EnvelopeId(tx),
          engine |-> core.engine, tx_id |-> tx, commit_ts |-> start,
          ingest_ts |-> core.ingest_ts, statement_count |-> core.statement_count,
          offset |-> offset, fidelity |-> core.fidelity, completeness |-> completeness,
          actor |-> core.actor, changes |-> core.changes]
  BY <1>1, <1>2, <1>3, <1>4, <1>5, AgainParts DEF EventOK
<1>7. /\ again.schema_version = core.schema_version /\ again.envelope_id = EnvelopeId(tx)
      /\ again.engine = core.engine /\ again.tx_id = tx /\ again.commit_ts = start
      /\ again.statement_count = core.statement_count /\ again.offset = offset
      /\ again.fidelity = core.fidelity /\ again.completeness = completeness
      /\ again.actor = core.actor /\ again.changes = core.changes
  BY <1>6
<1>8. /\ offset.binlog_file = file /\ offset.binlog_pos = pos
      /\ \A k \in RealKeys : offset[k] = core.offset[k]
  BY <1>3 DEF RealKeys
<1>9. /\ completeness.snapshot_epoch_id = epoch /\ completeness.consumed_offset_key = key
      /\ completeness.snapshot_phase = core.completeness.snapshot_phase
      /\ completeness.snapshot_coverage = Null
  <2>1. core.completeness.snapshot_coverage = Null
    BY DEF OfRead
  <2> QED BY <1>5, <2>1
<1>10. Lawful(core)
  BY DEF EventOK
<1>11. BinlogPair(offset) /\ ~HasRealKey(offset)
  <2>1. BinlogPair(core.offset)
    BY <1>10 DEF Lawful
  <2> QED BY <1>8, <2>1 DEF BinlogPair, HasRealKey
<1>12. V16(again)
  BY <1>7, <1>9, <1>10, <1>11 DEF Lawful, V16
<1>13. V17(again)
  BY <1>1, <1>4, <1>7, <1>8, <1>9 DEF V17
<1>14. V18(again)
  BY <1>7, <1>9 DEF V18
<1>15. V4(again) /\ V6(again)
  BY <1>7, <1>10 DEF V4, V6, Lawful
<1>16. Lawful(again)
  BY <1>7, <1>8, <1>10, <1>11, <1>12, <1>13, <1>14, <1>15 DEF Lawful
<1> QED BY <1>1, <1>2, <1>7, <1>16, ValidIsLawful

\* Two epochs give a row two ids.
LEMMA EpochsApart ==
  ASSUME NEW e, NEW f, e # f, NEW a, NEW b
  PROVE  EnvelopeId(SnapshotTxId(e, a)) # EnvelopeId(SnapshotTxId(f, b))
<1>1. SnapshotTxId(e, a).epoch = e /\ SnapshotTxId(f, b).epoch = f
  BY DEF SnapshotTxId
<1>2. \A s, t : EnvelopeId(s).tx_id = s
  BY DEF EnvelopeId
<1> QED BY <1>1, <1>2

\* C-SNAP-IDLE-RERUN, C-SNAP-NEWRUN, C-SNAP-REPLAY.
LEMMA CasesOfRereading ==
  ASSUME NEW core, EventOK(core), core.offset.gtid = Null
  PROVE  C_SNAP_IDLE_RERUN(core) /\ C_SNAP_NEWRUN(core) /\ C_SNAP_REPLAY(core)
<1>1. PICK r \in Reads \cap Captured, at \in Instants :
           /\ OfRead(core, r, at)
           /\ r.file \in Nat /\ r.pos \in Nat /\ core.commit_ts = Coalesce(r.ts, at)
           /\ core.offset.binlog_file = r.file /\ core.offset.binlog_pos = r.pos
           /\ ~HasRealKey(core.offset)
  BY ReadEvent
<1>2. PICK object, start : object = core.changes[1].object /\ start = core.commit_ts
  OBVIOUS
<1>3. /\ start \in Nat /\ Null \notin Nat
      /\ Null \notin {SnapshotEpochId(r.file, r.pos, start + 1), SnapshotEpochId(r.file, r.pos + 1, start)}
  <2>1. start = Coalesce(r.ts, at) /\ start \in Nat /\ Null \notin Nat
    BY <1>1, <1>2, ConformanceAssumption DEF EventOK
  <2>2. r \in Reads /\ at \in Instants /\ r.pos # Null
    BY <1>1, <2>1
  <2>3. Null \notin {SnapshotEpochId(r.file, r.pos, Coalesce(r.ts, at) + 1),
                     SnapshotEpochId(r.file, r.pos + 1, Coalesce(r.ts, at))}
    BY <2>2, ConformanceAssumption
  <2> QED BY <2>1, <2>3
<1>4. PICK epoch : epoch = SnapshotEpochId(r.file, r.pos, start)
  OBVIOUS
<1>5. /\ epoch # Null /\ core.envelope_id = EnvelopeId(SnapshotTxId(epoch, object))
      /\ core.tx_id = SnapshotTxId(epoch, object)
      /\ core.completeness.snapshot_epoch_id = epoch
      /\ core.completeness.consumed_offset_key = SnapshotConsumedOffsetKey(epoch)
  <2>1. SnapshotEpochOf(Mapped(r, at)) = SnapshotEpochId(r.file, r.pos, Coalesce(r.ts, at))
    BY DEF SnapshotEpochOf, Mapped
  <2>2. SnapshotEpochOf(Mapped(r, at)) = epoch
    BY <1>1, <1>2, <1>4, <2>1
  <2>3. SnapshotEpochOf(Mapped(r, at)) # Null
    BY <1>1, NullAssumption DEF Reads
  <2>4. core.envelope_id = EnvelopeId(core.tx_id)
    BY DEF EventOK, Lawful
  <2>5. /\ core.tx_id = SnapshotTxId(epoch, object)
        /\ core.completeness.snapshot_epoch_id = epoch
        /\ core.completeness.consumed_offset_key = SnapshotConsumedOffsetKey(epoch)
    BY <1>1, <1>2, <2>2 DEF OfRead
  <2> QED BY <2>2, <2>3, <2>4, <2>5
<1>6. \A c : Sealed(c).core = c /\ Sealed(c).event_hash = c
  BY DEF Sealed
<1>7. ASSUME NEW pos, pos # Null, NEW start2, NEW other, other = SnapshotEpochId(r.file, pos, start2), other # Null,
             other # epoch
      PROVE  Replayed(core, "EMIT", Again(core, r.file, pos, start2))
  <2>1. /\ Valid(Again(core, r.file, pos, start2))
        /\ Again(core, r.file, pos, start2).envelope_id = EnvelopeId(SnapshotTxId(other, object))
    BY <1>1, <1>2, <1>7, AgainIsValid
  <2>2. Again(core, r.file, pos, start2).envelope_id # core.envelope_id
    BY <1>5, <1>7, <2>1, EpochsApart
  <2> QED BY <1>6, <2>1, <2>2 DEF Replayed, Guard
<1>8. C_SNAP_IDLE_RERUN(core)
  <2>1. PICK other : other = SnapshotEpochId(r.file, r.pos, start + 1)
    OBVIOUS
  <2>2. other # epoch
    <3>1. other.start = start + 1 /\ epoch.start = start
      BY <1>4, <2>1 DEF SnapshotEpochId
    <3> QED BY <1>3, <3>1
  <2>3. Replayed(core, "EMIT", Again(core, r.file, r.pos, start + 1))
    BY <1>1, <1>3, <1>7, <2>1, <2>2
  <2> QED BY <1>1, <1>2, <2>3 DEF C_SNAP_IDLE_RERUN
<1>9. C_SNAP_NEWRUN(core)
  <2>1. PICK other : other = SnapshotEpochId(r.file, r.pos + 1, start)
    OBVIOUS
  <2>2. other # epoch
    <3>1. other.pos = r.pos + 1 /\ epoch.pos = r.pos
      BY <1>4, <2>1 DEF SnapshotEpochId
    <3> QED BY <1>1, <3>1
  <2>3. r.pos + 1 # Null
    BY <1>1, <1>3
  <2>4. Replayed(core, "EMIT", Again(core, r.file, r.pos + 1, start))
    BY <1>3, <1>7, <2>1, <2>2, <2>3
  <2> QED BY <1>1, <1>2, <2>4 DEF C_SNAP_NEWRUN
<1>10. C_SNAP_REPLAY(core)
  <2>1. PICK again : again = Again(core, r.file, r.pos, start)
    OBVIOUS
  <2>2. again = [schema_version |-> core.schema_version, envelope_id |-> core.envelope_id,
          engine |-> core.engine, tx_id |-> core.tx_id, commit_ts |-> core.commit_ts,
          ingest_ts |-> core.ingest_ts, statement_count |-> core.statement_count,
          offset |-> [gtid |-> core.offset.gtid, binlog_file |-> r.file, binlog_pos |-> r.pos,
                      lsn |-> core.offset.lsn, scn |-> core.offset.scn,
                      resume_token |-> core.offset.resume_token],
          fidelity |-> core.fidelity,
          completeness |-> [consumed_offset_key |-> core.completeness.consumed_offset_key,
                            gap_detected |-> core.completeness.gap_detected,
                            snapshot_phase |-> core.completeness.snapshot_phase,
                            snapshot_epoch_id |-> core.completeness.snapshot_epoch_id,
                            snapshot_coverage |-> core.completeness.snapshot_coverage],
          actor |-> core.actor, changes |-> core.changes]
    BY <1>1, <1>2, <1>4, <1>5, <2>1, AgainParts DEF EventOK
  <2>3. core.offset = [gtid |-> core.offset.gtid, binlog_file |-> r.file, binlog_pos |-> r.pos,
                      lsn |-> core.offset.lsn, scn |-> core.offset.scn,
                      resume_token |-> core.offset.resume_token]
    BY <1>1 DEF OfRead, Mapped
  <2>4. core.completeness = [consumed_offset_key |-> core.completeness.consumed_offset_key,
                            gap_detected |-> core.completeness.gap_detected,
                            snapshot_phase |-> core.completeness.snapshot_phase,
                            snapshot_epoch_id |-> core.completeness.snapshot_epoch_id,
                            snapshot_coverage |-> core.completeness.snapshot_coverage]
    BY <1>1 DEF OfRead
  <2>5. again = core
    <3>1. CoreShape(core)
      BY DEF EventOK
    <3> QED BY <2>2, <2>3, <2>4, <3>1 DEF CoreShape
  <2>6. Valid(core)
    BY ValidIsLawful DEF EventOK
  <2>7. Replayed(core, "DUPLICATE", again)
    BY <1>6, <2>5, <2>6 DEF Replayed, Guard
  <2> QED BY <1>1, <1>2, <2>1, <2>7 DEF C_SNAP_REPLAY
<1> QED BY <1>8, <1>9, <1>10

\* C-SNAP-COVERAGE.
Covered(core, coverage, fidelity) ==
  [core EXCEPT !.completeness.snapshot_coverage = coverage, !.fidelity = fidelity]

LEMMA CaseCoverage ==
  ASSUME NEW core, EventOK(core), core.offset.gtid = Null
  PROVE  C_SNAP_COVERAGE(core)
<1>1. PICK r \in Reads \cap Captured, at \in Instants : OfRead(core, r, at)
  BY ReadEvent
<1>2. CoreShape(core) /\ Lawful(core)
  BY DEF EventOK
<1>3. core.completeness = [consumed_offset_key |-> core.completeness.consumed_offset_key,
                           gap_detected |-> core.completeness.gap_detected,
                           snapshot_phase |-> core.completeness.snapshot_phase,
                           snapshot_epoch_id |-> core.completeness.snapshot_epoch_id,
                           snapshot_coverage |-> core.completeness.snapshot_coverage]
  BY <1>1 DEF OfRead
<1>4. ASSUME NEW coverage, NEW fidelity, NEW other, other = Covered(core, coverage, fidelity)
      PROVE  /\ other.completeness.snapshot_coverage = coverage
             /\ other.completeness.snapshot_phase = core.completeness.snapshot_phase
             /\ other.completeness.snapshot_epoch_id = core.completeness.snapshot_epoch_id
             /\ other.completeness.consumed_offset_key = core.completeness.consumed_offset_key
             /\ other.fidelity = fidelity
             /\ other.changes = core.changes /\ other.actor = core.actor /\ other.offset = core.offset
             /\ other.envelope_id = core.envelope_id /\ other.tx_id = core.tx_id
             /\ other.schema_version = core.schema_version /\ other.engine = core.engine
             /\ other.statement_count = core.statement_count /\ other.commit_ts = core.commit_ts
  <2>1. PICK completeness : completeness = [core.completeness EXCEPT !.snapshot_coverage = coverage]
    OBVIOUS
  <2>2. /\ completeness.snapshot_coverage = coverage
        /\ completeness.snapshot_phase = core.completeness.snapshot_phase
        /\ completeness.snapshot_epoch_id = core.completeness.snapshot_epoch_id
        /\ completeness.consumed_offset_key = core.completeness.consumed_offset_key
    BY <1>3, <2>1
  <2>3. PICK middle : middle = [core EXCEPT !.completeness = completeness]
    OBVIOUS
  <2>4. other = [middle EXCEPT !.fidelity = fidelity]
    BY <1>2, <1>4, <2>1, <2>3 DEF CoreShape, Covered
  <2>5. {"changes", "actor", "offset", "envelope_id", "tx_id", "schema_version", "engine",
         "statement_count", "commit_ts", "completeness", "fidelity"} \subseteq DOMAIN core
    BY <1>2 DEF CoreShape
  <2>6. other.completeness = completeness /\ other.fidelity = fidelity
    BY <2>3, <2>4, <2>5
  <2> QED BY <2>2, <2>3, <2>4, <2>5, <2>6
<1>5. ASSUME NEW coverage, NEW fidelity, NEW other, fidelity.state # "HEALTHY" => fidelity.reason # Null,
             other = Covered(core, coverage, fidelity), V18(other)
      PROVE  Valid(other)
  <2>1. /\ other.completeness.snapshot_phase = core.completeness.snapshot_phase
        /\ other.completeness.snapshot_epoch_id = core.completeness.snapshot_epoch_id
        /\ other.completeness.consumed_offset_key = core.completeness.consumed_offset_key
        /\ other.fidelity = fidelity
        /\ other.changes = core.changes /\ other.actor = core.actor /\ other.offset = core.offset
        /\ other.envelope_id = core.envelope_id /\ other.tx_id = core.tx_id
        /\ other.schema_version = core.schema_version /\ other.engine = core.engine
        /\ other.statement_count = core.statement_count /\ other.commit_ts = core.commit_ts
    BY <1>4, <1>5
  <2>2. V16(other)
    BY <1>2, <2>1 DEF Lawful, V16
  <2>3. V17(other)
    BY <1>2, <2>1 DEF Lawful, V17
  <2>4. V4(other) /\ V6(other)
    BY <1>2, <2>1 DEF Lawful, V4, V6
  <2>5. Lawful(other)
    BY <1>2, <1>5, <2>1, <2>2, <2>3, <2>4 DEF Lawful
  <2> QED BY <2>5, ValidIsLawful
<1>6. ASSUME NEW status, NEW expected, NEW state, NEW reason, NEW other,
             other = Covering(core, status, expected, state, reason)
      PROVE  /\ [status |-> status, expected |-> expected] # Null /\ state = "HEALTHY"
                /\ (status \in {"incomplete", "interrupted"} \/ expected = Null) => RejectsWith(other, "V18")
             /\ (state # "HEALTHY" => reason \notin {Null, Empty})
                /\ (state = "HEALTHY" => status \notin {"incomplete", "interrupted"} /\ expected # Null) => Valid(other)
  <2>1. PICK coverage : coverage = [status |-> status, expected |-> expected]
    OBVIOUS
  <2>2. PICK fidelity : fidelity = [state |-> state, reason |-> reason]
    OBVIOUS
  <2>3. other = Covered(core, coverage, fidelity)
    BY <1>6, <2>1, <2>2 DEF Covering, Covered
  <2>4. other.completeness.snapshot_coverage = coverage /\ other.fidelity = fidelity
    BY <1>4, <2>3
  <2>5. /\ coverage.status = status /\ coverage.expected = expected
        /\ fidelity.state = state /\ fidelity.reason = reason
    BY <2>1, <2>2
  <2>6. ASSUME coverage # Null, state = "HEALTHY", status \in {"incomplete", "interrupted"} \/ expected = Null
        PROVE  RejectsWith(other, "V18")
    <3>1. ~V18(other)
      BY <2>4, <2>5, <2>6 DEF V18
    <3> QED BY <3>1, RuleReported
  <2>7. ASSUME state # "HEALTHY" => reason \notin {Null, Empty},
               state = "HEALTHY" => status \notin {"incomplete", "interrupted"} /\ expected # Null
        PROVE  Valid(other)
    <3>1. V18(other)
      BY <2>4, <2>5, <2>7 DEF V18
    <3>2. fidelity.state # "HEALTHY" => fidelity.reason # Null
      BY <2>5, <2>7
    <3> QED BY <1>5, <2>3, <3>1, <3>2
  <2> QED BY <2>1, <2>6, <2>7
<1>7. /\ \A status \in {"incomplete", "in_progress", "complete"}, expected \in {2, Null} :
           [status |-> status, expected |-> expected] # Null
      /\ 2 # Null /\ "incomplete" \notin {Null, Empty}
  BY ConformanceAssumption
<1>8. RejectsWith(Covering(core, "incomplete", 2, "HEALTHY", Null), "V18")
  BY <1>6, <1>7
<1>9. RejectsWith(Covering(core, "in_progress", Null, "HEALTHY", Null), "V18")
  BY <1>6, <1>7
<1>10. Valid(Covering(core, "incomplete", 2, "DEGRADED", "incomplete"))
  BY <1>6, <1>7
<1>11. Valid(Covering(core, "complete", 2, "HEALTHY", Null))
  BY <1>6, <1>7
<1> QED BY <1>8, <1>9, <1>10, <1>11 DEF C_SNAP_COVERAGE

\* C-TXID-NOCOLLISION: two rows have two ids.
LEMMA CaseCollision ==
  ASSUME NEW a, EventOK(a), a.offset.gtid = Null, NEW b, EventOK(b), b.offset.gtid = Null
  PROVE  C_TXID_NOCOLLISION(a, b)
<1>1. PICK r \in Reads \cap Captured, at \in Instants : OfRead(a, r, at)
  BY ReadEvent
<1>2. PICK s \in Reads \cap Captured, on \in Instants : OfRead(b, s, on)
  BY ReadEvent
<1>3. PICK p, q : p = Change(r).object /\ q = Change(s).object
  OBVIOUS
<1>4. a.changes[1].object = p /\ b.changes[1].object = q
  BY <1>1, <1>2, <1>3 DEF OfRead
<1>5. PICK e, f : a.tx_id = SnapshotTxId(e, p) /\ b.tx_id = SnapshotTxId(f, q)
  BY <1>1, <1>2, <1>3 DEF OfRead
<1>6. p = [name |-> p.name, key |-> p.key] /\ q = [name |-> q.name, key |-> q.key]
  BY <1>3 DEF Change
<1>7. p # q => RowKeyHash(p) # RowKeyHash(q)
  BY <1>6 DEF RowKeyHash
<1>8. a.tx_id.row = RowKeyHash(p) /\ b.tx_id.row = RowKeyHash(q)
  BY <1>5 DEF SnapshotTxId
<1>9. a.envelope_id = EnvelopeId(a.tx_id) /\ b.envelope_id = EnvelopeId(b.tx_id)
  BY DEF EventOK, Lawful
<1>10. a.envelope_id.tx_id = a.tx_id /\ b.envelope_id.tx_id = b.tx_id
  BY <1>9 DEF EnvelopeId
<1> QED BY <1>4, <1>7, <1>8, <1>10 DEF C_TXID_NOCOLLISION

-----------------------------------------------------------------------------
(* The global order of events: induction over the natural numbers.         *)

LEMMA LeastNumber ==
  ASSUME NEW T \in SUBSET Nat, T # {}
  PROVE  \E m \in T : \A t \in T : m <= t
<1>1. PICK m \in T : \A t \in T : ~(<<t, m>> \in OpToRel(<, Nat))
  BY NatLessThanWellFounded, WFMin
<1>2. ASSUME NEW t \in T PROVE m <= t
  <2>1. t < m => <<t, m>> \in OpToRel(<, Nat)
    <3>1. <<t, m>> \in Nat \X Nat /\ <<t, m>>[1] = t /\ <<t, m>>[2] = m
      OBVIOUS
    <3> QED BY <3>1 DEF OpToRel
  <2>2. ~(t < m)
    BY <1>1, <2>1
  <2> QED BY <2>2
<1> QED BY <1>2

\* What holds of a number when it holds of all smaller ones holds of every one.
LEMMA EveryNumber ==
  ASSUME NEW S, \A n \in Nat : (\A m \in Nat : m < n => m \in S) => n \in S
  PROVE  Nat \subseteq S
<1> DEFINE T == Nat \ S
<1> SUFFICES ASSUME T # {} PROVE FALSE
  OBVIOUS
<1>1. PICK m \in T : \A t \in T : m <= t
  <2>1. T \in SUBSET Nat
    OBVIOUS
  <2> HIDE DEF T
  <2> QED BY <2>1, LeastNumber
<1>2. \A k \in Nat : k < m => k \in S
  BY <1>1
<1> QED BY <1>1, <1>2

-----------------------------------------------------------------------------
(* The text of a number.                                                   *)

Texts == Seq(Int)
TextFrom(f, n) == IF n < 10 THEN <<n>> ELSE Append(f[n \div 10], n % 10)

LEMMA TenthOfNumber ==
  ASSUME NEW n \in Nat
  PROVE  /\ n % 10 \in Nat /\ n \div 10 \in Nat
         /\ n >= 10 => n \div 10 < n
OBVIOUS

\* A text is that of a number up to N.
TextsUpTo(f, N) == f \in [0..N -> Texts] /\ \A n \in 0..N : f[n] = TextFrom(f, n)

LEMMA TextStep ==
  ASSUME NEW f, NEW n \in Nat, n >= 10 => f[n \div 10] \in Texts
  PROVE  TextFrom(f, n) \in Texts
<1>1. CASE n < 10
  BY <1>1 DEF TextFrom, Texts
<1>2. CASE ~(n < 10)
  <2>1. f[n \div 10] \in Seq(Int) /\ n % 10 \in Int
    BY <1>2, TenthOfNumber DEF Texts
  <2> QED BY <1>2, <2>1 DEF TextFrom, Texts
<1> QED BY <1>1, <1>2

LEMMA TextsExist ==
  ASSUME NEW N \in Nat
  PROVE  \E f : TextsUpTo(f, N)
<1> DEFINE S == {n \in Nat : \E f : TextsUpTo(f, n)}
<1>1. ASSUME NEW n \in Nat, \A m \in Nat : m < n => m \in S
      PROVE  n \in S
  <2>1. PICK g : n > 0 => TextsUpTo(g, n - 1)
    <3>1. n > 0 => n - 1 \in Nat /\ n - 1 < n
      OBVIOUS
    <3>2. n > 0 => n - 1 \in S
      BY <1>1, <3>1
    <3> QED BY <3>2
  <2> DEFINE f == [m \in 0..n |-> IF m = n THEN TextFrom(g, n) ELSE g[m]]
  <2>2. \A m \in 0..n : m # n => n > 0 /\ m \in 0..(n - 1)
    OBVIOUS
  <2>3. \A m \in 0..n : m >= 10 => /\ m \div 10 \in 0..(n - 1) /\ m \div 10 # n /\ n > 0
                                   /\ m \div 10 \in 0..n
    BY TenthOfNumber
  <2>4. TextFrom(g, n) \in Texts
    <3>1. n >= 10 => g[n \div 10] \in Texts
      BY <2>1, <2>3 DEF TextsUpTo
    <3> QED BY <3>1, TextStep
  <2>5. f \in [0..n -> Texts]
    BY <2>1, <2>2, <2>4 DEF TextsUpTo
  <2>6. \A m \in 0..n : TextFrom(f, m) = TextFrom(g, m)
    <3> SUFFICES ASSUME NEW m \in 0..n PROVE TextFrom(f, m) = TextFrom(g, m)
      OBVIOUS
    <3>1. CASE m < 10
      BY <3>1 DEF TextFrom
    <3>2. CASE ~(m < 10)
      <4>1. f[m \div 10] = g[m \div 10]
        BY <2>3, <3>2
      <4> HIDE DEF f
      <4> QED BY <3>2, <4>1 DEF TextFrom
    <3> QED BY <3>1, <3>2
  <2>7. \A m \in 0..n : f[m] = TextFrom(f, m)
    <3>1. \A m \in 0..n : m # n => g[m] = TextFrom(g, m)
      BY <2>1, <2>2 DEF TextsUpTo
    <3>2. \A m \in 0..n : f[m] = IF m = n THEN TextFrom(g, n) ELSE g[m]
      OBVIOUS
    <3> HIDE DEF f
    <3> QED BY <2>6, <3>1, <3>2
  <2>8. TextsUpTo(f, n)
    <3> HIDE DEF f
    <3> QED BY <2>5, <2>7 DEF TextsUpTo
  <2> HIDE DEF f
  <2> QED BY <2>8
<1> HIDE DEF S
<1>2. N \in S
  BY <1>1, EveryNumber
<1> QED BY <1>2 DEF S

LEMMA TextsAgree ==
  ASSUME NEW f, NEW M \in Nat, TextsUpTo(f, M), NEW g, NEW N \in Nat, TextsUpTo(g, N),
         NEW n \in Nat, n <= M, n <= N
  PROVE  f[n] = g[n]
<1> DEFINE S == {k \in Nat : k <= M /\ k <= N => f[k] = g[k]}
<1>1. ASSUME NEW k \in Nat, \A m \in Nat : m < k => m \in S
      PROVE  k \in S
  <2> SUFFICES ASSUME k <= M, k <= N PROVE f[k] = g[k]
    OBVIOUS
  <2>1. f[k] = TextFrom(f, k) /\ g[k] = TextFrom(g, k)
    BY DEF TextsUpTo
  <2>2. k >= 10 => f[k \div 10] = g[k \div 10]
    <3> SUFFICES ASSUME k >= 10 PROVE f[k \div 10] = g[k \div 10]
      OBVIOUS
    <3>1. PICK m : m = k \div 10
      OBVIOUS
    <3>2. m \in Nat /\ m < k
      BY <3>1, TenthOfNumber
    <3>3. m \in S /\ m <= M /\ m <= N
      BY <1>1, <3>2
    <3> QED BY <3>1, <3>3
  <2>3. TextFrom(f, k) = TextFrom(g, k)
    <3>1. k < 10 \/ k >= 10
      OBVIOUS
    <3> QED BY <2>2, <3>1 DEF TextFrom
  <2> QED BY <2>1, <2>3
<1> HIDE DEF S
<1>2. n \in S
  BY <1>1, EveryNumber
<1> QED BY <1>2 DEF S

\* Every number has a text.
LEMMA DigitsType == Digits \in [Nat -> Texts]
<1> DEFINE Upto(n) == CHOOSE f : TextsUpTo(f, n)
           F == [n \in Nat |-> Upto(n)[n]]
<1>1. \A n \in Nat : TextsUpTo(Upto(n), n)
  BY TextsExist
<1> HIDE DEF Upto
<1>2. F \in [Nat -> Texts]
  <2>1. ASSUME NEW n \in Nat PROVE Upto(n)[n] \in Texts
    BY <1>1 DEF TextsUpTo
  <2> QED BY <2>1
<1>3. \A n \in Nat : F[n] = TextFrom(F, n)
  <2> SUFFICES ASSUME NEW n \in Nat PROVE F[n] = TextFrom(F, n)
    OBVIOUS
  <2>1. F[n] = TextFrom(Upto(n), n)
    BY <1>1 DEF TextsUpTo
  <2>2. n >= 10 => F[n \div 10] = Upto(n)[n \div 10]
    <3> SUFFICES ASSUME n >= 10 PROVE F[n \div 10] = Upto(n)[n \div 10]
      OBVIOUS
    <3>1. PICK m : m = n \div 10
      OBVIOUS
    <3>2. m \in Nat /\ m <= n
      BY <3>1, TenthOfNumber
    <3>3. F[m] = Upto(m)[m]
      BY <3>2
    <3>4. Upto(m)[m] = Upto(n)[m]
      BY <1>1, <3>2, TextsAgree
    <3> QED BY <3>1, <3>3, <3>4
  <2> HIDE DEF F
  <2>3. n < 10 \/ n >= 10
    OBVIOUS
  <2>4. TextFrom(F, n) = TextFrom(Upto(n), n)
    BY <2>2, <2>3 DEF TextFrom
  <2> QED BY <2>1, <2>4
<1>4. F = [n \in Nat |-> IF n < 10 THEN <<n>> ELSE Append(F[n \div 10], n % 10)]
  <2>1. F = [n \in Nat |-> F[n]]
    OBVIOUS
  <2> HIDE DEF F
  <2>2. \A n \in Nat : F[n] = IF n < 10 THEN <<n>> ELSE Append(F[n \div 10], n % 10)
    BY <1>3 DEF TextFrom
  <2> QED BY <2>1, <2>2
<1> HIDE DEF F
<1>5. Digits = [n \in Nat |-> IF n < 10 THEN <<n>> ELSE Append(Digits[n \div 10], n % 10)]
  BY <1>4 DEF Digits
<1> DEFINE S == {n \in Nat : Digits[n] \in Texts}
<1>6. ASSUME NEW n \in Nat, \A m \in Nat : m < n => m \in S
      PROVE  n \in S
  <2>1. Digits[n] = TextFrom(Digits, n)
    BY <1>5 DEF TextFrom
  <2>2. n >= 10 => Digits[n \div 10] \in Texts
    <3>1. n >= 10 => n \div 10 \in S
      BY <1>6, TenthOfNumber
    <3> QED BY <3>1
  <2>3. TextFrom(Digits, n) \in Texts
    BY <2>2, TextStep
  <2> QED BY <2>1, <2>3
<1>7. \A n \in Nat : n \in S
  <2> HIDE DEF S
  <2> QED BY <1>6, EveryNumber
<1>8. Digits = [n \in Nat |-> Digits[n]]
  <2>1. PICK R : R = [n \in Nat |-> IF n < 10 THEN <<n>> ELSE Append(Digits[n \div 10], n % 10)]
    OBVIOUS
  <2>2. R = [n \in Nat |-> R[n]]
    BY <2>1
  <2> QED BY <1>5, <2>1, <2>2
<1> QED BY <1>7, <1>8

-----------------------------------------------------------------------------
(* The order of texts.                                                     *)

\* Texts agree up to a place, where one ends or is smaller.
LEMMA TextNotBeforeItself ==
  ASSUME NEW s \in Texts
  PROVE  ~TextBefore(s, s)
<1>1. Len(s) \in Nat /\ \A i \in 1..Len(s) : s[i] \in Int
  BY DEF Texts
<1> SUFFICES ASSUME NEW i \in 0..Len(s), i < Len(s), i = Len(s) \/ s[i + 1] < s[i + 1]
             PROVE  FALSE
  BY DEF TextBefore
<1>2. i + 1 \in 1..Len(s) /\ i # Len(s)
  BY <1>1
<1>3. s[i + 1] \in Int /\ s[i + 1] < s[i + 1]
  BY <1>1, <1>2
<1> QED BY <1>3

LEMMA TextsInOrder ==
  ASSUME NEW s \in Texts, NEW t \in Texts, NEW u \in Texts, TextBefore(s, t), TextBefore(t, u)
  PROVE  TextBefore(s, u)
<1>1. /\ Len(s) \in Nat /\ Len(t) \in Nat /\ Len(u) \in Nat
      /\ \A i \in 1..Len(s) : s[i] \in Int
      /\ \A i \in 1..Len(t) : t[i] \in Int
      /\ \A i \in 1..Len(u) : u[i] \in Int
  BY DEF Texts
<1>2. PICK i \in 0..Len(s) : /\ \A j \in 1..i : s[j] = t[j]
                             /\ i < Len(t) /\ (i = Len(s) \/ s[i + 1] < t[i + 1])
  BY DEF TextBefore
<1>3. PICK k \in 0..Len(t) : /\ \A j \in 1..k : t[j] = u[j]
                             /\ k < Len(u) /\ (k = Len(t) \/ t[k + 1] < u[k + 1])
  BY DEF TextBefore
<1>4. CASE i < k
  <2>1. i <= Len(u) /\ i < Len(u) /\ \A j \in 1..i : s[j] = u[j]
    BY <1>1, <1>2, <1>3, <1>4
  <2>2. i + 1 \in 1..k /\ t[i + 1] = u[i + 1]
    BY <1>1, <1>3, <1>4
  <2> QED BY <1>2, <2>1, <2>2 DEF TextBefore
<1>5. CASE i = k
  <2>1. i <= Len(u) /\ i < Len(u) /\ \A j \in 1..i : s[j] = u[j]
    BY <1>1, <1>2, <1>3, <1>5
  <2>2. t[i + 1] < u[i + 1]
    BY <1>1, <1>2, <1>3, <1>5
  <2>3. i = Len(s) \/ s[i + 1] < u[i + 1]
    <3>1. i # Len(s) => i + 1 \in 1..Len(s)
      BY <1>1
    <3>2. i + 1 \in 1..Len(t) /\ i + 1 \in 1..Len(u)
      BY <1>1, <1>2, <2>1
    <3> QED BY <1>1, <1>2, <2>2, <3>1, <3>2
  <2> QED BY <2>1, <2>3 DEF TextBefore
<1>6. CASE i > k
  <2>1. k \in 0..Len(s) /\ k <= Len(u) /\ k < Len(u) /\ \A j \in 1..k : s[j] = u[j]
    BY <1>1, <1>2, <1>3, <1>6
  <2>2. k # Len(t) /\ k + 1 \in 1..i /\ s[k + 1] = t[k + 1]
    BY <1>1, <1>2, <1>6
  <2>3. s[k + 1] < u[k + 1]
    BY <1>3, <2>2
  <2> QED BY <2>1, <2>3 DEF TextBefore
<1> QED BY <1>1, <1>4, <1>5, <1>6

LEMMA TextsCompared ==
  ASSUME NEW s \in Texts, NEW t \in Texts, s # t
  PROVE  TextBefore(s, t) \/ TextBefore(t, s)
<1>1. /\ Len(s) \in Nat /\ Len(t) \in Nat
      /\ DOMAIN s = 1..Len(s) /\ DOMAIN t = 1..Len(t)
      /\ \A i \in 1..Len(s) : s[i] \in Int
      /\ \A i \in 1..Len(t) : t[i] \in Int
      /\ s = [i \in 1..Len(s) |-> s[i]] /\ t = [i \in 1..Len(t) |-> t[i]]
  BY DEF Texts
<1> DEFINE T == {n \in Nat \ {0} : n > Len(s) \/ n > Len(t) \/ s[n] # t[n]}
<1>2. T \in SUBSET Nat /\ T # {}
  <2>1. Len(s) + 1 \in T
    BY <1>1
  <2> QED BY <2>1
<1>3. PICK m \in T : \A n \in T : m <= n
  <2> HIDE DEF T
  <2> QED BY <1>2, LeastNumber
<1>4. PICK i : i = m - 1
  OBVIOUS
<1>5. i \in Nat /\ m = i + 1
  BY <1>4
<1>6. \A j \in 1..i : j <= Len(s) /\ j <= Len(t) /\ s[j] = t[j]
  <2> SUFFICES ASSUME NEW j \in 1..i PROVE j <= Len(s) /\ j <= Len(t) /\ s[j] = t[j]
    OBVIOUS
  <2>1. j \in Nat \ {0} /\ ~(m <= j)
    BY <1>5
  <2>2. j \notin T
    BY <1>3, <2>1
  <2> QED BY <1>1, <2>1, <2>2
<1>7. i <= Len(s) /\ i <= Len(t)
  BY <1>1, <1>5, <1>6
<1>8. ASSUME Len(s) = Len(t), i = Len(s) PROVE FALSE
  <2>1. \A j \in 1..Len(s) : s[j] = t[j]
    BY <1>6, <1>8
  <2>2. [j \in 1..Len(s) |-> s[j]] = [j \in 1..Len(t) |-> t[j]]
    BY <1>8, <2>1
  <2> QED BY <1>1, <2>2
<1> HIDE DEF T
<1>9. Len(s) \in Nat /\ Len(t) \in Nat /\ i \in Nat
  BY <1>1, <1>5
<1>10. CASE m > Len(s)
  <2>1. i = Len(s)
    BY <1>1, <1>5, <1>7, <1>10
  <2>2. i < Len(t)
    <3> SUFFICES ASSUME ~(i < Len(t)) PROVE FALSE
      OBVIOUS
    <3>1. Len(t) = Len(s)
      BY ONLY <1>9, <1>7, <2>1, ~(i < Len(t))
    <3> QED BY <1>8, <2>1, <3>1
  <2> QED BY <1>5, <1>6, <1>7, <2>1, <2>2 DEF TextBefore
<1>11. CASE m > Len(t)
  <2>1. i = Len(t)
    BY <1>1, <1>5, <1>7, <1>11
  <2>2. i < Len(s)
    <3> SUFFICES ASSUME ~(i < Len(s)) PROVE FALSE
      OBVIOUS
    <3>1. Len(t) = Len(s)
      BY ONLY <1>9, <1>7, <2>1, ~(i < Len(s))
    <3> QED BY <1>8, <2>1, <3>1
  <2> QED BY <1>5, <1>6, <1>7, <2>1, <2>2 DEF TextBefore
<1>12. CASE m <= Len(s) /\ m <= Len(t)
  <2>1. s[i + 1] # t[i + 1] /\ i < Len(s) /\ i < Len(t) /\ i \in 0..Len(s) /\ i \in 0..Len(t)
    BY <1>1, <1>3, <1>5, <1>12 DEF T
  <2>2. s[i + 1] \in Int /\ t[i + 1] \in Int
    BY <1>1, <1>5, <1>12
  <2>3. s[i + 1] < t[i + 1] \/ t[i + 1] < s[i + 1]
    BY <2>1, <2>2
  <2> QED BY <1>6, <1>7, <2>1, <2>3 DEF TextBefore
<1> QED BY <1>1, <1>5, <1>10, <1>11, <1>12

-----------------------------------------------------------------------------
(* The order of events.                                                    *)

\* The keys by which events are compared.
Tuples == [number : Nat, text : Texts]
Ordered(core) ==
  /\ core.commit_ts \in Nat /\ OffsetTuple(core) \in Tuples
  /\ core.completeness.snapshot_epoch_id \in Hashes \cup {Null}
  /\ RowKeyHash(core.changes[1].object) \in Hashes
  /\ core.envelope_id \in Hashes

LEMMA EventOrdered ==
  ASSUME NEW core, EventOK(core)
  PROVE  Ordered(core)
<1>1. core.commit_ts \in Nat /\ core.envelope_id = EnvelopeId(core.tx_id)
  BY DEF EventOK, Lawful
<1>2. RowKeyHash(core.changes[1].object) \in Hashes
  <2>1. PICK n \in Nat \ {0} : /\ DOMAIN core.changes = 1..n
                               /\ \A i \in 1..n : \E r \in Captured : core.changes[i] = Item(Change(r), i - 1)
    BY DEF EventOK, ItemsMatch
  <2>2. PICK r \in Captured : core.changes[1] = Item(Change(r), 1 - 1)
    BY <2>1
  <2>3. core.changes[1].object = Change(r).object
    BY <2>2 DEF Item
  <2>4. RowKeyHash(Change(r).object) \in {RowKeyHash(Change(q).object) : q \in {s \in Records : Mappable(s)}}
    BY DEF Captured
  <2> QED BY <2>3, <2>4 DEF Hashes
<1>3. CASE core.offset.gtid # Null
  <2>1. OfStream(core)
    BY <1>3, StreamEvent
  <2>2. PICK r \in Records : core.tx_id = r.gtid /\ r.gtid # Null
    BY <2>1 DEF OfStream
  <2>3. PICK g \in [domain : Nat, server : Nat, number : Nat] : g = r.gtid
    BY <2>2, RecordAssumption
  <2>4. core.offset.gtid = g
    BY <2>1, <2>2, <2>3 DEF OfStream
  <2>5. NumberOf(g) \in Nat
    BY <2>3 DEF NumberOf
  <2>6. TextOfGtid(g) \in Texts
    <3>1. PICK a, b, c : a = Digits[g.domain] /\ b = Digits[g.server] /\ c = Digits[g.number]
      OBVIOUS
    <3>2. a \in Seq(Int) /\ b \in Seq(Int) /\ c \in Seq(Int)
      BY <2>3, <3>1, DigitsType DEF Texts
    <3>3. <<-1>> \in Seq(Int)
      OBVIOUS
    <3>4. a \o <<-1>> \o b \o <<-1>> \o c \in Seq(Int)
      BY <3>2, <3>3
    <3> QED BY <3>1, <3>4 DEF TextOfGtid, Texts
  <2>7. OffsetTuple(core) \in Tuples
    <3>1. OffsetTuple(core) = [number |-> NumberOf(g), text |-> TextOfGtid(g)]
      BY <1>3, <2>4 DEF OffsetTuple
    <3> QED BY <2>5, <2>6, <3>1 DEF Tuples
  <2>8. core.completeness.snapshot_epoch_id = Null
    BY <2>1 DEF OfStream
  <2>9. core.envelope_id \in Hashes
    <3>1. core.tx_id \in {q.gtid : q \in Records}
      BY <2>2
    <3>2. EnvelopeId(core.tx_id) \in {EnvelopeId(tx) : tx \in {q.gtid : q \in Records}
                                                              \cup UNION {SnapshotIds(q) : q \in Snapshots}}
      BY <3>1
    <3> QED BY <1>1, <3>2 DEF Hashes
  <2> QED BY <1>1, <1>2, <2>7, <2>8, <2>9 DEF Ordered
<1>4. CASE core.offset.gtid = Null
  <2>1. PICK r \in Reads \cap Captured, at \in Instants :
           /\ OfRead(core, r, at) /\ r.file \in Nat /\ r.pos \in Nat
           /\ core.offset.binlog_file = r.file /\ core.offset.binlog_pos = r.pos
    BY <1>4, ReadEvent
  <2>2. r \in Snapshots
    BY DEF Reads, Captured, Snapshots
  <2>3. OffsetTuple(core) \in Tuples
    <3>1. OffsetTuple(core) = [number |-> r.pos, text |-> <<r.file>> \o Digits[r.pos]]
      BY <1>4, <2>1 DEF OffsetTuple
    <3>2. PICK d : d = Digits[r.pos]
      OBVIOUS
    <3>3. d \in Seq(Int) /\ <<r.file>> \in Seq(Int)
      BY <2>1, <3>2, DigitsType DEF Texts
    <3>4. <<r.file>> \o d \in Texts
      BY <3>3 DEF Texts
    <3> QED BY <2>1, <3>1, <3>2, <3>4 DEF Tuples
  <2>4. core.completeness.snapshot_epoch_id \in Hashes
    <3>1. core.completeness.snapshot_epoch_id = SnapshotEpochOf(Mapped(r, at))
      BY <2>1 DEF OfRead
    <3>2. SnapshotEpochOf(Mapped(r, at)) \in {SnapshotEpochOf(Mapped(q, t)) : q \in Snapshots, t \in Instants}
      BY <2>2
    <3> QED BY <3>1, <3>2 DEF Hashes
  <2>5. core.envelope_id \in Hashes
    <3>1. core.tx_id = SnapshotTxId(SnapshotEpochOf(Mapped(r, at)), Change(r).object)
      BY <2>1 DEF OfRead
    <3>2. core.tx_id \in SnapshotIds(r)
      BY <3>1 DEF SnapshotIds
    <3>3. core.tx_id \in UNION {SnapshotIds(q) : q \in Snapshots}
      BY <2>2, <3>2
    <3>4. EnvelopeId(core.tx_id) \in {EnvelopeId(tx) : tx \in {q.gtid : q \in Records}
                                                              \cup UNION {SnapshotIds(q) : q \in Snapshots}}
      BY <3>3
    <3> QED BY <1>1, <3>4 DEF Hashes
  <2> QED BY <1>1, <1>2, <2>3, <2>4, <2>5 DEF Ordered
<1> QED BY <1>3, <1>4

\* The offsets are in a strict order.
LEMMA OffsetsOrdered ==
  /\ \A a : Ordered(a) => ~OffsetKeys(a, a)
  /\ \A a, b, c : Ordered(a) /\ Ordered(b) /\ Ordered(c) /\ OffsetKeys(a, b) /\ OffsetKeys(b, c)
                    => OffsetKeys(a, c)
  /\ \A a, b : Ordered(a) /\ Ordered(b) /\ OffsetTuple(a) # OffsetTuple(b)
                 => OffsetKeys(a, b) \/ OffsetKeys(b, a)
<1>1. \A a : Ordered(a) => /\ OffsetTuple(a).number \in Nat /\ OffsetTuple(a).text \in Texts
                           /\ OffsetTuple(a) = [number |-> OffsetTuple(a).number, text |-> OffsetTuple(a).text]
  BY DEF Ordered, Tuples
<1>2. \A a, b : OffsetKeys(a, b) <=>
         IF OffsetTuple(a).number # OffsetTuple(b).number THEN OffsetTuple(a).number < OffsetTuple(b).number
         ELSE TextBefore(OffsetTuple(a).text, OffsetTuple(b).text)
  BY DEF OffsetKeys
<1>3. ASSUME NEW a, Ordered(a) PROVE ~OffsetKeys(a, a)
  BY <1>1, <1>2, <1>3, TextNotBeforeItself
<1>4. ASSUME NEW a, NEW b, NEW c, Ordered(a), Ordered(b), Ordered(c), OffsetKeys(a, b), OffsetKeys(b, c)
      PROVE  OffsetKeys(a, c)
  <2>1. PICK x, y, z : x = OffsetTuple(a) /\ y = OffsetTuple(b) /\ z = OffsetTuple(c)
    OBVIOUS
  <2>2. /\ x.number \in Nat /\ y.number \in Nat /\ z.number \in Nat
        /\ x.text \in Texts /\ y.text \in Texts /\ z.text \in Texts
    BY <1>1, <1>4, <2>1
  <2>3. /\ IF x.number # y.number THEN x.number < y.number ELSE TextBefore(x.text, y.text)
        /\ IF y.number # z.number THEN y.number < z.number ELSE TextBefore(y.text, z.text)
    BY <1>2, <1>4, <2>1
  <2>4. TextBefore(x.text, y.text) /\ TextBefore(y.text, z.text) => TextBefore(x.text, z.text)
    BY <2>2, TextsInOrder
  <2>5. IF x.number # z.number THEN x.number < z.number ELSE TextBefore(x.text, z.text)
    BY <2>2, <2>3, <2>4
  <2> QED BY <1>2, <2>1, <2>5
<1>5. ASSUME NEW a, NEW b, Ordered(a), Ordered(b), OffsetTuple(a) # OffsetTuple(b)
      PROVE  OffsetKeys(a, b) \/ OffsetKeys(b, a)
  <2>1. PICK x, y : x = OffsetTuple(a) /\ y = OffsetTuple(b)
    OBVIOUS
  <2>2. x.number \in Nat /\ y.number \in Nat /\ x.text \in Texts /\ y.text \in Texts
    BY <1>1, <1>5, <2>1
  <2>3. x.number # y.number \/ x.text # y.text
    BY <1>1, <1>5, <2>1
  <2>4. x.text # y.text => TextBefore(x.text, y.text) \/ TextBefore(y.text, x.text)
    BY <2>2, TextsCompared
  <2> QED BY <1>2, <2>1, <2>2, <2>3, <2>4
<1> QED BY <1>3, <1>4, <1>5

\* The subordinate keys are in a strict order, in which events of different ids differ.
LEMMA SubordinatesOrdered ==
  /\ \A a : Ordered(a) => ~SubordinateKeys(a, a)
  /\ \A a, b, c : Ordered(a) /\ Ordered(b) /\ Ordered(c) /\ SubordinateKeys(a, b) /\ SubordinateKeys(b, c)
                    => SubordinateKeys(a, c)
  /\ \A a, b : Ordered(a) /\ Ordered(b) /\ a.envelope_id # b.envelope_id
                 => SubordinateKeys(a, b) \/ SubordinateKeys(b, a)
<1> DEFINE E(a) == a.completeness.snapshot_epoch_id
           R(a) == RowKeyHash(a.changes[1].object)
           I(a) == a.envelope_id
<1>1. \A a : Ordered(a) => E(a) \in Hashes \cup {Null} /\ R(a) \in Hashes /\ I(a) \in Hashes
  BY DEF Ordered
<1>2. \A a, b : SubordinateKeys(a, b) <=>
         IF E(a) # E(b) THEN E(b) = Null \/ (E(a) # Null /\ HashBefore(E(a), E(b)))
         ELSE IF R(a) # R(b) THEN HashBefore(R(a), R(b))
         ELSE HashBefore(I(a), I(b))
  BY DEF SubordinateKeys
<1> HIDE DEF E, R, I
<1>3. ASSUME NEW a, Ordered(a) PROVE ~SubordinateKeys(a, a)
  BY <1>1, <1>2, <1>3, HashAssumption
<1>4. ASSUME NEW a, NEW b, NEW c, Ordered(a), Ordered(b), Ordered(c), SubordinateKeys(a, b), SubordinateKeys(b, c)
      PROVE  SubordinateKeys(a, c)
  <2>1. /\ IF E(a) # E(b) THEN E(b) = Null \/ (E(a) # Null /\ HashBefore(E(a), E(b)))
           ELSE IF R(a) # R(b) THEN HashBefore(R(a), R(b)) ELSE HashBefore(I(a), I(b))
        /\ IF E(b) # E(c) THEN E(c) = Null \/ (E(b) # Null /\ HashBefore(E(b), E(c)))
           ELSE IF R(b) # R(c) THEN HashBefore(R(b), R(c)) ELSE HashBefore(I(b), I(c))
    BY <1>2, <1>4
  <2>2. \A x, y, z \in Hashes : HashBefore(x, y) /\ HashBefore(y, z) => HashBefore(x, z) /\ x # z
    BY HashAssumption
  <2>3. /\ E(a) \in Hashes \cup {Null} /\ E(b) \in Hashes \cup {Null} /\ E(c) \in Hashes \cup {Null}
        /\ R(a) \in Hashes /\ R(b) \in Hashes /\ R(c) \in Hashes
        /\ I(a) \in Hashes /\ I(b) \in Hashes /\ I(c) \in Hashes
    BY <1>1, <1>4
  <2>4. CASE E(a) = E(b) /\ E(b) = E(c)
    <3>1. IF R(a) # R(c) THEN HashBefore(R(a), R(c)) ELSE HashBefore(I(a), I(c))
      BY <2>1, <2>2, <2>3, <2>4
    <3> QED BY <1>2, <2>4, <3>1
  <2>5. CASE E(a) # E(b) \/ E(b) # E(c)
    <3>1. E(a) # E(c) /\ (E(c) = Null \/ (E(a) # Null /\ HashBefore(E(a), E(c))))
      BY <2>1, <2>2, <2>3, <2>5
    <3> QED BY <1>2, <3>1
  <2> QED BY <2>4, <2>5
<1>5. ASSUME NEW a, NEW b, Ordered(a), Ordered(b), I(a) # I(b)
      PROVE  SubordinateKeys(a, b) \/ SubordinateKeys(b, a)
  <2>1. \A x, y \in Hashes : x # y => HashBefore(x, y) \/ HashBefore(y, x)
    BY HashAssumption
  <2> QED BY <1>1, <1>2, <1>5, <2>1
<1> QED BY <1>3, <1>4, <1>5 DEF I

\* C-SNAP-CHAIN-ORDER: the order is strict and total on events of different ids.
LEMMA CaseOrder ==
  ASSUME NEW S, \A a \in S : EventOK(a),
         \A a, b \in S : a # b => a.envelope_id # b.envelope_id
  PROVE  C_SNAP_CHAIN_ORDER(S)
<1>1. \A a \in S : Ordered(a) /\ a.commit_ts \in Nat
  BY EventOrdered DEF Ordered
<1>2. \A a, b : Before(a, b) <=>
        IF a.commit_ts # b.commit_ts THEN a.commit_ts < b.commit_ts
        ELSE IF OffsetTuple(a) # OffsetTuple(b) THEN OffsetKeys(a, b) ELSE SubordinateKeys(a, b)
  BY DEF Before
<1>3. ASSUME NEW a \in S, NEW b \in S, a # b
      PROVE  Before(a, b) <=> ~Before(b, a)
  <2>1. Ordered(a) /\ Ordered(b) /\ a.commit_ts \in Nat /\ b.commit_ts \in Nat
    BY <1>1
  <2>2. OffsetTuple(a) # OffsetTuple(b) => (OffsetKeys(a, b) <=> ~OffsetKeys(b, a))
    BY <2>1, OffsetsOrdered
  <2>3. SubordinateKeys(a, b) <=> ~SubordinateKeys(b, a)
    BY <1>3, <2>1, SubordinatesOrdered
  <2> QED BY <1>2, <2>1, <2>2, <2>3
<1>4. ASSUME NEW a \in S, NEW b \in S, NEW c \in S, Before(a, b), Before(b, c)
      PROVE  Before(a, c)
  <2>1. /\ Ordered(a) /\ Ordered(b) /\ Ordered(c)
        /\ a.commit_ts \in Nat /\ b.commit_ts \in Nat /\ c.commit_ts \in Nat
    BY <1>1
  <2>2. PICK x, y, z : x = OffsetTuple(a) /\ y = OffsetTuple(b) /\ z = OffsetTuple(c)
    OBVIOUS
  <2>3. OffsetKeys(a, b) /\ OffsetKeys(b, c) => OffsetKeys(a, c)
    BY <2>1, OffsetsOrdered
  <2>4. ~(OffsetKeys(a, b) /\ OffsetKeys(b, a))
    BY <2>1, OffsetsOrdered
  <2>5. /\ x = y => (OffsetKeys(b, c) => OffsetKeys(a, c))
        /\ y = z => (OffsetKeys(a, b) => OffsetKeys(a, c))
        /\ x = z => (OffsetKeys(b, c) => OffsetKeys(b, a))
    BY <2>2 DEF OffsetKeys
  <2>6. SubordinateKeys(a, b) /\ SubordinateKeys(b, c) => SubordinateKeys(a, c)
    BY <2>1, SubordinatesOrdered
  <2>7. /\ IF a.commit_ts # b.commit_ts THEN a.commit_ts < b.commit_ts
           ELSE IF x # y THEN OffsetKeys(a, b) ELSE SubordinateKeys(a, b)
        /\ IF b.commit_ts # c.commit_ts THEN b.commit_ts < c.commit_ts
           ELSE IF y # z THEN OffsetKeys(b, c) ELSE SubordinateKeys(b, c)
    BY <1>2, <1>4, <2>2
  <2>8. IF a.commit_ts # c.commit_ts THEN a.commit_ts < c.commit_ts
        ELSE IF x # z THEN OffsetKeys(a, c) ELSE SubordinateKeys(a, c)
    BY <2>1, <2>3, <2>4, <2>5, <2>6, <2>7
  <2> QED BY <1>2, <2>2, <2>8
<1> QED BY <1>3, <1>4 DEF C_SNAP_CHAIN_ORDER

\* C-5, of a MySQL source.
LEMMA CaseOffsets ==
  ASSUME Engine = "mysql", NEW a, EventOK(a), a.offset.gtid # Null, NEW b, EventOK(b), b.offset.gtid # Null
  PROVE  C5(a, b)
<1> SUFFICES ASSUME a.commit_ts = b.commit_ts, a.offset.gtid.number < b.offset.gtid.number
             PROVE  Before(a, b) /\ ~Before(b, a) /\ ~Before(a, a)
  BY DEF C5
<1>1. Ordered(a) /\ Ordered(b)
  BY EventOrdered
<1>2. /\ OffsetTuple(a).number = a.offset.gtid.number /\ OffsetTuple(b).number = b.offset.gtid.number
      /\ OffsetTuple(a).number \in Nat /\ OffsetTuple(b).number \in Nat
  <2>1. OffsetTuple(a).number = NumberOf(a.offset.gtid) /\ OffsetTuple(b).number = NumberOf(b.offset.gtid)
    BY DEF OffsetTuple
  <2>2. \A g : NumberOf(g) = g.number
    BY DEF NumberOf
  <2> QED BY <1>1, <2>1, <2>2 DEF Ordered, Tuples
<1>3. OffsetTuple(a) # OffsetTuple(b) /\ OffsetKeys(a, b) /\ ~OffsetKeys(b, a)
  BY <1>2 DEF OffsetKeys
<1>4. ~SubordinateKeys(a, a)
  BY <1>1, SubordinatesOrdered
<1> QED BY <1>3, <1>4 DEF Before

\* An emitted event, and that it is the only one of its id.
LEMMA EmittedEvents ==
  ASSUME RecordInv
  PROVE  /\ \A i \in Emitted : EventOK(settled[i].cce.core)
         /\ \A i, j \in Emitted :
              settled[i].cce.core # settled[j].cce.core
                => settled[i].cce.core.envelope_id # settled[j].cce.core.envelope_id
<1>1. ASSUME NEW i \in Emitted PROVE EventOK(settled[i].cce.core)
  <2>1. i \in DOMAIN settled /\ settled[i].outcome \in Accepted
    BY DEF Emitted, Accepted
  <2>2. PICK g : GroupOK(g) /\ EntryOf(settled[i], g)
    BY <2>1, EntryGroup DEF RecordInv
  <2>3. settled[i].cce = Sealed(Core(g, context)) /\ Violations(Sealed(Core(g, context))) = {}
    BY <2>1, <2>2 DEF EntryOf
  <2>4. settled[i].cce.core = Core(g, context)
    BY <2>3 DEF Sealed
  <2> QED BY <2>2, <2>3, <2>4, BuiltEvent DEF RecordInv
<1>2. EmittedApart(settled)
  BY DEF RecordInv, EntriesOK
<1>3. \A i, j \in Emitted : i # j => settled[i].cce.core.envelope_id # settled[j].cce.core.envelope_id
  BY <1>2 DEF EmittedApart, Emitted
<1> QED BY <1>1, <1>3

\* The conformance suite (conformance/suite/cases.ts): of a MySQL source, every emitted
\* event passes every case that the suite asks of a fixture.  Of a MariaDB source C-5
\* does not hold, as a run shows.
THEOREM ConformanceAlwaysHolds ==
  ASSUME Engine = "mysql"
  PROVE  Spec => []ConformanceHolds
<1>1. RecordInv => ConformanceHolds
  <2> SUFFICES ASSUME RecordInv PROVE ConformanceHolds
    OBVIOUS
  <2> DEFINE events == {settled[i].cce.core : i \in Emitted}
             stream == {e \in events : e.offset.gtid # Null}
             reads  == events \ stream
  <2>1. \A e \in events : EventOK(e)
    BY EmittedEvents
  <2>2. \A a, b \in events : a # b => a.envelope_id # b.envelope_id
    BY EmittedEvents
  <2>3. \A e \in reads : e \in events /\ e.offset.gtid = Null
    OBVIOUS
  <2>4. \A e \in stream : e \in events /\ e.offset.gtid # Null
    OBVIOUS
  <2>5. \A c \in context.audit : C10(c)
    BY CaseAttribution DEF RecordInv
  <2>6. \A e \in events : C3(e) /\ C4(e) /\ C6(e)
    <3>1. \A e \in events : C4(e)
      BY <2>1 DEF EventOK, Lawful, V4, C4
    <3> HIDE DEF events
    <3> QED BY <2>1, <3>1, CaseOperations, CaseReplay
  <2> HIDE DEF events, stream, reads
  <2>7. \A e \in stream : /\ C_OFFSET_EMPTY(e) /\ C_STREAM_EMPTY_GTID(e) /\ C_STREAM_NOGTID(e)
                          /\ C_NONMYSQL_BINLOG(e) /\ C_10_BINLOG(e)
    BY <2>1, <2>4, CasesOfStream
  <2>8. \A e \in reads : /\ C_SNAP_IDLE_RERUN(e) /\ C_SNAP_NEWRUN(e) /\ C_SNAP_REPLAY(e)
                         /\ C_SNAP_COVERAGE(e)
    BY <2>1, <2>3, CasesOfRereading, CaseCoverage
  <2>9. \A a, b \in stream : C5(a, b)
    BY <2>1, <2>4, CaseOffsets
  <2>10. \A a, b \in reads : C_TXID_NOCOLLISION(a, b)
    BY <2>1, <2>3, CaseCollision
  <2>11. C_SNAP_CHAIN_ORDER(events)
    BY <2>1, <2>2, CaseOrder
  <2> QED BY <2>5, <2>6, <2>7, <2>8, <2>9, <2>10, <2>11 DEF ConformanceHolds, events, stream, reads
<1> QED BY <1>1, AlwaysRecordInv, PTL

\* The order of a segment follows the source's own (CCE 4.2): of two transactions of a
\* MySQL server, the one committed first is sealed first, also at one commit time.
THEOREM OrderAlwaysFollowsCommits ==
  ASSUME Engine = "mysql"
  PROVE  Spec => []OrderFollowsCommits
<1>1. RecordInv => OrderFollowsCommits
  <2> SUFFICES ASSUME RecordInv, NEW i \in Emitted, NEW j \in Emitted,
                      NEW a, a = settled[i].cce.core, NEW b, b = settled[j].cce.core,
                      a.offset.gtid # Null, b.offset.gtid # Null,
                      a.offset.gtid.number < b.offset.gtid.number, a.commit_ts <= b.commit_ts
               PROVE  Before(a, b)
    BY DEF OrderFollowsCommits
  <2>1. EventOK(a) /\ EventOK(b)
    BY EmittedEvents
  <2>2. C5(a, b) /\ a.commit_ts \in Nat /\ b.commit_ts \in Nat
    BY <2>1, CaseOffsets DEF EventOK
  <2> QED BY <2>2 DEF C5, Before
<1> QED BY <1>1, AlwaysRecordInv, PTL
=============================================================================
