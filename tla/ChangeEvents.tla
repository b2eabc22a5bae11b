---------------------------- MODULE ChangeEvents ----------------------------
(***************************************************************************)
(* What a canonical change event says: the data half of the normalization  *)
(* service.  Captured records are mapped, grouped into transactions, given *)
(* their context (fidelity, completeness, actor), built into an event      *)
(* (diff, mask, identity, hash), validated and guarded against replays.    *)
(* Normalizer.tla is the control half: its loop, timer and restarts.       *)
(*                                                                         *)
(* There is one source.  A hash is the value it commits to, an image a     *)
(* function from columns to values, a time a number, and a GTID the record *)
(* of its parts; Null stands for null and for a member left out, Empty for *)
(* the empty string.                                                       *)
(***************************************************************************)
EXTENDS Integers, Sequences, FiniteSets, FiniteSetsExt

CONSTANTS
  Records,      \* captured records
  Engine,       \* the source's engine
  KeyColumns,   \* [tables -> columns of the primary key] (PK_MAP)
  Sensitive,    \* sensitive columns, each <<table, column>> or <<column>>
  Inexact,      \* column values that have no canonical form (floats)
  Contexts,     \* what a process is given: an attestation, a continuity, an audit feed
  Window,       \* windowMs
  Instants,     \* times at which a record is captured
  MaxTaken,     \* bound on records
  Null, Empty

ASSUME ChangeEventsAssumption ==
  /\ Engine \in {"mysql", "mariadb"}
  /\ \A t \in DOMAIN KeyColumns : KeyColumns[t] # {}
  /\ Instants \subseteq Nat /\ Window \in Nat /\ MaxTaken \in Nat

VARIABLES
  context,      \* what this process was given
  taken,        \* records taken so far, with the times of their capture (history)
  group,        \* TransactionAccumulator: the transaction being grouped, or Null
  settled,      \* finalized groups and what became of them, in order
  letters       \* records and groups in the dead letter queue

cvars == <<context, taken, group, settled, letters>>

-----------------------------------------------------------------------------
(* Mapping a captured record (native-map.ts).                              *)

Operation(r) ==
  CASE r.op \in {"c", "r"} -> "INSERT"
    [] r.op = "u"          -> "UPDATE"
    [] r.op = "d"          -> "DELETE"
    [] r.op = "t"          -> "TRUNCATE"
    [] OTHER               -> IF r.ddl # Null THEN "DDL" ELSE "unsupported"

Mappable(r) ==
  /\ Operation(r) # "unsupported"
  /\ r.table # Null \/ Operation(r) = "DDL"

SchemaOps == {"DDL", "TRUNCATE"}
RowOps    == {"INSERT", "UPDATE", "DELETE"}

\* The row as it exists for the operation, so that a changed key is the old one.
PkResolver(table) == IF table \in DOMAIN KeyColumns THEN KeyColumns[table] ELSE {"id"}
PrimaryKey(r) ==
  LET image == IF Operation(r) = "INSERT" THEN r.after ELSE r.before
  IN IF Operation(r) \in SchemaOps \/ image = Null THEN Null
     ELSE IF PkResolver(r.table) \subseteq DOMAIN image
          THEN [c \in PkResolver(r.table) |-> image[c]] ELSE Null

Change(r) ==
  [operation |-> Operation(r),
   object    |-> [name |-> r.table, key |-> PrimaryKey(r)],
   before    |-> IF Operation(r) = "INSERT" THEN Null ELSE r.before,
   after     |-> IF Operation(r) \in SchemaOps \cup {"DELETE"} THEN Null ELSE r.after,
   ddl       |-> IF Operation(r) = "DDL" THEN r.ddl ELSE Null]

SnapshotPhase(r) ==
  CASE r.snapshot = "false"                             -> "streaming"
    [] r.snapshot \in {"last", "last_in_data_collection"} -> "handoff"
    [] OTHER                                            -> "snapshot"

Mapped(r, at) ==
  [tx_id |-> r.gtid, commit_ts |-> r.ts, ingest_ts |-> at, phase |-> SnapshotPhase(r),
   change |-> Change(r),
   offset |-> [gtid |-> r.gtid, binlog_file |-> r.file, binlog_pos |-> r.pos,
               lsn |-> Null, scn |-> Null, resume_token |-> Null]]

-----------------------------------------------------------------------------
(* Identity of a snapshot read and grouping (snapshot.ts, accumulator.ts). *)

Coalesce(a, b) == IF a # Null THEN a ELSE b

\* The values of an image, or of a key.
Image(image) == IF image = Null THEN <<>> ELSE image
ValuesOf(image) == {Image(image)[c] : c \in DOMAIN Image(image)}

FaultySnapshotEpochId(file, pos, start) == [file |-> file, pos |-> pos]
SnapshotEpochId(file, pos, start) == [file |-> file, pos |-> pos, start |-> start]

RowKeyHash(object) == [name |-> object.name, key |-> object.key]
SnapshotTxId(epoch, object) == [epoch |-> epoch, row |-> RowKeyHash(object)]
SnapshotConsumedOffsetKey(epoch) == [epoch |-> epoch]

SnapshotEpochOf(ev) ==
  SnapshotEpochId(ev.offset.binlog_file, ev.offset.binlog_pos, Coalesce(ev.commit_ts, ev.ingest_ts))

\* add() hashes the key of a snapshot read before it does anything else, and throws
\* when the key has no canonical form.
Identifiable(ev) == ev.tx_id # Null \/ ValuesOf(ev.change.object.key) \cap Inexact = {}

\* A new group takes all but its changes from its first record.
Opened(ev) ==
  LET epoch == IF ev.tx_id # Null THEN Null ELSE SnapshotEpochOf(ev)
  IN [tx_id |-> IF epoch = Null THEN ev.tx_id ELSE SnapshotTxId(epoch, ev.change.object),
      commit_ts |-> ev.commit_ts, ingest_ts |-> ev.ingest_ts, offset |-> ev.offset,
      phase |-> ev.phase, epoch |-> epoch, changes |-> <<ev.change>>, records |-> {}]

\* add(): what is completed by the event, and what is left buffered.  A snapshot
\* read is never grouped with anything.
Held(g) == IF g = Null THEN <<>> ELSE <<g>>
Added(g, ev, r) ==
  LET joins == g # Null /\ ev.tx_id # Null /\ g.tx_id = ev.tx_id
      next  == [(IF joins THEN [g EXCEPT !.changes = Append(@, ev.change)] ELSE Opened(ev))
                 EXCEPT !.records = @ \cup {r}]
  IN [completed |-> (IF joins THEN <<>> ELSE Held(g)) \o (IF ev.tx_id = Null THEN <<next>> ELSE <<>>),
      group |-> IF ev.tx_id = Null THEN Null ELSE next]

-----------------------------------------------------------------------------
(* Fidelity and completeness (context.ts).                                 *)

Unattested == [state |-> "DEGRADED", reason |-> "no fidelity attestation available"]

Rank == [HEALTHY |-> 0, DEGRADED |-> 1, COMPROMISED |-> 2]
Worst(a, b) == IF Rank[b] > Rank[a] THEN b ELSE a

FaultyCombineFidelity(fidelity, completeness) ==    \* a missing continuity taken for a good one
  [state |-> Coalesce(fidelity, Unattested).state, reason |-> Coalesce(fidelity, Unattested).reason]
CombineFidelity(fidelity, completeness) ==
  LET base  == Coalesce(fidelity, Unattested)
      doubt == IF completeness = Null THEN "completeness not attested"
               ELSE IF completeness.gap_detected THEN "completeness gap detected" ELSE Null
      state == IF doubt # Null THEN Worst(base.state, "DEGRADED") ELSE base.state
  IN [state |-> state, reason |-> IF state = "HEALTHY" THEN Null ELSE Coalesce(base.reason, doubt)]

DefaultCompleteness(g) ==
  [consumed_offset_key |-> IF g.epoch # Null THEN SnapshotConsumedOffsetKey(g.epoch) ELSE g.tx_id,
   gap_detected |-> FALSE, snapshot_phase |-> g.phase, snapshot_epoch_id |-> g.epoch,
   snapshot_coverage |-> Null]

\* A snapshot read carries its epoch, whatever is known of the stream.
Completeness(g, continuity) ==
  IF g.epoch # Null THEN DefaultCompleteness(g) ELSE Coalesce(continuity, DefaultCompleteness(g))

Fidelity(g, attestation, continuity) ==
  CombineFidelity(attestation, IF g.epoch # Null THEN DefaultCompleteness(g) ELSE continuity)

-----------------------------------------------------------------------------
(* Attribution (attribution.ts).                                           *)

Unattributed == [confidence |-> "unattributed", ref |-> Null]
HardKeys == {"connection_id", "thread_id", "gtid"}

InWindow(query, candidates) ==
  {c \in candidates : /\ c.at - query.commit_ts \in -Window..Window
                      /\ c.objects = {} \/ c.objects \cap query.tables # {}}

Keyed(query, candidates) ==
  {c \in InWindow(query, candidates) : \E k \in HardKeys : query[k] # Null /\ c[k] = query[k]}

Only(S) == CHOOSE c \in S : TRUE
CorrelateActor(query, candidates) ==
  LET near == InWindow(query, candidates)
      hard == Keyed(query, candidates)
  IN IF \E c \in candidates : c.tampered THEN Unattributed
     ELSE IF Cardinality(hard) = 1 THEN [confidence |-> "exact", ref |-> Only(hard).ref]
     ELSE IF Cardinality(near) = 1 THEN [confidence |-> "probable", ref |-> Only(near).ref]
     ELSE Unattributed

\* The normalizer knows neither connection nor thread, and passes its tx_id for a GTID.
Query(g) ==
  [commit_ts |-> Coalesce(g.commit_ts, g.ingest_ts),
   tables |-> {g.changes[i].object.name : i \in DOMAIN g.changes},
   connection_id |-> Null, thread_id |-> Null, gtid |-> g.tx_id]

-----------------------------------------------------------------------------
(* Diff and mask (diff.ts, mask.ts).                                       *)

ValueAt(image, c) == IF c \in DOMAIN Image(image) THEN <<image[c]>> ELSE <<>>   \* <<>>: undefined

ChangedColumns(change) ==
  CASE change.operation = "INSERT" -> DOMAIN Image(change.after)
    [] change.operation = "DELETE" -> DOMAIN Image(change.before)
    [] OTHER -> {c \in DOMAIN Image(change.before) \cup DOMAIN Image(change.after) :
                   ValueAt(change.before, c) # ValueAt(change.after, c)}

OrNull(value) == IF value = <<>> THEN Null ELSE value[1]
DiffFields(change) ==
  IF change.operation \in SchemaOps THEN Null
  ELSE [c \in ChangedColumns(change) |->
         [old |-> IF change.operation = "INSERT" THEN Null ELSE OrNull(ValueAt(change.before, c)),
          new |-> IF change.operation = "DELETE" THEN Null ELSE OrNull(ValueAt(change.after, c))]]

IsSensitiveColumn(c, table) == <<table, c>> \in Sensitive \/ <<c>> \in Sensitive

Masked(value) == IF value = Null THEN Null ELSE "***"
MaskImage(image, table) ==
  IF image = Null THEN Null
  ELSE [c \in DOMAIN image |-> IF IsSensitiveColumn(c, table) THEN Masked(image[c]) ELSE image[c]]

MaskFieldChanges(fields, table) ==
  IF fields = Null THEN Null
  ELSE [c \in DOMAIN fields |->
         IF IsSensitiveColumn(c, table)
         THEN [old |-> Masked(fields[c].old), new |-> Masked(fields[c].new)] ELSE fields[c]]

Item(change, seq) ==
  [seq |-> seq, operation |-> change.operation, object |-> change.object, ddl |-> change.ddl,
   before |-> MaskImage(change.before, change.object.name),
   after |-> MaskImage(change.after, change.object.name),
   field_changes |-> MaskFieldChanges(DiffFields(change), change.object.name)]

-----------------------------------------------------------------------------
(* Building an event (build.ts, uuid.ts).                                  *)

EnvelopeId(tx) == [tx_id |-> tx]

RealKeys == {"gtid", "lsn", "scn", "resume_token"}
HasRealKey(offset) == \E k \in RealKeys : offset[k] \notin {Null, Empty}

SchemaVersion(offset) == IF HasRealKey(offset) THEN "cce-1.0" ELSE "cce-1.1"

BuildFidelity(f) ==
  [f EXCEPT !.reason = IF f.state = "HEALTHY" THEN Null ELSE Coalesce(@, "fidelity degraded")]

\* assembleTransaction and the core that buildCce makes of it.
Core(g, given) ==
  [schema_version |-> SchemaVersion(g.offset), envelope_id |-> EnvelopeId(g.tx_id),
   engine |-> Engine, tx_id |-> g.tx_id, commit_ts |-> Coalesce(g.commit_ts, g.ingest_ts),
   ingest_ts |-> g.ingest_ts, statement_count |-> Len(g.changes), offset |-> g.offset,
   fidelity |-> BuildFidelity(Fidelity(g, given.attestation, given.continuity)),
   completeness |-> Completeness(g, given.continuity),
   actor |-> CorrelateActor(Query(g), given.audit),
   changes |-> [i \in DOMAIN g.changes |-> Item(g.changes[i], i - 1)]]

Sealed(core) == [core |-> core, event_hash |-> core]

\* serializeCanonical: what is left after masking must have a canonical form.
Canonical(core) ==
  \A i \in DOMAIN core.changes :
    LET item == core.changes[i]
    IN (ValuesOf(item.before) \cup ValuesOf(item.after) \cup ValuesOf(item.object.key))
         \cap Inexact = {}

-----------------------------------------------------------------------------
(* Validation (cce-1.1.schema.json, stateful.ts): the rules an event breaks. *)

SnapshotPhases == {"snapshot", "handoff"}
IfNot(ok, rule) == IF ok THEN {} ELSE {rule}

WellOperated(item) ==
  /\ item.object.name # Null
  /\ item.operation = "DDL" => item.ddl # Null
  /\ item.operation = "INSERT" => item.before = Null
  /\ item.operation = "DELETE" => item.after = Null
  /\ item.operation \in RowOps => item.field_changes # Null

BinlogPair(offset) == offset.binlog_file \notin {Null, Empty} /\ offset.binlog_pos # Null

Schema(core) ==
  (UNION {IfNot(WellOperated(core.changes[i]), "V5") : i \in DOMAIN core.changes})
  \cup IfNot(core.fidelity.state # "HEALTHY" => core.fidelity.reason # Null, "V8")
  \cup IfNot(core.actor.confidence # "unattributed" => core.actor.ref # Null, "V10")
  \cup IfNot(HasRealKey(core.offset) \/ BinlogPair(core.offset), "V11")

V4(core) ==
  /\ \A i \in DOMAIN core.changes : core.changes[i].seq = i - 1
  /\ core.statement_count = Len(core.changes)

V6(core) ==
  \A i \in DOMAIN core.changes :
    core.changes[i].operation \in RowOps => core.changes[i].object.key # Null

FaultyV16(core) == HasRealKey(core.offset) \/ BinlogPair(core.offset)  \* version and phase unchecked
V16(core) ==
  \/ HasRealKey(core.offset)
  \/ /\ core.schema_version = "cce-1.1"
     /\ core.engine \in {"mysql", "mariadb"}
     /\ core.completeness.snapshot_phase \in SnapshotPhases
     /\ BinlogPair(core.offset)

V17(core) ==
  core.completeness.snapshot_phase \in SnapshotPhases =>
    LET epoch == core.completeness.snapshot_epoch_id
    IN /\ epoch # Null
       /\ epoch = SnapshotEpochId(core.offset.binlog_file, core.offset.binlog_pos, core.commit_ts)
       /\ core.tx_id = SnapshotTxId(epoch, core.changes[1].object)
       /\ core.completeness.consumed_offset_key = SnapshotConsumedOffsetKey(epoch)

V18(core) ==
  LET coverage == core.completeness.snapshot_coverage
  IN coverage # Null /\ (coverage.status \in {"incomplete", "interrupted"} \/ coverage.expected = Null)
     => core.fidelity.state # "HEALTHY" /\ core.fidelity.reason \notin {Null, Empty}

Violations(cce) ==
  LET core == cce.core
  IN Schema(core)
     \cup IfNot(core.envelope_id = EnvelopeId(core.tx_id), "V3")
     \cup IfNot(V4(core), "V4") \cup IfNot(V6(core), "V6")
     \cup IfNot(\A k \in RealKeys : core.offset[k] # Empty, "V11")
     \cup IfNot(V16(core), "V16") \cup IfNot(V17(core), "V17") \cup IfNot(V18(core), "V18")
     \cup IfNot(cce.event_hash = core, "V12")

-----------------------------------------------------------------------------
(* The replay guard (dedup.ts), over the groups settled so far.            *)

Emitted == {i \in DOMAIN settled : settled[i].outcome = "EMIT"}

Guard(cce, known) ==
  LET prior == {k \in known : k.core.envelope_id = cce.core.envelope_id}
  IN IF prior = {} THEN "EMIT"
     ELSE IF \E k \in prior : k.event_hash = cce.event_hash THEN "DUPLICATE"
     ELSE "INTEGRITY_VIOLATION"

Outcome(cce, known) ==
  IF ~Canonical(cce.core) THEN "UNEXPECTED_EXCEPTION"
  ELSE IF Violations(cce) # {} THEN "SCHEMA_VALIDATION_FAILURE"
  ELSE Guard(cce, known)

\* finalize(): the groups one after the other.
Finalized(done, g) ==
  LET cce == Sealed(Core(g, context))
      known == {done[i].cce : i \in {j \in DOMAIN done : done[j].outcome = "EMIT"}}
  IN Append(done, [cce |-> cce, records |-> g.records, outcome |-> Outcome(cce, known)])

FinalizedAll(done, groups) ==
  CASE Len(groups) = 0 -> done
    [] Len(groups) = 1 -> Finalized(done, groups[1])
    [] OTHER           -> Finalized(Finalized(done, groups[1]), groups[2])

Category(outcome) == IF outcome = "INTEGRITY_VIOLATION" THEN "UNEXPECTED_EXCEPTION" ELSE outcome
Lettered(done, from) ==
  {[records |-> done[i].records, category |-> Category(done[i].outcome)] :
     i \in {j \in DOMAIN done : j > from /\ done[j].outcome \notin {"EMIT", "DUPLICATE"}}}

-----------------------------------------------------------------------------
Init ==
  /\ context \in Contexts
  /\ taken = 0
  /\ group = Null
  /\ settled = <<>>
  /\ letters = {}

\* process(): the record is mapped and added, and what it completes is finalized.
\* A record whose identity cannot be computed goes nowhere: main.ts logs the error.
Process ==
  \E r \in Records, at \in Instants :
    /\ taken < MaxTaken
    /\ taken' = taken + 1
    /\ \/ /\ ~Mappable(r)
          /\ letters' = letters \cup {[records |-> {r}, category |-> "MALFORMED_CDC_EVENT"]}
          /\ UNCHANGED <<group, settled>>
       \/ /\ Mappable(r) /\ ~Identifiable(Mapped(r, at))
          /\ UNCHANGED <<group, settled, letters>>
       \/ /\ Mappable(r) /\ Identifiable(Mapped(r, at))
          /\ LET added == Added(group, Mapped(r, at), r)
                 done  == FinalizedAll(settled, added.completed)
             IN /\ group' = added.group
                /\ settled' = done
                /\ letters' = letters \cup Lettered(done, Len(settled))
    /\ UNCHANGED context

Flush ==
  /\ group # Null
  /\ group' = Null
  /\ settled' = Finalized(settled, group)
  /\ letters' = letters \cup Lettered(settled', Len(settled))
  /\ UNCHANGED <<context, taken>>

Next == Process \/ Flush

Spec == Init /\ [][Next]_cvars

-----------------------------------------------------------------------------
(* Properties.                                                             *)

\* Groups that made an event, emitted or not.
Built == {i \in DOMAIN settled : settled[i].outcome \in {"EMIT", "DUPLICATE", "INTEGRITY_VIOLATION"}}

\* What a group was at the source: a transaction, or one row as one run of the
\* snapshot read it ("run" is known to the model only).
Origin(r) ==
  IF r.gtid # Null THEN [tx |-> r.gtid] ELSE [run |-> r.run, table |-> r.table, key |-> PrimaryKey(r)]

\* A run of a snapshot reads a row at one position and one start, and two runs at one
\* position start at different times (snapshot.ts:10-14); no GTID is a snapshot's id.
Reads == {r \in Records : r.gtid = Null /\ r.snapshot # "false"}
ASSUME SourceAssumption ==
  /\ \A r, s \in Reads :
       /\ Origin(r) = Origin(s) => r.file = s.file /\ r.pos = s.pos /\ r.ts = s.ts
       /\ r.file = s.file /\ r.pos = s.pos /\ (r.ts = s.ts \/ Null \in {r.ts, s.ts}) => r.run = s.run
  /\ \A r, s \in Records, at \in Instants :
       r.gtid # SnapshotTxId(SnapshotEpochOf(Mapped(s, at)), Change(s).object)

\* Times, positions and the parts of a GTID are numbers, and the record of an
\* update holds the new row.
ASSUME RecordAssumption ==
  \A r \in Records :
    /\ {r.ts, r.file, r.pos} \subseteq Nat \cup {Null}
    /\ r.gtid \in [domain : Nat, server : Nat, number : Nat] \cup {Null}
    /\ r.op = "u" => r.after # Null

\* A feed is finite, and an attestation is of one of three states.
ASSUME ContextAssumption ==
  \A c \in Contexts :
    /\ IsFiniteSet(c.audit)
    /\ c.attestation # Null => c.attestation.state \in DOMAIN Rank

\* Null is no reason, no epoch and no image.
ASSUME NullAssumption ==
  /\ Null \notin {"completeness not attested", "completeness gap detected"}
  /\ \A r \in Records : /\ \A at \in Instants : SnapshotEpochOf(Mapped(r, at)) # Null
                        /\ \A image \in {r.before, r.after} \ {Null} : MaskImage(image, r.table) # Null

\* An envelope id stands for one transaction or one row of one snapshot run, at
\* whatever time and however often it is captured; and that has one id, unless
\* the source gave the read no time.
IdentityExact ==
  \A i, j \in Built :
    LET sameId == settled[i].cce.core.envelope_id = settled[j].cce.core.envelope_id
    IN \A r \in settled[i].records, s \in settled[j].records :
         /\ sameId => Origin(r) = Origin(s)
         /\ Origin(r) = Origin(s) /\ r.ts # Null => sameId

\* HEALTHY is said under an attestation, and of a stream whose continuity is known
\* and unbroken; only a snapshot read has no offset but a binlog position.
Attested(e) ==
  /\ e.cce.core.fidelity.state = "HEALTHY" =>
       /\ context.attestation # Null /\ context.attestation.state = "HEALTHY"
       /\ \A r \in e.records :
            r.snapshot # "false" \/ (context.continuity # Null /\ ~context.continuity.gap_detected)
  /\ HasRealKey(e.cce.core.offset) \/ \A r \in e.records : r.snapshot # "false"

\* A sensitive value appears in no image and no field change, and the images and
\* the field changes of a change tell the same story.
Concealed(item) ==
  \A c \in DOMAIN Image(item.before) \cup DOMAIN Image(item.after) \cup DOMAIN Image(item.field_changes) :
    IsSensitiveColumn(c, item.object.name) =>
      \A v \in {OrNull(ValueAt(item.before, c)), OrNull(ValueAt(item.after, c))} \cup
               (IF c \in DOMAIN Image(item.field_changes)
                THEN {item.field_changes[c].old, item.field_changes[c].new} ELSE {}) :
        v \in {Null, "***"}

Consistent(item) ==
  item.operation \in RowOps =>
    /\ \A c \in DOMAIN Image(item.after) :
         IF c \in DOMAIN item.field_changes THEN item.field_changes[c].new = item.after[c]
         ELSE c \in DOMAIN Image(item.before) /\ item.before[c] = item.after[c]
    /\ \A c \in DOMAIN Image(item.before) :
         IF c \in DOMAIN item.field_changes THEN item.field_changes[c].old = item.before[c]
         ELSE c \in DOMAIN Image(item.after)

\* Whoever is named was near the commit and on one of its tables, no feed was
\* tampered with, and no one else was there with an equal or better claim.
Blamed(e) ==
  LET actor == e.cce.core.actor
      tables == {r.table : r \in e.records}
      near == {c \in context.audit :
                 /\ c.at - e.cce.core.commit_ts \in -Window..Window
                 /\ c.objects = {} \/ c.objects \cap tables # {}}
  IN actor.confidence # "unattributed" =>
       /\ \A c \in context.audit : ~c.tampered
       /\ \E c \in near :
            /\ c.ref = actor.ref
            /\ \A d \in near \ {c} : c.gtid = e.cce.core.tx_id /\ d.gtid # c.gtid

\* What an emitted event says is true of the records it was made from (INV-2).
HonestEvents ==
  \A i \in Emitted :
    LET e == settled[i]
    IN /\ Attested(e) /\ Blamed(e)
       /\ \A n \in DOMAIN e.cce.core.changes :
            Concealed(e.cce.core.changes[n]) /\ Consistent(e.cce.core.changes[n])
=============================================================================
