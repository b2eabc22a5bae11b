----------------------------- MODULE Conformance -----------------------------
(***************************************************************************)
(* The repository's own conformance suite (conformance/suite/cases.ts),    *)
(* asked of every event the modelled service can emit where the suite asks *)
(* it of a fixture.  A case that tampers with an event says by which rule  *)
(* the contract must refuse the result.                                    *)
(***************************************************************************)
EXTENDS EventOrder

RejectsWith(core, rule) == rule \in Violations(Sealed(core))
Valid(core) == Violations(Sealed(core)) = {}

\* An event of the stream whose offset, version, phase and epoch are replaced.
NoOffset == [gtid |-> Null, lsn |-> Null, scn |-> Null, resume_token |-> Null,
             binlog_file |-> Null, binlog_pos |-> Null]
BinlogOnly == [NoOffset EXCEPT !.binlog_file = 3, !.binlog_pos = 4]
Rephased(core, phase, epoch) ==
  [core EXCEPT !.completeness.snapshot_phase = phase, !.completeness.snapshot_epoch_id = epoch]
SomeEpoch == SnapshotEpochId(0, 0, 0)

\* C-3: operations and the nullity of their images.
C3(core) ==
  \A i \in DOMAIN core.changes :
    LET item == core.changes[i]
    IN CASE item.operation = "INSERT"   -> /\ item.before = Null /\ item.after # Null
                                           /\ item.field_changes # Null
         [] item.operation = "UPDATE"   -> Null \notin {item.before, item.after, item.field_changes}
         [] item.operation = "DELETE"   -> /\ item.before # Null /\ item.after = Null
                                           /\ item.field_changes # Null
         [] item.operation = "DDL"      -> item.field_changes = Null /\ item.ddl # Null
         [] item.operation = "TRUNCATE" -> item.field_changes = Null

\* C-4: one envelope for the changes of a transaction, numbered from 0.
C4(core) ==
  /\ core.statement_count = Len(core.changes)
  /\ \A i \in DOMAIN core.changes : core.changes[i].seq = i - 1

\* C-5: equal commit times are told apart by the offset.
C5(a, b) ==
  a.commit_ts = b.commit_ts /\ a.offset.gtid.number < b.offset.gtid.number
    => Before(a, b) /\ ~Before(b, a) /\ ~Before(a, a)

\* C-6: a replay is skipped, a perturbed one is flagged.
OtherImage(image) == IF image = [amount |-> "999.00"] THEN [amount |-> "998.00"] ELSE [amount |-> "999.00"]
Perturbed(core) == [core EXCEPT !.changes[1].after = OtherImage(@)]
C6(core) ==
  /\ Guard(Sealed(core), {}) = "EMIT"
  /\ Guard(Sealed(core), {Sealed(core)}) = "DUPLICATE"
  /\ Guard(Sealed(Perturbed(core)), {Sealed(core)}) = "INTEGRITY_VIOLATION"

\* C-10: nobody, somebody near, somebody by a hard key, too many.
C10(c) ==
  LET query == [commit_ts |-> c.at, tables |-> c.objects, connection_id |-> Null,
                thread_id |-> Null, gtid |-> Null]
      by    == [query EXCEPT !.connection_id = c.connection_id]
      other == [c EXCEPT !.ref = Empty, !.connection_id = Empty]
  IN ~c.tampered =>
       /\ CorrelateActor(query, {}).confidence = "unattributed"
       /\ CorrelateActor(query, {c}).confidence = "probable"
       /\ c.connection_id # Null => CorrelateActor(by, {c}).confidence = "exact"
       /\ CorrelateActor(query, {c, other}).confidence = "unattributed"

\* An empty key is no key.
C_OFFSET_EMPTY(core) ==
  \A k \in RealKeys : RejectsWith([core EXCEPT !.offset = [NoOffset EXCEPT ![k] = Empty]], "V11")

C_STREAM_EMPTY_GTID(core) ==
  RejectsWith([core EXCEPT !.offset = [BinlogOnly EXCEPT !.gtid = Empty]], "V16")

\* A stream's event that lost its GTID is refused, with and without its phase.
C_STREAM_NOGTID(core) ==
  \A phase \in {"streaming", Null} :
    RejectsWith([Rephased(core, phase, Null) EXCEPT !.offset = BinlogOnly], "V16")

C_NONMYSQL_BINLOG(core) ==
  RejectsWith([Rephased(core, "snapshot", SomeEpoch)
                 EXCEPT !.offset = BinlogOnly, !.schema_version = "cce-1.1", !.engine = "postgres"], "V16")

C_10_BINLOG(core) ==
  RejectsWith([Rephased(core, "snapshot", SomeEpoch) EXCEPT !.offset = BinlogOnly], "V16")

\* The same row read again at another time, or at another position, is another
\* event; read again as it was, it is the same.
Again(core, file, pos, start) ==
  LET epoch == SnapshotEpochId(file, pos, start)
      tx    == SnapshotTxId(epoch, core.changes[1].object)
  IN [core EXCEPT !.tx_id = tx, !.envelope_id = EnvelopeId(tx), !.commit_ts = start,
                  !.offset.binlog_file = file, !.offset.binlog_pos = pos,
                  !.completeness.snapshot_epoch_id = epoch,
                  !.completeness.consumed_offset_key = SnapshotConsumedOffsetKey(epoch)]
Replayed(core, outcome, again) ==
  Valid(again) /\ Guard(Sealed(again), {Sealed(core)}) = outcome

C_SNAP_IDLE_RERUN(core) ==
  Replayed(core, "EMIT",
           Again(core, core.offset.binlog_file, core.offset.binlog_pos, core.commit_ts + 1))
C_SNAP_NEWRUN(core) ==
  Replayed(core, "EMIT",
           Again(core, core.offset.binlog_file, core.offset.binlog_pos + 1, core.commit_ts))
C_SNAP_REPLAY(core) ==
  Replayed(core, "DUPLICATE",
           Again(core, core.offset.binlog_file, core.offset.binlog_pos, core.commit_ts))

\* The order of any events is total, so that it does not depend on their arrival.
C_SNAP_CHAIN_ORDER(S) ==
  /\ \A a, b \in S : a # b => (Before(a, b) <=> ~Before(b, a))
  /\ \A a, b, c \in S : Before(a, b) /\ Before(b, c) => Before(a, c)

\* Two rows of one run never share a transaction id.
C_TXID_NOCOLLISION(a, b) ==
  a.changes[1].object # b.changes[1].object => a.tx_id # b.tx_id /\ a.envelope_id # b.envelope_id

\* What a snapshot did not cover for sure is not healthy.
Covering(core, status, expected, state, reason) ==
  [core EXCEPT !.completeness.snapshot_coverage = [status |-> status, expected |-> expected],
               !.fidelity = [state |-> state, reason |-> reason]]
C_SNAP_COVERAGE(core) ==
  /\ RejectsWith(Covering(core, "incomplete", 2, "HEALTHY", Null), "V18")
  /\ RejectsWith(Covering(core, "in_progress", Null, "HEALTHY", Null), "V18")
  /\ Valid(Covering(core, "incomplete", 2, "DEGRADED", "incomplete"))
  /\ Valid(Covering(core, "complete", 2, "HEALTHY", Null))

-----------------------------------------------------------------------------
\* A session of the audit feed has a time and a reference; the state of a stream
\* names no snapshot; and nothing that a case puts into an event is null or empty.
ASSUME ConformanceAssumption ==
  /\ \A c \in Contexts :
       /\ c.continuity # Null => c.continuity.snapshot_epoch_id = Null
       /\ \A s \in c.audit :
            /\ {"ref", "at", "objects", "connection_id", "tampered"} \subseteq DOMAIN s
            /\ s.at \in Int /\ s.ref # Empty
  /\ \A r \in Reads, at \in Instants :
       LET start == Coalesce(r.ts, at)
       IN r.pos # Null => Null \notin {SnapshotEpochId(r.file, r.pos, start + 1),
                                      SnapshotEpochId(r.file, r.pos + 1, start)}
  /\ Null \notin Nat /\ "incomplete" \notin {Null, Empty}
  /\ \A status \in {"incomplete", "in_progress", "complete"}, expected \in {2, Null} :
       [status |-> status, expected |-> expected] # Null

\* Whatever was captured, in whatever order and however often, every emitted
\* event passes every case of the suite.
ConformanceHolds ==
  LET events == {settled[i].cce.core : i \in Emitted}
      stream == {e \in events : e.offset.gtid # Null}
      reads  == events \ stream
  IN /\ \A c \in context.audit : C10(c)
     /\ \A e \in events : C3(e) /\ C4(e) /\ C6(e)
     /\ \A e \in stream : /\ C_OFFSET_EMPTY(e) /\ C_STREAM_EMPTY_GTID(e) /\ C_STREAM_NOGTID(e)
                          /\ C_NONMYSQL_BINLOG(e) /\ C_10_BINLOG(e)
     /\ \A e \in reads : /\ C_SNAP_IDLE_RERUN(e) /\ C_SNAP_NEWRUN(e) /\ C_SNAP_REPLAY(e)
                         /\ C_SNAP_COVERAGE(e)
     /\ \A a, b \in stream : C5(a, b)
     /\ \A a, b \in reads : C_TXID_NOCOLLISION(a, b)
     /\ C_SNAP_CHAIN_ORDER(events)
=============================================================================
