------------------------------ MODULE MCRecords ------------------------------
(***************************************************************************)
(* Instances for TLC of Conformance (with ChangeEvents and EventOrder,     *)
(* which it extends) and of AnchorProviders.  The two share no state:      *)
(* "part" says which of them a behaviour is about, and the other rests.    *)
(***************************************************************************)
EXTENDS Conformance, AnchorProviders

VARIABLE part

RecordsInit ==
  /\ part \in {"events", "anchors"}
  /\ Init /\ ProvidersInit
  /\ part = "anchors" => context = CHOOSE c \in Contexts : TRUE

RecordsNext ==
  \/ part = "events" /\ Next /\ UNCHANGED <<part, pvars>>
  \/ part = "anchors" /\ ProvidersNext /\ UNCHANGED <<part, cvars>>

RecordsSpec == RecordsInit /\ [][RecordsNext]_<<part, cvars, pvars>>

EventsInit == RecordsInit /\ part = "events"
EventsSpec == EventsInit /\ [][RecordsNext]_<<part, cvars, pvars>>

\* Some order of the hashes.
HashOrder == FoldSet(LAMBDA x, s : Append(s, x), <<>>, Hashes)
PlaceOf == [h \in Hashes |-> CHOOSE i \in DOMAIN HashOrder : HashOrder[i] = h]
SomeHashBefore(a, b) == PlaceOf[a] < PlaceOf[b]

\* What the collector may capture of a table with a key, a plain and a sensitive
\* column, as changes to a record that inserts a row.
Gtid(n) == [domain |-> 0, server |-> 1, number |-> n]
Row(key, v) == [id |-> key, v |-> v, s |-> "hidden"]
Insert ==
  [op |-> "c", table |-> "t", before |-> Null, after |-> Row("1", "x"), ddl |-> Null, gtid |-> Gtid(8),
   file |-> 1, pos |-> 1, ts |-> 1, snapshot |-> "false", run |-> 0]
Update(n, from, to) ==
  [Insert EXCEPT !.op = "u", !.gtid = Gtid(n), !.before = from, !.after = to, !.pos = n]
Read(run, key, ts) ==
  [Insert EXCEPT !.op = "r", !.gtid = Null, !.after = Row(key, "x"), !.ts = ts, !.snapshot = "true",
                 !.run = run]

\* One transaction of two changes; two more committed in the same second; a row
\* deleted, a table truncated and one created.
StreamRecords ==
  {Insert, Update(8, Row("1", "x"), Row("1", "y")),
   Update(9, Row("1", "y"), [Row("1", "z") EXCEPT !.s = "other"]), Update(10, Row("1", "z"), Row("2", Null)),
   [Insert EXCEPT !.op = "d", !.gtid = Gtid(11), !.before = Row("2", Null), !.after = Null, !.ts = 2],
   [Insert EXCEPT !.op = "t", !.gtid = Gtid(12), !.after = Null],
   [Insert EXCEPT !.op = Null, !.gtid = Gtid(13), !.after = Null, !.ddl = "create"]}
\* Two runs of a snapshot that starts again at the same position, and a read
\* that the source gave no time.
SnapshotRecords ==
  {Read(1, "1", 1), [Read(1, "2", 1) EXCEPT !.snapshot = "last"], Read(2, "1", 2),
   [Read(3, "1", Null) EXCEPT !.pos = 9]}
\* What becomes no event: an unknown operation of no table, a change of the stream
\* without its GTID or its old row, a snapshot read with a GTID, a float, and a
\* snapshot read with a float for a key.
BadRecords ==
  {[Insert EXCEPT !.op = "m", !.table = Null], [Insert EXCEPT !.gtid = Null],
   Update(14, Null, Row("1", "y")), [Read(1, "1", 1) EXCEPT !.gtid = Gtid(15)],
   Update(16, Row("1", "x"), Row("1", "float")), Read(4, "float", 4)}

MySqlRecords == StreamRecords \cup SnapshotRecords \cup BadRecords
MariaDbRecords == {Update(9, Row("1", "y"), Row("1", "z")), Update(10, Row("1", "z"), Row("2", "z"))}

SomeSensitive == {<<"t", "s">>}
Keys == [t |-> {"id"}]

\* What a process knows of its source: no attestation; a healthy one, whose stream
\* has no gap, has one, or is not known; and sessions of the audit feed.
Healthy == [state |-> "HEALTHY", reason |-> Null]
Continuous(gap) ==
  [consumed_offset_key |-> Gtid(16), gap_detected |-> gap, snapshot_phase |-> "streaming",
   snapshot_epoch_id |-> Null, snapshot_coverage |-> Null]
Session(ref, at, gtid) ==
  [ref |-> ref, at |-> at, objects |-> {"t"}, connection_id |-> "7", thread_id |-> Null, gtid |-> gtid,
   tampered |-> FALSE]
Given(attestation, continuity, audit) ==
  [attestation |-> attestation, continuity |-> continuity, audit |-> audit]
SomeContexts ==
  {Given(Healthy, Continuous(FALSE), {Session("alice", 1, Gtid(9)), Session("bob", 1, Null)}),
   Given(Healthy, Continuous(TRUE), {}),
   Given(Healthy, Null, {Session("alice", 9, Null), [Session("bob", 1, Null) EXCEPT !.tampered = TRUE]}),
   Given(Null, Continuous(FALSE), {Session("alice", 1, Gtid(9)), [Session("bob", 9, Null) EXCEPT !.objects = {}]})}
=============================================================================
