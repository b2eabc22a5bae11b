----------------------------- MODULE EventOrder -----------------------------
(***************************************************************************)
(* The global order in which the evidence writer seals the events of a     *)
(* segment (order.ts), over the events of ChangeEvents.  Strings are       *)
(* compared character by character, as the code compares them; hashes in   *)
(* an order that is arbitrary but fixed, HashBefore.                       *)
(***************************************************************************)
EXTENDS ChangeEvents

CONSTANT HashBefore(_, _)

\* The decimal text of a number, and the order of texts; -1 stands for the
\* separator of a GTID's parts, which comes before every digit.
Digits[n \in Nat] == IF n < 10 THEN <<n>> ELSE Append(Digits[n \div 10], n % 10)
TextOfGtid(g) == Digits[g.domain] \o <<-1>> \o Digits[g.server] \o <<-1>> \o Digits[g.number]
TextBefore(s, t) ==
  \E i \in 0..Len(s) :
    /\ i <= Len(t) /\ \A j \in 1..i : s[j] = t[j]
    /\ i < Len(t) /\ (i = Len(s) \/ s[i + 1] < t[i + 1])

\* The expression /(\d+)(?:-\d+)?$/ finds the transaction number of a MySQL GTID
\* ("uuid:5") and the server of a MariaDB one ("0-1-5").
NumberOf(g) == IF Engine = "mysql" THEN g.number ELSE g.server

OffsetTuple(core) ==
  IF core.offset.gtid # Null
  THEN [number |-> NumberOf(core.offset.gtid), text |-> TextOfGtid(core.offset.gtid)]
  ELSE [number |-> core.offset.binlog_pos,
        text |-> <<core.offset.binlog_file>> \o Digits[core.offset.binlog_pos]]

\* The hashes of the events that these records become.
Snapshots == {r \in Records : r.gtid = Null /\ Mappable(r)}
SnapshotIds(r) == {SnapshotTxId(SnapshotEpochOf(Mapped(r, at)), Change(r).object) : at \in Instants}
Hashes ==
  {SnapshotEpochOf(Mapped(r, at)) : r \in Snapshots, at \in Instants}
  \cup {RowKeyHash(Change(r).object) : r \in {s \in Records : Mappable(s)}}
  \cup {EnvelopeId(tx) : tx \in {r.gtid : r \in Records} \cup UNION {SnapshotIds(r) : r \in Snapshots}}

ASSUME HashAssumption ==
  /\ \A a, b \in Hashes : a # b => (HashBefore(a, b) <=> ~HashBefore(b, a))
  /\ \A a, b, c \in Hashes : HashBefore(a, b) /\ HashBefore(b, c) => HashBefore(a, c)
  /\ \A a \in Hashes : ~HashBefore(a, a)

\* compareCce(a, b) < 0: by the first key in which they differ.
OffsetKeys(a, b) ==
  LET x == OffsetTuple(a)  y == OffsetTuple(b)
  IN IF x.number # y.number THEN x.number < y.number ELSE TextBefore(x.text, y.text)

SubordinateKeys(a, b) ==
  LET x == a.completeness.snapshot_epoch_id
      y == b.completeness.snapshot_epoch_id
      p == RowKeyHash(a.changes[1].object)
      q == RowKeyHash(b.changes[1].object)
  IN IF x # y THEN y = Null \/ (x # Null /\ HashBefore(x, y))
     ELSE IF p # q THEN HashBefore(p, q)
     ELSE HashBefore(a.envelope_id, b.envelope_id)

Before(a, b) ==
  IF a.commit_ts # b.commit_ts THEN a.commit_ts < b.commit_ts
  ELSE IF OffsetTuple(a) # OffsetTuple(b) THEN OffsetKeys(a, b)
  ELSE SubordinateKeys(a, b)

-----------------------------------------------------------------------------
\* The order is monotonic in the source's own (CCE 4.2: the offset key is the
\* GTID sequence): of two transactions of one server, the one committed first is
\* sealed first, also when their commit times are equal.
OrderFollowsCommits ==
  \A i, j \in Emitted :
    LET a == settled[i].cce.core  b == settled[j].cce.core
    IN /\ a.offset.gtid # Null /\ b.offset.gtid # Null
       /\ a.offset.gtid.domain = b.offset.gtid.domain
       /\ a.offset.gtid.number < b.offset.gtid.number
       /\ a.commit_ts <= b.commit_ts
       => Before(a, b)
=============================================================================
