------------------------------ MODULE Collector ------------------------------
(***************************************************************************)
(* The CDC collector: RedisSourceStream, the loop of index.ts inside       *)
(* runWithReconnect, CdcCollector.processEvent, the offset store and the   *)
(* snapshot-to-stream HandoffTracker.                                      *)
(*                                                                         *)
(* Debezium writes one Redis stream per table.  A source entry is an       *)
(* integer, its place in the binlog, so that the entries of one stream are *)
(* added in increasing order.  A captured record is the entry and the      *)
(* clock reading stamped on it (captured_at); a process captures an entry  *)
(* at most once, so the number of the process stands for that reading.     *)
(***************************************************************************)
EXTENDS Integers, Sequences, FiniteSets

CONSTANTS
  Entries,      \* source entries
  StreamKeys,   \* CDC_SOURCE_STREAMS, in the order configured
  StreamOf,     \* [Entries -> stream key]
  Ignored,      \* entries that are heartbeats or carry no data change
  PhaseOf,      \* [Entries -> snapshot phase]
  Count,        \* COUNT of an XREAD, per stream
  Faults,       \* subset of CollectorFaults, and of the normalizer's
  MaxRestarts,  \* bound on restarts of the collector
  None

Phases == {"snapshot", "handoff", "streaming"}
CollectorFaults == {"publish_fails", "publish_unknown", "commit_fails"}

Keys == {StreamKeys[i] : i \in 1..Len(StreamKeys)}

ASSUME CollectorAssumption ==
  /\ Entries \subseteq Nat \ {0}
  /\ StreamKeys \in Seq(Keys)
  /\ StreamOf \in [Entries -> Keys]
  /\ PhaseOf \in [Entries -> Phases]
  /\ Count \in Nat \ {0}
  /\ MaxRestarts \in Nat
  /\ None \notin Entries /\ None \notin Phases

VARIABLES
  delivered,    \* entries Debezium has added to their streams
  lastId,       \* [Keys -> last entry read]; 0 is '0-0'
  buffer,       \* entries read and not yet taken
  stage,        \* "take", "publish", "commit": where the loop is
  current,      \* the entry being processed
  captured,     \* the bus: records in the order they were published
  offset,       \* committed offset in PostgreSQL; 0 when there is none
  phase,        \* HandoffTracker: phase of the last event observed
  starting,     \* HandoffTracker: offset of the first snapshot event
  boundary,     \* HandoffTracker: offset of the end of the snapshot
  run           \* number of this process

reader  == <<lastId, buffer>>
handoff == <<phase, starting, boundary>>
cvars   == <<delivered, reader, stage, current, captured, offset,
             handoff, run>>

CollectorInit ==
  /\ delivered = {}
  /\ lastId = [k \in Keys |-> 0]
  /\ buffer = <<>>
  /\ stage = "take"
  /\ current = None
  /\ captured = <<>>
  /\ offset = 0
  /\ phase = None
  /\ starting = None
  /\ boundary = None
  /\ run = 0

-----------------------------------------------------------------------------
\* Debezium adds the next change of the binlog to its table's stream.
Deliver(e) ==
  /\ e \in Entries \ delivered
  /\ \A d \in Entries : d < e => d \in delivered
  /\ delivered' = delivered \cup {e}
  /\ UNCHANGED <<reader, stage, current, captured, offset, handoff, run>>

Unread(k) == {e \in delivered : StreamOf[e] = k /\ lastId[k] < e}

FaultyBatch(k) ==                    \* the newest entries of a backlog
  {e \in Unread(k) : Cardinality({d \in Unread(k) : e <= d}) <= Count}

\* What one XREAD returns of stream k.
Batch(k) ==
  {e \in Unread(k) : Cardinality({d \in Unread(k) : d <= e}) <= Count}

\* The reply of an XREAD: the streams in the order they were asked for, the entries
\* of each in its own.
Reply == UNION {{i} \X Batch(StreamKeys[i]) : i \in 1..Len(StreamKeys)}

Place(r) ==
  Cardinality({q \in Reply : q[1] < r[1] \/ (q[1] = r[1] /\ q[2] <= r[2])})

Newest(S) == CHOOSE e \in S : \A d \in S : d <= e

\* next() finds the buffer empty: one XREAD over all the streams.
Fill ==
  /\ stage = "take"
  /\ buffer = <<>>
  /\ \E k \in Keys : Unread(k) # {}
  /\ buffer' = [n \in 1..Cardinality(Reply) |-> (CHOOSE r \in Reply : Place(r) = n)[2]]
  /\ lastId' = [k \in Keys |-> IF Batch(k) = {} THEN lastId[k] ELSE Newest(Batch(k))]
  /\ UNCHANGED <<delivered, stage, current, captured, offset, handoff, run>>

\* next() takes the first buffered entry; processEvent up to the publish.
Take ==
  /\ stage = "take"
  /\ buffer # <<>>
  /\ buffer' = Tail(buffer)
  /\ IF Head(buffer) \in Ignored
     THEN UNCHANGED <<stage, current>>
     ELSE stage' = "publish" /\ current' = Head(buffer)
  /\ UNCHANGED <<delivered, lastId, captured, offset, handoff, run>>

Record(e) == [entry |-> e, at |-> run]

\* The loop goes on with the next entry.
Done == stage' = "take" /\ current' = None

\* processEvent threw: runWithReconnect alarms, waits and calls the loop
\* again; the entry has left the buffer.
Throw ==
  /\ Done

\* XADD to the bus: acknowledged, lost, or applied with its answer lost.
Publish ==
  /\ stage = "publish"
  /\ \/ /\ captured' = Append(captured, Record(current))
        /\ stage' = "commit"
        /\ UNCHANGED current
     \/ /\ "publish_fails" \in Faults
        /\ Throw
        /\ UNCHANGED captured
     \/ /\ "publish_unknown" \in Faults
        /\ captured' = Append(captured, Record(current))
        /\ Throw
  /\ UNCHANGED <<delivered, reader, offset, handoff, run>>

FaultyObserve(p, e) ==               \* an unmarked end of the snapshot is lost
  /\ phase' = p
  /\ starting' = IF phase = None /\ p = "snapshot" THEN e ELSE starting
  /\ boundary' = IF p = "handoff" /\ phase # p THEN e ELSE boundary

\* HandoffTracker.observe.
Observe(p, e) ==
  /\ phase' = p
  /\ starting' = IF phase = None /\ p = "snapshot" THEN e ELSE starting
  /\ boundary' = IF \/ p = "handoff" /\ phase # p
                    \/ p = "streaming" /\ phase = "snapshot"
                 THEN e ELSE boundary

\* The offset is committed after the publish; then the handoff is observed.
Commit ==
  /\ stage = "commit"
  /\ \/ /\ offset' = current
        /\ Observe(PhaseOf[current], current)
        /\ Done
     \/ /\ "commit_fails" \in Faults
        /\ Throw
        /\ UNCHANGED <<offset, handoff>>
  /\ UNCHANGED <<delivered, reader, captured, run>>

StartId(k) == 0

\* The process stops or dies and is started again.  The offset is durable, but
\* nothing reads it back: the streams are read from '0-0'.
RestartCollector ==
  /\ run < MaxRestarts
  /\ run' = run + 1
  /\ lastId' = [k \in Keys |-> StartId(k)]
  /\ buffer' = <<>>
  /\ Done
  /\ phase' = None
  /\ starting' = None
  /\ boundary' = None
  /\ UNCHANGED <<delivered, captured, offset>>

Step == Fill \/ Take \/ Publish \/ Commit

CollectorNext ==
  \/ \E e \in Entries : Deliver(e)
  \/ Step
  \/ RestartCollector

CollectorSpec == CollectorInit /\ [][CollectorNext]_cvars

-----------------------------------------------------------------------------
(* Properties.                                                             *)

Published == {captured[i].entry : i \in 1..Len(captured)}

\* The offset a restart or the completeness watcher would rely on leaves no
\* gap behind: every change up to it in the same stream is on the bus.
NoSilentGap ==
  offset # 0 =>
    \A e \in Entries \ Ignored :
      StreamOf[e] = StreamOf[offset] /\ e <= offset => e \in Published

\* When streaming has begun after a snapshot, the end of the snapshot has been
\* recorded, even if its last event was not marked or not committed.
SnapshotBounded ==
  phase = "streaming" /\ starting # None => boundary # None

=============================================================================
