----------------------------- MODULE Normalizer -----------------------------
(***************************************************************************)
(* The normalization service: the read loop and the flush timer of         *)
(* main.ts, Normalizer.process/flush/finalize, TransactionAccumulator and  *)
(* CceStreamGuard.                                                         *)
(*                                                                         *)
(* A group is the sequence of captured records of one transaction; a       *)
(* snapshot read is a transaction of its own.  An event hash is what it    *)
(* commits to: the transaction, its changes and ingest_ts, which is the    *)
(* captured_at of the group's first record.                                *)
(*                                                                         *)
(* finalize() runs synchronously up to its emit, and the commands of one   *)
(* Redis connection take effect in the order they are issued; so a step    *)
(* issues the XADD and decides its outcome, and the main loop then waits   *)
(* for the answer.  The timer can only fire where the main loop waits: for *)
(* an answer, or for its next XREAD.                                       *)
(***************************************************************************)
EXTENDS Integers, Sequences, FiniteSets

CONSTANTS
  Entries,       \* source entries
  TxOf,          \* [Entries -> transaction]
  Snapshot,      \* entries that are snapshot reads (no GTID)
  Unmappable,    \* entries mapCapturedRecord refuses
  Unidentifiable,\* entries whose primary key canonical form refuses: a float
                 \* or an unsafe integer.  Only a snapshot read is named by it
  Unbuildable,   \* transactions buildCce refuses
  ReadCount,     \* COUNT of an XREAD of the bus
  Faults,        \* "emit_fails" may be among them
  MaxRestarts,   \* bound on restarts of the normalizer
  None

Txs == {TxOf[e] : e \in Entries}

VARIABLES
  captured,      \* the bus the collector publishes to
  position,      \* records read so far
  batchEnd,      \* end of the batch returned by the last XREAD
  attached,      \* FALSE while XREAD still starts from '$'
  taken,         \* records handed to process() by this process (history)
  group,         \* the transaction being grouped
  pending,       \* completed groups the current process() has still to finalize
  await,         \* "none", or the outcome of the emit process() waits for
  seen,          \* CceStreamGuard: [Txs -> event hash or None]
  lastRow,       \* event hashes chained so far
  cces,          \* the CCE stream
  deadLetters,   \* groups recorded in the dead letter queue
  rejected,      \* groups lost to an emit this process saw rejected (history)
  incarnation    \* number of this process

intake == <<position, batchEnd, attached, taken>>
guard  == <<seen, lastRow>>
nvars  == <<intake, group, pending, await, guard, cces, deadLetters, rejected,
            incarnation>>

NormalizerInit ==
  /\ position = 0
  /\ batchEnd = 0
  /\ attached = FALSE
  /\ taken = {}
  /\ group = <<>>
  /\ pending = <<>>
  /\ await = "none"
  /\ seen = [t \in Txs |-> None]
  /\ lastRow = <<>>
  /\ cces = <<>>
  /\ deadLetters = {}
  /\ rejected = {}
  /\ incarnation = 0

-----------------------------------------------------------------------------
TxOfGroup(g) == TxOf[g[1].entry]
Changes(g)   == [i \in 1..Len(g) |-> g[i].entry]
EventHash(g) == [tx |-> TxOfGroup(g), changes |-> Changes(g), at |-> g[1].at]
FaultyCce(g) ==                         \* prev_row_hash never carried over
  [hash |-> EventHash(g), prev |-> <<>>, by |-> incarnation]
Cce(g) == [hash |-> EventHash(g), prev |-> lastRow, by |-> incarnation]

FaultyDeadLetter(g) == UNCHANGED deadLetters    \* dropped
DeadLetter(g) == deadLetters' = deadLetters \cup {g}

FaultyIsNew(g) == seen[TxOfGroup(g)] # EventHash(g)  \* V15 left out
IsNew(g) == seen[TxOfGroup(g)] = None

\* finalize(g) when it emits: the guard and the row hash move before the emit.
\* sent tells whether the XADD took effect.
Emit(g, sent) ==
  /\ TxOfGroup(g) \notin Unbuildable
  /\ IsNew(g)
  /\ seen' = [seen EXCEPT ![TxOfGroup(g)] = EventHash(g)]
  /\ lastRow' = Append(lastRow, EventHash(g))
  /\ cces' = IF sent THEN Append(cces, Cce(g)) ELSE cces
  /\ rejected' = IF sent THEN rejected ELSE rejected \cup {g}
  /\ UNCHANGED deadLetters

\* finalize(g) when it emits nothing: an exact duplicate is skipped; a failed
\* build and a different event under a known envelope id go to the DLQ.
Settle(g) ==
  /\ TxOfGroup(g) \in Unbuildable \/ ~IsNew(g)
  /\ IF TxOfGroup(g) \notin Unbuildable /\ seen[TxOfGroup(g)] = EventHash(g)
     THEN UNCHANGED deadLetters
     ELSE DeadLetter(g)
  /\ UNCHANGED <<guard, cces, rejected>>

Outcomes == {"ok"} \cup (IF "emit_fails" \in Faults THEN {"failed"} ELSE {})

\* The main loop finalizes the first of the completed groups.
FinalizeFirst(groups) ==
  /\ pending' = Tail(groups)
  /\ \/ \E o \in Outcomes : Emit(Head(groups), o = "ok") /\ await' = o
     \/ /\ Settle(Head(groups))
        /\ await' = IF Tail(groups) = <<>> THEN "none" ELSE "ok"

\* XREAD returns the next records.
Read ==
  /\ await = "none"
  /\ position = batchEnd
  /\ position < Len(captured)
  /\ \E n \in 1..ReadCount :
       /\ n <= Len(captured) - position
       /\ n = ReadCount \/ n = Len(captured) - position
       /\ batchEnd' = position + n
  /\ attached' = TRUE
  /\ UNCHANGED <<position, taken, group, pending, await, guard, cces,
                 deadLetters, rejected, incarnation>>

\* Groups completed by adding record r, a record of entry e.
Completed(e, r) ==
  LET before == IF group # <<>> /\ TxOfGroup(group) # TxOf[e] THEN <<group>> ELSE <<>>
      joined == IF before = <<>> THEN Append(group, r) ELSE <<r>>
  IN IF e \in Snapshot THEN Append(before, joined) ELSE before

\* Snapshot reads whose identity cannot be computed: add() throws before it
\* touches the group, outside the try of process(), and main.ts only logs.
Unnameable == Snapshot \cap Unidentifiable

\* process() of the next record of the batch.
Process ==
  /\ await = "none"
  /\ position < batchEnd
  /\ position' = position + 1
  /\ taken' = taken \cup {position + 1}
  /\ LET r    == captured[position + 1]
         e    == r.entry
         done == Completed(e, r)
     IN \/ /\ e \in Unmappable
           /\ DeadLetter(<<r>>)
           /\ UNCHANGED <<group, pending, await, guard, cces, rejected>>
        \/ /\ e \in Unnameable \ Unmappable
           /\ UNCHANGED <<group, pending, await, guard, cces, deadLetters, rejected>>
        \/ /\ e \notin Unnameable \cup Unmappable
           /\ group' = IF e \in Snapshot THEN <<>>
                       ELSE IF done = <<>> THEN Append(group, r) ELSE <<r>>
           /\ IF done = <<>>
              THEN UNCHANGED <<pending, await, guard, cces, deadLetters, rejected>>
              ELSE FinalizeFirst(done)
  /\ UNCHANGED <<batchEnd, attached, incarnation>>

\* The awaited emit is answered.  A rejection leaves process(), and with it
\* the groups that were still to be finalized; main.ts logs and goes on.
Answered ==
  /\ await # "none"
  /\ IF await = "failed" \/ pending = <<>>
     THEN /\ await' = "none"
          /\ pending' = <<>>
          /\ rejected' = rejected \cup {pending[i] : i \in 1..Len(pending)}
          /\ UNCHANGED <<guard, cces, deadLetters>>
     ELSE FinalizeFirst(pending)
  /\ UNCHANGED <<intake, group, incarnation>>

\* The flush timer, or the flush of an orderly shutdown.
Flush ==
  /\ await # "none" \/ position = batchEnd
  /\ group # <<>>
  /\ group' = <<>>
  /\ \/ \E o \in Outcomes : Emit(group, o = "ok")
     \/ Settle(group)
  /\ UNCHANGED <<intake, pending, await, incarnation>>

\* Records added while no XREAD is waiting from '$' are never read.
MissRecords ==
  /\ ~attached
  /\ position < Len(captured)
  /\ position' = Len(captured)
  /\ batchEnd' = Len(captured)
  /\ UNCHANGED <<attached, taken, group, pending, await, guard, cces,
                 deadLetters, rejected, incarnation>>

\* The process dies and is started again: everything it held is in memory.
RestartNormalizer ==
  /\ incarnation < MaxRestarts
  /\ incarnation' = incarnation + 1
  /\ position' = Len(captured)
  /\ batchEnd' = Len(captured)
  /\ attached' = FALSE
  /\ taken' = {}
  /\ group' = <<>>
  /\ pending' = <<>>
  /\ await' = "none"
  /\ seen' = [t \in Txs |-> None]
  /\ lastRow' = <<>>
  /\ deadLetters' = {}
  /\ rejected' = {}
  /\ UNCHANGED cces

MainLoop == Read \/ Process \/ Answered

NormalizerNext ==
  \/ MainLoop
  \/ Flush
  \/ MissRecords
  \/ RestartNormalizer

-----------------------------------------------------------------------------
(* Properties.                                                             *)

RecordsOf(g) == {g[i] : i \in 1..Len(g)}
Held == RecordsOf(group) \cup UNION {RecordsOf(pending[i]) : i \in 1..Len(pending)}
DeadLettered == UNION {RecordsOf(g) : g \in deadLetters}
Carries(c, e) == \E i \in 1..Len(c.hash.changes) : c.hash.changes[i] = e
Emitted(e) == \E i \in 1..Len(cces) : Carries(cces[i], e)

\* Accounted for: held, in the dead letter queue, or emitted (as itself or as
\* an identical earlier event).
AccountedFor(r) == r \in Held \cup DeadLettered \/ Emitted(r.entry)

\* "Never silently dropped" (normalizer.ts), as far as it goes: of the records
\* this process took, each is accounted for but those lost in two ways.  Its
\* primary key names no snapshot identity, or it (or an identical event) was in
\* a group that a rejected emit took with it.  Nothing else - a timer split, a
\* duplicate, a refused build, a flush under an awaited emit - loses one.
LossesNamed ==
  \A n \in taken :
    \/ AccountedFor(captured[n])
    \/ captured[n].entry \in Unnameable
    \/ \E g \in rejected : \E i \in 1..Len(g) : g[i].entry = captured[n].entry

\* Idempotent: one process emits at most one change event per transaction,
\* whatever the collector redelivers and the timer splits.
EmittedOnce ==
  \A i, j \in 1..Len(cces) :
    cces[i].by = cces[j].by /\ cces[i].hash.tx = cces[j].hash.tx => i = j

\* The place of event c in the row-hash chain of its process.
PlaceOf(c) == Len(c.prev) + 1

\* The row chains the events at places S of the stream, each where it belongs,
\* and between them only what a rejected emit lost.
Covers(row, S) ==
  /\ \A i \in S :
       PlaceOf(cces[i]) \in 1..Len(row) /\ row[PlaceOf(cces[i])] = cces[i].hash
  /\ \A k \in 1..Len(row) : \/ \E i \in S : PlaceOf(cces[i]) = k
                            \/ \E g \in rejected : EventHash(g) = row[k]

\* The change events of a process form a hash chain in the order they stand in
\* the stream, also when a flush overlaps an emit, and the only holes a reader
\* meets in it are the groups whose emit this process saw rejected.
RowsChained ==
  \A j \in 1..Len(cces) :
    cces[j].by = incarnation =>
      Covers(cces[j].prev, {i \in 1..(j - 1) : cces[i].by = incarnation})

=============================================================================
