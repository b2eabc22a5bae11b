--------------------------------- MODULE Dlq ---------------------------------
(***************************************************************************)
(* The dead letter queue: stages that could not process an event record    *)
(* the failure (DlqService.record), which reads the item of the event,     *)
(* writes it back with one more retry, and raises alarms.  Records of one  *)
(* event may overlap, writes may fail and a recording process may crash    *)
(* between any two of these steps; the table itself is durable.            *)
(***************************************************************************)
EXTENDS Integers, FiniteSets, FiniteSetsExt

CONSTANTS
  Recorders,    \* processes that record failures
  Engines, Offsets, Payloads,   \* of the failed events
  Failures,     \* how events fail: what FailureContext says of the failure
  MaxRetries,   \* RetryPolicy.maxRetries
  MaxRecords,   \* bound on calls
  Threshold,    \* of the depth monitor
  Nothing

Categories == {"MALFORMED_CDC_EVENT", "UNSUPPORTED_ENGINE", "SCHEMA_VALIDATION_FAILURE",
               "OFFSET_CORRUPTION", "SERIALIZATION_FAILURE", "UNEXPECTED_EXCEPTION",
               "UNCLASSIFIED"}

\* What the message of an error says, as far as the classification looks at it.
Messages == {"json", "no adapter", "schema", "offset", "serialize", "other"}

Events == [engine : Engines, offset : Offsets, payload : Payloads]

\* What the table keeps of an event.
StoredItems == [count : Nat, category : Categories, status : {"quarantined", "retryable"},
                payload : Payloads]

\* A record() under way: what it was called with and what it read.
Calls == [event : Events, failure : Failures, existing : StoredItems \cup {Nothing},
          step : {"read", "written"}]

ASSUME DlqAssumption ==
  /\ Failures \subseteq [category : Categories \cup {Nothing},
                         error : Messages \cup {Nothing},
                         retryable : BOOLEAN \cup {Nothing}]
  /\ MaxRetries \in Nat /\ MaxRecords \in Nat /\ Threshold \in Nat
  /\ Nothing \in Offsets
  /\ Nothing \notin Categories \cup Messages /\ Nothing \notin BOOLEAN
  /\ Nothing \notin StoredItems \cup Calls

-----------------------------------------------------------------------------
(* Classification and retry policy.                                        *)

CategoryOf == [m \in Messages |->
  CASE m = "json"       -> "MALFORMED_CDC_EVENT"
    [] m = "no adapter" -> "UNSUPPORTED_ENGINE"
    [] m = "schema"     -> "SCHEMA_VALIDATION_FAILURE"
    [] m = "offset"     -> "OFFSET_CORRUPTION"
    [] m = "serialize"  -> "SERIALIZATION_FAILURE"
    [] m = "other"      -> "UNEXPECTED_EXCEPTION"]

Category(f) ==
  IF f.category # Nothing THEN f.category
  ELSE IF f.error # Nothing THEN CategoryOf[f.error] ELSE "UNCLASSIFIED"

Retryable(f) ==
  IF f.retryable # Nothing THEN f.retryable ELSE Category(f) = "UNEXPECTED_EXCEPTION"

FaultyDecideStatus(f, count) ==
  IF ~Retryable(f) \/ count = MaxRetries THEN "quarantined" ELSE "retryable"
DecideStatus(f, count) ==
  IF Category(f) = "UNCLASSIFIED" \/ ~Retryable(f) \/ count >= MaxRetries
  THEN "quarantined" ELSE "retryable"

\* The id digests the engine, the offset and the payload's hash.
EventId(e) == <<e.engine, e.offset, e.payload>>

Ids == {EventId(e) : e \in Events}

-----------------------------------------------------------------------------
VARIABLES
  table,        \* [Ids -> the item, or Nothing]
  calls,        \* [Recorders -> the record() under way, or Nothing]
  records,      \* calls so far
  alarms,       \* [Ids -> how many alarms of each kind were raised]
  depthAlarm,   \* outcome of the last check of the depth monitor
  written,      \* history: items written, by id
  tries,        \* history: of those, since one put back an older reading
  met,          \* history: ids of which two records read before either wrote
  cut,          \* history: ids of which a record wrote and never came to its alarms
  resolved      \* history: failed events whose record() resolved

dvars == <<table, calls, records, alarms, depthAlarm, written, tries, met, cut,
           resolved>>

NoAlarms == [enqueue |-> 0, quarantine |-> 0]

DlqInit ==
  /\ table = [i \in Ids |-> Nothing]
  /\ calls = [r \in Recorders |-> Nothing]
  /\ records = 0
  /\ alarms = [i \in Ids |-> NoAlarms]
  /\ depthAlarm = Nothing
  /\ written = [i \in Ids |-> 0]
  /\ tries = [i \in Ids |-> 0]
  /\ met = {}
  /\ cut = {}
  /\ resolved = {}

\* A call that has read the item of the id and has not written it yet.
Reading(r, id) ==
  calls[r] # Nothing /\ calls[r].step = "read" /\ EventId(calls[r].event) = id

\* record() up to its first await: the item is read.
Read(r, e, f) ==
  LET id == EventId(e) IN
  /\ calls[r] = Nothing
  /\ records < MaxRecords
  /\ records' = records + 1
  /\ calls' = [calls EXCEPT ![r] =
       [event |-> e, failure |-> f, existing |-> table[id], step |-> "read"]]
  /\ met' = IF \E q \in Recorders \ {r} : Reading(q, id) THEN met \cup {id} ELSE met
  /\ UNCHANGED <<table, alarms, depthAlarm, written, tries, cut, resolved>>

CountOf(existing) == IF existing = Nothing THEN 0 ELSE existing.count + 1

ItemOf(call) ==
  [count    |-> CountOf(call.existing),
   category |-> Category(call.failure),
   status   |-> DecideStatus(call.failure, CountOf(call.existing)),
   payload  |-> call.event.payload]

\* ON CONFLICT keeps what identifies the event and its payload.
Upserted(old, new) == IF old = Nothing THEN new ELSE [new EXCEPT !.payload = old.payload]

FaultyWritten(r) == [calls EXCEPT ![r] = Nothing]
Written(r) == [calls EXCEPT ![r].step = "written"]

\* The write takes effect in the database, whatever the table holds by now.
Applied(call) ==
  LET id == EventId(call.event) IN
  /\ table' = [table EXCEPT ![id] = Upserted(@, ItemOf(call))]
  /\ written' = [written EXCEPT ![id] = @ + 1]
  /\ tries' = [tries EXCEPT ![id] = IF call.existing = table[id] THEN @ + 1 ELSE 1]

Upsert(r) ==
  /\ calls[r] # Nothing /\ calls[r].step = "read"
  /\ Applied(calls[r])
  /\ calls' = Written(r)
  /\ UNCHANGED <<records, alarms, depthAlarm, met, cut, resolved>>

\* The write fails and record() rejects: nothing is stored and nothing raised.
UpsertFails(r) ==
  /\ calls[r] # Nothing /\ calls[r].step = "read"
  /\ calls' = [calls EXCEPT ![r] = Nothing]
  /\ UNCHANGED <<table, records, alarms, depthAlarm, written, tries, met, cut, resolved>>

\* The write takes effect and its answer is lost: record() rejects all the same.
UpsertUnanswered(r) ==
  /\ calls[r] # Nothing /\ calls[r].step = "read"
  /\ Applied(calls[r])
  /\ calls' = [calls EXCEPT ![r] = Nothing]
  /\ cut' = cut \cup {EventId(calls[r].event)}
  /\ UNCHANGED <<records, alarms, depthAlarm, met, resolved>>

RaisedBy(call, old) ==
  [enqueue    |-> old.enqueue + (IF call.existing = Nothing THEN 1 ELSE 0),
   quarantine |-> old.quarantine +
     (IF /\ ItemOf(call).status = "quarantined"
         /\ call.existing = Nothing \/ call.existing.status # "quarantined"
      THEN 1 ELSE 0)]

\* The alarms, and record() resolves.
Raise(r) ==
  LET call == calls[r] IN
  /\ call # Nothing /\ call.step = "written"
  /\ alarms' = [alarms EXCEPT ![EventId(call.event)] = RaisedBy(call, @)]
  /\ calls' = [calls EXCEPT ![r] = Nothing]
  /\ resolved' = resolved \cup {call.event}
  /\ UNCHANGED <<table, records, depthAlarm, written, tries, met, cut>>

CrashRecorder(r) ==
  /\ calls[r] # Nothing
  /\ calls' = [calls EXCEPT ![r] = Nothing]
  /\ cut' = IF calls[r].step = "written" THEN cut \cup {EventId(calls[r].event)} ELSE cut
  /\ UNCHANGED <<table, records, alarms, depthAlarm, written, tries, met, resolved>>

-----------------------------------------------------------------------------
(* collectMetrics and the depth monitor.                                   *)

Items == {i \in Ids : table[i] # Nothing}
Matching(status) == {i \in Items : table[i].status = status}

Metrics ==
  [depth       |-> Cardinality(Items),
   quarantined |-> Cardinality(Matching("quarantined")),
   retryable   |-> Cardinality(Matching("retryable")),
   occurrences |-> FoldSet(LAMBDA i, n : n + table[i].count + 1, 0, Items),
   byCategory  |-> [c \in Categories |-> Cardinality({i \in Items : table[i].category = c})]]

CheckDepth ==
  /\ depthAlarm' = IF Metrics.depth <= Threshold THEN Nothing
                   ELSE IF Metrics.quarantined > 0 THEN "high" ELSE "medium"
  /\ depthAlarm' # depthAlarm
  /\ UNCHANGED <<table, calls, records, alarms, written, tries, met, cut, resolved>>

DlqNext ==
  \/ \E r \in Recorders :
       \/ \E e \in Events, f \in Failures : Read(r, e, f)
       \/ Upsert(r) \/ UpsertFails(r) \/ UpsertUnanswered(r) \/ Raise(r) \/ CrashRecorder(r)
  \/ CheckDepth

DlqSpec == DlqInit /\ [][DlqNext]_dvars

-----------------------------------------------------------------------------
(* Properties.                                                             *)

\* Retries end ("no infinite retry"): an overlapping record that puts back an
\* older reading restarts the count, but from there on an event written more
\* often than the policy allows retries is quarantined, and stays so, whatever
\* the failures were and whichever records crashed or lost their answers.
RetriesEnd ==
  \A i \in Items : tries[i] > MaxRetries => table[i].status = "quarantined"

\* No record() of the item is under way.
Quiet(i) == \A r \in Recorders : calls[r] # Nothing => EventId(calls[r].event) # i

\* Every failed event whose record() resolved is in the table, with the payload
\* it failed with, and alarms are raised only of what is there.  Each write is
\* counted, and where records met each since the last that put back an older
\* reading.  Once no record is under way, the item's arrival and its quarantine
\* were alarmed, although records met over it - the first to write what another
\* has not read yet raises - unless one was cut off between its write and its
\* alarms; and where none met, the arrival once.
Accounted ==
  /\ \A e \in resolved : table[EventId(e)] # Nothing /\ table[EventId(e)].payload = e.payload
  /\ \A i \in Ids : alarms[i] # NoAlarms => i \in Items
  /\ \A i \in Items : table[i].count \in (tries[i] - 1)..(written[i] - 1)
  /\ \A i \in Items \ met : table[i].count = written[i] - 1 /\ alarms[i].enqueue <= 1
  /\ \A i \in Items \ cut : Quiet(i) =>
       /\ alarms[i].enqueue >= 1
       /\ table[i].status = "quarantined" => alarms[i].quarantine >= 1
=============================================================================
