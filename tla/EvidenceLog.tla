---------------------------- MODULE EvidenceLog ----------------------------
(***************************************************************************)
(* What the evidence writer promises to an auditor: per monitored database *)
(* an append-only log of sealed segments.  One step adds one non-empty     *)
(* segment of at most MaxEvents change events at the end of one database's *)
(* log; a change event is sealed at most once; nothing is ever rewritten.  *)
(*                                                                         *)
(* It is the contract stated by the WORM specification of the repository   *)
(* ("segment sequences are contiguous from 0 per db_id; no gaps, no        *)
(* reuse"), which EvidenceWriter implements by deriving every manifest     *)
(* from its in-memory predecessor and putting it where the look for an     *)
(* existing one finds none; where that look fails it does not (see there). *)
(***************************************************************************)
EXTENDS Integers, Sequences

CONSTANTS
  Dbs,          \* monitored databases (source.db_id)
  Cces,         \* canonical change events; an integer stands for the event's
                \* place in the frozen global order
  MaxEvents     \* event-count cap of a segment

VARIABLE log    \* [Dbs -> Seq(segments)]

\* A sealed segment: the change events it carries, in order.
Segments == UNION {[1..n -> Cces] : n \in 1..MaxEvents}

Init == log = [db \in Dbs |-> <<>>]

\* c is carried by a segment of some database's log.
Carried(c) == \E db \in Dbs : \E i \in 1..Len(log[db]) :
                \E j \in 1..Len(log[db][i]) : log[db][i][j] = c

\* The log of db grows by one segment of fresh events in the global order.
AppendSegment(db) ==
  LET seg == log'[db][Len(log[db]) + 1]
  IN /\ Len(log'[db]) = Len(log[db]) + 1
     /\ log' = [log EXCEPT ![db] = Append(@, seg)]
     /\ seg \in Segments
     /\ \A i, j \in 1..Len(seg) : i < j => seg[i] < seg[j]
     /\ \A i \in 1..Len(seg) : ~Carried(seg[i])

Next == \E db \in Dbs : AppendSegment(db)

Spec == Init /\ [][Next]_log

=============================================================================
