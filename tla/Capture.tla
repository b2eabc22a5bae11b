------------------------------- MODULE Capture -------------------------------
(***************************************************************************)
(* The collector and the normalizer together, over the edam:captured       *)
(* stream.  The two are separate processes: they interleave freely and     *)
(* share only the stream, which the collector alone writes.                *)
(***************************************************************************)
EXTENDS Collector

CONSTANTS TxOf, Unmappable, Unidentifiable, Unbuildable, ReadCount, MaxIncarnations

ASSUME CaptureAssumption ==
  /\ Unmappable \subseteq Entries
  /\ Unidentifiable \subseteq Entries
  /\ None \notin [tx : {TxOf[e] : e \in Entries}, changes : Seq(Entries), at : Nat]
  /\ ReadCount \in Nat \ {0}
  /\ MaxIncarnations \in Nat

VARIABLES position, batchEnd, attached, taken, group, pending, await, seen,
          lastRow, cces, deadLetters, rejected, incarnation

N == INSTANCE Normalizer WITH
       Snapshot <- {e \in Entries : PhaseOf[e] # "streaming"},
       MaxRestarts <- MaxIncarnations

normalizer == <<position, batchEnd, attached, taken, group, pending, await, seen,
                lastRow, cces, deadLetters, rejected, incarnation>>
vars == <<cvars, normalizer>>

Init == CollectorInit /\ N!NormalizerInit

Next ==
  \/ CollectorNext /\ UNCHANGED normalizer
  \/ N!NormalizerNext /\ UNCHANGED cvars

Spec == Init /\ [][Next]_vars

-----------------------------------------------------------------------------
\* The properties of the normalizer, under whatever the collector feeds it.
LossesNamed == N!LossesNamed
EmittedOnce == N!EmittedOnce
RowsChained == N!RowsChained
=============================================================================
