------------------------------- MODULE MCStores -------------------------------
(***************************************************************************)
(* Instances of Worm and of Dlq for TLC.  The two share no state: "part"   *)
(* says which of them a behaviour is about, and the other one rests.       *)
(***************************************************************************)
EXTENDS Worm, Dlq, TLC

VARIABLE part

StoresInit ==
  /\ part \in {"worm", "dlq"}
  /\ WormInit /\ DlqInit
  /\ part = "dlq" => bucket = Absent

StoresNext ==
  \/ part = "worm" /\ WormNext /\ UNCHANGED <<part, dvars>>
  \/ part = "dlq" /\ DlqNext /\ UNCHANGED <<part, wvars>>

StoresSpec == StoresInit /\ [][StoresNext]_<<part, wvars, dvars>>

\* Two writers configured with different retentions.
UnequalDays == [p \in Processes |-> IF p = "p" THEN 1 ELSE 2]

\* An unexpected error, a caller that says the event may be retried and not
\* what failed, a defect by its name and one by its message.
Fails(category, error, retryable) ==
  [category |-> category, error |-> error, retryable |-> retryable]
SomeFailures ==
  {Fails(Nothing, "other", Nothing), Fails(Nothing, Nothing, TRUE),
   Fails("SERIALIZATION_FAILURE", Nothing, Nothing), Fails(Nothing, "offset", Nothing)}

\* Custodians, recorders and payloads are interchangeable: nothing tells one
\* from another.
Interchangeable ==
  Permutations(Custodians) \cup Permutations(Recorders) \cup Permutations(Payloads)
=============================================================================
