------------------------ MODULE MCOfflineVerification ------------------------
(* Instances of OfflineVerification, with VerifierCases, for TLC. *)
EXTENDS VerifierCases

\* Change events with a source offset each.
Streamed == [e \in 1..Events |-> e]

\* Events 1 and 2 are rows of one snapshot and share its offset key.
Snapshot == [e \in 1..Events |-> IF e = 2 THEN 1 ELSE e]

\* The first keys are created at 0 and evidence is made from then on; a rotation or
\* a revocation may be dated before that.
Instants == {-1, 0, 1}

First == [p \in Planes |-> IF p = "signing" THEN "k1" ELSE "k2"]
=============================================================================
