----------------------------- MODULE MCCapture -----------------------------
(* Instances of Capture for TLC. *)
EXTENDS Capture

\* Two streams, one per table; transaction 2 changes both tables.
TwoStreams == <<"a", "b">>
OneStream  == <<"a">>
StreamOfTwo == [e \in Entries |-> IF e = 3 THEN "b" ELSE "a"]
StreamOfOne == [e \in Entries |-> "a"]

\* Entry 1 is the snapshot's only row; 2 and 3 are one transaction.
Phased    == [e \in Entries |-> IF e = 1 THEN "snapshot" ELSE "streaming"]
Streaming == [e \in Entries |-> "streaming"]
Paired == [e \in Entries |-> IF e = 3 THEN 2 ELSE e]
=============================================================================
