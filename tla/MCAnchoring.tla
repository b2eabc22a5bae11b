---------------------------- MODULE MCAnchoring ----------------------------
(* Instances of Anchoring for TLC. *)
EXTENDS Anchoring
=============================================================================
