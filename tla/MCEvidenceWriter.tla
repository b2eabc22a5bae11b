-------------------------- MODULE MCEvidenceWriter --------------------------
(* Instances of EvidenceWriter for TLC. *)
EXTENDS EvidenceWriter

\* Every event belongs to the configured database.
OneDb == [c \in Cces |-> OwnDb]

\* The last event belongs to another database than the configured one.
OtherDb == CHOOSE db \in Dbs : db # OwnDb
TwoDbs  == [c \in Cces |-> IF c = 4 THEN OtherDb ELSE OwnDb]
=============================================================================
