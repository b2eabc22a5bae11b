------------------------------ MODULE MCMonitors ------------------------------
(***************************************************************************)
(* Instances of Completeness, Attestation and AnchorCadence for TLC.  The  *)
(* three share no state: "part" says which of them a behaviour is about,   *)
(* and the others rest.                                                    *)
(***************************************************************************)
EXTENDS Completeness, Attestation, AnchorCadence

VARIABLE part

Correct == [log_bin |-> "ON", binlog_format |-> "ROW", binlog_row_image |-> "FULL",
            gtid_mode |-> "ON", gtid_strict_mode |-> Unread,
            expire_seconds |-> 2, expire_days |-> Unread]

MonitorsInit ==
  /\ part \in {"completeness", "attestation", "cadence"}
  /\ CompletenessInit /\ AttestationInit /\ CadenceInit
  /\ part # "attestation" => config = Correct /\ ~feeds.general_log

Of(name, rest) == part = name /\ UNCHANGED <<part, rest>>

FireAlone   == Of("attestation", <<gvars, tvars>>) /\ Fire
AnswerAlone == Of("attestation", <<gvars, tvars>>) /\ Answer

MonitorsNext ==
  \/ Of("completeness", <<avars, tvars>>) /\ CompletenessNext
  \/ Of("attestation", <<gvars, tvars>>) /\ AttestationNext
  \/ Of("cadence", <<gvars, avars>>) /\ CadenceNext

vars == <<part, gvars, avars, tvars>>

MonitorsSpec ==
  MonitorsInit /\ [][MonitorsNext]_vars /\ WF_vars(FireAlone) /\ WF_vars(AnswerAlone)

\* GTIDs of five transactions of one source, also several in one token and out
\* of a second source, with a range that does not parse; and what the first
\* source may say it executed.
Gtid(source, ranges) == [source |-> source, ranges |-> ranges]
SomeTokens ==
  {Unknown} \cup {Gtid("a", <<<<n, n>>>>) : n \in 1..5}
  \cup {Gtid("a", <<<<1, 2>>, <<4, 5>>>>), Gtid("b", <<NoRange, <<2, 2>>>>)}
SomeExecuted ==
  {Unknown, <<Gtid("a", <<<<1, 3>>, <<5, 6>>>>), Gtid("b", <<<<1, 4>>>>), Gtid("a", <<<<4, 4>>>>)>>}

\* Correct, not logging, partial images, an unreadable mode and a short
\* retention given in days.
SomeConfigs ==
  {Correct, [Correct EXCEPT !.log_bin = "OFF"], [Correct EXCEPT !.binlog_row_image = "MINIMAL"],
   [Correct EXCEPT !.gtid_mode = Unread],
   [Correct EXCEPT !.expire_seconds = Unread, !.expire_days = 1]}
OneFeedAtMost == {f \in [general_log : BOOLEAN, plugin : BOOLEAN] : ~(f.general_log /\ f.plugin)}
=============================================================================
