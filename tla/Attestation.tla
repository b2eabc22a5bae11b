----------------------------- MODULE Attestation -----------------------------
(***************************************************************************)
(* The attestation half of the integrity process.  On a timer, and without *)
(* waiting for the last one, it samples the source's configuration and the *)
(* state of its audit feeds over one database connection, which answers    *)
(* queries in order and, once closed, refuses them all; it assesses what   *)
(* it read, raises alarms and emits a snapshot.  The source's settings     *)
(* change at any time, and a check of the audit feeds takes two queries.   *)
(***************************************************************************)
EXTENDS Integers, Sequences

CONSTANTS
  SourceEngine, \* "mysql" or "mariadb"
  Configs,      \* configurations of the source
  Feeds,        \* states of its audit feeds
  MinRetention, \* minBinlogRetentionSeconds
  MaxQueue,     \* bound on queries waiting
  Unread        \* a variable that is not there, is empty or could not be read

ASSUME AttestationAssumption ==
  /\ SourceEngine \in {"mysql", "mariadb"}
  /\ \A c \in Configs : DOMAIN c = {"log_bin", "binlog_format", "binlog_row_image", "gtid_mode",
                                    "gtid_strict_mode", "expire_seconds", "expire_days"}
  /\ \A c \in Configs : {c.expire_seconds, c.expire_days} \subseteq Nat \cup {Unread}
  /\ Feeds \subseteq [general_log : BOOLEAN, plugin : BOOLEAN]
  /\ MinRetention \in Nat /\ MaxQueue \in Nat

VARIABLES
  config,       \* the source's configuration
  feeds,        \* the source's audit feeds
  connection,   \* "open" or "closed"
  queue,        \* queries sent and not answered
  snapshot,     \* the last snapshot emitted, or Unread
  alarm,        \* whether the last sample raised an alarm
  audit         \* the last audit state, or Unread

avars == <<config, feeds, connection, queue, snapshot, alarm, audit>>

-----------------------------------------------------------------------------
(* Reading and assessing a configuration.                                  *)

\* gtid_mode is MySQL's and gtid_strict_mode MariaDB's; retention may be given
\* in days (the unit of time here is the day).
Read(c) ==
  [log_bin |-> c.log_bin, binlog_format |-> c.binlog_format,
   binlog_row_image |-> c.binlog_row_image,
   gtid_mode |-> IF SourceEngine = "mysql" THEN c.gtid_mode ELSE Unread,
   gtid_strict_mode |-> IF SourceEngine = "mariadb" THEN c.gtid_strict_mode ELSE Unread,
   retention |-> IF c.expire_seconds # Unread THEN c.expire_seconds ELSE c.expire_days]

NullConfig == [f \in {"log_bin", "binlog_format", "binlog_row_image", "gtid_mode",
                      "gtid_strict_mode", "retention"} |-> Unread]

\* What is flagged, each as a downgrade or as something that cannot be confirmed.
Downgrades(r) ==
  {f \in {"binlog_format", "binlog_row_image", "gtid_mode"} :
     r[f] # Unread /\ r[f] # [binlog_format |-> "ROW", binlog_row_image |-> "FULL",
                              gtid_mode |-> "ON"][f]}
  \cup (IF r.log_bin = "OFF" THEN {"log_bin"} ELSE {})
  \cup (IF r.retention # Unread /\ r.retention < MinRetention THEN {"retention"} ELSE {})

FaultyUnconfirmed(r) == {f \in {"log_bin", "binlog_format", "binlog_row_image"} : r[f] = Unread}
Unconfirmed(r) ==
  {f \in {"log_bin", "binlog_format", "binlog_row_image", "retention"}
           \cup (IF SourceEngine = "mysql" THEN {"gtid_mode"} ELSE {}) : r[f] = Unread}

\* assessFidelity: the worst that was flagged; MariaDB's strict mode is a note.
AssessFidelity(r) ==
  IF "log_bin" \in Downgrades(r) THEN "COMPROMISED"
  ELSE IF Downgrades(r) \cup Unconfirmed(r) # {} THEN "DEGRADED" ELSE "HEALTHY"

-----------------------------------------------------------------------------
(* What a check of the audit feeds says (AuditPluginWatcher).              *)

Found(log, plugin) ==
  [readable |-> TRUE, active |-> log \/ plugin, disabled |-> ~(log \/ plugin),
   source |-> IF plugin THEN "plugin" ELSE IF log THEN "general_log" ELSE "unknown"]

FaultyUnreadable ==
  [readable |-> FALSE, active |-> FALSE, disabled |-> TRUE, source |-> "unknown"]
Unreadable ==
  [readable |-> FALSE, active |-> FALSE, disabled |-> FALSE, source |-> "unknown"]

-----------------------------------------------------------------------------
AttestationInit ==
  /\ config \in Configs
  /\ feeds \in Feeds
  /\ connection = "open"
  /\ queue = <<>>
  /\ snapshot = Unread
  /\ alarm = FALSE
  /\ audit = Unread

\* History: every audit-critical setting is there and as it must be; and what was
\* true of the source at some time since a sample began.
Sound(c) ==
  /\ c.log_bin \notin {Unread, "OFF"}
  /\ c.binlog_format = "ROW" /\ c.binlog_row_image = "FULL"
  /\ SourceEngine = "mysql" => c.gtid_mode = "ON"
  /\ Read(c).retention # Unread /\ Read(c).retention >= MinRetention

ConfigFacts(c) ==
  (IF Sound(c) THEN {"sound"} ELSE {}) \cup (IF c.log_bin = "OFF" THEN {"unlogged"} ELSE {})
FeedFacts(f) ==
  {IF f.general_log THEN "active" ELSE "log off", IF f.plugin THEN "active" ELSE "plugin off"}

\* A query, with what the check it belongs to has read.
Query(kind, facts) == [kind |-> kind, log |-> FALSE, facts |-> facts]

\* The timer fires: a sample and a check begin, whatever has become of the last.
Fire ==
  /\ Len(queue) + 2 <= MaxQueue
  /\ queue' = queue \o <<Query("config", ConfigFacts(config)),
                         Query("variables", FeedFacts(feeds))>>
  /\ UNCHANGED <<config, feeds, connection, snapshot, alarm, audit>>

Answered == connection = "open"

\* The connection answers the query at the head, or refuses it.
AnswerConfig ==
  /\ queue # <<>> /\ queue[1].kind = "config"
  /\ LET read  == IF Answered THEN Read(config) ELSE NullConfig
         state == IF Answered THEN AssessFidelity(read) ELSE "DEGRADED"
     IN /\ snapshot' = [state |-> state, facts |-> queue[1].facts]
        /\ alarm' = (~Answered \/ Downgrades(read) \cup Unconfirmed(read) # {})
  /\ queue' = Tail(queue)
  /\ UNCHANGED <<config, feeds, connection, audit>>

\* The first query of a check sends the second.
AnswerVariables ==
  /\ queue # <<>> /\ queue[1].kind = "variables"
  /\ IF Answered
     THEN /\ queue' = Append(Tail(queue), [queue[1] EXCEPT !.kind = "plugins",
                                                           !.log = feeds.general_log])
          /\ UNCHANGED audit
     ELSE /\ queue' = Tail(queue)
          /\ audit' = [said |-> Unreadable, facts |-> queue[1].facts]
  /\ UNCHANGED <<config, feeds, connection, snapshot, alarm>>

AnswerPlugins ==
  /\ queue # <<>> /\ queue[1].kind = "plugins"
  /\ audit' = [said |-> IF Answered THEN Found(queue[1].log, feeds.plugin) ELSE Unreadable,
               facts |-> queue[1].facts]
  /\ queue' = Tail(queue)
  /\ UNCHANGED <<config, feeds, connection, snapshot, alarm>>

Answer == AnswerConfig \/ AnswerVariables \/ AnswerPlugins

\* The environment: settings and feeds change, the connection is lost.
Changing(sampling, facts) ==
  queue' = [i \in DOMAIN queue |->
    IF (queue[i].kind = "config") = sampling
    THEN [queue[i] EXCEPT !.facts = @ \cup facts] ELSE queue[i]]

Reconfigure ==
  /\ config' \in Configs \ {config}
  /\ Changing(TRUE, ConfigFacts(config'))
  /\ UNCHANGED <<feeds, connection, snapshot, alarm, audit>>

SwitchFeed ==
  /\ feeds' \in Feeds \ {feeds}
  /\ Changing(FALSE, FeedFacts(feeds'))
  /\ UNCHANGED <<config, connection, snapshot, alarm, audit>>

Disconnect ==
  /\ connection = "open"
  /\ connection' = "closed"
  /\ UNCHANGED <<config, feeds, queue, snapshot, alarm, audit>>

AttestationNext == Fire \/ Answer \/ Reconfigure \/ SwitchFeed \/ Disconnect

\* The timer goes on firing, and the connection answers or refuses.
Fairness == WF_avars(Fire) /\ WF_avars(Answer)

AttestationSpec == AttestationInit /\ [][AttestationNext]_avars /\ Fairness

-----------------------------------------------------------------------------
(* Properties.                                                             *)

\* Nothing is fabricated (INV-2), however settings change and samples overlap:
\* HEALTHY is said only of a source that was sound at some time since the sample
\* began, COMPROMISED only of one that did not log, and an audit feed is called
\* disabled only if each kind of it was off during the check.
ClaimsAreTrue ==
  /\ snapshot # Unread =>
       /\ snapshot.state = "HEALTHY" => "sound" \in snapshot.facts
       /\ snapshot.state = "COMPROMISED" => "unlogged" \in snapshot.facts
       /\ snapshot.state = "HEALTHY" \/ alarm
  /\ audit # Unread =>
       /\ audit.said.disabled => {"log off", "plugin off"} \subseteq audit.facts
       /\ audit.said.active => "active" \in audit.facts

\* A source that stays downgraded is in the end never attested as healthy, and
\* an alarm stands, although nobody waits for a sample and the connection is
\* never opened again.
DowngradeNoticed ==
  <>[](~Sound(config)) => <>[](snapshot # Unread /\ snapshot.state # "HEALTHY" /\ alarm)
=============================================================================
