---------------------------- MODULE Completeness ----------------------------
(***************************************************************************)
(* The completeness half of the integrity process: it reads the source     *)
(* streams, tracks the GTIDs consumed, raises an alarm for a gap and emits *)
(* an update after every event and every time the stream has nothing.      *)
(* Several streams are read in turn, so transactions arrive in any order.  *)
(* What an update copies from the last event (its GTID, the snapshot       *)
(* phase, the last heartbeat's time) is left out.                          *)
(***************************************************************************)
EXTENDS GtidSets

CONSTANTS
  Engine,       \* "mysql" or "mariadb"
  Keys,         \* sources, or domains
  Tokens,       \* GTIDs of the events of the streams, or Unknown
  Executed,     \* sequences of tokens: what the source may have executed, or Unknown
  StallTimeout, IdleThreshold,
  Unknown

\* A server writes the ranges of a GTID in ascending order.
Interval == {iv \in Nat \X Nat : iv[1] <= iv[2]}
WellFormed(token) == token.source \in Keys /\ token.ranges \in Seq(Interval \cup {NoRange})

ASSUME CompletenessAssumption ==
  /\ Engine \in {"mysql", "mariadb"}
  /\ \A t \in Tokens \ {Unknown} : WellFormed(t)
  /\ \A e \in Executed \ {Unknown} : e \in Seq(ToSet(e)) /\ \A t \in ToSet(e) : WellFormed(t)
  /\ StallTimeout \in Nat /\ IdleThreshold \in Nat

VARIABLES
  consumed,     \* the consumed GTID set
  seen,         \* history: [Keys -> transaction numbers consumed]
  sinceActivity, sinceEvent,    \* time since, or Unknown
  alarmed,      \* signatures of the gaps alarmed
  update,       \* the last completeness update, or Unknown
  loop          \* "reading" or "ended"

gvars == <<consumed, seen, sinceActivity, sinceEvent, alarmed, update, loop>>

NoGtids == [k \in Keys |-> <<>>]

CompletenessInit ==
  /\ consumed = NoGtids
  /\ seen = [k \in Keys |-> {}]
  /\ sinceActivity = Unknown /\ sinceEvent = Unknown
  /\ alarmed = {}
  /\ update = Unknown
  /\ loop = "reading"

-----------------------------------------------------------------------------
(* The watcher.                                                            *)

Liveness(activity, event) ==
  IF activity = Unknown THEN "idle"
  ELSE IF activity > StallTimeout THEN "stalled"
  ELSE IF event = Unknown THEN "idle"
  ELSE IF event > IdleThreshold THEN "idle" ELSE "live"

\* computeGap, with what the source executed where the caller knows it.
Gap(set, executed) ==
  LET missing == IF executed = Unknown THEN {}
                 ELSE MissingBelowWatermark(set, ParseSet(NoGtids, Engine, executed))
  IN [internal |-> InternalGapKeys(set), missing |-> missing,
      detected |-> InternalGapKeys(set) # {} \/ missing # {}]

Signatures(gap) == ({"internal"} \X gap.internal) \cup ({"missing"} \X gap.missing)

\* buildUpdate: a gap not alarmed yet is, and the update says what was found.
BuildUpdate(set, executed, activity, event) ==
  LET gap == Gap(set, executed) IN
  /\ alarmed' = alarmed \cup Signatures(gap)
  /\ update' = [gap |-> gap, executed |-> executed, liveness |-> Liveness(activity, event)]

Numbers(token) ==
  UNION {r[1]..r[2] : r \in ToSet(ParseToken(Engine, token).intervals)}

Consumed(token) == IF token = Unknown THEN consumed ELSE AddToken(consumed, Engine, token)

-----------------------------------------------------------------------------
(* One iteration of the integrity process, by what source.next() gives.    *)

ReadEvent(token, executed) ==
  /\ loop = "reading"
  /\ consumed' = Consumed(token)
  /\ seen' = IF token = Unknown THEN seen
             ELSE [seen EXCEPT ![token.source] = @ \cup Numbers(token)]
  /\ sinceActivity' = 0 /\ sinceEvent' = 0
  /\ BuildUpdate(consumed', executed, 0, 0)
  /\ UNCHANGED loop

ReadHeartbeat ==
  /\ loop = "reading"
  /\ sinceActivity' = 0
  /\ UNCHANGED <<consumed, seen, sinceEvent, alarmed, update, loop>>

\* The read blocked and nothing came.
ReadNothing(executed) ==
  /\ loop = "reading"
  /\ BuildUpdate(consumed, executed, sinceActivity, sinceEvent)
  /\ UNCHANGED <<consumed, seen, sinceActivity, sinceEvent, loop>>

\* A rejected read ends the loop; the sampling timer keeps the process up.
ReadFails ==
  /\ loop = "reading"
  /\ loop' = "ended"
  /\ UNCHANGED <<consumed, seen, sinceActivity, sinceEvent, alarmed, update>>

\* A restarted process begins with an empty watcher.
Restart ==
  /\ loop = "ended"
  /\ loop' = "reading"
  /\ consumed' = NoGtids /\ seen' = [k \in Keys |-> {}]
  /\ sinceActivity' = Unknown /\ sinceEvent' = Unknown
  /\ alarmed' = {} /\ update' = Unknown

\* Ages are counted up to where they tell nothing more.
Oldest == Max({StallTimeout, IdleThreshold}) + 1
Older(age) == IF age = Unknown \/ age = Oldest THEN age ELSE age + 1

Tick ==
  /\ sinceActivity' = Older(sinceActivity)
  /\ sinceEvent' = Older(sinceEvent)
  /\ UNCHANGED <<consumed, seen, alarmed, update, loop>>

CompletenessNext ==
  \/ \E token \in Tokens, e \in Executed : ReadEvent(token, e)
  \/ \E e \in Executed : ReadNothing(e)
  \/ ReadHeartbeat \/ ReadFails \/ Restart \/ Tick

CompletenessSpec == CompletenessInit /\ [][CompletenessNext]_gvars

-----------------------------------------------------------------------------
(* Properties.                                                             *)

Spanned(iv) == iv[1]..iv[2]

\* The intervals of the consumed set are those of the transactions consumed,
\* in whatever order and overlap they came: apart from each other, so that
\* "more than one interval" means "a transaction in between is missing".
Covered(ivs) == UNION {Spanned(ivs[i]) : i \in DOMAIN ivs}
Apart(ivs) ==
  /\ \A i \in DOMAIN ivs : ivs[i][1] <= ivs[i][2]
  /\ \A i, j \in DOMAIN ivs : i < j => ivs[i][2] + 1 < ivs[j][1]
IntervalsExact == \A k \in Keys : Covered(consumed[k]) = seen[k] /\ Apart(consumed[k])

Hole(k) == seen[k] # {} /\ \E n \in Min(seen[k])..Max(seen[k]) : n \notin seen[k]

SourceNumbers(k, executed) ==
  IF executed = Unknown THEN {}
  ELSE UNION {IF t.source = k THEN Numbers(t) ELSE {} : t \in ToSet(executed)}

NumbersOf(k, parts) == UNION {IF m.key = k THEN m.first..m.last ELSE {} : m \in parts}

\* What the last update says of gaps is what is missing: no transaction below
\* the watermark is hidden by how the intervals were merged and subtracted, none
\* is invented, and an update that degrades completeness has been alarmed.
GapsReported ==
  /\ IntervalsExact
  /\ update # Unknown =>
       /\ update.gap.internal = {k \in Keys : Hole(k)}
       /\ \A k \in Keys :
            NumbersOf(k, update.gap.missing)
              = {n \in SourceNumbers(k, update.executed) \ seen[k] :
                   seen[k] # {} /\ n < Max(seen[k])}
       /\ Signatures(update.gap) \subseteq alarmed
=============================================================================
