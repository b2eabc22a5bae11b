---------------------------- MODULE MonitorProofs ----------------------------
(***************************************************************************)
(* The anchoring cadence and the window monitor, for any set of heads, any *)
(* notices and any limits: no head is forgotten (NoHeadForgotten).  The    *)
(* attestation of a source, for any configurations, feeds and number of    *)
(* samples under way: what it claims is true (ClaimsAreTrue).  The         *)
(* completeness watcher, for any sources and any GTIDs in any order: it    *)
(* reports what is missing, and nothing else (GapsReported).               *)
(***************************************************************************)
EXTENDS AnchorCadence, Attestation, Completeness, WellFoundedInduction, TLAPS

-----------------------------------------------------------------------------
(* The cadence: the inductive invariant.                                   *)

CadenceTypes ==
  /\ time \in Nat /\ events \in Nat /\ lastAnchor \in Nat
  /\ sealedAt \in [Heads -> Nat \cup {Unset}]
  /\ pending \in [Heads -> Nat \cup {Unset}]
  /\ noticed \in [Heads -> Nat \cup {Unset}]
  /\ cycle = Unset \/ cycle \subseteq Heads

\* Nothing is dated ahead of the clock.
Past == \A h \in Heads : sealedAt[h] # Unset => sealedAt[h] <= time

WaitingPending == \A h \in Waiting : pending[h] # Unset /\ pending[h] <= noticed[h]

AnchoredCleared == \A h \in (anchored \cap Heads) \ late : pending[h] = Unset

AnchoredAreHeads == anchored \subseteq Heads

CadenceIInv == CadenceTypes /\ Past /\ WaitingPending /\ AnchoredCleared /\ AnchoredAreHeads

-----------------------------------------------------------------------------
(* The operators.                                                          *)

\* The oldest of a set of times is one of them, and no later than any.
LEMMA OldestTime ==
  ASSUME NEW T \in SUBSET Nat, T # {}
  PROVE  Min(T) \in T /\ \A t \in T : Min(T) <= t
<1>1. \E x \in T : \A y \in T : ~(<<y, x>> \in OpToRel(<, Nat))
  BY NatLessThanWellFounded, WFMin
<1>2. PICK x \in T : \A y \in T : ~(<<y, x>> \in OpToRel(<, Nat))
  BY <1>1
<1>3. ASSUME NEW y \in T PROVE x <= y
  <2>1. x \in Nat /\ y \in Nat
    OBVIOUS
  <2>2. y < x => <<y, x>> \in OpToRel(<, Nat)
    <3>1. <<y, x>> \in Nat \X Nat /\ <<y, x>>[1] = y /\ <<y, x>>[2] = x
      BY <2>1
    <3> QED BY <3>1 DEF OpToRel
  <2>3. ~(y < x)
    BY <1>2, <2>2
  <2> QED BY <2>1, <2>3
<1> QED BY <1>3 DEF Min

\* The later of two times is no earlier than the second.
LEMMA LaterTime ==
  ASSUME NEW m \in Nat, NEW n \in Nat
  PROVE  Max({m, n}) \in Nat /\ Max({m, n}) >= n
<1>1. \E x \in {m, n} : \A y \in {m, n} : x >= y
  <2>1. CASE m >= n
    BY <2>1
  <2>2. CASE n >= m
    BY <2>2
  <2> QED BY <2>1, <2>2
<1> QED BY <1>1 DEF Max

\* A longer wait is not less severe.
LEMMA SeverityGrows ==
  ASSUME NEW a \in Int, NEW b \in Int, a <= b
  PROVE  Rank[Severity(a)] <= Rank[Severity(b)]
BY CadenceAssumption DEF Severity, Rank

-----------------------------------------------------------------------------
(* The initial states and the steps.                                       *)

LEMMA CadenceInitially == CadenceInit => CadenceIInv
BY CadenceAssumption DEF CadenceInit, CadenceIInv, CadenceTypes, Past, WaitingPending,
   Waiting, AnchoredCleared, AnchoredAreHeads

\* A notice dates its head no later than now, and leaves an earlier date.
LEMMA NoticeKeeps ==
  ASSUME CadenceIInv, NEW h \in Heads, NEW at \in Nat, at <= time, Notice(h, at)
  PROVE  CadenceIInv'
<1>1. /\ events' = events + 1
      /\ pending' = ObservePending(h, at)
      /\ noticed' = [noticed EXCEPT ![h] = IF @ = Unset THEN time ELSE @]
      /\ late' = IF h \in anchored THEN late \cup {h} ELSE late
      /\ UNCHANGED <<time, sealedAt, lastAnchor, cycle, anchored>>
  BY DEF Notice
<1>2. /\ pending' \in [Heads -> Nat \cup {Unset}]
      /\ \A g \in Heads \ {h} : pending'[g] = pending[g] /\ noticed'[g] = noticed[g]
      /\ noticed' \in [Heads -> Nat \cup {Unset}]
      /\ pending'[h] = (IF pending[h] = Unset \/ at < pending[h] THEN at ELSE pending[h])
      /\ noticed'[h] = (IF noticed[h] = Unset THEN time ELSE noticed[h])
  BY <1>1 DEF CadenceIInv, CadenceTypes, ObservePending
<1>3. CadenceTypes' /\ Past' /\ AnchoredAreHeads'
  BY <1>1, <1>2 DEF CadenceIInv, CadenceTypes, Past, AnchoredAreHeads
<1>4. WaitingPending'
  <2>1. ASSUME NEW g \in Heads, g # h, g \in Waiting'
        PROVE  pending'[g] # Unset /\ pending'[g] <= noticed'[g]
    BY <1>1, <1>2, <2>1 DEF CadenceIInv, WaitingPending, Waiting
  <2>2. ASSUME h \in Waiting'
        PROVE  pending'[h] # Unset /\ pending'[h] <= noticed'[h]
    <3>1. pending'[h] \in Nat /\ pending'[h] <= at
      BY <1>2, CadenceAssumption DEF CadenceIInv, CadenceTypes
    <3>2. CASE noticed[h] = Unset
      BY <1>2, <3>1, <3>2, CadenceAssumption DEF CadenceIInv, CadenceTypes
    <3>3. CASE noticed[h] # Unset
      <4>1. h \in Waiting
        BY <1>1, <2>2, <3>3 DEF Waiting
      <4>2. pending[h] \in Nat /\ noticed[h] \in Nat /\ pending[h] <= noticed[h]
        BY <3>3, <4>1 DEF CadenceIInv, CadenceTypes, WaitingPending
      <4> QED BY <1>2, <3>3, <4>2, CadenceAssumption
    <3> QED BY <3>2, <3>3
  <2> QED BY <2>1, <2>2 DEF WaitingPending, Waiting
<1>5. AnchoredCleared'
  BY <1>1, <1>2 DEF CadenceIInv, AnchoredCleared
<1> QED BY <1>3, <1>4, <1>5 DEF CadenceIInv

\* The heads of a cycle leave the window, and no other head does.
LEMMA EndCycleKeeps ==
  ASSUME CadenceIInv, EndCycle
  PROVE  CadenceIInv'
<1>1. /\ cycle \subseteq Heads /\ cycle' = Unset
      /\ anchored' = anchored \cup cycle
      /\ pending' = ObserveAnchored(cycle)
      /\ events' = 0 /\ lastAnchor' = time
      /\ UNCHANGED <<time, sealedAt, noticed, late>>
  BY DEF EndCycle, CadenceIInv, CadenceTypes
<1>2. \A h \in Heads : pending'[h] = IF h \in cycle THEN Unset ELSE pending[h]
  BY <1>1 DEF ObserveAnchored
<1>3. CadenceTypes'
  BY <1>1 DEF CadenceIInv, CadenceTypes, ObserveAnchored
<1>4. Past' /\ AnchoredAreHeads'
  BY <1>1 DEF CadenceIInv, Past, AnchoredAreHeads
<1>5. WaitingPending'
  BY <1>1, <1>2 DEF CadenceIInv, WaitingPending, Waiting
<1>6. AnchoredCleared'
  BY <1>1, <1>2 DEF CadenceIInv, AnchoredCleared
<1> QED BY <1>3, <1>4, <1>5, <1>6 DEF CadenceIInv

LEMMA CadenceInductive == CadenceIInv /\ [CadenceNext]_tvars => CadenceIInv'
<1> SUFFICES ASSUME CadenceIInv, [CadenceNext]_tvars PROVE CadenceIInv'
  OBVIOUS
<1>1. ASSUME NEW h \in Heads, Seal(h) PROVE CadenceIInv'
  <2>1. sealedAt' = [sealedAt EXCEPT ![h] = time]
        /\ UNCHANGED <<time, events, lastAnchor, pending, cycle, anchored, noticed, late>>
    BY <1>1 DEF Seal
  <2>2. CadenceTypes' /\ Past'
    BY <2>1 DEF CadenceIInv, CadenceTypes, Past
  <2> QED BY <2>1, <2>2 DEF CadenceIInv, WaitingPending, Waiting, AnchoredCleared,
     AnchoredAreHeads
<1>2. ASSUME NEW h \in Heads, Notice(h, sealedAt[h]) PROVE CadenceIInv'
  <2>1. sealedAt[h] \in Nat /\ sealedAt[h] <= time
    BY <1>2 DEF Notice, CadenceIInv, CadenceTypes, Past
  <2> QED BY <1>2, <2>1, NoticeKeeps
<1>3. ASSUME NEW h \in Heads, Notice(h, time) PROVE CadenceIInv'
  BY <1>3, NoticeKeeps DEF CadenceIInv, CadenceTypes
<1>4. CASE StartCycle
  <2>1. cycle' \subseteq Heads
        /\ UNCHANGED <<time, sealedAt, events, lastAnchor, pending, anchored, noticed, late>>
    BY <1>4 DEF StartCycle, Pending
  <2> QED BY <2>1 DEF CadenceIInv, CadenceTypes, Past, WaitingPending, Waiting,
     AnchoredCleared, AnchoredAreHeads
<1>5. CASE EndCycle
  BY <1>5, EndCycleKeeps
<1>6. CASE TimePasses
  <2>1. time' = time + 1
        /\ UNCHANGED <<sealedAt, events, lastAnchor, pending, cycle, anchored, noticed, late>>
    BY <1>6 DEF TimePasses
  <2>2. CadenceTypes' /\ Past'
    BY <2>1 DEF CadenceIInv, CadenceTypes, Past
  <2> QED BY <2>1, <2>2 DEF CadenceIInv, WaitingPending, Waiting, AnchoredCleared,
     AnchoredAreHeads
<1>7. CASE UNCHANGED tvars
  BY <1>7 DEF tvars, CadenceIInv, CadenceTypes, Past, WaitingPending, Waiting,
     AnchoredCleared, AnchoredAreHeads
<1> QED BY <1>1, <1>2, <1>3, <1>4, <1>5, <1>6, <1>7 DEF CadenceNext

-----------------------------------------------------------------------------
(* What is proved of the cadence.                                          *)

LEMMA CadenceAlways == CadenceSpec => []CadenceIInv
BY CadenceInitially, CadenceInductive, PTL DEF CadenceSpec

\* Whatever notices come late, twice or out of order, and whatever a cycle under
\* way forgets, the alarm is no milder than the wait of every head that was
\* noticed deserves, and the cadence is due for it within an interval
\* (CadencePolicy, UnanchoredWindowMonitor).
THEOREM NoHeadEverForgotten == CadenceSpec => []NoHeadForgotten
<1>1. CadenceIInv => NoHeadForgotten
  <2> SUFFICES ASSUME CadenceIInv PROVE NoHeadForgotten
    OBVIOUS
  <2>1. ASSUME NEW h \in Waiting
        PROVE  /\ pending[h] # Unset /\ pending[h] <= noticed[h]
               /\ Rank[Check] >= Rank[Severity(time - noticed[h])]
               /\ time - Max({noticed[h], lastAnchor}) >= MaxInterval => Due
    <3>1. /\ h \in Heads /\ noticed[h] \in Nat /\ time \in Nat /\ lastAnchor \in Nat
          /\ pending[h] \in Nat /\ pending[h] # Unset /\ pending[h] <= noticed[h]
      BY <2>1 DEF CadenceIInv, CadenceTypes, WaitingPending, Waiting
    <3>2. Rank[Check] >= Rank[Severity(time - noticed[h])]
      <4> DEFINE times == {pending[g] : g \in Pending}
                 oldest == Min(times)
      <4>1. times \in SUBSET Nat /\ pending[h] \in times /\ h \in Pending
        BY <3>1 DEF Pending, CadenceIInv, CadenceTypes
      <4>2. oldest \in Nat /\ oldest <= pending[h]
        BY <4>1, OldestTime
      <4>3. time - noticed[h] <= time - oldest /\ time - noticed[h] \in Int /\ time - oldest \in Int
        BY <3>1, <4>2
      <4>4. Rank[Severity(time - noticed[h])] <= Rank[Severity(time - oldest)]
        BY <4>3, SeverityGrows
      <4>5. Check = Severity(time - oldest)
        BY <4>1 DEF Check
      <4>6. Rank[Severity(time - noticed[h])] \in Nat /\ Rank[Severity(time - oldest)] \in Nat
        BY DEF Severity, Rank
      <4> QED BY <4>4, <4>5, <4>6
    <3>3. time - Max({noticed[h], lastAnchor}) >= MaxInterval => Due
      <4>1. Max({noticed[h], lastAnchor}) \in Nat /\ Max({noticed[h], lastAnchor}) >= lastAnchor
        BY <3>1, LaterTime
      <4>2. time - Max({noticed[h], lastAnchor}) >= MaxInterval => time - lastAnchor >= MaxInterval
        BY <3>1, <4>1, CadenceAssumption
      <4> QED BY <4>2, CadenceAssumption DEF Due, DueReason
    <3> QED BY <3>1, <3>2, <3>3
  <2>2. \A h \in anchored \ late : pending[h] = Unset
    BY DEF CadenceIInv, AnchoredCleared, AnchoredAreHeads
  <2> QED BY <2>1, <2>2 DEF NoHeadForgotten
<1> QED BY <1>1, CadenceAlways, PTL

-----------------------------------------------------------------------------
(* The attestation: the inductive invariant.                               *)

Facts == {"sound", "unlogged", "active", "log off", "plugin off"}

Queries ==
  [kind : {"config", "variables", "plugins"}, log : BOOLEAN, facts : SUBSET Facts]

AttestationTypes ==
  /\ config \in Configs /\ feeds \in Feeds
  /\ queue \in Seq(Queries)

\* A query knows at least what is so now, and the second query of a check what
\* the first one found.
Informed(q) ==
  /\ q.kind = "config" => ConfigFacts(config) \subseteq q.facts
  /\ q.kind # "config" => FeedFacts(feeds) \subseteq q.facts
  /\ q.kind = "plugins" => (IF q.log THEN "active" ELSE "log off") \in q.facts

AllInformed == \A i \in DOMAIN queue : Informed(queue[i])

AttestationIInv == AttestationTypes /\ AllInformed /\ ClaimsAreTrue

-----------------------------------------------------------------------------
(* The operators.                                                          *)

\* What is assessed as healthy is sound.
LEMMA HealthyIsSound ==
  ASSUME NEW c \in Configs, AssessFidelity(Read(c)) = "HEALTHY"
  PROVE  Sound(c)
<1> DEFINE r == Read(c)
<1>1. /\ r.log_bin = c.log_bin /\ r.binlog_format = c.binlog_format
      /\ r.binlog_row_image = c.binlog_row_image
      /\ SourceEngine = "mysql" => r.gtid_mode = c.gtid_mode
      /\ r.retention = Unread \/ r.retention \in Nat
  BY AttestationAssumption DEF Read
<1> HIDE DEF r
<1>2. Downgrades(r) = {} /\ Unconfirmed(r) = {}
  BY DEF AssessFidelity, r
<1>3. /\ r.log_bin # Unread /\ r.binlog_format # Unread /\ r.binlog_row_image # Unread
      /\ r.retention # Unread /\ (SourceEngine = "mysql" => r.gtid_mode # Unread)
  BY <1>2 DEF Unconfirmed
<1>4. r.log_bin # "OFF" /\ ~(r.retention < MinRetention)
  BY <1>2, <1>3 DEF Downgrades
<1>5. /\ r.binlog_format = "ROW" /\ r.binlog_row_image = "FULL"
      /\ SourceEngine = "mysql" => r.gtid_mode = "ON"
  BY <1>2, <1>3 DEF Downgrades
<1>6. r.retention >= MinRetention
  BY <1>1, <1>3, <1>4, AttestationAssumption
<1> QED BY <1>1, <1>3, <1>4, <1>5, <1>6 DEF Sound, r

\* What is assessed as compromised does not log.
LEMMA CompromisedIsUnlogged ==
  ASSUME NEW c \in Configs, AssessFidelity(Read(c)) = "COMPROMISED"
  PROVE  c.log_bin = "OFF"
<1>1. "log_bin" \in Downgrades(Read(c))
  BY DEF AssessFidelity
<1>2. Read(c).log_bin = "OFF"
  BY <1>1 DEF Downgrades
<1> QED BY <1>2 DEF Read

\* Whatever is not healthy has been flagged, and an alarm goes with it.
LEMMA FlaggedUnlessHealthy ==
  ASSUME NEW r
  PROVE  AssessFidelity(r) = "HEALTHY" \/ Downgrades(r) \cup Unconfirmed(r) # {}
BY DEF AssessFidelity

\* The facts are what the queries may say of the source.
LEMMA FactsOfSource ==
  /\ \A c \in Configs : ConfigFacts(c) \subseteq Facts
  /\ \A f \in Feeds : FeedFacts(f) \subseteq Facts
BY DEF ConfigFacts, FeedFacts, Facts

-----------------------------------------------------------------------------
(* The initial states and the steps.                                       *)

LEMMA AttestationInitially == AttestationInit => AttestationIInv
BY DEF AttestationInit, AttestationIInv, AttestationTypes, AllInformed, ClaimsAreTrue

\* A sample and a check begin with what is so now.
LEMMA FireKeeps ==
  ASSUME AttestationIInv, Fire
  PROVE  AttestationIInv'
<1> DEFINE sample == Query("config", ConfigFacts(config))
           check == Query("variables", FeedFacts(feeds))
<1>1. queue' = queue \o <<sample, check>> /\ UNCHANGED <<config, feeds, snapshot, alarm, audit>>
  BY DEF Fire
<1>2. sample \in Queries /\ check \in Queries /\ Informed(sample) /\ Informed(check)
  BY FactsOfSource DEF AttestationIInv, AttestationTypes, Query, Queries, Informed
<1>3. queue \in Seq(Queries) /\ <<sample, check>> \in Seq(Queries)
  BY <1>2 DEF AttestationIInv, AttestationTypes
<1>4. queue' \in Seq(Queries)
  BY <1>1, <1>3
<1>5. \A i \in DOMAIN queue' : Informed(queue'[i])
  <2>1. ASSUME NEW i \in DOMAIN queue'
        PROVE  \/ i \in DOMAIN queue /\ queue'[i] = queue[i]
               \/ queue'[i] = sample \/ queue'[i] = check
    <3> HIDE DEF sample, check
    <3> QED BY <1>1, <1>3, <2>1
  <2> QED BY <1>2, <2>1 DEF AttestationIInv, AllInformed
<1>6. AllInformed'
  BY <1>1, <1>5 DEF AllInformed, Informed
<1> QED BY <1>1, <1>4, <1>6 DEF AttestationIInv, AttestationTypes, ClaimsAreTrue

\* The queries behind the head stay.
LEMMA TailKeeps ==
  ASSUME AttestationIInv, queue # <<>>
  PROVE  /\ queue[1] \in Queries /\ Informed(queue[1])
         /\ Tail(queue) \in Seq(Queries)
         /\ \A i \in DOMAIN Tail(queue) : Informed(Tail(queue)[i])
<1>1. queue \in Seq(Queries) /\ 1 \in DOMAIN queue
  BY DEF AttestationIInv, AttestationTypes
<1>2. \A i \in DOMAIN Tail(queue) : i + 1 \in DOMAIN queue /\ Tail(queue)[i] = queue[i + 1]
  BY <1>1
<1> QED BY <1>1, <1>2 DEF AttestationIInv, AllInformed

LEMMA AnswerConfigKeeps ==
  ASSUME AttestationIInv, AnswerConfig
  PROVE  AttestationIInv'
<1> DEFINE q == queue[1]
           read == IF Answered THEN Read(config) ELSE NullConfig
           state == IF Answered THEN AssessFidelity(read) ELSE "DEGRADED"
<1>1. /\ queue # <<>> /\ q.kind = "config"
      /\ snapshot' = [state |-> state, facts |-> q.facts]
      /\ alarm' = (~Answered \/ Downgrades(read) \cup Unconfirmed(read) # {})
      /\ queue' = Tail(queue)
      /\ UNCHANGED <<config, feeds, audit>>
  BY DEF AnswerConfig
<1>2. ConfigFacts(config) \subseteq q.facts /\ config \in Configs
  BY <1>1, TailKeeps DEF Informed, AttestationIInv, AttestationTypes
<1>3. state = "HEALTHY" => "sound" \in q.facts
  BY <1>2, HealthyIsSound DEF ConfigFacts
<1>4. state = "COMPROMISED" => "unlogged" \in q.facts
  BY <1>2, CompromisedIsUnlogged DEF ConfigFacts
<1>5. state = "HEALTHY" \/ alarm'
  BY <1>1, FlaggedUnlessHealthy
<1>6. ClaimsAreTrue'
  <2> HIDE DEF state
  <2> QED BY <1>1, <1>3, <1>4, <1>5 DEF AttestationIInv, ClaimsAreTrue
<1>7. AttestationTypes' /\ AllInformed'
  BY <1>1, TailKeeps DEF AttestationIInv, AttestationTypes, AllInformed, Informed
<1> QED BY <1>6, <1>7 DEF AttestationIInv

\* The first query of a check is answered, and hands on what it found.
LEMMA AnswerVariablesKeeps ==
  ASSUME AttestationIInv, AnswerVariables
  PROVE  AttestationIInv'
<1> DEFINE q == queue[1]
           next == [q EXCEPT !.kind = "plugins", !.log = feeds.general_log]
<1>1. /\ queue # <<>> /\ q.kind = "variables" /\ q \in Queries
      /\ FeedFacts(feeds) \subseteq q.facts
      /\ UNCHANGED <<config, feeds, snapshot, alarm>>
  BY TailKeeps DEF AnswerVariables, Informed
<1>2. CASE Answered
  <2>1. queue' = Append(Tail(queue), next) /\ UNCHANGED audit
    BY <1>2 DEF AnswerVariables
  <2>2. feeds.general_log \in BOOLEAN
    BY AttestationAssumption DEF AttestationIInv, AttestationTypes
  <2>3. /\ next \in Queries /\ next.kind = "plugins" /\ next.log = feeds.general_log
        /\ next.facts = q.facts
    BY <1>1, <2>2 DEF Queries
  <2>4. Informed(next)
    BY <1>1, <2>3 DEF Informed, FeedFacts
  <2>5. queue' \in Seq(Queries) /\ \A i \in DOMAIN queue' : Informed(queue'[i])
    <3> HIDE DEF next
    <3> QED BY <1>1, <2>1, <2>3, <2>4, TailKeeps
  <2> QED BY <1>1, <2>1, <2>5 DEF AttestationIInv, AttestationTypes, AllInformed,
     Informed, ClaimsAreTrue
<1>3. CASE ~Answered
  <2>1. queue' = Tail(queue) /\ audit' = [said |-> Unreadable, facts |-> q.facts]
    BY <1>3 DEF AnswerVariables
  <2>2. AttestationTypes' /\ AllInformed'
    BY <1>1, <2>1, TailKeeps DEF AttestationIInv, AttestationTypes, AllInformed, Informed
  <2>3. ClaimsAreTrue'
    BY <1>1, <2>1 DEF AttestationIInv, ClaimsAreTrue, Unreadable
  <2> QED BY <2>2, <2>3 DEF AttestationIInv
<1> QED BY <1>2, <1>3

LEMMA AnswerPluginsKeeps ==
  ASSUME AttestationIInv, AnswerPlugins
  PROVE  AttestationIInv'
<1> DEFINE q == queue[1]
           said == IF Answered THEN Found(q.log, feeds.plugin) ELSE Unreadable
<1>1. /\ queue # <<>> /\ q.kind = "plugins" /\ q \in Queries
      /\ FeedFacts(feeds) \subseteq q.facts
      /\ (IF q.log THEN "active" ELSE "log off") \in q.facts
      /\ audit' = [said |-> said, facts |-> q.facts]
      /\ queue' = Tail(queue)
      /\ UNCHANGED <<config, feeds, snapshot, alarm>>
  BY TailKeeps DEF AnswerPlugins, Informed
<1>2. q.log \in BOOLEAN /\ feeds.plugin \in BOOLEAN
  BY <1>1, AttestationAssumption DEF AttestationIInv, AttestationTypes, Queries
<1>3. /\ said.disabled => ~q.log /\ ~feeds.plugin
      /\ said.active => q.log \/ feeds.plugin
  BY <1>2 DEF Found, Unreadable
<1>4. (IF feeds.plugin THEN "active" ELSE "plugin off") \in q.facts
  BY <1>1 DEF FeedFacts
<1>5. /\ said.disabled => {"log off", "plugin off"} \subseteq q.facts
      /\ said.active => "active" \in q.facts
  BY <1>1, <1>3, <1>4
<1>6. ClaimsAreTrue'
  <2> HIDE DEF said
  <2> QED BY <1>1, <1>5 DEF AttestationIInv, ClaimsAreTrue
<1>7. AttestationTypes' /\ AllInformed'
  BY <1>1, TailKeeps DEF AttestationIInv, AttestationTypes, AllInformed, Informed
<1> QED BY <1>6, <1>7 DEF AttestationIInv

\* A change of the source is known to every query it concerns.
LEMMA ChangeKeeps ==
  ASSUME AttestationIInv, NEW sampling \in BOOLEAN, NEW facts \in SUBSET Facts,
         Changing(sampling, facts),
         config' \in Configs, feeds' \in Feeds,
         sampling => facts = ConfigFacts(config') /\ feeds' = feeds,
         ~sampling => facts = FeedFacts(feeds') /\ config' = config,
         UNCHANGED <<snapshot, alarm, audit>>
  PROVE  AttestationIInv'
<1>1. queue \in Seq(Queries) /\ DOMAIN queue' = DOMAIN queue
      /\ DOMAIN queue = 1..Len(queue) /\ Len(queue) \in Nat
  BY DEF AttestationIInv, AttestationTypes, Changing
<1>2. ASSUME NEW i \in DOMAIN queue
      PROVE  queue'[i] \in Queries /\ Informed(queue[i])'
  <2>1. queue[i] \in Queries /\ Informed(queue[i])
    BY <1>1 DEF AttestationIInv, AllInformed
  <2>2. CASE (queue[i].kind = "config") = sampling
    <3>1. queue'[i] = [queue[i] EXCEPT !.facts = @ \cup facts]
      BY <2>2 DEF Changing
    <3>2. /\ queue'[i] \in Queries /\ queue'[i].kind = queue[i].kind
          /\ queue'[i].log = queue[i].log /\ queue'[i].facts = queue[i].facts \cup facts
      BY <2>1, <3>1 DEF Queries
    <3> QED BY <2>1, <2>2, <3>2 DEF Informed
  <2>3. CASE (queue[i].kind = "config") # sampling
    <3>1. queue'[i] = queue[i]
      BY <2>3 DEF Changing
    <3> QED BY <2>1, <2>3, <3>1 DEF Informed
  <2> QED BY <2>2, <2>3
<1>3. queue' \in Seq(Queries)
  <2>1. queue' = [i \in 1..Len(queue) |-> queue'[i]]
    BY <1>1 DEF Changing
  <2>2. queue' \in [1..Len(queue) -> Queries]
    BY <1>1, <1>2, <2>1
  <2> QED BY <1>1, <2>2
<1>4. AttestationTypes' /\ AllInformed' /\ ClaimsAreTrue'
  BY <1>1, <1>2, <1>3 DEF AttestationIInv, AttestationTypes, AllInformed, ClaimsAreTrue
<1> QED BY <1>4 DEF AttestationIInv

LEMMA AttestationInductive == AttestationIInv /\ [AttestationNext]_avars => AttestationIInv'
<1> SUFFICES ASSUME AttestationIInv, [AttestationNext]_avars PROVE AttestationIInv'
  OBVIOUS
<1>1. CASE Fire
  BY <1>1, FireKeeps
<1>2. CASE Answer
  BY <1>2, AnswerConfigKeeps, AnswerVariablesKeeps, AnswerPluginsKeeps DEF Answer
<1>3. CASE Reconfigure
  <2>1. config' \in Configs /\ ConfigFacts(config') \in SUBSET Facts /\ feeds' \in Feeds
    BY <1>3, FactsOfSource DEF Reconfigure, AttestationIInv, AttestationTypes
  <2> QED BY <1>3, <2>1, ChangeKeeps DEF Reconfigure
<1>4. CASE SwitchFeed
  <2>1. feeds' \in Feeds /\ FeedFacts(feeds') \in SUBSET Facts /\ config' \in Configs
    BY <1>4, FactsOfSource DEF SwitchFeed, AttestationIInv, AttestationTypes
  <2> QED BY <1>4, <2>1, ChangeKeeps DEF SwitchFeed
<1>5. CASE UNCHANGED <<config, feeds, queue, snapshot, alarm, audit>>
  BY <1>5 DEF AttestationIInv, AttestationTypes, AllInformed, Informed, ClaimsAreTrue
<1>6. Disconnect \/ UNCHANGED avars => UNCHANGED <<config, feeds, queue, snapshot, alarm, audit>>
  BY DEF Disconnect, avars
<1> QED BY <1>1, <1>2, <1>3, <1>4, <1>5, <1>6 DEF AttestationNext

-----------------------------------------------------------------------------
(* What is proved of the attestation.                                      *)

\* However settings and feeds change, samples overlap and the connection is lost:
\* HEALTHY is said only of a source that was sound at some time since the sample
\* began, COMPROMISED only of one that did not log, and an audit feed is called
\* disabled only if each kind of it was off during the check
\* (AttestationMonitor.sample, AuditPluginWatcher.check).
THEOREM ClaimsAlwaysTrue == AttestationSpec => []ClaimsAreTrue
<1>1. AttestationIInv => ClaimsAreTrue
  BY DEF AttestationIInv
<1> QED BY <1>1, AttestationInitially, AttestationInductive, PTL DEF AttestationSpec

-----------------------------------------------------------------------------
(* Folds: induction over the numbers up to N, first-order.                 *)

\* What holds of 0, and of a number when it holds of the one before, holds of all
\* the numbers up to N.
LEMMA UpTo ==
  ASSUME NEW N \in Nat, NEW S, 0 \in S, \A n \in 1..N : n - 1 \in S => n \in S
  PROVE  \A n \in 0..N : n \in S
<1> DEFINE T == {n \in 0..N : n \notin S}
<1> SUFFICES ASSUME T # {} PROVE FALSE
  OBVIOUS
<1>1. T \in SUBSET Nat
  OBVIOUS
<1> HIDE DEF T
<1>2. Min(T) \in T /\ \A t \in T : Min(T) <= t
  BY <1>1, OldestTime
<1>3. PICK m : m = Min(T)
  OBVIOUS
<1>4. m \in 0..N /\ m \notin S /\ \A t \in T : m <= t
  BY <1>2, <1>3 DEF T
<1>5. m \in 1..N /\ m - 1 \in 0..N
  BY <1>4
<1>6. m - 1 \notin T
  BY <1>4, <1>5
<1> QED BY <1>4, <1>5, <1>6 DEF T

\* The greatest of the numbers up to n is n.
LEMMA MaxUpTo ==
  ASSUME NEW N \in Nat, NEW n \in 1..N, NEW T \in SUBSET (1..n), n \in T
  PROVE  Max(T) = n
<1>1. \A t \in T : t \in Int /\ n >= t
  OBVIOUS
<1>2. PICK m : m = Max(T)
  OBVIOUS
<1>3. m \in T /\ \A t \in T : m >= t
  BY <1>1, <1>2 DEF Max
<1>4. m = n
  BY <1>1, <1>3
<1> QED BY <1>2, <1>4

\* A fold over the numbers up to N, from base, by the functions F, as the library
\* defines it: over the sets of these numbers, the greatest last.
FoldsSets(h, N, base, F) ==
  h = [T \in SUBSET (1..N) |-> IF T = {} THEN base ELSE F[Max(T)][h[T \ {Max(T)}]]]

\* The same where the functions are defined.
FoldsWithin(h, N, D, base, F) ==
  /\ h[{}] = base
  /\ \A T \in SUBSET (1..N) : T # {} /\ h[T \ {Max(T)}] \in D =>
       h[T] = F[Max(T)][h[T \ {Max(T)}]]

\* A fold taken one number after the other.
FoldsUp(g, N, base, F) == g[0] = base /\ \A n \in 1..N : g[n] = F[n][g[n - 1]]

\* The equation of a fold has a solution.
LEMMA FoldExists ==
  ASSUME NEW N \in Nat, NEW D, NEW base \in D, NEW F \in [1..N -> [D -> D]]
  PROVE  \E h \in [SUBSET (1..N) -> D] : FoldsSets(h, N, base, F)
<1> DEFINE Solves(h, n) == /\ h \in [SUBSET (1..n) -> D]
                           /\ h[{}] = base
                           /\ \A m \in 1..n : \A T \in SUBSET (1..m) :
                                m \in T => h[T] = F[m][h[T \ {m}]]
           S == {n \in Nat : \E h : Solves(h, n)}
<1>1. 0 \in S
  <2> DEFINE h == [T \in SUBSET (1..0) |-> base]
  <2>1. h \in [SUBSET (1..0) -> D] /\ h[{}] = base
    OBVIOUS
  <2>2. Solves(h, 0)
    BY <2>1
  <2> QED BY <2>2
<1>2. ASSUME NEW n \in 1..N, n - 1 \in S PROVE n \in S
  <2>1. PICK g : Solves(g, n - 1)
    BY <1>2
  <2> DEFINE h == [T \in SUBSET (1..n) |-> IF n \in T THEN F[n][g[T \ {n}]] ELSE g[T]]
  <2>2. \A T \in SUBSET (1..n) : T \ {n} \in SUBSET (1..(n - 1)) /\ (n \notin T => T \in SUBSET (1..(n - 1)))
    OBVIOUS
  <2>3. h \in [SUBSET (1..n) -> D]
    <3> SUFFICES ASSUME NEW T \in SUBSET (1..n) PROVE h[T] \in D
      OBVIOUS
    <3>1. F[n] \in [D -> D]
      BY <1>2
    <3>2. n \in T => g[T \ {n}] \in D
      BY <2>1, <2>2
    <3>3. n \notin T => g[T] \in D
      BY <2>1, <2>2
    <3> QED BY <3>1, <3>2, <3>3
  <2>4. h[{}] = base
    BY <2>1
  <2>5. ASSUME NEW m \in 1..n, NEW T \in SUBSET (1..m), m \in T
        PROVE  h[T] = F[m][h[T \ {m}]]
    <3>1. T \in SUBSET (1..n) /\ T \ {m} \in SUBSET (1..n)
      OBVIOUS
    <3>2. CASE m = n
      BY <2>5, <3>1, <3>2
    <3>3. CASE m # n
      <4>1. m \in 1..(n - 1) /\ n \notin T /\ n \notin T \ {m}
        BY <3>3
      <4>2. g[T] = F[m][g[T \ {m}]]
        BY <2>1, <2>5, <4>1
      <4> QED BY <3>1, <4>1, <4>2
    <3> QED BY <3>2, <3>3
  <2>6. Solves(h, n)
    BY <2>3, <2>4, <2>5
  <2> HIDE DEF Solves, h
  <2>7. \E k : Solves(k, n)
    BY <2>6
  <2> QED BY <2>7
<1> HIDE DEF S
<1>3. N \in S
  <2>1. \A n \in 0..N : n \in S
    BY <1>1, <1>2, UpTo
  <2> QED BY <2>1
<1>4. PICK h : Solves(h, N)
  BY <1>3 DEF S
<1>5. ASSUME NEW T \in SUBSET (1..N), T # {}
      PROVE  h[T] = F[Max(T)][h[T \ {Max(T)}]]
  <2>1. PICK m \in T : \A t \in T : t <= m
    <3> DEFINE R == {N - t : t \in T}
    <3>1. R \in SUBSET Nat /\ R # {}
      <4>1. PICK t : t \in T
        BY <1>5
      <4>2. \A u \in T : N - u \in Nat
        OBVIOUS
      <4>3. N - t \in R
        BY <4>1
      <4> QED BY <4>2, <4>3
    <3> HIDE DEF R
    <3>2. PICK r \in R : \A t \in R : r <= t
      BY <3>1, OldestTime
    <3>3. PICK m \in T : r = N - m
      BY DEF R
    <3>4. \A t \in T : N - m <= N - t
      BY <3>2, <3>3 DEF R
    <3>5. \A t \in T : t <= m
      BY <3>4
    <3> QED BY <3>5
  <2>2. m \in 1..N /\ T \in SUBSET (1..m)
    BY <2>1
  <2>3. Max(T) = m
    BY <2>1, <2>2, MaxUpTo
  <2>4. h[T] = F[m][h[T \ {m}]]
    BY <1>4, <2>1, <2>2
  <2> QED BY <2>3, <2>4
<1>6. h = [T \in SUBSET (1..N) |-> h[T]] /\ h[{}] = base /\ h \in [SUBSET (1..N) -> D]
  BY <1>4
<1>7. \A T \in SUBSET (1..N) : h[T] = IF T = {} THEN base ELSE F[Max(T)][h[T \ {Max(T)}]]
  BY <1>5, <1>6
<1> QED BY <1>6, <1>7 DEF FoldsSets

\* The greatest of some of the numbers up to N is one of them.
LEMMA MaxAmong ==
  ASSUME NEW N \in Nat, NEW T \in SUBSET (1..N), T # {}
  PROVE  Max(T) \in 1..N
<1> DEFINE R == {N - t : t \in T}
<1>1. R \in SUBSET Nat /\ R # {}
  <2>1. PICK t : t \in T
    OBVIOUS
  <2>2. \A u \in T : N - u \in Nat
    OBVIOUS
  <2>3. N - t \in R
    BY <2>1
  <2> QED BY <2>2, <2>3
<1> HIDE DEF R
<1>2. PICK r \in R : \A t \in R : r <= t
  BY <1>1, OldestTime
<1>3. PICK m \in T : r = N - m
  BY DEF R
<1>4. \A t \in T : N - m <= N - t
  BY <1>2, <1>3 DEF R
<1>5. m \in 1..N /\ T \in SUBSET (1..m)
  BY <1>4
<1>6. Max(T) = m
  BY <1>3, <1>5, MaxUpTo
<1> QED BY <1>5, <1>6

\* How a fold goes through the numbers up to N.
LEMMA Initial ==
  ASSUME NEW N \in Nat, NEW n \in 1..N
  PROVE  /\ 1..n \in SUBSET (1..N) /\ 1..n # {}
         /\ Max(1..n) = n /\ (1..n) \ {n} = 1..(n - 1)
<1>1. 1..n \in SUBSET (1..n) /\ n \in 1..n
  OBVIOUS
<1>2. Max(1..n) = n
  BY <1>1, MaxUpTo
<1>3. 1..n \in SUBSET (1..N) /\ 1..n # {} /\ (1..n) \ {n} = 1..(n - 1)
  OBVIOUS
<1> QED BY <1>2, <1>3

\* Folding over the numbers up to N is taking them one after the other.
LEMMA FoldSteps ==
  ASSUME NEW N \in Nat, NEW D, NEW base \in D, NEW F \in [1..N -> [D -> D]],
         NEW iter, FoldsWithin(iter, N, D, base, F)
  PROVE  \E g \in [0..N -> D] : FoldsUp(g, N, base, F) /\ g[N] = iter[1..N]
<1> DEFINE g == [n \in 0..N |-> iter[1..n]]
           S == {n \in 0..N : g[n] \in D}
<1>1. g[0] = base /\ g[N] = iter[1..N]
  <2>1. 1..0 = {} /\ 0 \in 0..N /\ N \in 0..N
    OBVIOUS
  <2> QED BY <2>1 DEF FoldsWithin
<1>2. ASSUME NEW n \in 1..N, g[n - 1] \in D PROVE g[n] = F[n][g[n - 1]]
  <2>1. g[n] = iter[1..n] /\ g[n - 1] = iter[1..(n - 1)]
    OBVIOUS
  <2>2. /\ 1..n \in SUBSET (1..N) /\ 1..n # {}
        /\ Max(1..n) = n /\ (1..n) \ {n} = 1..(n - 1)
    BY Initial
  <2>3. iter[(1..n) \ {Max(1..n)}] \in D
    BY <1>2, <2>1, <2>2
  <2>4. iter[1..n] = F[Max(1..n)][iter[(1..n) \ {Max(1..n)}]]
    BY <2>2, <2>3 DEF FoldsWithin
  <2> QED BY <2>1, <2>2, <2>4
<1>3. 0 \in S
  BY <1>1
<1>4. ASSUME NEW n \in 1..N, n - 1 \in S PROVE n \in S
  <2>1. g[n - 1] \in D /\ n \in 0..N
    BY <1>4
  <2>2. F[n] \in [D -> D] /\ g[n] = F[n][g[n - 1]]
    BY <1>2, <2>1
  <2> HIDE DEF g
  <2>3. g[n] \in D
    BY <2>1, <2>2
  <2> QED BY <2>1, <2>3
<1>5. \A n \in 0..N : n \in S
  <2> HIDE DEF S
  <2> QED BY <1>3, <1>4, UpTo
<1>6. \A n \in 0..N : g[n] \in D
  BY <1>5
<1>7. \A n \in 1..N : g[n] = F[n][g[n - 1]]
  <2>1. ASSUME NEW n \in 1..N PROVE n - 1 \in 0..N
    OBVIOUS
  <2> HIDE DEF g
  <2> QED BY <1>2, <1>6, <2>1
<1>8. g \in [0..N -> D]
  BY <1>6
<1> HIDE DEF g
<1> QED BY <1>1, <1>7, <1>8 DEF FoldsUp

\* What each step of the folds makes.
LEMMA KeptTyped ==
  ASSUME NEW ivs \in Seq(Interval), NEW r \in Interval \cup {NoRange}
  PROVE  Kept(ivs, r) \in Seq(Interval)
BY DEF Kept

\* An element between two sequences.
IsBetween(t, low, x, high) ==
  /\ Len(t) = Len(low) + 1 + Len(high)
  /\ \A i \in 1..(Len(low) + 1 + Len(high)) :
       t[i] = IF i <= Len(low) THEN low[i] ELSE IF i = Len(low) + 1 THEN x ELSE high[i - Len(low) - 1]

LEMMA Between ==
  ASSUME NEW S, NEW low \in Seq(S), NEW x \in S, NEW high \in Seq(S)
  PROVE  low \o <<x>> \o high \in Seq(S) /\ IsBetween(low \o <<x>> \o high, low, x, high)
<1>1. PICK w : w = low \o <<x>>
  OBVIOUS
<1>2. /\ w \in Seq(S) /\ Len(w) = Len(low) + 1 /\ w[Len(low) + 1] = x
      /\ \A i \in 1..Len(low) : w[i] = low[i]
  BY <1>1
<1>3. PICK v : v = w \o high
  OBVIOUS
<1>4. PICK m \in Nat : m = Len(low)
  OBVIOUS
<1>5. PICK n \in Nat : n = Len(high)
  OBVIOUS
<1>6. /\ v \in Seq(S) /\ Len(v) = m + 1 + n
      /\ \A i \in 1..(m + 1) : v[i] = w[i]
      /\ \A i \in (m + 2)..(m + 1 + n) : v[i] = high[i - (m + 1)]
  <2>1. w \in Seq(S) /\ Len(w) = m + 1
    BY <1>2, <1>4
  <2>2. /\ v \in Seq(S) /\ Len(v) = Len(w) + Len(high)
        /\ \A i \in 1..Len(w) : v[i] = w[i]
        /\ \A i \in (Len(w) + 1)..(Len(w) + Len(high)) : v[i] = high[i - Len(w)]
    <3>1. v \in Seq(S) /\ Len(v) = Len(w) + Len(high)
      BY <1>3, <2>1
    <3>2. ASSUME NEW i \in 1..Len(w) PROVE v[i] = w[i]
      BY <1>3, <2>1
    <3>3. ASSUME NEW i \in (Len(w) + 1)..(Len(w) + Len(high)) PROVE v[i] = high[i - Len(w)]
      BY <1>3, <2>1
    <3> QED BY <3>1, <3>2, <3>3
  <2> QED BY <1>5, <2>1, <2>2
<1>7. ASSUME NEW i \in 1..(m + 1 + n)
      PROVE  v[i] = IF i <= m THEN low[i] ELSE IF i = m + 1 THEN x ELSE high[i - m - 1]
  <2>1. CASE i <= m
    BY <1>2, <1>4, <1>6, <2>1
  <2>2. CASE i = m + 1
    BY <1>2, <1>4, <1>6, <2>2
  <2>3. CASE i > m + 1
    <3>1. i \in (m + 2)..(m + 1 + n) /\ i - (m + 1) = i - m - 1
      BY <2>3
    <3>2. v[i] = high[i - m - 1]
      BY <1>6, <3>1
    <3> QED BY <2>3, <3>2
  <2>4. i <= m \/ i = m + 1 \/ i > m + 1
    OBVIOUS
  <2> QED BY <2>1, <2>2, <2>3, <2>4
<1>8. v = low \o <<x>> \o high
  BY <1>1, <1>3
<1> QED BY <1>4, <1>5, <1>6, <1>7, <1>8 DEF IsBetween

LEMMA PlacedAt ==
  ASSUME NEW sorted \in Seq(Interval), NEW iv \in Interval
  PROVE  \E p \in 1..(Len(sorted) + 1) :
           /\ \A i \in 1..(p - 1) : ~Before(iv, sorted[i])
           /\ p \in DOMAIN sorted => Before(iv, sorted[p])
           /\ Placed(sorted, iv) \in Seq(Interval)
           /\ Len(Placed(sorted, iv)) = Len(sorted) + 1
           /\ \A i \in 1..(Len(sorted) + 1) :
                Placed(sorted, iv)[i] = IF i < p THEN sorted[i] ELSE IF i = p THEN iv ELSE sorted[i - 1]
<1> DEFINE T == {i \in DOMAIN sorted : Before(iv, sorted[i])} \cup {Len(sorted) + 1}
<1>1. T \in SUBSET Nat /\ T # {}
  OBVIOUS
<1>2. PICK p : p = Min(T)
  OBVIOUS
<1>3. p \in T /\ \A t \in T : p <= t
  <2> HIDE DEF T
  <2> QED BY <1>1, <1>2, OldestTime
<1>4. p \in 1..(Len(sorted) + 1) /\ (p \in DOMAIN sorted => Before(iv, sorted[p]))
  BY <1>3
<1>5. \A i \in 1..(p - 1) : ~Before(iv, sorted[i])
  <2> SUFFICES ASSUME NEW i \in 1..(p - 1), Before(iv, sorted[i]) PROVE FALSE
    OBVIOUS
  <2>1. i \in DOMAIN sorted /\ ~(p <= i)
    BY <1>4
  <2> QED BY <1>3, <2>1
<1>6. Placed(sorted, iv) = SubSeq(sorted, 1, p - 1) \o <<iv>> \o SubSeq(sorted, p, Len(sorted))
  BY <1>2 DEF Placed, Position, InsertAt
<1>7. /\ SubSeq(sorted, 1, p - 1) \in Seq(Interval) /\ Len(SubSeq(sorted, 1, p - 1)) = p - 1
      /\ \A i \in 1..(p - 1) : SubSeq(sorted, 1, p - 1)[i] = sorted[i]
  BY <1>4
<1>8. /\ SubSeq(sorted, p, Len(sorted)) \in Seq(Interval)
      /\ Len(SubSeq(sorted, p, Len(sorted))) = Len(sorted) + 1 - p
      /\ \A i \in 1..(Len(sorted) + 1 - p) : SubSeq(sorted, p, Len(sorted))[i] = sorted[p + i - 1]
  BY <1>4
<1>9. PICK low, high : low = SubSeq(sorted, 1, p - 1) /\ high = SubSeq(sorted, p, Len(sorted))
  OBVIOUS
<1>10. PICK t : t = low \o <<iv>> \o high
  OBVIOUS
<1>11. /\ low \in Seq(Interval) /\ high \in Seq(Interval)
       /\ Len(low) = p - 1 /\ Len(high) = Len(sorted) + 1 - p
  BY <1>7, <1>8, <1>9
<1>12. t \in Seq(Interval) /\ IsBetween(t, low, iv, high)
  BY <1>10, <1>11, Between
<1>13. PICK n \in Nat : n = Len(sorted)
  OBVIOUS
<1>14. p \in 1..(n + 1) /\ p - 1 + 1 + (n + 1 - p) = n + 1
  BY <1>4, <1>13
<1>15. Len(t) = Len(sorted) + 1
  BY <1>11, <1>12, <1>13, <1>14 DEF IsBetween
<1>16. ASSUME NEW i \in 1..(Len(sorted) + 1)
       PROVE  t[i] = IF i < p THEN sorted[i] ELSE IF i = p THEN iv ELSE sorted[i - 1]
  <2>1. t[i] = IF i <= p - 1 THEN low[i] ELSE IF i = p - 1 + 1 THEN iv ELSE high[i - (p - 1) - 1]
    <3>1. PICK l : l = Len(low)
      OBVIOUS
    <3>2. i \in 1..(Len(low) + 1 + Len(high))
      BY <1>11, <1>13, <1>14
    <3>3. t[i] = IF i <= l THEN low[i] ELSE IF i = l + 1 THEN iv ELSE high[i - l - 1]
      BY <1>12, <3>1, <3>2 DEF IsBetween
    <3>4. l = p - 1
      BY <1>11, <3>1
    <3> QED BY <3>3, <3>4
  <2>2. CASE i < p
    <3>1. i \in 1..(p - 1)
      BY <1>14, <2>2
    <3> QED BY <1>7, <1>9, <1>14, <2>1, <2>2, <3>1
  <2>3. CASE i = p
    BY <1>14, <2>1, <2>3
  <2>4. CASE i > p
    <3>1. i - p \in 1..(Len(sorted) + 1 - p) /\ p + (i - p) - 1 = i - 1 /\ i - (p - 1) - 1 = i - p
      BY <1>13, <1>14, <2>4
    <3>2. high[i - p] = sorted[i - 1]
      BY <1>8, <1>9, <3>1
    <3> QED BY <1>14, <2>1, <2>4, <3>1, <3>2
  <2> QED BY <1>13, <1>14, <2>2, <2>3, <2>4
<1>17. Placed(sorted, iv) = t
  BY <1>6, <1>9, <1>10
<1> QED BY <1>4, <1>5, <1>12, <1>15, <1>16, <1>17

LEMMA PlacedTyped ==
  ASSUME NEW sorted \in Seq(Interval), NEW iv \in Interval
  PROVE  Placed(sorted, iv) \in Seq(Interval)
BY PlacedAt

LEMMA MergedTyped ==
  ASSUME NEW out \in Seq(Interval), NEW cur \in Interval
  PROVE  Merged(out, cur) \in Seq(Interval)
<1>1. CASE out # <<>> /\ cur[1] <= Last(out)[2] + 1
  <2>1. out[Len(out)] \in Interval
    BY <1>1
  <2>2. [out[Len(out)] EXCEPT ![2] = IF cur[2] > @ THEN cur[2] ELSE @] \in Interval
    BY <2>1 DEF Interval
  <2> QED BY <1>1, <2>2 DEF Merged
<1>2. CASE ~(out # <<>> /\ cur[1] <= Last(out)[2] + 1)
  BY <1>2 DEF Merged
<1> QED BY <1>1, <1>2

LEMMA UncoveredTyped ==
  ASSUME NEW ranges \in SUBSET Interval, NEW c \in Interval
  PROVE  Uncovered(ranges, c) \in SUBSET Interval
BY DEF Uncovered, Interval

\* Each fold takes its sequence one element after the other.
LEMMA ParsedFold ==
  ASSUME NEW s \in Seq(Interval \cup {NoRange})
  PROVE  \E g \in [0..Len(s) -> Seq(Interval)] :
           /\ g[0] = <<>> /\ g[Len(s)] = FoldLeft(Kept, <<>>, s)
           /\ \A n \in 1..Len(s) : g[n] = Kept(g[n - 1], s[n])
<1> DEFINE N == Len(s)
           D == Seq(Interval)
           F == [n \in 1..N |-> [out \in D |-> Kept(out, s[n])]]
<1>0. PICK base : base = <<>>
  OBVIOUS
<1> DEFINE Step(f, T) == IF T = {} THEN base ELSE Kept(f[T \ {Max(T)}], s[Max(T)])
           iter == CHOOSE f : f = [T \in SUBSET (1..N) |-> Step(f, T)]
<1>1. N \in Nat /\ base \in D /\ DOMAIN s = 1..N /\ \A n \in 1..N : s[n] \in Interval \cup {NoRange}
  BY <1>0
<1>2. FoldLeft(Kept, base, s) = iter[1..N]
  BY <1>1 DEF FoldLeft, MapThenFoldSet
<1>3. F \in [1..N -> [D -> D]]
  <2>1. \A n \in 1..N : \A out \in D : Kept(out, s[n]) \in D
    BY <1>1, KeptTyped
  <2> HIDE DEF D, N
  <2> QED BY <2>1
<1>4. \A n \in 1..N : \A out \in D : F[n][out] = Kept(out, s[n])
  OBVIOUS
<1> HIDE DEF N, D, F
<1>5. PICK h \in [SUBSET (1..N) -> D] : FoldsSets(h, N, base, F)
  BY <1>1, <1>3, FoldExists
<1>6. ASSUME NEW T \in SUBSET (1..N), T # {}
      PROVE  Max(T) \in 1..N /\ T \ {Max(T)} \in SUBSET (1..N)
  BY <1>1, <1>6, MaxAmong
<1>7. h = [T \in SUBSET (1..N) |-> Step(h, T)]
  <2>1. ASSUME NEW T \in SUBSET (1..N) PROVE h[T] = Step(h, T)
    <3>1. CASE T = {}
      BY <1>5, <3>1 DEF FoldsSets
    <3>2. CASE T # {}
      <4>1. h[T] = F[Max(T)][h[T \ {Max(T)}]]
        BY <1>5, <3>2 DEF FoldsSets
      <4>2. Max(T) \in 1..N /\ h[T \ {Max(T)}] \in D
        BY <1>6, <3>2
      <4> QED BY <1>4, <3>2, <4>1, <4>2
    <3> QED BY <3>1, <3>2
  <2> HIDE DEF Step
  <2>2. h = [T \in SUBSET (1..N) |-> h[T]]
    BY <1>5
  <2> QED BY <2>1, <2>2
<1>8. iter = [T \in SUBSET (1..N) |-> Step(iter, T)]
  <2> HIDE DEF Step
  <2> QED BY <1>7
<1> HIDE DEF iter
<1>9. FoldsWithin(iter, N, D, base, F)
  <2>1. iter[{}] = base
    BY <1>8
  <2>2. ASSUME NEW T \in SUBSET (1..N), T # {}, iter[T \ {Max(T)}] \in D
        PROVE  iter[T] = F[Max(T)][iter[T \ {Max(T)}]]
    BY <1>4, <1>6, <1>8, <2>2
  <2> QED BY <2>1, <2>2 DEF FoldsWithin
<1>10. PICK g \in [0..N -> D] : FoldsUp(g, N, base, F) /\ g[N] = iter[1..N]
  BY <1>1, <1>3, <1>9, FoldSteps
<1>11. \A n \in 1..N : g[n - 1] \in D
  BY <1>1
<1>12. \A n \in 1..N : g[n] = Kept(g[n - 1], s[n])
  BY <1>4, <1>10, <1>11 DEF FoldsUp
<1> QED BY <1>0, <1>2, <1>10, <1>12 DEF FoldsUp, N, D

LEMMA SortedFold ==
  ASSUME NEW s \in Seq(Interval)
  PROVE  \E g \in [0..Len(s) -> Seq(Interval)] :
           /\ g[0] = <<>> /\ g[Len(s)] = FoldLeft(Placed, <<>>, s)
           /\ \A n \in 1..Len(s) : g[n] = Placed(g[n - 1], s[n])
<1> DEFINE N == Len(s)
           D == Seq(Interval)
           F == [n \in 1..N |-> [out \in D |-> Placed(out, s[n])]]
<1>0. PICK base : base = <<>>
  OBVIOUS
<1> DEFINE Step(f, T) == IF T = {} THEN base ELSE Placed(f[T \ {Max(T)}], s[Max(T)])
           iter == CHOOSE f : f = [T \in SUBSET (1..N) |-> Step(f, T)]
<1>1. N \in Nat /\ base \in D /\ DOMAIN s = 1..N /\ \A n \in 1..N : s[n] \in Interval
  BY <1>0
<1>2. FoldLeft(Placed, base, s) = iter[1..N]
  BY <1>1 DEF FoldLeft, MapThenFoldSet
<1>3. F \in [1..N -> [D -> D]]
  <2>1. \A n \in 1..N : \A out \in D : Placed(out, s[n]) \in D
    BY <1>1, PlacedTyped
  <2> HIDE DEF D, N
  <2> QED BY <2>1
<1>4. \A n \in 1..N : \A out \in D : F[n][out] = Placed(out, s[n])
  OBVIOUS
<1> HIDE DEF N, D, F
<1>5. PICK h \in [SUBSET (1..N) -> D] : FoldsSets(h, N, base, F)
  BY <1>1, <1>3, FoldExists
<1>6. ASSUME NEW T \in SUBSET (1..N), T # {}
      PROVE  Max(T) \in 1..N /\ T \ {Max(T)} \in SUBSET (1..N)
  BY <1>1, <1>6, MaxAmong
<1>7. h = [T \in SUBSET (1..N) |-> Step(h, T)]
  <2>1. ASSUME NEW T \in SUBSET (1..N) PROVE h[T] = Step(h, T)
    <3>1. CASE T = {}
      BY <1>5, <3>1 DEF FoldsSets
    <3>2. CASE T # {}
      <4>1. h[T] = F[Max(T)][h[T \ {Max(T)}]]
        BY <1>5, <3>2 DEF FoldsSets
      <4>2. Max(T) \in 1..N /\ h[T \ {Max(T)}] \in D
        BY <1>6, <3>2
      <4> QED BY <1>4, <3>2, <4>1, <4>2
    <3> QED BY <3>1, <3>2
  <2> HIDE DEF Step
  <2>2. h = [T \in SUBSET (1..N) |-> h[T]]
    BY <1>5
  <2> QED BY <2>1, <2>2
<1>8. iter = [T \in SUBSET (1..N) |-> Step(iter, T)]
  <2> HIDE DEF Step
  <2> QED BY <1>7
<1> HIDE DEF iter
<1>9. FoldsWithin(iter, N, D, base, F)
  <2>1. iter[{}] = base
    BY <1>8
  <2>2. ASSUME NEW T \in SUBSET (1..N), T # {}, iter[T \ {Max(T)}] \in D
        PROVE  iter[T] = F[Max(T)][iter[T \ {Max(T)}]]
    BY <1>4, <1>6, <1>8, <2>2
  <2> QED BY <2>1, <2>2 DEF FoldsWithin
<1>10. PICK g \in [0..N -> D] : FoldsUp(g, N, base, F) /\ g[N] = iter[1..N]
  BY <1>1, <1>3, <1>9, FoldSteps
<1>11. \A n \in 1..N : g[n - 1] \in D
  BY <1>1
<1>12. \A n \in 1..N : g[n] = Placed(g[n - 1], s[n])
  BY <1>4, <1>10, <1>11 DEF FoldsUp
<1> QED BY <1>0, <1>2, <1>10, <1>12 DEF FoldsUp, N, D

LEMMA MergedFold ==
  ASSUME NEW s \in Seq(Interval)
  PROVE  \E g \in [0..Len(s) -> Seq(Interval)] :
           /\ g[0] = <<>> /\ g[Len(s)] = FoldLeft(Merged, <<>>, s)
           /\ \A n \in 1..Len(s) : g[n] = Merged(g[n - 1], s[n])
<1> DEFINE N == Len(s)
           D == Seq(Interval)
           F == [n \in 1..N |-> [out \in D |-> Merged(out, s[n])]]
<1>0. PICK base : base = <<>>
  OBVIOUS
<1> DEFINE Step(f, T) == IF T = {} THEN base ELSE Merged(f[T \ {Max(T)}], s[Max(T)])
           iter == CHOOSE f : f = [T \in SUBSET (1..N) |-> Step(f, T)]
<1>1. N \in Nat /\ base \in D /\ DOMAIN s = 1..N /\ \A n \in 1..N : s[n] \in Interval
  BY <1>0
<1>2. FoldLeft(Merged, base, s) = iter[1..N]
  BY <1>1 DEF FoldLeft, MapThenFoldSet
<1>3. F \in [1..N -> [D -> D]]
  <2>1. \A n \in 1..N : \A out \in D : Merged(out, s[n]) \in D
    BY <1>1, MergedTyped
  <2> HIDE DEF D, N
  <2> QED BY <2>1
<1>4. \A n \in 1..N : \A out \in D : F[n][out] = Merged(out, s[n])
  OBVIOUS
<1> HIDE DEF N, D, F
<1>5. PICK h \in [SUBSET (1..N) -> D] : FoldsSets(h, N, base, F)
  BY <1>1, <1>3, FoldExists
<1>6. ASSUME NEW T \in SUBSET (1..N), T # {}
      PROVE  Max(T) \in 1..N /\ T \ {Max(T)} \in SUBSET (1..N)
  BY <1>1, <1>6, MaxAmong
<1>7. h = [T \in SUBSET (1..N) |-> Step(h, T)]
  <2>1. ASSUME NEW T \in SUBSET (1..N) PROVE h[T] = Step(h, T)
    <3>1. CASE T = {}
      BY <1>5, <3>1 DEF FoldsSets
    <3>2. CASE T # {}
      <4>1. h[T] = F[Max(T)][h[T \ {Max(T)}]]
        BY <1>5, <3>2 DEF FoldsSets
      <4>2. Max(T) \in 1..N /\ h[T \ {Max(T)}] \in D
        BY <1>6, <3>2
      <4> QED BY <1>4, <3>2, <4>1, <4>2
    <3> QED BY <3>1, <3>2
  <2> HIDE DEF Step
  <2>2. h = [T \in SUBSET (1..N) |-> h[T]]
    BY <1>5
  <2> QED BY <2>1, <2>2
<1>8. iter = [T \in SUBSET (1..N) |-> Step(iter, T)]
  <2> HIDE DEF Step
  <2> QED BY <1>7
<1> HIDE DEF iter
<1>9. FoldsWithin(iter, N, D, base, F)
  <2>1. iter[{}] = base
    BY <1>8
  <2>2. ASSUME NEW T \in SUBSET (1..N), T # {}, iter[T \ {Max(T)}] \in D
        PROVE  iter[T] = F[Max(T)][iter[T \ {Max(T)}]]
    BY <1>4, <1>6, <1>8, <2>2
  <2> QED BY <2>1, <2>2 DEF FoldsWithin
<1>10. PICK g \in [0..N -> D] : FoldsUp(g, N, base, F) /\ g[N] = iter[1..N]
  BY <1>1, <1>3, <1>9, FoldSteps
<1>11. \A n \in 1..N : g[n - 1] \in D
  BY <1>1
<1>12. \A n \in 1..N : g[n] = Merged(g[n - 1], s[n])
  BY <1>4, <1>10, <1>11 DEF FoldsUp
<1> QED BY <1>0, <1>2, <1>10, <1>12 DEF FoldsUp, N, D

LEMMA UncoveredFold ==
  ASSUME NEW range \in Interval, NEW s \in Seq(Interval)
  PROVE  \E g \in [0..Len(s) -> SUBSET Interval] :
           /\ g[0] = {range} /\ g[Len(s)] = FoldLeft(Uncovered, {range}, s)
           /\ \A n \in 1..Len(s) : g[n] = Uncovered(g[n - 1], s[n])
<1> DEFINE N == Len(s)
           D == SUBSET Interval
           F == [n \in 1..N |-> [out \in D |-> Uncovered(out, s[n])]]
<1>0. PICK base : base = {range}
  OBVIOUS
<1> DEFINE Step(f, T) == IF T = {} THEN base ELSE Uncovered(f[T \ {Max(T)}], s[Max(T)])
           iter == CHOOSE f : f = [T \in SUBSET (1..N) |-> Step(f, T)]
<1>1. N \in Nat /\ base \in D /\ DOMAIN s = 1..N /\ \A n \in 1..N : s[n] \in Interval
  BY <1>0
<1>2. FoldLeft(Uncovered, base, s) = iter[1..N]
  BY <1>1 DEF FoldLeft, MapThenFoldSet
<1>3. F \in [1..N -> [D -> D]]
  <2>1. \A n \in 1..N : \A out \in D : Uncovered(out, s[n]) \in D
    BY <1>1, UncoveredTyped
  <2> HIDE DEF D, N
  <2> QED BY <2>1
<1>4. \A n \in 1..N : \A out \in D : F[n][out] = Uncovered(out, s[n])
  OBVIOUS
<1> HIDE DEF N, D, F
<1>5. PICK h \in [SUBSET (1..N) -> D] : FoldsSets(h, N, base, F)
  BY <1>1, <1>3, FoldExists
<1>6. ASSUME NEW T \in SUBSET (1..N), T # {}
      PROVE  Max(T) \in 1..N /\ T \ {Max(T)} \in SUBSET (1..N)
  BY <1>1, <1>6, MaxAmong
<1>7. h = [T \in SUBSET (1..N) |-> Step(h, T)]
  <2>1. ASSUME NEW T \in SUBSET (1..N) PROVE h[T] = Step(h, T)
    <3>1. CASE T = {}
      BY <1>5, <3>1 DEF FoldsSets
    <3>2. CASE T # {}
      <4>1. h[T] = F[Max(T)][h[T \ {Max(T)}]]
        BY <1>5, <3>2 DEF FoldsSets
      <4>2. Max(T) \in 1..N /\ h[T \ {Max(T)}] \in D
        BY <1>6, <3>2
      <4> QED BY <1>4, <3>2, <4>1, <4>2
    <3> QED BY <3>1, <3>2
  <2> HIDE DEF Step
  <2>2. h = [T \in SUBSET (1..N) |-> h[T]]
    BY <1>5
  <2> QED BY <2>1, <2>2
<1>8. iter = [T \in SUBSET (1..N) |-> Step(iter, T)]
  <2> HIDE DEF Step
  <2> QED BY <1>7
<1> HIDE DEF iter
<1>9. FoldsWithin(iter, N, D, base, F)
  <2>1. iter[{}] = base
    BY <1>8
  <2>2. ASSUME NEW T \in SUBSET (1..N), T # {}, iter[T \ {Max(T)}] \in D
        PROVE  iter[T] = F[Max(T)][iter[T \ {Max(T)}]]
    BY <1>4, <1>6, <1>8, <2>2
  <2> QED BY <2>1, <2>2 DEF FoldsWithin
<1>10. PICK g \in [0..N -> D] : FoldsUp(g, N, base, F) /\ g[N] = iter[1..N]
  BY <1>1, <1>3, <1>9, FoldSteps
<1>11. \A n \in 1..N : g[n - 1] \in D
  BY <1>1
<1>12. \A n \in 1..N : g[n] = Uncovered(g[n - 1], s[n])
  BY <1>4, <1>10, <1>11 DEF FoldsUp
<1> QED BY <1>0, <1>2, <1>10, <1>12 DEF FoldsUp, N, D

-----------------------------------------------------------------------------
(* Sorting and merging intervals.                                          *)

Ascending(t) == \A i, j \in DOMAIN t : i < j => t[i][1] <= t[j][1]
Among(x, t) == \E i \in DOMAIN t : t[i] = x

LEMMA InCovered ==
  ASSUME NEW ivs, NEW x
  PROVE  x \in Covered(ivs) <=> \E i \in DOMAIN ivs : x \in Spanned(ivs[i])
BY DEF Covered

\* An interval placed among sorted ones leaves them sorted.
LEMMA PlacedSorts ==
  ASSUME NEW sorted \in Seq(Interval), NEW iv \in Interval, Ascending(sorted)
  PROVE  /\ Ascending(Placed(sorted, iv))
         /\ \A x : Among(x, Placed(sorted, iv)) <=> x = iv \/ Among(x, sorted)
<1>1. PICK p \in 1..(Len(sorted) + 1) :
           /\ \A i \in 1..(p - 1) : ~Before(iv, sorted[i])
           /\ p \in DOMAIN sorted => Before(iv, sorted[p])
           /\ Placed(sorted, iv) \in Seq(Interval)
           /\ Len(Placed(sorted, iv)) = Len(sorted) + 1
           /\ \A i \in 1..(Len(sorted) + 1) :
                Placed(sorted, iv)[i] = IF i < p THEN sorted[i] ELSE IF i = p THEN iv ELSE sorted[i - 1]
  BY PlacedAt
<1>2. PICK t : t = Placed(sorted, iv)
  OBVIOUS
<1>3. PICK n \in Nat : n = Len(sorted)
  OBVIOUS
<1>4. /\ DOMAIN sorted = 1..n /\ DOMAIN t = 1..(n + 1) /\ p \in 1..(n + 1)
      /\ \A i \in 1..(n + 1) : t[i] = IF i < p THEN sorted[i] ELSE IF i = p THEN iv ELSE sorted[i - 1]
  BY <1>1, <1>2, <1>3
<1>5. iv[1] \in Nat /\ iv[2] \in Nat /\ \A i \in 1..n : sorted[i][1] \in Nat /\ sorted[i][2] \in Nat
  BY <1>3 DEF Interval
<1>6. \A i \in 1..n : IF i < p THEN sorted[i][1] <= iv[1] ELSE iv[1] <= sorted[i][1]
  <2>1. ASSUME NEW i \in 1..n, i < p PROVE sorted[i][1] <= iv[1]
    <3>1. ~Before(iv, sorted[i])
      BY <1>1, <2>1
    <3> QED BY <1>5, <3>1 DEF Before
  <2>2. ASSUME NEW i \in 1..n, ~(i < p) PROVE iv[1] <= sorted[i][1]
    <3>1. p \in 1..n /\ Before(iv, sorted[p])
      BY <1>1, <1>4, <2>2
    <3>2. iv[1] <= sorted[p][1]
      BY <1>5, <3>1 DEF Before
    <3>3. sorted[p][1] <= sorted[i][1]
      <4>1. CASE i = p
        BY <1>5, <4>1
      <4>2. CASE i # p
        BY <1>4, <2>2, <3>1, <4>2 DEF Ascending
      <4> QED BY <4>1, <4>2
    <3> QED BY <1>5, <3>1, <3>2, <3>3
  <2> QED BY <2>1, <2>2
<1>7. Ascending(t)
  <2> SUFFICES ASSUME NEW i \in 1..(n + 1), NEW j \in 1..(n + 1), i < j PROVE t[i][1] <= t[j][1]
    BY <1>4 DEF Ascending
  <2>1. CASE j < p
    <3>1. i \in 1..n /\ j \in 1..n /\ t[i] = sorted[i] /\ t[j] = sorted[j]
      BY <1>4, <2>1
    <3> QED BY <1>4, <3>1 DEF Ascending
  <2>2. CASE j = p
    <3>1. i \in 1..n /\ i < p /\ t[i] = sorted[i] /\ t[j] = iv
      BY <1>4, <2>2
    <3> QED BY <1>6, <3>1
  <2>3. CASE j > p /\ i = p
    <3>1. j - 1 \in 1..n /\ ~(j - 1 < p) /\ t[i] = iv /\ t[j] = sorted[j - 1]
      BY <1>4, <2>3
    <3> QED BY <1>6, <3>1
  <2>4. CASE j > p /\ i < p
    <3>1. j - 1 \in 1..n /\ i \in 1..n /\ t[i] = sorted[i] /\ t[j] = sorted[j - 1] /\ i < j - 1
      BY <1>4, <2>4
    <3> QED BY <1>4, <3>1 DEF Ascending
  <2>5. CASE j > p /\ i > p
    <3>1. j - 1 \in 1..n /\ i - 1 \in 1..n /\ i - 1 < j - 1
      BY <1>4, <2>5
    <3>2. ~(i < p) /\ ~(j < p) /\ i # p /\ j # p
      BY <1>4, <2>5
    <3>3. t[i] = sorted[i - 1] /\ t[j] = sorted[j - 1]
      BY <1>4, <3>2
    <3> QED BY <1>4, <3>1, <3>3 DEF Ascending
  <2> QED BY <1>4, <2>1, <2>2, <2>3, <2>4, <2>5
<1>8. ASSUME NEW x PROVE Among(x, t) <=> x = iv \/ Among(x, sorted)
  <2>1. ASSUME Among(x, t) PROVE x = iv \/ Among(x, sorted)
    <3>1. PICK i \in 1..(n + 1) : t[i] = x
      BY <1>4, <2>1 DEF Among
    <3>2. i < p => i \in 1..n /\ sorted[i] = x
      BY <1>4, <3>1
    <3>3. i > p => i - 1 \in 1..n /\ sorted[i - 1] = x
      BY <1>4, <3>1
    <3>4. i = p => iv = x
      BY <1>4, <3>1
    <3>5. p \in Int /\ (i < p \/ i > p \/ i = p)
      BY <1>4
    <3>6. i < p \/ i > p => Among(x, sorted)
      BY <1>4, <3>2, <3>3 DEF Among
    <3> QED BY <3>4, <3>5, <3>6
  <2>2. ASSUME x = iv PROVE Among(x, t)
    <3>1. p \in DOMAIN t /\ t[p] = iv
      BY <1>4
    <3> QED BY <2>2, <3>1 DEF Among
  <2>3. ASSUME Among(x, sorted) PROVE Among(x, t)
    <3>1. PICK i \in 1..n : sorted[i] = x
      BY <1>4, <2>3 DEF Among
    <3>2. i < p => i \in 1..(n + 1) /\ t[i] = x
      BY <1>4, <3>1
    <3>3. ~(i < p) => i + 1 \in 1..(n + 1) /\ t[i + 1] = x
      BY <1>4, <3>1
    <3> QED BY <1>4, <3>2, <3>3 DEF Among
  <2> QED BY <2>1, <2>2, <2>3
<1> QED BY <1>2, <1>7, <1>8

\* Sorting keeps the intervals, and puts them in the order of their beginnings.
LEMMA SortedSorts ==
  ASSUME NEW s \in Seq(Interval)
  PROVE  Sorted(s) \in Seq(Interval) /\ Ascending(Sorted(s)) /\ \A x : Among(x, Sorted(s)) <=> Among(x, s)
<1>1. PICK g \in [0..Len(s) -> Seq(Interval)] :
           /\ g[0] = <<>> /\ g[Len(s)] = FoldLeft(Placed, <<>>, s)
           /\ \A n \in 1..Len(s) : g[n] = Placed(g[n - 1], s[n])
  BY SortedFold
<1>2. PICK N \in Nat : N = Len(s)
  OBVIOUS
<1>3. DOMAIN s = 1..N /\ \A n \in 1..N : s[n] \in Interval
  BY <1>2
<1>4. \A n \in 0..N : g[n] \in Seq(Interval)
  BY <1>1, <1>2
<1> DEFINE Sorts(n) == Ascending(g[n]) /\ \A x : Among(x, g[n]) <=> \E m \in 1..n : s[m] = x
           S == {n \in 0..N : Sorts(n)}
<1>5. 0 \in S
  <2>1. DOMAIN g[0] = {} /\ 1..0 = {}
    BY <1>1
  <2> QED BY <2>1 DEF Ascending, Among
<1>6. ASSUME NEW n \in 1..N, n - 1 \in S PROVE n \in S
  <2>1. /\ g[n] = Placed(g[n - 1], s[n]) /\ g[n - 1] \in Seq(Interval) /\ s[n] \in Interval
        /\ n \in 0..N /\ 1..n = (1..(n - 1)) \cup {n}
    BY <1>1, <1>2, <1>3, <1>4
  <2>2. Sorts(n - 1)
    BY <1>6
  <2>3. Ascending(g[n]) /\ \A x : Among(x, g[n]) <=> x = s[n] \/ Among(x, g[n - 1])
    BY <2>1, <2>2, PlacedSorts
  <2>4. ASSUME NEW x PROVE (\E m \in 1..n : s[m] = x) <=> x = s[n] \/ \E m \in 1..(n - 1) : s[m] = x
    BY <2>1
  <2>5. Sorts(n)
    BY <2>2, <2>3, <2>4
  <2> QED BY <2>1, <2>5
<1>7. \A n \in 0..N : n \in S
  <2> HIDE DEF S
  <2> QED BY <1>5, <1>6, UpTo
<1>8. Sorts(N)
  <2> HIDE DEF Sorts
  <2> QED BY <1>2, <1>7
<1>9. Sorted(s) = g[N]
  BY <1>1, <1>2 DEF Sorted
<1>10. \A x : Among(x, s) <=> \E m \in 1..N : s[m] = x
  BY <1>3 DEF Among
<1>11. g[N] \in Seq(Interval)
  BY <1>2, <1>4
<1> QED BY <1>8, <1>9, <1>10, <1>11

\* Merging an interval that begins no earlier than the last keeps the intervals
\* apart, and covers what it covers as well.
LEMMA MergedKeepsApart ==
  ASSUME NEW out \in Seq(Interval), NEW cur \in Interval, Apart(out),
         out # <<>> => Last(out)[1] <= cur[1]
  PROVE  /\ Apart(Merged(out, cur)) /\ Merged(out, cur) # <<>>
         /\ Last(Merged(out, cur))[1] = (IF out # <<>> /\ cur[1] <= Last(out)[2] + 1 THEN Last(out)[1] ELSE cur[1])
         /\ \A x : x \in Covered(Merged(out, cur)) <=> x \in Covered(out) \/ x \in Spanned(cur)
<1>1. PICK n \in Nat : n = Len(out)
  OBVIOUS
<1>2. DOMAIN out = 1..n /\ \A i \in 1..n : out[i] \in Interval
  BY <1>1
<1>3. PICK new : new = Merged(out, cur)
  OBVIOUS
<1>4. /\ cur[1] \in Nat /\ cur[2] \in Nat /\ cur[1] <= cur[2]
      /\ \A i \in 1..n : out[i][1] \in Nat /\ out[i][2] \in Nat /\ out[i][1] <= out[i][2]
  BY <1>2 DEF Interval
<1>5. \A i, j \in 1..n : i < j => out[i][2] + 1 < out[j][1]
  BY <1>2 DEF Apart
<1>6. CASE n # 0 /\ cur[1] <= out[n][2] + 1
  <2>1. PICK last : last = out[n]
    OBVIOUS
  <2>2. n \in 1..n /\ out # <<>> /\ Last(out) = last
    BY <1>1, <1>6, <2>1 DEF Last
  <2>3. last[1] \in Nat /\ last[2] \in Nat /\ last[1] <= last[2] /\ last[1] <= cur[1] /\ cur[1] <= last[2] + 1
    BY <1>4, <1>6, <2>1, <2>2
  <2>4. PICK end \in Nat : end = IF cur[2] > last[2] THEN cur[2] ELSE last[2]
    BY <1>4, <2>3
  <2>5. new = [out EXCEPT ![n] = <<last[1], end>>]
    <3>1. last \in Nat \X Nat
      BY <1>2, <2>1, <2>2 DEF Interval
    <3>2. last = <<last[1], last[2]>>
      BY <3>1
    <3>3. [last EXCEPT ![2] = IF cur[2] > @ THEN cur[2] ELSE @] = <<last[1], end>>
      BY <2>4, <3>2
    <3>4. new = [out EXCEPT ![n] = [last EXCEPT ![2] = IF cur[2] > @ THEN cur[2] ELSE @]]
      BY <1>1, <1>3, <2>1, <2>2, <2>3 DEF Merged
    <3> QED BY <3>3, <3>4
  <2>6. /\ DOMAIN new = 1..n /\ new[n] = <<last[1], end>> /\ Len(new) = n
        /\ \A i \in 1..n : i # n => new[i] = out[i]
    <3>1. new \in Seq(Nat \X Nat)
      <4>1. <<last[1], end>> \in Nat \X Nat /\ \A i \in 1..n : out[i] \in Nat \X Nat
        BY <1>2, <2>3, <2>4 DEF Interval
      <4>2. out \in Seq(Nat \X Nat)
        BY <1>1, <4>1
      <4> QED BY <1>1, <2>2, <2>5, <4>1, <4>2
    <3> QED BY <1>1, <1>2, <2>2, <2>5, <3>1
  <2>7. new[n][1] = last[1] /\ new[n][2] = end /\ new # <<>> /\ Last(new) = new[n]
    BY <2>2, <2>6 DEF Last
  <2>8. \A i \in 1..n : new[i][1] = out[i][1] /\ new[i][1] <= new[i][2]
    BY <1>4, <2>1, <2>3, <2>4, <2>6, <2>7
  <2>9. Apart(new)
    <3>1. ASSUME NEW i \in 1..n, NEW j \in 1..n, i < j PROVE new[i][2] + 1 < new[j][1]
      BY <1>5, <2>6, <2>8, <3>1
    <3> QED BY <2>6, <2>8, <3>1 DEF Apart
  <2>10. \A x : x \in last[1]..end <=> x \in last[1]..last[2] \/ x \in cur[1]..cur[2]
    BY <1>4, <2>3, <2>4
  <2>11. ASSUME NEW x PROVE x \in Covered(new) <=> x \in Covered(out) \/ x \in Spanned(cur)
    <3>1. x \in Covered(new) <=> x \in Spanned(new[n]) \/ \E i \in 1..n : i # n /\ x \in Spanned(new[i])
      BY <2>2, <2>6, InCovered
    <3>2. x \in Covered(out) <=> x \in Spanned(out[n]) \/ \E i \in 1..n : i # n /\ x \in Spanned(out[i])
      BY <1>2, <2>2, InCovered
    <3>3. x \in Spanned(new[n]) <=> x \in Spanned(out[n]) \/ x \in Spanned(cur)
      BY <2>1, <2>7, <2>10 DEF Spanned
    <3> QED BY <2>6, <3>1, <3>2, <3>3
  <2> QED BY <1>1, <1>3, <2>2, <2>3, <2>7, <2>9, <2>11
<1>7. CASE ~(n # 0 /\ cur[1] <= out[n][2] + 1)
  <2>1. ~(out # <<>> /\ cur[1] <= Last(out)[2] + 1)
    BY <1>1, <1>7 DEF Last
  <2>2. new = Append(out, cur)
    BY <1>3, <2>1 DEF Merged
  <2>3. /\ DOMAIN new = 1..(n + 1) /\ Len(new) = n + 1 /\ new[n + 1] = cur
        /\ \A i \in 1..n : new[i] = out[i]
    BY <1>1, <2>2
  <2>4. new # <<>> /\ Last(new) = cur
    BY <2>3 DEF Last
  <2>5. \A i \in 1..n : out[i][2] + 1 < cur[1]
    <3>1. n # 0 => cur[1] > out[n][2] + 1
      BY <1>4, <1>7
    <3>2. ASSUME NEW i \in 1..n, i # n PROVE out[i][2] + 1 < cur[1]
      <4>1. n \in 1..n /\ i < n
        BY <3>2
      <4>2. out[i][2] + 1 < out[n][1] /\ out[n][1] <= out[n][2]
        BY <1>4, <1>5, <4>1
      <4>3. PICK a, b, c, d : a = out[i][2] /\ b = out[n][1] /\ c = out[n][2] /\ d = cur[1]
        OBVIOUS
      <4>4. a \in Nat /\ b \in Nat /\ c \in Nat /\ d \in Nat
        BY <1>4, <4>1, <4>3
      <4>5. a + 1 < b /\ b <= c /\ d > c + 1
        BY <3>1, <4>1, <4>2, <4>3
      <4>6. a + 1 < d
        BY <4>4, <4>5
      <4> QED BY <4>3, <4>6
    <3>3. n # 0 => out[n][2] + 1 < cur[1]
      BY <1>4, <3>1
    <3> QED BY <3>2, <3>3
  <2>6. Apart(new)
    <3>1. ASSUME NEW i \in 1..(n + 1) PROVE new[i][1] <= new[i][2]
      <4>1. i \in 1..n \/ i = n + 1
        OBVIOUS
      <4> QED BY <1>4, <2>3, <4>1
    <3>2. ASSUME NEW i \in 1..(n + 1), NEW j \in 1..(n + 1), i < j PROVE new[i][2] + 1 < new[j][1]
      <4>1. i \in 1..n /\ (j \in 1..n \/ j = n + 1)
        BY <3>2
      <4> QED BY <1>5, <2>3, <2>5, <3>2, <4>1
    <3> QED BY <2>3, <3>1, <3>2 DEF Apart
  <2>7. ASSUME NEW x PROVE x \in Covered(new) <=> x \in Covered(out) \/ x \in Spanned(cur)
    <3>1. \A i : i \in 1..(n + 1) <=> i \in 1..n \/ i = n + 1
      OBVIOUS
    <3>2. x \in Covered(new) <=> x \in Spanned(cur) \/ \E i \in 1..n : x \in Spanned(new[i])
      BY <2>3, <3>1, InCovered
    <3>3. x \in Covered(out) <=> \E i \in 1..n : x \in Spanned(out[i])
      BY <1>2, InCovered
    <3> QED BY <2>3, <3>2, <3>3
  <2> QED BY <1>3, <2>1, <2>4, <2>6, <2>7
<1> QED BY <1>6, <1>7

\* Merging any intervals, in any order and overlap, keeps what they cover, and
\* leaves them sorted and apart (mergeIntervals).
THEOREM MergeIntervalsExact ==
  ASSUME NEW ivs \in Seq(Interval)
  PROVE  /\ MergeIntervals(ivs) \in Seq(Interval) /\ Apart(MergeIntervals(ivs))
         /\ Covered(MergeIntervals(ivs)) = Covered(ivs)
<1>1. PICK s : s = Sorted(ivs)
  OBVIOUS
<1>2. s \in Seq(Interval) /\ Ascending(s) /\ \A x : Among(x, s) <=> Among(x, ivs)
  BY <1>1, SortedSorts
<1>3. PICK g \in [0..Len(s) -> Seq(Interval)] :
           /\ g[0] = <<>> /\ g[Len(s)] = FoldLeft(Merged, <<>>, s)
           /\ \A n \in 1..Len(s) : g[n] = Merged(g[n - 1], s[n])
  BY <1>2, MergedFold
<1>4. PICK N \in Nat : N = Len(s)
  BY <1>2
<1>5. DOMAIN s = 1..N /\ \A n \in 1..N : s[n] \in Interval /\ s[n][1] \in Nat
  BY <1>2, <1>4 DEF Interval
<1>6. \A n \in 0..N : g[n] \in Seq(Interval)
  BY <1>3, <1>4
<1> DEFINE Merges(n) == /\ Apart(g[n])
                        /\ g[n] # <<>> => \E m \in 1..n : Last(g[n])[1] = s[m][1]
                        /\ \A x : x \in Covered(g[n]) <=> \E m \in 1..n : x \in Spanned(s[m])
           S == {n \in 0..N : Merges(n)}
<1>7. 0 \in S
  <2>1. DOMAIN g[0] = {} /\ 1..0 = {} /\ g[0] = <<>>
    BY <1>3
  <2>2. Apart(g[0])
    BY <2>1 DEF Apart
  <2>3. \A x : x \in Covered(g[0]) <=> \E m \in 1..0 : x \in Spanned(s[m])
    BY <2>1, InCovered
  <2> QED BY <2>1, <2>2, <2>3
<1>8. ASSUME NEW n \in 1..N, n - 1 \in S PROVE n \in S
  <2>1. PICK out, cur : out = g[n - 1] /\ cur = s[n]
    OBVIOUS
  <2>2. /\ g[n] = Merged(out, cur) /\ out \in Seq(Interval) /\ cur \in Interval
        /\ n \in 0..N /\ 1..n = (1..(n - 1)) \cup {n}
    BY <1>3, <1>4, <1>5, <1>6, <2>1
  <2>3. /\ Apart(out)
        /\ out # <<>> => \E m \in 1..(n - 1) : Last(out)[1] = s[m][1]
        /\ \A x : x \in Covered(out) <=> \E m \in 1..(n - 1) : x \in Spanned(s[m])
    BY <1>8, <2>1
  <2>4. ASSUME NEW m \in 1..(n - 1) PROVE s[m][1] <= cur[1]
    <3>1. m \in 1..N /\ m < n
      OBVIOUS
    <3> QED BY <1>2, <1>5, <2>1, <3>1 DEF Ascending
  <2>5. out # <<>> => Last(out)[1] <= cur[1]
    BY <2>3, <2>4
  <2>6. /\ Apart(g[n]) /\ g[n] # <<>>
        /\ Last(g[n])[1] = (IF out # <<>> /\ cur[1] <= Last(out)[2] + 1 THEN Last(out)[1] ELSE cur[1])
        /\ \A x : x \in Covered(g[n]) <=> x \in Covered(out) \/ x \in Spanned(cur)
    BY <2>2, <2>3, <2>5, MergedKeepsApart
  <2>7. \E m \in 1..n : Last(g[n])[1] = s[m][1]
    <3>1. CASE out # <<>> /\ Last(g[n])[1] = Last(out)[1]
      BY <2>2, <2>3, <3>1
    <3>2. CASE Last(g[n])[1] = cur[1]
      BY <2>1, <2>2, <3>2
    <3> QED BY <2>6, <3>1, <3>2
  <2>8. ASSUME NEW x PROVE x \in Covered(g[n]) <=> \E m \in 1..n : x \in Spanned(s[m])
    BY <2>1, <2>2, <2>3, <2>6
  <2> QED BY <2>2, <2>6, <2>7, <2>8
<1>9. \A n \in 0..N : n \in S
  <2> HIDE DEF S
  <2> QED BY <1>4, <1>7, <1>8, UpTo
<1>10. Merges(N)
  <2> HIDE DEF Merges
  <2> QED BY <1>4, <1>9
<1>11. MergeIntervals(ivs) = g[N] /\ g[N] \in Seq(Interval)
  BY <1>1, <1>3, <1>4, <1>6 DEF MergeIntervals
<1>12. ASSUME NEW x PROVE x \in Covered(ivs) <=> \E m \in 1..N : x \in Spanned(s[m])
  <2>1. ASSUME x \in Covered(ivs) PROVE \E m \in 1..N : x \in Spanned(s[m])
    <3>1. PICK i \in DOMAIN ivs : x \in Spanned(ivs[i])
      BY <2>1, InCovered
    <3>2. Among(ivs[i], s)
      BY <1>2, <3>1 DEF Among
    <3> QED BY <1>5, <3>1, <3>2 DEF Among
  <2>2. ASSUME NEW m \in 1..N, x \in Spanned(s[m]) PROVE x \in Covered(ivs)
    <3>1. Among(s[m], ivs)
      BY <1>2, <1>5 DEF Among
    <3>2. PICK i \in DOMAIN ivs : ivs[i] = s[m]
      BY <3>1 DEF Among
    <3> QED BY <2>2, <3>2, InCovered
  <2> QED BY <2>1, <2>2
<1>13. Covered(g[N]) = Covered(ivs)
  BY <1>10, <1>12
<1> QED BY <1>10, <1>11, <1>13

-----------------------------------------------------------------------------
(* Tokens and sets of GTIDs.                                               *)

LEMMA ParsedTyped ==
  ASSUME NEW s \in Seq(Interval \cup {NoRange})
  PROVE  Parsed(s) \in Seq(Interval)
<1>1. PICK g \in [0..Len(s) -> Seq(Interval)] :
           /\ g[0] = <<>> /\ g[Len(s)] = FoldLeft(Kept, <<>>, s)
           /\ \A n \in 1..Len(s) : g[n] = Kept(g[n - 1], s[n])
  BY ParsedFold
<1>2. Len(s) \in 0..Len(s)
  OBVIOUS
<1> QED BY <1>1, <1>2 DEF Parsed

LEMMA TokenTyped ==
  ASSUME NEW token, WellFormed(token)
  PROVE  /\ ParseToken(Engine, token).key = token.source /\ token.source \in Keys
         /\ ParseToken(Engine, token).intervals \in Seq(Interval)
         /\ Numbers(token) = Covered(ParseToken(Engine, token).intervals)
<1>1. token.source \in Keys /\ token.ranges \in Seq(Interval \cup {NoRange})
  BY DEF WellFormed
<1>2. ParseToken(Engine, token).key = token.source
  BY DEF ParseToken
<1>3. ParseToken(Engine, token).intervals \in Seq(Interval)
  <2>1. CASE Engine = "mariadb"
    <3>1. CASE /\ Len(token.ranges) = 1 /\ token.ranges[1] # NoRange
               /\ token.ranges[1][1] = token.ranges[1][2]
      <4>1. token.ranges[1] \in Interval
        BY <1>1, <3>1
      <4>2. token.ranges \in Seq(Interval)
        <5>1. DOMAIN token.ranges = 1..1 /\ \A i \in 1..1 : token.ranges[i] \in Interval
          BY <1>1, <3>1, <4>1
        <5> QED BY <1>1, <3>1, <5>1
      <4> QED BY <2>1, <3>1, <4>2 DEF ParseToken
    <3>2. CASE ~(/\ Len(token.ranges) = 1 /\ token.ranges[1] # NoRange
                 /\ token.ranges[1][1] = token.ranges[1][2])
      BY <2>1, <3>2 DEF ParseToken
    <3> QED BY <3>1, <3>2
  <2>2. CASE Engine # "mariadb"
    BY <1>1, <2>2, ParsedTyped DEF ParseToken
  <2> QED BY <2>1, <2>2
<1>4. Numbers(token) = Covered(ParseToken(Engine, token).intervals)
  <2>1. PICK ivs : ivs = ParseToken(Engine, token).intervals
    OBVIOUS
  <2>2. UNION {r[1]..r[2] : r \in ToSet(ivs)} = Covered(ivs)
    BY DEF ToSet, Covered, Spanned
  <2> QED BY <2>1, <2>2 DEF Numbers
<1> QED BY <1>1, <1>2, <1>3, <1>4

\* A token adds the transactions it names to those of its source.
LEMMA AddTokenExact ==
  ASSUME NEW set \in [Keys -> Seq(Interval)], NEW token, WellFormed(token)
  PROVE  /\ AddToken(set, Engine, token) \in [Keys -> Seq(Interval)]
         /\ \A k \in Keys :
              /\ Covered(AddToken(set, Engine, token)[k]) =
                   Covered(set[k]) \cup (IF token.source = k THEN Numbers(token) ELSE {})
              /\ Apart(set[k]) => Apart(AddToken(set, Engine, token)[k])
<1>1. PICK key, ivs : key = ParseToken(Engine, token).key /\ ivs = ParseToken(Engine, token).intervals
  OBVIOUS
<1>2. /\ key = token.source /\ key \in Keys /\ ivs \in Seq(Interval)
      /\ Numbers(token) = Covered(ivs) /\ set[key] \in Seq(Interval)
  BY <1>1, TokenTyped
<1>3. PICK new : new = AddToken(set, Engine, token)
  OBVIOUS
<1>4. new = IF ivs = <<>> THEN set ELSE [set EXCEPT ![key] = MergeIntervals(@ \o ivs)]
  BY <1>1, <1>3 DEF AddToken
<1>5. CASE ivs = <<>>
  <2>1. Numbers(token) = {}
    BY <1>2, <1>5, InCovered
  <2> QED BY <1>3, <1>4, <1>5, <2>1
<1>6. CASE ivs # <<>>
  <2>1. PICK both : both = set[key] \o ivs
    OBVIOUS
  <2>2. both \in Seq(Interval)
    BY <1>2, <2>1
  <2>3. ASSUME NEW x PROVE x \in Covered(both) <=> x \in Covered(set[key]) \/ x \in Covered(ivs)
    <3>1. PICK m \in Nat : m = Len(set[key])
      BY <1>2
    <3>2. PICK n \in Nat : n = Len(ivs)
      BY <1>2
    <3>3. /\ DOMAIN set[key] = 1..m /\ DOMAIN ivs = 1..n /\ DOMAIN both = 1..(m + n)
          /\ \A i \in 1..m : both[i] = set[key][i]
          /\ \A i \in 1..n : both[m + i] = ivs[i]
      BY <1>2, <2>1, <2>2, <3>1, <3>2
    <3>4. \A i \in 1..(m + n) : i \in 1..m \/ (i - m \in 1..n /\ m + (i - m) = i)
      OBVIOUS
    <3>5. (\A i \in 1..m : i \in 1..(m + n)) /\ (\A i \in 1..n : m + i \in 1..(m + n))
      OBVIOUS
    <3>6. ASSUME x \in Covered(both) PROVE x \in Covered(set[key]) \/ x \in Covered(ivs)
      <4>1. PICK i \in 1..(m + n) : x \in Spanned(both[i])
        BY <3>3, <3>6, InCovered
      <4>2. CASE i \in 1..m
        BY <3>3, <4>1, <4>2, InCovered
      <4>3. CASE i - m \in 1..n /\ m + (i - m) = i
        <5>1. both[i] = ivs[i - m]
          BY <3>3, <4>3
        <5> QED BY <3>3, <4>1, <4>3, <5>1, InCovered
      <4> QED BY <3>4, <4>2, <4>3
    <3>7. ASSUME x \in Covered(set[key]) PROVE x \in Covered(both)
      <4>1. PICK i \in 1..m : x \in Spanned(set[key][i])
        BY <3>3, <3>7, InCovered
      <4> QED BY <3>3, <3>5, <4>1, InCovered
    <3>8. ASSUME x \in Covered(ivs) PROVE x \in Covered(both)
      <4>1. PICK i \in 1..n : x \in Spanned(ivs[i])
        BY <3>3, <3>8, InCovered
      <4> QED BY <3>3, <3>5, <4>1, InCovered
    <3> QED BY <3>6, <3>7, <3>8
  <2>4. /\ MergeIntervals(both) \in Seq(Interval) /\ Apart(MergeIntervals(both))
        /\ Covered(MergeIntervals(both)) = Covered(both)
    BY <2>2, MergeIntervalsExact
  <2>5. /\ new \in [Keys -> Seq(Interval)] /\ new[key] = MergeIntervals(both)
        /\ \A k \in Keys : k # key => new[k] = set[k]
    BY <1>2, <1>4, <1>6, <2>1, <2>4
  <2>6. Covered(both) = Covered(set[key]) \cup Numbers(token)
    BY <1>2, <2>3
  <2> QED BY <1>2, <1>3, <2>4, <2>5, <2>6
<1> QED BY <1>5, <1>6

\* Parsing a set takes its tokens one after the other.
LEMMA ParsedSetFold ==
  ASSUME NEW E, \A t \in E : WellFormed(t), NEW s \in Seq(E)
  PROVE  \E g \in [0..Len(s) -> [Keys -> Seq(Interval)]] :
           /\ g[0] = NoGtids /\ g[Len(s)] = ParseSet(NoGtids, Engine, s)
           /\ \A n \in 1..Len(s) : g[n] = AddToken(g[n - 1], Engine, s[n])
<1> DEFINE N == Len(s)
           D == [Keys -> Seq(Interval)]
           F == [n \in 1..N |-> [out \in D |-> AddToken(out, Engine, s[n])]]
<1>0. PICK base : base = NoGtids
  OBVIOUS
<1> DEFINE Step(f, T) == IF T = {} THEN base ELSE AddToken(f[T \ {Max(T)}], Engine, s[Max(T)])
           iter == CHOOSE f : f = [T \in SUBSET (1..N) |-> Step(f, T)]
<1>1. N \in Nat /\ base \in D /\ DOMAIN s = 1..N /\ \A n \in 1..N : s[n] \in E
  BY <1>0 DEF NoGtids
<1>2. ParseSet(base, Engine, s) = iter[1..N]
  BY <1>1 DEF ParseSet, FoldLeft, MapThenFoldSet
<1>3. F \in [1..N -> [D -> D]]
  <2>1. \A n \in 1..N : \A out \in D : AddToken(out, Engine, s[n]) \in D
    BY <1>1, AddTokenExact
  <2> HIDE DEF D, N
  <2> QED BY <2>1
<1>4. \A n \in 1..N : \A out \in D : F[n][out] = AddToken(out, Engine, s[n])
  OBVIOUS
<1> HIDE DEF N, D, F
<1>5. PICK h \in [SUBSET (1..N) -> D] : FoldsSets(h, N, base, F)
  BY <1>1, <1>3, FoldExists
<1>6. ASSUME NEW T \in SUBSET (1..N), T # {}
      PROVE  Max(T) \in 1..N /\ T \ {Max(T)} \in SUBSET (1..N)
  BY <1>1, <1>6, MaxAmong
<1>7. h = [T \in SUBSET (1..N) |-> Step(h, T)]
  <2>1. ASSUME NEW T \in SUBSET (1..N) PROVE h[T] = Step(h, T)
    <3>1. CASE T = {}
      BY <1>5, <3>1 DEF FoldsSets
    <3>2. CASE T # {}
      <4>1. h[T] = F[Max(T)][h[T \ {Max(T)}]]
        BY <1>5, <3>2 DEF FoldsSets
      <4>2. Max(T) \in 1..N /\ h[T \ {Max(T)}] \in D
        BY <1>6, <3>2
      <4> QED BY <1>4, <3>2, <4>1, <4>2
    <3> QED BY <3>1, <3>2
  <2> HIDE DEF Step
  <2>2. h = [T \in SUBSET (1..N) |-> h[T]]
    BY <1>5
  <2> QED BY <2>1, <2>2
<1>8. iter = [T \in SUBSET (1..N) |-> Step(iter, T)]
  <2> HIDE DEF Step
  <2> QED BY <1>7
<1> HIDE DEF iter
<1>9. FoldsWithin(iter, N, D, base, F)
  <2>1. iter[{}] = base
    BY <1>8
  <2>2. ASSUME NEW T \in SUBSET (1..N), T # {}, iter[T \ {Max(T)}] \in D
        PROVE  iter[T] = F[Max(T)][iter[T \ {Max(T)}]]
    BY <1>4, <1>6, <1>8, <2>2
  <2> QED BY <2>1, <2>2 DEF FoldsWithin
<1>10. PICK g \in [0..N -> D] : FoldsUp(g, N, base, F) /\ g[N] = iter[1..N]
  <2>1. N \in Nat /\ base \in D
    BY <1>1
  <2> QED BY <2>1, <1>3, <1>9, FoldSteps
<1>11. \A n \in 1..N : g[n - 1] \in D
  BY <1>1
<1>12. \A n \in 1..N : g[n] = AddToken(g[n - 1], Engine, s[n])
  BY <1>4, <1>10, <1>11 DEF FoldsUp
<1> QED BY <1>0, <1>2, <1>10, <1>12 DEF FoldsUp, N, D

\* A set names the transactions that its tokens name.
LEMMA ParseSetExact ==
  ASSUME NEW executed, executed \in Seq(ToSet(executed)), \A t \in ToSet(executed) : WellFormed(t),
         executed # Unknown
  PROVE  /\ ParseSet(NoGtids, Engine, executed) \in [Keys -> Seq(Interval)]
         /\ \A k \in Keys :
              Covered(ParseSet(NoGtids, Engine, executed)[k]) = SourceNumbers(k, executed)
<1>1. PICK E : E = ToSet(executed)
  OBVIOUS
<1>2. PICK s : s = executed
  OBVIOUS
<1>3. s \in Seq(E) /\ \A t \in E : WellFormed(t)
  BY <1>1, <1>2
<1>4. PICK g \in [0..Len(s) -> [Keys -> Seq(Interval)]] :
           /\ g[0] = NoGtids /\ g[Len(s)] = ParseSet(NoGtids, Engine, s)
           /\ \A n \in 1..Len(s) : g[n] = AddToken(g[n - 1], Engine, s[n])
  BY <1>3, ParsedSetFold
<1>5. PICK N \in Nat : N = Len(s)
  BY <1>3
<1>6. DOMAIN s = 1..N /\ \A n \in 1..N : WellFormed(s[n])
  BY <1>3, <1>5
<1>7. \A n \in 0..N : g[n] \in [Keys -> Seq(Interval)]
  BY <1>4, <1>5
<1> DEFINE Names(x, k, m) == s[m].source = k /\ x \in Numbers(s[m])
           Parses(n) == \A k \in Keys : \A x : x \in Covered(g[n][k]) <=> \E m \in 1..n : Names(x, k, m)
           S == {n \in 0..N : Parses(n)}
<1>8. 0 \in S
  <2>1. \A k \in Keys : g[0][k] = <<>>
    BY <1>4 DEF NoGtids
  <2>2. DOMAIN <<>> = {} /\ 1..0 = {}
    OBVIOUS
  <2>3. \A k \in Keys : \A x : x \notin Covered(g[0][k])
    BY <2>1, <2>2, InCovered
  <2>4. ASSUME NEW k \in Keys, NEW x PROVE ~\E m \in 1..0 : Names(x, k, m)
    BY <2>2
  <2>5. Parses(0)
    <3> HIDE DEF Names
    <3> QED BY <2>3, <2>4
  <2> HIDE DEF Parses
  <2> QED BY <2>5
<1>9. ASSUME NEW n \in 1..N, n - 1 \in S PROVE n \in S
  <2>1. /\ g[n] = AddToken(g[n - 1], Engine, s[n]) /\ g[n - 1] \in [Keys -> Seq(Interval)]
        /\ WellFormed(s[n]) /\ n \in 0..N /\ 1..n = (1..(n - 1)) \cup {n}
    BY <1>4, <1>5, <1>6, <1>7
  <2>2. Parses(n - 1)
    BY <1>9
  <2>3. ASSUME NEW k \in Keys
        PROVE  Covered(g[n][k]) = Covered(g[n - 1][k]) \cup (IF s[n].source = k THEN Numbers(s[n]) ELSE {})
    <3>1. PICK set, token, new : set = g[n - 1] /\ token = s[n] /\ new = AddToken(set, Engine, token)
      OBVIOUS
    <3>2. Covered(new[k]) = Covered(set[k]) \cup (IF token.source = k THEN Numbers(token) ELSE {})
      <4>1. set \in [Keys -> Seq(Interval)] /\ WellFormed(token)
        BY <2>1, <3>1
      <4>2. new = AddToken(set, Engine, token)
        BY <3>1
      <4> QED BY <4>1, <4>2, AddTokenExact
    <3>3. new = g[n]
      BY <2>1, <3>1
    <3> QED BY <3>1, <3>2, <3>3
  <2>4. ASSUME NEW k \in Keys, NEW x
        PROVE  x \in Covered(g[n][k]) <=> x \in Covered(g[n - 1][k]) \/ Names(x, k, n)
    BY <2>3
  <2>5. ASSUME NEW k \in Keys, NEW x
        PROVE  (\E m \in 1..n : Names(x, k, m)) <=> Names(x, k, n) \/ \E m \in 1..(n - 1) : Names(x, k, m)
    <3> HIDE DEF Names
    <3> QED BY <2>1
  <2>6. Parses(n)
    <3> HIDE DEF Names
    <3> QED BY <2>2, <2>4, <2>5
  <2> QED BY <2>1, <2>6
<1>10. \A n \in 0..N : n \in S
  <2> HIDE DEF S
  <2> QED BY <1>5, <1>8, <1>9, UpTo
<1>11. Parses(N)
  <2> HIDE DEF Parses
  <2> QED BY <1>5, <1>10
<1>12. ASSUME NEW k \in Keys, NEW x
       PROVE  x \in SourceNumbers(k, executed) <=> \E m \in 1..N : Names(x, k, m)
  <2>1. SourceNumbers(k, executed) = UNION {IF t.source = k THEN Numbers(t) ELSE {} : t \in E}
    BY <1>1 DEF SourceNumbers
  <2>2. x \in SourceNumbers(k, executed) <=> \E t \in E : t.source = k /\ x \in Numbers(t)
    BY <2>1
  <2>3. E = {s[m] : m \in 1..N}
    BY <1>1, <1>2, <1>6 DEF ToSet
  <2> QED BY <2>2, <2>3
<1>13. ParseSet(NoGtids, Engine, executed) = g[N] /\ g[N] \in [Keys -> Seq(Interval)]
  BY <1>2, <1>4, <1>5, <1>7
<1>14. \A k \in Keys : Covered(g[N][k]) = SourceNumbers(k, executed)
  <2> HIDE DEF Names
  <2> QED BY <1>11, <1>12
<1> QED BY <1>13, <1>14

-----------------------------------------------------------------------------
(* Gaps.                                                                   *)

\* The first and the last transaction that intervals apart from each other cover.
LEMMA Bounds ==
  ASSUME NEW ivs \in Seq(Interval), Apart(ivs)
  PROVE  /\ ivs = <<>> <=> Covered(ivs) = {}
         /\ Covered(ivs) \in SUBSET Nat
         /\ ivs # <<>> => /\ Min(Covered(ivs)) = ivs[1][1] /\ Max(Covered(ivs)) = ivs[Len(ivs)][2]
                          /\ ivs[Len(ivs)][2] \in Covered(ivs)
<1>1. PICK n \in Nat : n = Len(ivs)
  OBVIOUS
<1>2. PICK C : C = Covered(ivs)
  OBVIOUS
<1>3. /\ DOMAIN ivs = 1..n
      /\ \A i \in 1..n : ivs[i][1] \in Nat /\ ivs[i][2] \in Nat /\ ivs[i][1] <= ivs[i][2]
  BY <1>1 DEF Interval
<1>4. \A x : x \in C <=> \E i \in 1..n : x \in ivs[i][1]..ivs[i][2]
  BY <1>2, <1>3, InCovered DEF Spanned
<1>5. \A i, j \in 1..n : i < j => ivs[i][2] + 1 < ivs[j][1]
  BY <1>3 DEF Apart
<1>6. C \in SUBSET Nat
  BY <1>3, <1>4
<1>7. ivs = <<>> => C = {}
  BY <1>1, <1>4
<1>8. ASSUME ivs # <<>>
      PROVE  /\ Min(C) = ivs[1][1] /\ Max(C) = ivs[n][2] /\ ivs[n][2] \in C
  <2>1. n \in 1..n /\ 1 \in 1..n
    BY <1>1, <1>8
  <2>2. PICK a \in Nat, b \in Nat : a = ivs[1][1] /\ b = ivs[n][2]
    BY <1>3, <2>1
  <2>3. a \in C /\ b \in C
    BY <1>3, <1>4, <2>1, <2>2
  <2>4. ASSUME NEW i \in 1..n PROVE a <= ivs[i][1] /\ ivs[i][2] <= b
    <3>1. i # 1 => ivs[1][2] + 1 < ivs[i][1]
      BY <1>5, <2>1
    <3>2. i # n => ivs[i][2] + 1 < ivs[n][1]
      BY <1>5, <2>1
    <3>3. i # 1 => a <= ivs[i][1]
      BY <1>3, <2>1, <2>2, <3>1
    <3>4. i # n => ivs[i][2] <= b
      BY <1>3, <2>1, <2>2, <3>2
    <3> QED BY <1>3, <2>2, <3>3, <3>4
  <2>5. ASSUME NEW x \in C PROVE a <= x /\ x <= b
    <3>1. PICK i \in 1..n : x \in ivs[i][1]..ivs[i][2]
      BY <1>4
    <3>2. ivs[i][1] \in Nat /\ ivs[i][2] \in Nat /\ a <= ivs[i][1] /\ ivs[i][2] <= b
      BY <1>3, <2>4
    <3> QED BY <3>1, <3>2
  <2>6. Min(C) = a
    <3>1. PICK m : m = Min(C)
      OBVIOUS
    <3>2. m \in C /\ \A y \in C : m <= y
      BY <2>3, <2>5, <3>1 DEF Min
    <3>3. m \in Nat /\ m <= a /\ a <= m
      BY <1>6, <2>3, <2>5, <3>2
    <3> QED BY <3>1, <3>3
  <2>7. Max(C) = b
    <3>1. PICK m : m = Max(C)
      OBVIOUS
    <3>2. \E y \in C : \A z \in C : y >= z
      BY <1>6, <2>3, <2>5
    <3>3. m \in C /\ \A y \in C : m >= y
      BY <3>1, <3>2 DEF Max
    <3>4. m \in Nat /\ m >= b /\ m <= b
      BY <1>6, <2>3, <2>5, <3>3
    <3> QED BY <3>1, <3>4
  <2> QED BY <2>2, <2>3, <2>6, <2>7
<1> QED BY <1>1, <1>2, <1>6, <1>7, <1>8

\* More than one interval is a transaction missing in between.
LEMMA HoleIsGap ==
  ASSUME NEW ivs \in Seq(Interval), Apart(ivs), NEW C, C = Covered(ivs)
  PROVE  Len(ivs) > 1 <=> C # {} /\ \E x \in Min(C)..Max(C) : x \notin C
<1>1. PICK n \in Nat : n = Len(ivs)
  OBVIOUS
<1>2. /\ DOMAIN ivs = 1..n
      /\ \A i \in 1..n : ivs[i][1] \in Nat /\ ivs[i][2] \in Nat /\ ivs[i][1] <= ivs[i][2]
  BY <1>1 DEF Interval
<1>3. \A x : x \in C <=> \E i \in 1..n : x \in ivs[i][1]..ivs[i][2]
  BY <1>2, InCovered DEF Spanned
<1>4. \A i, j \in 1..n : i < j => ivs[i][2] + 1 < ivs[j][1]
  BY <1>2 DEF Apart
<1>5. n # 0 => C # {} /\ Min(C) = ivs[1][1] /\ Max(C) = ivs[n][2]
  BY <1>1, Bounds
<1>6. ASSUME n > 1 PROVE C # {} /\ \E x \in Min(C)..Max(C) : x \notin C
  <2>1. 1 \in 1..n /\ n \in 1..n /\ 1 < n
    BY <1>6
  <2>2. PICK x \in Nat : x = ivs[1][2] + 1
    BY <1>2, <2>1
  <2>3. x \in Min(C)..Max(C)
    <3>1. ivs[1][2] + 1 < ivs[n][1]
      BY <1>4, <2>1
    <3> QED BY <1>2, <1>5, <2>1, <2>2, <3>1
  <2>4. ASSUME NEW i \in 1..n PROVE x \notin ivs[i][1]..ivs[i][2]
    <3>1. CASE i = 1
      BY <1>2, <2>1, <2>2, <3>1
    <3>2. CASE i # 1
      <4>1. ivs[1][2] + 1 < ivs[i][1]
        BY <1>4, <2>1, <3>2
      <4> QED BY <1>2, <2>2, <4>1
    <3> QED BY <3>1, <3>2
  <2> QED BY <1>3, <1>5, <2>1, <2>3, <2>4
<1>7. ASSUME n = 1 PROVE \A x \in Min(C)..Max(C) : x \in C
  BY <1>2, <1>3, <1>5, <1>7
<1>8. n = 0 => C = {}
  BY <1>3
<1> QED BY <1>1, <1>6, <1>7, <1>8

\* Subtracting one interval from ranges.
LEMMA UncoveredExact ==
  ASSUME NEW ranges \in SUBSET Interval, NEW c \in Interval, NEW x
  PROVE  (\E r \in Uncovered(ranges, c) : x \in Spanned(r))
           <=> (\E r \in ranges : x \in Spanned(r)) /\ x \notin Spanned(c)
<1> DEFINE Parts(r) == IF c[2] < r[1] \/ c[1] > r[2] THEN {r}
                       ELSE (IF c[1] > r[1] THEN {<<r[1], c[1] - 1>>} ELSE {})
                            \cup (IF c[2] < r[2] THEN {<<c[2] + 1, r[2]>>} ELSE {})
<1>1. Uncovered(ranges, c) = UNION {Parts(r) : r \in ranges}
  BY DEF Uncovered
<1>2. c[1] \in Nat /\ c[2] \in Nat /\ c[1] <= c[2]
  BY DEF Interval
<1>3. ASSUME NEW r \in ranges
      PROVE  (\E p \in Parts(r) : x \in Spanned(p)) <=> x \in Spanned(r) /\ x \notin Spanned(c)
  <2>1. r[1] \in Nat /\ r[2] \in Nat /\ r[1] <= r[2]
    BY DEF Interval
  <2>2. CASE c[2] < r[1] \/ c[1] > r[2]
    <3>1. x \in Spanned(r) => x \notin Spanned(c)
      BY <1>2, <2>1, <2>2 DEF Spanned
    <3>2. Parts(r) = {r}
      BY <2>2
    <3> QED BY <3>1, <3>2
  <2>3. CASE ~(c[2] < r[1] \/ c[1] > r[2])
    <3> DEFINE low == <<r[1], c[1] - 1>>
               high == <<c[2] + 1, r[2]>>
    <3>1. Parts(r) = (IF c[1] > r[1] THEN {low} ELSE {}) \cup (IF c[2] < r[2] THEN {high} ELSE {})
      BY <2>3
    <3>2. /\ x \in Spanned(low) <=> x \in r[1]..(c[1] - 1)
          /\ x \in Spanned(high) <=> x \in (c[2] + 1)..r[2]
      BY DEF Spanned
    <3> HIDE DEF low, high, Parts
    <3>3. (\E p \in Parts(r) : x \in Spanned(p)) <=>
            (c[1] > r[1] /\ x \in Spanned(low)) \/ (c[2] < r[2] /\ x \in Spanned(high))
      BY <3>1
    <3>4. (c[1] > r[1] /\ x \in r[1]..(c[1] - 1)) \/ (c[2] < r[2] /\ x \in (c[2] + 1)..r[2])
            <=> x \in r[1]..r[2] /\ x \notin c[1]..c[2]
      BY <1>2, <2>1, <2>3
    <3> QED BY <3>2, <3>3, <3>4 DEF Spanned
  <2> QED BY <2>2, <2>3
<1> HIDE DEF Parts
<1> QED BY <1>1, <1>3

\* Subtracting intervals from a range leaves exactly what they do not cover
\* (subtractRange).
THEOREM SubtractRangeExact ==
  ASSUME NEW range \in Interval, NEW covers \in Seq(Interval), NEW x
  PROVE  (\E r \in SubtractRange(range, covers) : x \in Spanned(r))
           <=> x \in Spanned(range) /\ x \notin Covered(covers)
<1>1. PICK g \in [0..Len(covers) -> SUBSET Interval] :
           /\ g[0] = {range} /\ g[Len(covers)] = FoldLeft(Uncovered, {range}, covers)
           /\ \A n \in 1..Len(covers) : g[n] = Uncovered(g[n - 1], covers[n])
  BY UncoveredFold
<1>2. PICK N \in Nat : N = Len(covers)
  OBVIOUS
<1>3. DOMAIN covers = 1..N /\ \A n \in 1..N : covers[n] \in Interval
  BY <1>2
<1>4. \A n \in 0..N : g[n] \in SUBSET Interval
  BY <1>1, <1>2
<1> DEFINE Leaves(n) == (\E r \in g[n] : x \in Spanned(r))
                          <=> x \in Spanned(range) /\ \A m \in 1..n : x \notin Spanned(covers[m])
           S == {n \in 0..N : Leaves(n)}
<1>5. 0 \in S
  <2>1. 1..0 = {} /\ \A r : r \in g[0] <=> r = range
    BY <1>1
  <2>2. Leaves(0)
    BY <2>1
  <2> HIDE DEF Leaves
  <2> QED BY <2>2
<1>6. ASSUME NEW n \in 1..N, n - 1 \in S PROVE n \in S
  <2>1. /\ g[n] = Uncovered(g[n - 1], covers[n]) /\ g[n - 1] \in SUBSET Interval
        /\ covers[n] \in Interval /\ n \in 0..N /\ 1..n = (1..(n - 1)) \cup {n}
    BY <1>1, <1>2, <1>3, <1>4
  <2>2. Leaves(n - 1)
    BY <1>6
  <2>3. PICK R : R = g[n - 1]
    OBVIOUS
  <2>4. PICK c : c = covers[n]
    OBVIOUS
  <2>5. (\E r \in g[n] : x \in Spanned(r)) <=> (\E r \in R : x \in Spanned(r)) /\ x \notin Spanned(c)
    BY <2>1, <2>3, <2>4, UncoveredExact
  <2>6. (\A m \in 1..n : x \notin Spanned(covers[m]))
          <=> (\A m \in 1..(n - 1) : x \notin Spanned(covers[m])) /\ x \notin Spanned(c)
    BY <2>1, <2>4
  <2>7. Leaves(n)
    BY <2>2, <2>3, <2>5, <2>6
  <2> HIDE DEF Leaves
  <2> QED BY <2>1, <2>7
<1>7. \A n \in 0..N : n \in S
  <2> HIDE DEF S
  <2> QED BY <1>2, <1>5, <1>6, UpTo
<1>8. Leaves(N)
  <2> HIDE DEF Leaves
  <2> QED BY <1>2, <1>7
<1>9. SubtractRange(range, covers) = {r \in g[N] : r[1] <= r[2]}
  BY <1>1, <1>2 DEF SubtractRange
<1>10. SubtractRange(range, covers) = g[N]
  BY <1>2, <1>4, <1>9 DEF Interval
<1>11. x \in Covered(covers) <=> \E m \in 1..N : x \in Spanned(covers[m])
  BY <1>3, InCovered
<1> QED BY <1>8, <1>10, <1>11

\* A range that an update says is missing: part of what the source executed up to
\* the watermark.
MissingPart(m, k, executed, own, watermark) ==
  \E i \in DOMAIN executed : \E hi \in {watermark, executed[i][2]} :
    /\ hi = (IF executed[i][2] < watermark THEN executed[i][2] ELSE watermark)
    /\ ~(executed[i][1] > hi)
    /\ \E r \in SubtractRange(<<executed[i][1], hi>>, own) : m = [key |-> k, first |-> r[1], last |-> r[2]]

LEMMA MissingParts ==
  ASSUME NEW set, NEW source \in [Keys -> Seq(Interval)], NEW k \in Keys, NEW m
  PROVE  m \in MissingBelowWatermark(set, source) /\ m.key = k <=>
           Has(source, k) /\ Has(set, k) /\ MissingPart(m, k, source[k], set[k], HighWatermark(set, k))
<1> DEFINE Hi(l, i) == IF source[l][i][2] < HighWatermark(set, l) THEN source[l][i][2]
                       ELSE HighWatermark(set, l)
           Left(l, i) == IF source[l][i][1] > Hi(l, i) THEN {}
                         ELSE SubtractRange(<<source[l][i][1], Hi(l, i)>>, set[l])
           Messages(l, i) == {[key |-> l, first |-> r[1], last |-> r[2]] : r \in Left(l, i)}
           Known == {l \in DOMAIN source : Has(source, l) /\ Has(set, l)}
<1>1. MissingBelowWatermark(set, source) =
        UNION {UNION {Messages(l, i) : i \in DOMAIN source[l]} : l \in Known}
  BY DEF MissingBelowWatermark
<1>2. \A l, i : Messages(l, i) = {[key |-> l, first |-> r[1], last |-> r[2]] : r \in Left(l, i)}
  OBVIOUS
<1>3. \A l, i : \A a \in Messages(l, i) : a.key = l
  OBVIOUS
<1>4. Known = {l \in Keys : Has(source, l) /\ Has(set, l)}
  OBVIOUS
<1> HIDE DEF Messages, Known
<1>5. m \in MissingBelowWatermark(set, source) /\ m.key = k
        <=> \E i \in DOMAIN source[k] : k \in Known /\ m \in Messages(k, i)
  BY <1>1, <1>3
<1>6. ASSUME NEW i
      PROVE  m \in Messages(k, i) <=>
               ~(source[k][i][1] > Hi(k, i)) /\
               \E r \in SubtractRange(<<source[k][i][1], Hi(k, i)>>, set[k]) :
                 m = [key |-> k, first |-> r[1], last |-> r[2]]
  BY DEF Messages
<1>7. k \in Known <=> Has(source, k) /\ Has(set, k)
  BY <1>4
<1>8. \A i : Hi(k, i) \in {HighWatermark(set, k), source[k][i][2]}
  OBVIOUS
<1> QED BY <1>5, <1>6, <1>7, <1>8 DEF MissingPart

\* What is said to be missing is what the source executed below the watermark and
\* was not consumed.
LEMMA MissingExact ==
  ASSUME NEW set \in [Keys -> Seq(Interval)], NEW source \in [Keys -> Seq(Interval)],
         NEW k \in Keys, Apart(set[k]), NEW x
  PROVE  x \in NumbersOf(k, MissingBelowWatermark(set, source))
           <=> /\ x \in Covered(source[k]) /\ x \notin Covered(set[k])
               /\ Covered(set[k]) # {} /\ x < Max(Covered(set[k]))
<1>0. PICK C : C = Covered(set[k])
  OBVIOUS
<1>1. PICK M : M = MissingBelowWatermark(set, source)
  OBVIOUS
<1>2. PICK ivs \in Seq(Interval) : ivs = source[k]
  OBVIOUS
<1>3. PICK own \in Seq(Interval) : own = set[k]
  OBVIOUS
<1>4. PICK w : w = HighWatermark(set, k)
  OBVIOUS
<1>5. C \in SUBSET Nat /\ (Has(set, k) <=> C # {}) /\ (Has(set, k) => w = Max(C) /\ w \in C)
  BY <1>0, <1>3, <1>4, Bounds DEF Has, HighWatermark, Last
<1>6. \A i \in DOMAIN ivs : ivs[i][1] \in Nat /\ ivs[i][2] \in Nat /\ ivs[i][1] <= ivs[i][2]
  BY <1>2 DEF Interval
<1>7. x \in Covered(ivs) <=> \E i \in DOMAIN ivs : x \in ivs[i][1]..ivs[i][2]
  BY InCovered DEF Spanned
<1>8. x \in NumbersOf(k, M)
        <=> \E m \in M : m.key = k /\ x \in m.first..m.last
  BY DEF NumbersOf
<1> DEFINE Cut(i, hi) == hi = (IF ivs[i][2] < w THEN ivs[i][2] ELSE w)
<1>9. ASSUME NEW m
      PROVE  m \in M /\ m.key = k <=> Has(source, k) /\ Has(set, k) /\ MissingPart(m, k, ivs, own, w)
  BY <1>1, <1>2, <1>3, <1>4, MissingParts
<1>10. ASSUME NEW i \in DOMAIN ivs, NEW hi \in Nat, ivs[i][1] <= hi
       PROVE  (\E r \in SubtractRange(<<ivs[i][1], hi>>, own) : x \in r[1]..r[2])
                <=> x \in ivs[i][1]..hi /\ x \notin C
  <2>1. PICK range : range = <<ivs[i][1], hi>>
    OBVIOUS
  <2>2. range \in Interval /\ range[1] = ivs[i][1] /\ range[2] = hi
    BY <1>6, <1>10, <2>1 DEF Interval
  <2>3. (\E r \in SubtractRange(range, own) : x \in Spanned(r))
          <=> x \in Spanned(range) /\ x \notin Covered(own)
    BY <2>2, SubtractRangeExact
  <2> QED BY <1>0, <1>3, <2>1, <2>2, <2>3 DEF Spanned
<1>11. ASSUME NEW m \in M, m.key = k, x \in m.first..m.last
       PROVE  x \in Covered(ivs) /\ x \notin C /\ C # {} /\ x < Max(C)
  <2>1. Has(set, k) /\ MissingPart(m, k, ivs, own, w)
    BY <1>9, <1>11
  <2> DEFINE Part(i, hi) ==
               /\ Cut(i, hi) /\ ~(ivs[i][1] > hi)
               /\ \E r \in SubtractRange(<<ivs[i][1], hi>>, own) : m = [key |-> k, first |-> r[1], last |-> r[2]]
  <2>2. PICK i \in DOMAIN ivs : \E hi \in {w, ivs[i][2]} : Part(i, hi)
    BY <2>1 DEF MissingPart
  <2>3. PICK hi : Part(i, hi)
    BY <2>2
  <2>4. Has(set, k) /\ Part(i, hi)
    BY <2>1, <2>3
  <2>5. PICK r \in SubtractRange(<<ivs[i][1], hi>>, own) : m = [key |-> k, first |-> r[1], last |-> r[2]]
    BY <2>4
  <2>6. w \in Nat /\ w = Max(C) /\ w \in C /\ C # {}
    BY <1>5, <2>4
  <2>7. hi \in Nat /\ ivs[i][1] <= hi /\ hi <= ivs[i][2] /\ hi <= w
    BY <1>6, <2>4, <2>6
  <2>8. x \in r[1]..r[2]
    BY <1>11, <2>5
  <2>9. x \in ivs[i][1]..hi /\ x \notin C
    BY <1>10, <2>5, <2>7, <2>8
  <2>10. x \in ivs[i][1]..ivs[i][2] /\ x <= w /\ x # w
    BY <1>6, <2>6, <2>7, <2>9
  <2>11. x < w
    BY <1>6, <2>6, <2>7, <2>9, <2>10
  <2> QED BY <1>7, <2>6, <2>9, <2>10, <2>11
<1>12. ASSUME x \in Covered(ivs), x \notin C, C # {}, x < Max(C)
       PROVE  \E m \in M : m.key = k /\ x \in m.first..m.last
  <2>1. PICK i \in DOMAIN ivs : x \in ivs[i][1]..ivs[i][2]
    BY <1>7, <1>12
  <2>2. Has(set, k) /\ w \in Nat /\ w = Max(C)
    BY <1>5, <1>12
  <2>3. Has(source, k)
    BY <1>2, <2>1 DEF Has
  <2>4. PICK hi \in Nat : Cut(i, hi) /\ hi \in {w, ivs[i][2]}
    BY <1>6, <2>2
  <2>5. x \in ivs[i][1]..hi /\ ivs[i][1] <= hi
    BY <1>6, <1>12, <2>1, <2>2, <2>4
  <2>6. PICK r \in SubtractRange(<<ivs[i][1], hi>>, own) : x \in r[1]..r[2]
    BY <1>10, <1>12, <2>5
  <2>7. PICK m : m = [key |-> k, first |-> r[1], last |-> r[2]]
    OBVIOUS
  <2>8. m \in M /\ m.key = k
    <3>1. ~(ivs[i][1] > hi)
      BY <1>6, <2>5
    <3>2. MissingPart(m, k, ivs, own, w)
      BY <2>4, <2>6, <2>7, <3>1 DEF MissingPart
    <3> QED BY <1>9, <2>2, <2>3, <3>2
  <2>9. x \in m.first..m.last
    BY <2>6, <2>7
  <2> QED BY <2>8, <2>9
<1> QED BY <1>0, <1>1, <1>2, <1>8, <1>11, <1>12

-----------------------------------------------------------------------------
(* The watcher: the inductive invariant.                                   *)

GtidTypes == consumed \in [Keys -> Seq(Interval)] /\ seen \in [Keys -> SUBSET Nat]

\* The last update was made of the transactions consumed so far.
UpdateCurrent ==
  update # Unknown =>
    /\ update.executed \in Executed
    /\ update.gap = Gap(consumed, update.executed)
    /\ Signatures(update.gap) \subseteq alarmed

GapIInv == GtidTypes /\ IntervalsExact /\ UpdateCurrent

LEMMA NothingConsumed ==
  ASSUME consumed = NoGtids, seen = [k \in Keys |-> {}]
  PROVE  GtidTypes /\ IntervalsExact
<1>1. GtidTypes
  BY DEF GtidTypes, NoGtids
<1>2. \A k \in Keys : consumed[k] = <<>> /\ seen[k] = {}
  BY DEF NoGtids
<1>3. Covered(<<>>) = {} /\ Apart(<<>>)
  BY DEF Covered, Apart
<1> QED BY <1>1, <1>2, <1>3 DEF IntervalsExact

LEMMA GapInitially == CompletenessInit => GapIInv
BY NothingConsumed DEF CompletenessInit, GapIInv, UpdateCurrent

LEMMA BuiltCurrent ==
  ASSUME NEW executed \in Executed, NEW activity, NEW event,
         BuildUpdate(consumed', executed, activity, event)
  PROVE  UpdateCurrent'
BY DEF BuildUpdate, UpdateCurrent

\* An event adds its transactions, and the update is made of the result.
LEMMA ReadEventKeeps ==
  ASSUME GapIInv, NEW token \in Tokens, NEW executed \in Executed, ReadEvent(token, executed)
  PROVE  GapIInv'
<1>1. /\ consumed' = Consumed(token)
      /\ seen' = IF token = Unknown THEN seen
                 ELSE [seen EXCEPT ![token.source] = @ \cup Numbers(token)]
      /\ BuildUpdate(consumed', executed, 0, 0)
  BY DEF ReadEvent
<1>2. UpdateCurrent'
  BY <1>1, BuiltCurrent
<1>3. GtidTypes' /\ IntervalsExact'
  <2>1. CASE token = Unknown
    BY <1>1, <2>1 DEF GapIInv, GtidTypes, IntervalsExact, Consumed
  <2>2. CASE token # Unknown
    <3>1. WellFormed(token) /\ token.source \in Keys
      BY <2>2, CompletenessAssumption DEF WellFormed
    <3>2. /\ consumed \in [Keys -> Seq(Interval)] /\ seen \in [Keys -> SUBSET Nat]
          /\ \A k \in Keys : Covered(consumed[k]) = seen[k] /\ Apart(consumed[k])
      BY DEF GapIInv, GtidTypes, IntervalsExact
    <3>3. consumed' = AddToken(consumed, Engine, token)
      BY <1>1, <2>2 DEF Consumed
    <3>4. /\ consumed' \in [Keys -> Seq(Interval)]
          /\ \A k \in Keys :
               /\ Covered(consumed'[k]) =
                    Covered(consumed[k]) \cup (IF token.source = k THEN Numbers(token) ELSE {})
               /\ Apart(consumed[k]) => Apart(consumed'[k])
      BY <3>1, <3>2, <3>3, AddTokenExact
    <3>5. Numbers(token) \in SUBSET Nat
      <4>1. PICK ivs \in Seq(Interval) : Numbers(token) = Covered(ivs)
        BY <3>1, TokenTyped
      <4>2. \A i \in DOMAIN ivs : ivs[i][1] \in Nat /\ ivs[i][2] \in Nat
        BY DEF Interval
      <4>3. ASSUME NEW x \in Covered(ivs) PROVE x \in Nat
        <5>1. PICK i \in DOMAIN ivs : x \in ivs[i][1]..ivs[i][2]
          BY InCovered DEF Spanned
        <5> QED BY <4>2, <5>1
      <4> QED BY <4>1, <4>3
    <3>6. /\ seen' \in [Keys -> SUBSET Nat]
          /\ \A k \in Keys : seen'[k] = seen[k] \cup (IF token.source = k THEN Numbers(token) ELSE {})
      BY <1>1, <2>2, <3>1, <3>2, <3>5
    <3> QED BY <3>2, <3>4, <3>6 DEF GtidTypes, IntervalsExact
  <2> QED BY <2>1, <2>2
<1> QED BY <1>2, <1>3 DEF GapIInv

LEMMA GapKept == GapIInv /\ [CompletenessNext]_gvars => GapIInv'
<1> SUFFICES ASSUME GapIInv, [CompletenessNext]_gvars PROVE GapIInv'
  OBVIOUS
<1>1. ASSUME NEW token \in Tokens, NEW e \in Executed, ReadEvent(token, e) PROVE GapIInv'
  BY <1>1, ReadEventKeeps
<1>2. ASSUME NEW e \in Executed, ReadNothing(e) PROVE GapIInv'
  <2>1. consumed' = consumed /\ seen' = seen /\ BuildUpdate(consumed', e, sinceActivity, sinceEvent)
    BY <1>2 DEF ReadNothing
  <2>2. UpdateCurrent'
    BY <2>1, BuiltCurrent
  <2> QED BY <2>1, <2>2 DEF GapIInv, GtidTypes, IntervalsExact
<1>3. CASE Restart
  <2>1. consumed' = NoGtids /\ seen' = [k \in Keys |-> {}] /\ update' = Unknown
    BY <1>3 DEF Restart
  <2>2. GtidTypes' /\ IntervalsExact'
    <3>1. \A k \in Keys : consumed'[k] = <<>> /\ seen'[k] = {}
      BY <2>1 DEF NoGtids
    <3>2. Covered(<<>>) = {} /\ Apart(<<>>)
      BY DEF Covered, Apart
    <3>3. GtidTypes'
      BY <2>1 DEF GtidTypes, NoGtids
    <3> QED BY <3>1, <3>2, <3>3 DEF IntervalsExact
  <2> QED BY <2>1, <2>2 DEF GapIInv, UpdateCurrent
<1>4. CASE ReadHeartbeat \/ ReadFails \/ Tick \/ UNCHANGED gvars
  <2>1. UNCHANGED <<consumed, seen, update, alarmed>>
    BY <1>4 DEF ReadHeartbeat, ReadFails, Tick, gvars
  <2> QED BY <2>1 DEF GapIInv, GtidTypes, IntervalsExact, UpdateCurrent
<1> QED BY <1>1, <1>2, <1>3, <1>4 DEF CompletenessNext

\* What the last update says follows from what the intervals are.
LEMMA GapsAreReported == GapIInv => GapsReported
<1> SUFFICES ASSUME GapIInv, update # Unknown
             PROVE  /\ update.gap.internal = {k \in Keys : Hole(k)}
                    /\ \A k \in Keys :
                         NumbersOf(k, update.gap.missing)
                           = {n \in SourceNumbers(k, update.executed) \ seen[k] :
                                seen[k] # {} /\ n < Max(seen[k])}
                    /\ Signatures(update.gap) \subseteq alarmed
  BY DEF GapIInv, GapsReported
<1>1. /\ consumed \in [Keys -> Seq(Interval)]
      /\ \A k \in Keys : Covered(consumed[k]) = seen[k] /\ Apart(consumed[k])
  BY DEF GapIInv, GtidTypes, IntervalsExact
<1>2. PICK e \in Executed : e = update.executed
  BY DEF GapIInv, UpdateCurrent
<1>3. update.gap = Gap(consumed, e) /\ Signatures(update.gap) \subseteq alarmed
  BY <1>2 DEF GapIInv, UpdateCurrent
<1>4. update.gap.internal = {k \in Keys : Hole(k)}
  <2>1. ASSUME NEW k \in Keys PROVE Len(consumed[k]) > 1 <=> Hole(k)
    <3>1. PICK ivs \in Seq(Interval) : ivs = consumed[k]
      BY <1>1
    <3>2. PICK C : C = seen[k]
      OBVIOUS
    <3>3. Apart(ivs) /\ C = Covered(ivs)
      BY <1>1, <3>1, <3>2
    <3>4. Len(ivs) > 1 <=> C # {} /\ \E x \in Min(C)..Max(C) : x \notin C
      BY <3>3, HoleIsGap
    <3> QED BY <3>1, <3>2, <3>4 DEF Hole
  <2>2. update.gap.internal = {k \in Keys : Len(consumed[k]) > 1}
    BY <1>1, <1>3 DEF Gap, InternalGapKeys
  <2> QED BY <2>1, <2>2
<1>5. ASSUME NEW k \in Keys
      PROVE  NumbersOf(k, update.gap.missing)
               = {n \in SourceNumbers(k, e) \ seen[k] : seen[k] # {} /\ n < Max(seen[k])}
  <2>1. CASE e = Unknown
    <3>1. update.gap.missing = {}
      BY <1>3, <2>1 DEF Gap
    <3>2. SourceNumbers(k, e) = {}
      BY <2>1 DEF SourceNumbers
    <3> QED BY <3>1, <3>2 DEF NumbersOf
  <2>2. CASE e # Unknown
    <3>1. e \in Seq(ToSet(e)) /\ \A t \in ToSet(e) : WellFormed(t)
      BY <2>2, CompletenessAssumption
    <3>2. PICK source : source = ParseSet(NoGtids, Engine, e)
      OBVIOUS
    <3>3. source \in [Keys -> Seq(Interval)] /\ Covered(source[k]) = SourceNumbers(k, e)
      BY <2>2, <3>1, <3>2, ParseSetExact
    <3>4. update.gap.missing = MissingBelowWatermark(consumed, source)
      BY <1>3, <2>2, <3>2 DEF Gap
    <3>5. PICK C : C = seen[k]
      OBVIOUS
    <3>6. PICK set : set = consumed
      OBVIOUS
    <3>7. set \in [Keys -> Seq(Interval)] /\ Apart(set[k]) /\ C = Covered(set[k])
      BY <1>1, <3>5, <3>6
    <3>8. ASSUME NEW x
          PROVE  x \in NumbersOf(k, MissingBelowWatermark(set, source))
                   <=> x \in Covered(source[k]) /\ x \notin C /\ C # {} /\ x < Max(C)
      <4>1. PICK covered : covered = Covered(set[k])
        OBVIOUS
      <4>2. x \in NumbersOf(k, MissingBelowWatermark(set, source))
              <=> x \in Covered(source[k]) /\ x \notin covered /\ covered # {} /\ x < Max(covered)
        BY <3>3, <3>7, <4>1, MissingExact
      <4> QED BY <3>7, <4>1, <4>2
    <3> QED BY <3>3, <3>4, <3>5, <3>6, <3>8
  <2> QED BY <2>1, <2>2
<1> QED BY <1>2, <1>3, <1>4, <1>5

\* GapsReported, for any sources, any tokens and ranges, in any order, with any
\* restarts: no transaction below the watermark is hidden and none is invented
\* (computeGap, missingBelowWatermark).
THEOREM GapsAlwaysReported == CompletenessSpec => []GapsReported
<1>1. GapIInv /\ [CompletenessNext]_gvars => GapIInv'
  BY GapKept
<1> QED BY GapInitially, <1>1, GapsAreReported, PTL DEF CompletenessSpec
=============================================================================
