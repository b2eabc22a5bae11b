---------------------------- MODULE AnchorCadence ----------------------------
(***************************************************************************)
(* When to anchor (CadencePolicy) and when to raise the alarm that a head  *)
(* has waited too long (UnanchoredWindowMonitor).  Notices of sealed heads *)
(* reach the two late, more than once and in any order, and an anchoring   *)
(* cycle takes time.  Nothing under src/ drives the two: the driver here   *)
(* is the one their operations are written for.                            *)
(***************************************************************************)
EXTENDS Integers, FiniteSets, FiniteSetsExt

CONSTANTS
  Heads,
  MaxEvents, MaxInterval,   \* CadenceConfig
  MaxWindow,                \* WindowMonitorOptions.maxWindowMs
  Horizon,                  \* bound on the clock
  Unset

ASSUME CadenceAssumption ==
  /\ MaxEvents \in Nat \ {0} /\ MaxInterval \in Nat \ {0}
  /\ MaxWindow \in Nat \ {0} /\ Horizon \in Nat
  /\ Unset \notin Int /\ Unset \notin {"events", "interval"}

VARIABLES
  time,
  sealedAt,     \* [Heads -> when the head was sealed, or Unset]
  events,       \* of the policy: events towards the trigger
  lastAnchor,   \* of the policy
  pending,      \* of the monitor: [Heads -> since when the head is pending, or Unset]
  cycle,        \* heads of the anchoring cycle under way, or Unset
  anchored,     \* heads anchored
  noticed,      \* history: [Heads -> when the head was first noticed, or Unset]
  late          \* history: heads noticed after they were anchored

tvars == <<time, sealedAt, events, lastAnchor, pending, cycle, anchored, noticed, late>>

CadenceInit ==
  /\ time = 0
  /\ sealedAt = [h \in Heads |-> Unset]
  /\ events = 0
  /\ lastAnchor = 0
  /\ pending = [h \in Heads |-> Unset]
  /\ cycle = Unset
  /\ anchored = {}
  /\ noticed = [h \in Heads |-> Unset]
  /\ late = {}

-----------------------------------------------------------------------------
(* The policy and the monitor.                                             *)

DueReason ==
  IF events >= MaxEvents THEN "events"
  ELSE IF time - lastAnchor >= MaxInterval THEN "interval" ELSE Unset

Due == DueReason # Unset

\* Of two notices of one head, the older time stands.
FaultyObservePending(h, at) == [pending EXCEPT ![h] = at]
ObservePending(h, at) ==
  [pending EXCEPT ![h] = IF @ = Unset \/ at < @ THEN at ELSE @]

ObserveAnchored(heads) == [h \in Heads |-> IF h \in heads THEN Unset ELSE pending[h]]

Pending == {h \in Heads : pending[h] # Unset}

Severity(age) ==
  IF age <= MaxWindow THEN "none"
  ELSE IF age <= 2 * MaxWindow THEN "warning"
  ELSE IF age <= 4 * MaxWindow THEN "critical" ELSE "emergency"

\* check: the alarm is about the oldest pending head.
Check ==
  IF Pending = {} THEN "none" ELSE Severity(time - Min({pending[h] : h \in Pending}))

-----------------------------------------------------------------------------
(* The driver.                                                             *)

Seal(h) ==
  /\ sealedAt[h] = Unset
  /\ sealedAt' = [sealedAt EXCEPT ![h] = time]
  /\ UNCHANGED <<time, events, lastAnchor, pending, cycle, anchored, noticed, late>>

\* A notice of a sealed head, with the time it was sealed or, where the caller
\* leaves that out, the time of the notice.
Notice(h, at) ==
  /\ sealedAt[h] # Unset
  /\ events <= MaxEvents
  /\ events' = events + 1
  /\ pending' = ObservePending(h, at)
  /\ noticed' = [noticed EXCEPT ![h] = IF @ = Unset THEN time ELSE @]
  /\ late' = IF h \in anchored THEN late \cup {h} ELSE late
  /\ UNCHANGED <<time, sealedAt, lastAnchor, cycle, anchored>>

StartCycle ==
  /\ cycle = Unset
  /\ Due
  /\ cycle' = Pending
  /\ UNCHANGED <<time, sealedAt, events, lastAnchor, pending, anchored, noticed, late>>

\* markAnchored, once the heads of the cycle are anchored: what was recorded
\* meanwhile is forgotten with the rest.
EndCycle ==
  /\ cycle # Unset
  /\ cycle' = Unset
  /\ anchored' = anchored \cup cycle
  /\ pending' = ObserveAnchored(cycle)
  /\ events' = 0
  /\ lastAnchor' = time
  /\ UNCHANGED <<time, sealedAt, noticed, late>>

TimePasses ==
  /\ time < Horizon
  /\ time' = time + 1
  /\ UNCHANGED <<sealedAt, events, lastAnchor, pending, cycle, anchored, noticed, late>>

CadenceNext ==
  \/ \E h \in Heads : Seal(h) \/ Notice(h, sealedAt[h]) \/ Notice(h, time)
  \/ StartCycle \/ EndCycle \/ TimePasses

CadenceSpec == CadenceInit /\ [][CadenceNext]_tvars

-----------------------------------------------------------------------------
(* Properties.                                                             *)

Waiting == {h \in Heads : noticed[h] # Unset /\ h \notin anchored}

Rank == [none |-> 0, warning |-> 1, critical |-> 2, emergency |-> 3]

\* No head is forgotten: one that was noticed and is not anchored is pending
\* since no later than its first notice, whatever notices came again, so that
\* the alarm is at least what its wait deserves; the cadence, which forgets the
\* events recorded during a cycle, is due again for it within an interval; and
\* only a notice that came after the anchoring keeps an anchored head pending.
NoHeadForgotten ==
  /\ \A h \in Waiting :
       /\ pending[h] # Unset /\ pending[h] <= noticed[h]
       /\ Rank[Check] >= Rank[Severity(time - noticed[h])]
       /\ time - Max({noticed[h], lastAnchor}) >= MaxInterval => Due
  /\ \A h \in anchored \ late : pending[h] = Unset
=============================================================================
