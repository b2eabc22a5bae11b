\* Two alterations of the evidence in hand; a change event captured with a gap
\* and two that share the offset of a snapshot; the keys stay as they are.
SPECIFICATION Spec
CONSTANTS
  Planes = {"signing", "export"}
  Keys = {"k1", "k2"}
  Ed25519 = {"k1", "k2"}
  Times = {0}
  Custodians = {"a"}
  FirstKey <- First
  MaxRotations = 2
  None = None
  OffsetOf <- Snapshot
  Gapped = {4}
  Events = 4
  MaxEvents = 2
  MaxSegments = 3
  MaxDamage = 2
INVARIANTS PassIsGenuine GenuinePasses LocatesAlteration VerifierCasesHold
CHECK_DEADLOCK FALSE
