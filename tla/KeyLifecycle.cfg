\* Keys are rotated twice and revoked, in the past or the future, while a segment
\* is sealed, exported and verified; nothing is altered.
SPECIFICATION Spec
CONSTANTS
  Planes = {"signing", "export"}
  Keys = {"k1", "k2", "k3"}
  Ed25519 = {"k1", "k2", "k3"}
  Times <- Instants
  Custodians = {"a", "b"}
  FirstKey <- First
  MaxRotations = 2
  None = None
  OffsetOf <- Streamed
  Gapped = {}
  Events = 1
  MaxEvents = 1
  MaxSegments = 1
  MaxDamage = 0
INVARIANTS ActiveKeyUsable TrustFollowsRegistry
PROPERTIES NothingInvalidated PassLasts
CHECK_DEADLOCK FALSE
