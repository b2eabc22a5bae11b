\* Two databases on the shared stream and one restart over the WORM an earlier
\* process left, every fault and a malformed event.
SPECIFICATION Spec
CONSTANTS
  Dbs = {d1, d2}
  OwnDb = d1
  Cces = {1, 2, 3, 4, 5}
  DbOf <- TwoDbs
  Malformed = {5}
  Unverifiable = {}
  Unlistable = {}
  Invalid = {}
  MaxEvents = 2
  Sweeps = {"sweep"}
  Faults = {"put_lost", "put_ambiguous", "stat_fails", "sign_throws", "anchor_unavailable", "stop"}
  MaxRestarts = 1
  None = None
INVARIANTS ChainLinked ManifestBacked SealedOnce
PROPERTIES ImplementsLog
CHECK_DEADLOCK FALSE
