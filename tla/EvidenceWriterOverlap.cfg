\* One database, the read loop and two overlapping sweeps, every fault of the
\* stores and providers, and an admitted event of each kind that is refused.
SPECIFICATION FairSpec
CONSTANTS
  Dbs = {d1}
  OwnDb = d1
  Cces = {1, 2, 3, 4, 5}
  DbOf <- OneDb
  Malformed = {}
  Unverifiable = {1}
  Unlistable = {3}
  Invalid = {5}
  MaxEvents = 2
  Sweeps = {"sweep1", "sweep2"}
  Faults = {"put_lost", "put_ambiguous", "stat_fails", "sign_throws", "anchor_unavailable"}
  MaxRestarts = 0
  None = None
INVARIANTS TypeOK AnchorBacked OneSealAtATime
PROPERTIES FailureHaltsChain EventuallySettled
CHECK_DEADLOCK FALSE
