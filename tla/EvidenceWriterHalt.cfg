\* Nothing fails but the anchor provider, and every call goes on: what a sweep
\* does that overlaps an ingest.
SPECIFICATION FairSpec
CONSTANTS
  Dbs = {d1}
  OwnDb = d1
  Cces = {1, 2, 3}
  DbOf <- OneDb
  Malformed = {}
  Unverifiable = {}
  Unlistable = {}
  Invalid = {}
  MaxEvents = 2
  Sweeps = {"sweep"}
  Faults = {"anchor_unavailable"}
  MaxRestarts = 0
  None = None
PROPERTIES EventuallySealed
CHECK_DEADLOCK FALSE
