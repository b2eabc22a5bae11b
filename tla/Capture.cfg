\* Two streams and each process restarts once; offset commits and emits fail.
\* 1 is a snapshot read whose key has no canonical form, 2 and 3 are a
\* transaction over both tables, the mapper refuses 4.
SPECIFICATION Spec
CONSTANTS
  Entries = {1, 2, 3, 4, 5}
  StreamKeys <- TwoStreams
  StreamOf <- StreamOfTwo
  Ignored = {}
  PhaseOf <- Phased
  TxOf <- Paired
  Unmappable = {4}
  Unidentifiable = {1}
  Unbuildable = {}
  Count = 2
  ReadCount = 2
  Faults = {"commit_fails", "emit_fails"}
  MaxRestarts = 1
  MaxIncarnations = 1
  None = None
INVARIANTS NoSilentGap SnapshotBounded LossesNamed EmittedOnce RowsChained
CHECK_DEADLOCK FALSE
