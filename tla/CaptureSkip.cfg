\* One stream with a heartbeat; a publish to the bus may fail.
SPECIFICATION Spec
CONSTANTS
  Entries = {1, 2, 3, 4}
  StreamKeys <- OneStream
  StreamOf <- StreamOfOne
  Ignored = {4}
  PhaseOf <- Streaming
  TxOf <- Paired
  Unmappable = {}
  Unidentifiable = {}
  Unbuildable = {}
  Count = 100
  ReadCount = 100
  Faults = {"publish_fails"}
  MaxRestarts = 0
  MaxIncarnations = 0
  None = None
INVARIANTS NoSilentGap
CHECK_DEADLOCK FALSE
