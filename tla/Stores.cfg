\* One object under two writers of unequal retention and two custodians, a crash
\* and a failed stat; two failing events under two recorders, four records.
SPECIFICATION StoresSpec
CONSTANTS
  Objects = {"o"}
  Processes = {"p", "q"}
  DaysOf <- UnequalDays
  Custodians = {c, d}
  Instants = {0, 1, 2}
  MaxPuts = 2
  MaxStatFaults = 1
  MaxCrashes = 1
  Recorders = {r, s}
  Engines = {"mysql"}
  Offsets = {Nothing}
  Payloads = {x, y}
  Failures <- SomeFailures
  MaxRetries = 2
  MaxRecords = 4
  Threshold = 1
  Absent = Absent
  Nothing = Nothing
SYMMETRY Interchangeable
INVARIANTS BornLocked RetainedReadable RetriesEnd Accounted
PROPERTIES ActsAsImmutableStore
CHECK_DEADLOCK FALSE
