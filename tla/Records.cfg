\* Seventeen kinds of record at two times, three of them in any order, under
\* four contexts; a transparency log and a time-stamp authority, five requests
\* for two heads.
SPECIFICATION RecordsSpec
CONSTANTS
  Records <- MySqlRecords
  Engine = "mysql"
  KeyColumns <- Keys
  Sensitive <- SomeSensitive
  Inexact = {"float"}
  Contexts <- SomeContexts
  Window = 0
  HashBefore <- SomeHashBefore
  Instants = {1, 2}
  MaxTaken = 3
  Null = Null
  Empty = Empty
  Payloads = {"g", "h"}
  Logs = {"log"}
  Tsas = {"tsa"}
  Times = {1}
  MaxRequests = 5
  Undefined = Null
  MaxRestarts = 1
INVARIANTS IdentityExact HonestEvents ConformanceHolds ProofsSound
CHECK_DEADLOCK FALSE
