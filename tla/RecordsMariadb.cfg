\* Two transactions of one MariaDB server, the ninth and the tenth, committed in
\* the same second.
SPECIFICATION EventsSpec
CONSTANTS
  Records <- MariaDbRecords
  Engine = "mariadb"
  KeyColumns <- Keys
  Sensitive <- SomeSensitive
  Inexact = {"float"}
  Contexts <- SomeContexts
  Window = 0
  HashBefore <- SomeHashBefore
  Instants = {1, 2}
  MaxTaken = 3
  Null = Null
  Empty = Empty
  Payloads = {"g", "h"}
  Logs = {"log"}
  Tsas = {"tsa"}
  Times = {1}
  MaxRequests = 5
  Undefined = Null
  MaxRestarts = 1
INVARIANT OrderFollowsCommits
CHECK_DEADLOCK FALSE
