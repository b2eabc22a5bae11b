\* Five transactions of one source and one of another, in any order; five
\* configurations and three states of the audit feeds under overlapping samples;
\* two heads over five instants.
SPECIFICATION MonitorsSpec
CONSTANTS
  Engine = "mysql"
  SourceEngine = "mysql"
  Keys = {"a", "b"}
  Tokens <- SomeTokens
  Executed <- SomeExecuted
  StallTimeout = 1
  IdleThreshold = 0
  Configs <- SomeConfigs
  Feeds <- OneFeedAtMost
  MinRetention = 2
  MaxQueue = 3
  Heads = {"g", "h"}
  MaxEvents = 2
  MaxInterval = 2
  MaxWindow = 1
  Horizon = 5
  Unknown = Unknown
  Unread = Unread
  Unset = Unset
INVARIANTS GapsReported ClaimsAreTrue NoHeadForgotten
PROPERTIES DowngradeNoticed
CHECK_DEADLOCK FALSE
