\* Room for one connection: the other client waits, or is turned away.
CONSTANTS
  Workers = {w1}
  Conns = {c1, c2}
  NoConn = NoConn
  Descriptors = {d1, d2, d3}
  listen_sd = listen_sd
  MAX_CONNECTIONS = 2
  MAX_TASK_NUM = 1
  MaxQueries = 0
  AllowPartialSend = FALSE
  AllowReset = TRUE
  AllowPollFailure = FALSE
SPECIFICATION FairSpec
PROPERTIES MainKeepsPolling EveryClientAccepted
CHECK_DEADLOCK FALSE
