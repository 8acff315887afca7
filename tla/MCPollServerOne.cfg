\* One client: the promises that need an undisturbed array.
CONSTANTS
  Workers = {w1, w2}
  Conns = {c1}
  NoConn = NoConn
  Descriptors = {d1, d2}
  listen_sd = listen_sd
  MAX_CONNECTIONS = 3
  MAX_TASK_NUM = 1
  MaxQueries = 2
  AllowPartialSend = TRUE
  AllowReset = TRUE
  AllowPollFailure = TRUE
SPECIFICATION FairSpec
INVARIANTS NoConnectionLost OneWorkerPerConnection
PROPERTIES DispatchedIsReadable QueryServed
CHECK_DEADLOCK FALSE
