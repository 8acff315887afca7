\* Two clients ready in the same round: the first connection is forgotten.
CONSTANTS
  Workers = {w1, w2}
  Conns = {c1, c2}
  NoConn = NoConn
  Descriptors = {d1, d2, d3}
  listen_sd = listen_sd
  MAX_CONNECTIONS = 3
  MAX_TASK_NUM = 1
  MaxQueries = 1
  AllowPartialSend = FALSE
  AllowReset = FALSE
  AllowPollFailure = FALSE
SPECIFICATION Spec
SYMMETRY Symmetry
INVARIANT NoConnectionLost
CHECK_DEADLOCK FALSE
