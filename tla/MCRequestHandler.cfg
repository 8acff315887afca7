\* Any client that sends up to three messages.
CONSTANTS
  Kinds = {"report", "query", "wrong"}
  MaxMessages = 3
  BufferLen = 4
  AnswerLen = 3
  Room = 2
  AllowSplit = TRUE
  AllowClose = TRUE
SPECIFICATION FairSpec
INVARIANTS TypeOK OneReportPerMessage AnswersWhole
PROPERTY TaskEnds
CHECK_DEADLOCK FALSE
