CONSTANTS
  Atoms = {"null", "1"}
  Bytes <- MCBytes
  PrintedValues <- MCPrintedValues
  GivenTexts <- MCGivenTexts
  BufferSizes = {0, 1, 2, 3, 4, 5, 6, 7, 8, 9, 10, 12, 14, 16, 18, 20, 24}
  IntMax = 30
  NestingLimit = 2
SPECIFICATION Spec
INVARIANTS TypeOK WritesFit SpareByteSuffices RoundTrip ParsesTheGrammar NothingLeaked
CHECK_DEADLOCK FALSE
