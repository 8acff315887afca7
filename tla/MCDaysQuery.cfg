\* The filter of a user's history against a count of days.
CONSTANTS
  StartDates <- MCStartDates
  Spans = {1, 13, 14, 17}
  MaxSpans = 2
  MaxRows = 2
  InvalidDates <- MCInvalidDates
  MaxQueries = 2
SPECIFICATION Spec
INVARIANTS TypeOK HistoryExact
CHECK_DEADLOCK FALSE
