\* Four events on the screen, or fewer with a car that goes on, comes back or stands.
CONSTANTS
  Road = 3
  Apart = 2
  MaxEvents = 4
  MaxSteps = 5
SPECIFICATION FairSpec
INVARIANTS TypeOK WrittenInOrder ReportsApart
PROPERTY SessionCloses
CHECK_DEADLOCK FALSE
