CONSTANTS
  Users = {u1, u2}
  NoUser = NoUser
  Filters = {100, 250, 5000}
  Least = 100
  Meters <- MCMeters
  MaxClicks = 3
  MaxSignIns = 2
SPECIFICATION Spec
INVARIANT UserIsSession
PROPERTY ListIsAnswer
CHECK_DEADLOCK FALSE
