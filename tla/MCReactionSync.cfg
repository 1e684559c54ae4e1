SPECIFICATION Spec
CONSTANTS
  Pollers = {p1}
  Others = {a}
  Self = me
  EmotionTable <- MCTable
  EventIDs = {1, 2, 3}
  MaxChanges = 3
  MaxQueue = 3
  MaxCrashes = 1
INVARIANT RoomIsRows
PROPERTIES OnlyStalePagesUndo RowsFollowTeams RoomFollowsTeams QuietWhenEmpty
CHECK_DEADLOCK FALSE
