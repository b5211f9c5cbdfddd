SPECIFICATION Spec
CONSTANTS
  Null = Null
  Absent = Absent
  Resources = {x, y}
  CompletionRefreshPolls = 1
  MaxTurns = 3
  MaxLost = 4
INVARIANTS
  TypeOK
  PolledIsAwaited
  PendingIsPolled
  OverlapOnlyAfterLoss
  OtherSessionsFailed
PROPERTIES
  NeverGivesUpEarly
  NoSilentSwitch
  EveryTurnSettles
CHECK_DEADLOCK FALSE
