SPECIFICATION Spec
CONSTANTS
  Null = Null
  Chats = {c1, c2, c3}
  Posts = {}
  Clients = {p1}
  AutonomyEnabled = FALSE
  CompletionRefreshPolls = 0
  StepBudget = 1
  MaxFaults = 2
SYMMETRY Symmetric
INVARIANTS
  SessionTracksLatestTurn
  LastJobIsNewest
  AnsweredIsPromoted
PROPERTIES
  StaleOnlyIfOvertaken
