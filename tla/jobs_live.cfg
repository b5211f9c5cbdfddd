SPECIFICATION PollingSpec
CONSTANTS
  Null = Null
  Chats = {c1}
  Posts = {j1}
  Clients = {p1, p2}
  AutonomyEnabled = TRUE
  CompletionRefreshPolls = 1
  StepBudget = 2
  MaxFaults = 2
INVARIANTS
  TypeOK
  StepsWithinBudget
PROPERTIES
  NoResurrection
  ResultReachesSession
