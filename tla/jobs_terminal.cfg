SPECIFICATION Spec
CONSTANTS
  Null = Null
  Chats = {c1}
  Posts = {}
  Clients = {p1, p2}
  AutonomyEnabled = FALSE
  CompletionRefreshPolls = 0
  StepBudget = 1
  MaxFaults = 0
SYMMETRY Symmetric
PROPERTIES
  TerminalIsFinal
