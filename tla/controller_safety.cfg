SPECIFICATION Spec
CONSTANTS
  Null = Null
  Missing = Missing
  Torn = Torn
  w1 = w1
  w2 = w2
  SyncWave = SyncWave
  DocsWave = DocsWave
  Waves = {w1, w2, SyncWave, DocsWave}
  PrecedenceEnabled = TRUE
  Queues <- ShortQueues
  Candidates <- RunnableCandidates
  MaxCompactions = 2
INVARIANTS
  TypeOK
  FinalizedIsResumed
  TornMeansReview
  SequenceCountsCompactions
