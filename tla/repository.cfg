SPECIFICATION FairSpec
CONSTANTS
  Null = Null
  Held = Held
  d1 = d1
  d2 = d2
  ra = ra
  rb = rb
  rp = rp
  Creators = {c1, c2}
  Completers = {d1, d2}
  Refreshers = {r1, r2}
  MaxJobs = 2
  Results = {ra, rb, rp}
  Offers <- SameOrDifferent
  Prepared = rp
  Refreshes = 2
  MaxFaults = 1
INVARIANTS
  TypeOK
  SameJobForAll
  SecondRowOnlyAfterCleanup
  CompletedByOne
PROPERTIES
  PreparedJobEnds
  AnsweredUnlessError
CHECK_DEADLOCK FALSE
