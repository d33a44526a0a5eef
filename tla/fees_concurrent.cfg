SPECIFICATION FairSpec
CONSTANTS
  r1 = r1
  Request = {r1, r2, r3}
  Founder = founder
  NoRule = NoRule
  OtherName = {"Odd", "Flat"}
  InitialTables <- Empty
  Job <- ConcurrentJobs
  Unit = 10
  Discipline = "none"
INVARIANTS FeeWithinRule LargerPaysNoLess StandardAsDescribed
PROPERTIES CacheCatchesUp
