SPECIFICATION Spec
CONSTANTS
  r1 = r1
  Request = {r1, r2, r3}
  Founder = founder
  NoRule = NoRule
  OtherName = {"Odd", "Flat"}
  InitialTables <- EmptyOrNot
  Job <- QuietJobs
  Unit = 10
  Discipline = "quiet"
INVARIANTS TypeOK CacheCurrent SeededOnce QuietInv
