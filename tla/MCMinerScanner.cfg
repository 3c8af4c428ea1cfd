CONSTANTS
  N = 4
  stepSize = 2
  MaxRounds = 3
  Top = 5
  Steps = {0, 1, 2, 3}
  MaxDrops = 2
  GroupTop = 4
  GroupSteps = {0, 1, 2}
  GroupDrops = 1
  Ends = {0, 1, 4}
  MaxRanges = 2
SPECIFICATION MCSpec
INVARIANTS PoolInv DoneMeansAll GeneratorInv GroupInv
PROPERTIES ScanTerminates ImplementsPool Exhausted
