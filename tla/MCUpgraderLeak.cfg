CONSTANTS
  Miners = {1, 2}
  typeOf <- WithBos
  StepSize = 2
  Slots = 1
  limit = 1
  PollLimit = 1
SPECIFICATION FairSpec
PROPERTY WaitsOnlyWhenFull
