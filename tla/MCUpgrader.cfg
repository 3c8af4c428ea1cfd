CONSTANTS
  Miners = {1, 2, 3, 4}
  typeOf <- TwoAntminers
  StepSize = 3
  Slots = 1
  limit = 1
  PollLimit = 0
SPECIFICATION FairSpec
INVARIANT UInv
PROPERTIES AntminerGate UpgradesEnd
