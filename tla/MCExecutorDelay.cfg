CONSTANTS
  Stages = {1, 2, 3}
  First = 1
  Unsure = {1, 2}
  Nothing = 0
  Delays = {0, 5}
  limit = 2
SPECIFICATION MCSpec
INVARIANT OriginDelayIsScripts
