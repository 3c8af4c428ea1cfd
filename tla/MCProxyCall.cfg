SPECIFICATION Spec
CONSTANTS
  u1 = u1
  k1 = k1
  Functions <- CallFunctions
  Signatures <- MCSignatures
  PublicMembers <- MCPublicMembers
  Blocks <- MCBlocks
  Ud <- MCUd
  ConstUd <- MCConstUd
  Values <- MCValues
  MaxArgs = 2
INVARIANTS ArgumentsInPlace ResultsAreTrue NeverUnowned ChosenConstructorRuns
