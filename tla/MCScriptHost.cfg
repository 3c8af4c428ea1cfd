CONSTANTS
  N = 3
  stepSize = 2
  Ips = {"a", "b"}
  ipOf <- MCIpOf
  StackLimit = 3
  MaxMemory = 3
  Classes <- MCClasses
  Bases <- MCBases
  Methods <- MCMethods
  Tags <- MCTags
  Added = {"extra"}
SPECIFICATION MCSpec
INVARIANTS  LookupIsSound
 
