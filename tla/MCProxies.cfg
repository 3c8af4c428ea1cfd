SPECIFICATION Spec
CONSTANTS
  u1 = u1
  u2 = u2
  u3 = u3
  c1 = c1
  Class <- MCClass
  Bases <- MCBases
  Offset <- MCOffset
  Member <- MCMember
  NoDestructor = {"Base"}
  Cell <- MCCell
  Ud <- MCUd
  Programs <- MCPrograms
INVARIANTS ProxyInv OneOwner OneUserdata ConstIsKept
CHECK_DEADLOCK FALSE
SYMMETRY Symmetric
