SPECIFICATION MCSpec
CONSTANTS
  a = a
  b = b
  m = m
  co = co
  mw = mw
  t1 = t1
  t2 = t2
  o = o
  key = key
  nil = nil
  Nil = nil
  Ref <- MCRef
  State <- MCState
  Universe <- MCUniverse
  Coroutine = {co}
  TableOf <- MCTableOf
  Value <- MCValue
  TypeOf <- MCTypeOf
  Numeral = {}
  CFunction = {}
  ConstUd = {}
  Plain = {key}
  Arg <- MCArg
  Pulls = {"string"}
  Taken <- MCTaken
  Slot = {1, 2, 3}
  MaxStack = 1
INVARIANT RefInv
PROPERTY NoOtherFollows
PROPERTY StacksRestored
PROPERTY WritesItsTable
CHECK_DEADLOCK FALSE
SYMMETRY Symmetric
VIEW MCView
