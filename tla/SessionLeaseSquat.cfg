SPECIFICATION Spec
CONSTANTS
  h1 = h1
  h2 = h2
  none = none
  released = released
  erased = erased
  Holders <- MCHolders
  NoHolder = none
  Released = released
  Erased = erased
  MaxToken = 3
  MaxWrite = 1
INVARIANT NeverSquats
CHECK_DEADLOCK FALSE
