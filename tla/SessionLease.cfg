SPECIFICATION Spec
CONSTANTS
  h1 = h1
  h2 = h2
  none = none
  released = released
  erased = erased
  Holders <- MCHolders
  NoHolder = none
  Released = released
  Erased = erased
  MaxToken = 4
  MaxWrite = 2
INVARIANTS WriterSeesAll
PROPERTIES LeaseKept ImplementsCustody
CHECK_DEADLOCK FALSE
