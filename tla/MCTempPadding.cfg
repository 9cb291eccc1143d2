\* A word before a block: the extents of split slots are not where the slots are.
CONSTANTS
  ScalarSize = 1
  BlockSizes = {2, 4}
  Alignment = 2
  Keeps = {0, 1, 2, 3}
  SeqDepth = 1
  LateSaves = FALSE
  MaxObjects = 3
  MaxScopes = 4
  MaxOpened = 5
  MaxTogether = 99
SPECIFICATION Spec
INVARIANT AddressFinds
\* There are only so many scopes.
CHECK_DEADLOCK FALSE
