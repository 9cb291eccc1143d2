\* A statement expression within another one.
CONSTANTS
  ScalarSize = 2
  BlockSizes = {2}
  Alignment = 2
  Keeps = {0}
  SeqDepth = 2
  LateSaves = FALSE
  MaxObjects = 2
  MaxScopes = 6
  MaxOpened = 8
  MaxTogether = 99
SPECIFICATION Spec
INVARIANT SequencesApart
\* There are only so many scopes.
CHECK_DEADLOCK FALSE
