\* Temporaries that the code loses sight of: a statement expression whose value
\* is in a temporary that its address does not tell.  With SeqDepth = 0 and
\* Keeps = {0, 1}: the value of a call (KEEP is 1), passed on in the same way;
\* with SeqDepth = 0, Keeps = {3} and LateSaves = TRUE: a SAVE_EXPR behind an
\* inner block.
CONSTANTS
  ScalarSize = 2
  BlockSizes = {3}
  Alignment = 2
  Keeps = {0}
  SeqDepth = 1
  LateSaves = FALSE
  MaxObjects = 2
  MaxScopes = 4
  MaxOpened = 5
  MaxTogether = 7
SPECIFICATION Spec
INVARIANT AllKept
\* There are only so many scopes.
CHECK_DEADLOCK FALSE
