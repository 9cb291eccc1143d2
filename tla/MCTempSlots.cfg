\* Blocks of three words, which take four: two that are combined hold a third
\* and leave a rest.  No temporary is smaller than the alignment of blocks, so
\* that no slot has padding before it (see MCTempPadding.cfg); SAVE_EXPRs only
\* where no inner block has been left (MCTempLost.cfg); no nesting of statement
\* expressions (MCTempNested.cfg).
CONSTANTS
  ScalarSize = 2
  BlockSizes = {3}
  Alignment = 2
  Keeps = {0, 1, 2, 3}
  SeqDepth = 1
  LateSaves = FALSE
  MaxObjects = 3
  MaxScopes = 4
  MaxOpened = 5
  MaxTogether = 7
SPECIFICATION Spec
INVARIANTS SlotsRight NeededKept SequencesApart
\* There are only so many scopes.
CHECK_DEADLOCK FALSE
