SPECIFICATION MCSpec
CONSTANTS
  Blocks = 10
  Slots = 2
  Names = {n1, n2}
  None = none
  Records = 2
  RecordBlocks = 3
  Sizes = {2, 8, 17, 29}
  ZeroSizes = {8}
  Contents <- MCContents
SYMMETRY Symmetry
INVARIANT BlocksDisjoint
PROPERTY ImplementsSaveFiles
