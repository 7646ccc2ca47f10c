SPECIFICATION Spec
CONSTANTS
  Addr <- MCAddr
  Sizes = {1, 2, 5}
  Aligns = {1, 4}
  ALIGN = 2
  HDR = 2
  BLOCK = 4
  MaxAllocs = 4
INVARIANTS TypeOK AllocsInLiveBlocks AllocsDisjoint
