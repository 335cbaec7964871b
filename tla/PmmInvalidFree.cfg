SPECIFICATION Spec
CONSTANTS
  PAGE_SIZE = 2
  WORD = 64
  HHDM = 2
  MaxAddr = 11
  MemMaps <- MCMemMaps
  Counts = {1}
  Garbage = {0, 4}
INVARIANTS
  InvalidPanicIsForInvalidMemory
