SPECIFICATION Spec
CONSTANTS
  PAGE_SIZE = 2
  WORD = 64
  HHDM = 2
  MaxAddr = 11
  MemMaps <- MCMemMaps
  Counts = {1, 2, 3}
  Garbage = {0, 4}
INVARIANTS
  TypeOK
  MemoryPartition
  FullyCoalesced
  Accounting
  IInv
PROPERTIES
  BestFit
  OwnedUntouched
  CallsReturn
  ImplementsPageAllocator
