SPECIFICATION Spec
CONSTANTS
  Cores = {c1, c2}
  BootCore = c1
  HHDM = 0
  WORD = 8192
  MASK = 64
  Fanout = 16
  Depth = 3
  PAGE_SIZE = 4
  MemMap <- Memory
  Sections <- HigherHalf
  Stale = 6
  OwnPages = {16}
  DevicePages = {32}
  Devices = {20}
  Flags <- Writable
  MaxOwned = 2
  None = none
INVARIANTS
  TypeOK
  TablesFormATree
  PagesHaveOneUse
  
  OwnTlbFresh
  FreedIsUnreachable
PROPERTIES
  ImplementsAddressSpace
  ReleasedUnlessPanic
