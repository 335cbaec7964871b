SPECIFICATION Spec
CONSTANTS
  Cores = {c1}
  BootCore = c1
  HHDM = 6144
  WORD = 8192
  MASK = 64
  Fanout = 16
  Depth = 3
  PAGE_SIZE = 4
  MemMap <- Memory
  Sections <- HigherHalf
  Stale = 6
  OwnPages = {16}
  DevicePages = {17}
  Devices = {20}
  Flags <- Writable
  MaxOwned = 1
  None = none
INVARIANT
  Cr3IsPhysical
