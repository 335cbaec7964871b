SPECIFICATION HSpec
CONSTANTS
  Cores = {c1, c2}
  MaxNest = 1
  Vectors = {v1}
  Routines = {h1, h2}
  Default = default
  None = none
INVARIANTS
  HTypeOK
  OnlyFaultsKeepTheLock
PROPERTIES
  ImplementsHandlerTable
  ReleasedUnlessPanic
