SPECIFICATION Spec
CONSTANTS
  Vectors = {3}
  MaxNest = 1
INVARIANTS
  FieldsHoldTheirRegisters
