SPECIFICATION Spec
CONSTANTS
  Vectors = {2, 3, 14, 30, 33}
  MaxNest = 2
INVARIANTS
  TypeOK
  FrameFits
  ProcessorFieldsFit
  AlignedCall
PROPERTIES
  ResumesWhatItInterrupted
