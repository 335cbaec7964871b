SPECIFICATION RSpec
CONSTANTS
  Vectors = {2, 3, 14, 30, 33}
  MaxNest = 1
INVARIANTS
  KernelReportIsComplete
