SPECIFICATION Spec
CONSTANTS
  Cores = {c1, c2}
  MaxNest = 1
PROPERTIES
  RestoresWhatItFound
