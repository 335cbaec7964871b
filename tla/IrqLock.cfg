SPECIFICATION Spec
CONSTANTS
  Cores = {c1, c2}
  MaxNest = 2
INVARIANTS
  TypeOK
  MutualExclusion
  NoSelfDeadlock
PROPERTIES
  RestoresUnlessOvertaken
  Released
