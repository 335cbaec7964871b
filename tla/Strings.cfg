SPECIFICATION Spec
CONSTANTS
  Texts <- MCTexts
  Numerals <- MCNumerals
  Buffer <- MCBuffer
  Pointers <- MCPointers
  Counts = {0, 1, 2, 3, 4}
  Ints <- MCInts
  Bases <- MCBases
  Delim = 7
  Types = {128, 512}
INVARIANTS
  TokensComeInOrder
PROPERTIES
  CopiesAreExact
  AnswersAreRight
  NumbersAreRight
