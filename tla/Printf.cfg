SPECIFICATION Spec
CONSTANTS
  Symbol <- MCSymbol
  Formats <- MCFormats
  ArgLists <- MCArgLists
  SHORT = 16
  INT = 64
  LONG = 256
  NoText = NoText
INVARIANTS
  TypeOK
  ReturnsTheCount
PROPERTIES
  NumbersReadBack
  CallReturns
