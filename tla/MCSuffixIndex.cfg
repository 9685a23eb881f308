SPECIFICATION Spec
CONSTANTS
  LengthBits = 2
  ShortAddrBits = 1
  DynAddrBits = 4
  MinRepeatingBytes = 3
  MaxInputSize = 5
  UserDict <- NoDict
  Texts <- AllTexts
  Patterns <- AllPatterns
  Alphabet = {97, 98}
  MaxText = 4
  PatternLength = 3
  MaxEnd = 3
INVARIANTS
  IndexTypeOK
  ReturnsLongest
  SearchSound
PROPERTY LookupReturns
CHECK_DEADLOCK FALSE
