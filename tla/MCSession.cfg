SPECIFICATION InspectionSpec
CONSTANTS
  LengthBits = 1
  ShortAddrBits = 1
  DynAddrBits = 4
  MinRepeatingBytes = 2
  MaxInputSize = 3
  UserDict <- DictText
  Chunks <- AllChunks
  Calls = {"Revert", "Reset", "ConsiderBypassing", "Compress"}
  Alphabet = {97, 255}
  ChunkLengths = {0, 1, 2}
INVARIANTS
  SessionTypeOK
  BytesDecompress
  RevertPoint
  PaddingCounted
  BypassBounds
  InfoOfSession
  InfoEndsAtPadding
PROPERTIES
  UndoSpec
  CallReturns
