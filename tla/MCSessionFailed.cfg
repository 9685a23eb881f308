SPECIFICATION InspectionSpec
CONSTANTS
  LengthBits = 1
  ShortAddrBits = 1
  DynAddrBits = 4
  MinRepeatingBytes = 2
  MaxInputSize = 4
  UserDict <- DictText
  Chunks <- AllChunks
  Calls = {"Revert", "RevertAgain", "Reset", "ConsiderBypassing", "Compress"}
  Alphabet = {97, 255}
  ChunkLengths = {0, 1, 2}
INVARIANT ResetRecovers
