SPECIFICATION SizingSpec
CONSTANTS
  LengthBits = 1
  ShortAddrBits = 1
  DynAddrBits = 4
  MinRepeatingBytes = 2
  MaxInputSize = 3
  UserDict <- DictText
  Chunks <- MixedChunks
  Calls = {"Revert", "RevertAgain", "Reset", "ConsiderBypassing"}
  SizedInputs <- MixedInputs
  MaxSizedInput = 3
INVARIANTS
  SizeOfAFile
  SizeAgrees
