SPECIFICATION SizingSpec
CONSTANTS
  LengthBits = 1
  ShortAddrBits = 1
  DynAddrBits = 4
  MinRepeatingBytes = 2
  MaxInputSize = 2
  UserDict <- DictText
  Chunks <- ExpandingChunks
  Calls = {"Revert", "Reset", "ConsiderBypassing"}
  SizedInputs <- MixedInputs
  MaxSizedInput = 3
INVARIANT SizeThreadSafe
