SPECIFICATION Spec
CONSTANTS
  LengthBits = 1
  ShortAddrBits = 1
  DynAddrBits = 3
  MinRepeatingBytes = 3
  MaxInputSize = 5
  UserDict <- DictText
  Streams <- AllStreams
  Literals = {97, 0}
  MaxPhrases = 3
INVARIANT AcceptsMeaning
