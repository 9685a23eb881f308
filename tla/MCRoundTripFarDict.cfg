SPECIFICATION Spec
CONSTANTS
  LengthBits = 2
  ShortAddrBits = 1
  DynAddrBits = 3
  MinRepeatingBytes = 3
  MaxInputSize = 5
  UserDict <- DictText
  Chunks <- AllChunks
  Alphabet = {97, 98, 255}
  ChunkLengths = {1, 2, 5}
INVARIANT DecodesPrefix
