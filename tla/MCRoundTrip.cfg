SPECIFICATION Spec
CONSTANTS
  LengthBits = 2
  ShortAddrBits = 1
  DynAddrBits = 4
  MinRepeatingBytes = 3
  MaxInputSize = 5
  UserDict <- DictText
  Chunks <- AllChunks
  Alphabet = {97, 98, 255}
  ChunkLengths = {1, 2, 5}
INVARIANTS
  TypeOK
  PhrasesSound
  DecodesPrefix
  DecodesAll
  CacheCoherent
  ExpansionBounded
PROPERTY CallsReturn
