-------------------------------- MODULE Bits --------------------------------
(***************************************************************************)
(* The bits of a compressed file, most significant first: the header, the  *)
(* phrases as the bit writer lays them out, and how the bit reader of      *)
(* Decompress takes them apart again.                                      *)
(***************************************************************************)
EXTENDS StreamMeaning

NumBits(v, n) == [k \in 1..n |-> (v \div 2^(n-k)) % 2]

BitsNum(bits) ==
  LET num[k \in 0..Len(bits)] == IF k = 0 THEN 0 ELSE 2 * num[k - 1] + bits[k]
  IN  num[Len(bits)]

BytesBits(bytes) ==
  [k \in 1..(8 * Len(bytes)) |-> (bytes[(k + 7) \div 8] \div 2^((8 - k) % 8)) % 2]

HeaderSize == 3
Version == 1

ind(b) == IF b THEN 1 ELSE 0

\* Header.WriteTo
HeaderBits(noCompression) == NumBits(Version, 16) \o NumBits(ind(noCompression), 8)

\* TryWriteByte for a literal; the three fields of backref.writeTo.
PhraseBits(ph) ==
  IF canEncodeSymbol(ph.symbol) THEN NumBits(ph.symbol, 8)
  ELSE NumBits(ph.symbol, 8) \o NumBits(ph.length, LengthBits)
         \o NumBits(ph.address, TypeOf(ph.symbol).NbBitsAddress)

StreamBits(phrases) ==
  LET bits[n \in 0..Len(phrases)] ==
        IF n = 0 THEN <<>> ELSE bits[n - 1] \o PhraseBits(phrases[n])
  IN  bits[Len(phrases)]

\* bitio.Writer: bits go out in whole bytes, and what is left of the last byte
\* stays in the cache until Align fills it up with zeros.
NbWhole(bits) == 8 * (Len(bits) \div 8)
WholeBytes(bits) == SubSeq(bits, 1, NbWhole(bits))
Rest(bits) == SubSeq(bits, NbWhole(bits) + 1, Len(bits))

\* Mutants: a full last byte counts as an empty one; the bits in use are counted.
AlignSkipsEight(bits) == 8 - (Len(bits) % 8)
AlignSkipsUsed(bits) == Len(bits) % 8

AlignSkips(bits) == (8 - (Len(bits) % 8)) % 8
Aligned(bits) == bits \o [k \in 1..AlignSkips(bits) |-> 0]

\* The file ends inside a reference: readFrom returns an error.
EndsInRef == [symbol |-> -1, length |-> 0, address |-> 0]

Field(bits, p, n) == BitsNum(SubSeq(bits, p + 1, p + n))

\* What is read as it is: the bytes that the bits make.
BytesOf(bits) ==
  [k \in 1..(Len(bits) \div 8) |-> BitsNum(SubSeq(bits, 8 * k - 7, 8 * k))]

\* The loop of Decompress, as far as it reads: a byte while there is one, and
\* behind a delimiter the fields of a reference.
ReadPhrases(bits) ==
  LET read[p \in 0..Len(bits)] ==
        LET symbol == Field(bits, p, 8)
            size == TypeOf(symbol).NbBitsBackRef
        IN  IF p + 8 > Len(bits) THEN <<>>
            ELSE IF canEncodeSymbol(symbol) THEN <<Literal(symbol)>> \o read[p + 8]
            ELSE IF p + size > Len(bits) THEN <<EndsInRef>>
            ELSE <<[symbol  |-> symbol,
                    length  |-> Field(bits, p + 8, LengthBits),
                    address |-> Field(bits, p + 8 + LengthBits, TypeOf(symbol).NbBitsAddress)]>>
                 \o read[p + size]
  IN  read[0]

\* Header.ReadFrom takes the header: it is there, and its flag is 0 or 1 (indInv).
HeaderFlag(file) == Field(file, 16, 8)
HeaderIsRead(file) == Len(file) >= 8 * HeaderSize /\ HeaderFlag(file) \in {0, 1}

\* Decompress returns data for the file, without an error: the header is read and has
\* this version, and what follows is data itself, or phrases that are accepted and
\* mean data.
DecompressesTo(file, data) ==
  LET body == SubSeq(file, 8 * HeaderSize + 1, Len(file))
      phrases == ReadPhrases(body)
  IN  /\ HeaderIsRead(file) /\ Field(file, 0, 16) = Version
      /\ HeaderFlag(file) = 1 => body = BytesBits(data)
      /\ HeaderFlag(file) = 0 =>
           /\ \A n \in DOMAIN phrases : phrases[n] # EndsInRef
           /\ Accepted(phrases) /\ Output(Meaning(phrases)) = data
=============================================================================
