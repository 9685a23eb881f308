------------------------------- MODULE Phrases -------------------------------
(***************************************************************************)
(* The phrases of a compressed stream (README, "Compressed file format"):  *)
(* a phrase is the byte it starts with and, for a back reference, the two  *)
(* numbers written after it, each reduced to the width of its field.  The  *)
(* stream is what write produces and Decompress reads.                     *)
(***************************************************************************)
EXTENDS Lzss

VARIABLES
  stream,  \* the phrases after the header
  pc       \* the call the client is in: "idle", "write", "decompress" or "info"

Phrase == [symbol : Byte, length : Nat, address : Nat]

\* w.TryWriteByte(b); the two numbers mean nothing for a literal.
Literal(b) == [symbol |-> b, length |-> 0, address |-> 0]

\* Mutant: the length is not stored less one.
writeToFullLength(b, i) ==
  [symbol  |-> b.bType.Delimiter,
   length  |-> b.length % maxLength,
   address |-> (i + b.bType.DictLen - b.address - 1) % b.bType.maxAddress]

\* backref.writeTo(w, i)
writeTo(b, i) ==
  [symbol  |-> b.bType.Delimiter,
   length  |-> (b.length - 1) % maxLength,
   address |-> (i + b.bType.DictLen - b.address - 1) % b.bType.maxAddress]

-----------------------------------------------------------------------------
\* In an input of n bytes, the offset of every reference to the dictionary fits
\* the address field of a dynamic reference.  The code does not ensure this.
InReach(n) == n + dictLen <= 2^DynAddrBits + 1

\* A literal has no fields, and each field of a reference has room for its number.
Fits(ph) ==
  IF canEncodeSymbol(ph.symbol) THEN ph = Literal(ph.symbol)
  ELSE ph.length < maxLength /\ ph.address < TypeOf(ph.symbol).maxAddress

\* Phrase ph, read when data[0:s) has been put out, is a literal, or a reference
\* to bytes of the output or of the dictionary, that adds exactly data[s:e).
LiteralOf(data, ph, s, e) ==
  canEncodeSymbol(ph.symbol) /\ e = s + 1 /\ ph.symbol = At(data, s)

CopyOf(data, ph, s, e) ==
  /\ ph.symbol \in {SymbolShort, SymbolDynamic}
  /\ ph.length + 1 = e - s
  /\ ph.address + 1 <= s
  /\ \A k \in s..(e-1) : At(data, k) = At(data, k - (ph.address + 1))

DictCopyOf(data, ph, s, e) ==
  /\ ph.symbol = SymbolDynamic
  /\ ph.length + 1 = e - s
  /\ \E a \in 0..(dictLen-1) :
       /\ ph.address + 1 = s + (dictLen - a)
       /\ Occurs(data, s, e - s, dictData, a)

StandsFor(data, ph, s, e) ==
  /\ s \in Nat /\ s < e /\ e <= Len(data)
  /\ \/ LiteralOf(data, ph, s, e)
     \/ CopyOf(data, ph, s, e)
     \/ DictCopyOf(data, ph, s, e)
=============================================================================
