-------------------------------- MODULE Lzss --------------------------------
(***************************************************************************)
(* The constants and pure functions of package lzss that the compressor    *)
(* and the decompressor share: the reserved symbols, the dictionary, the   *)
(* two kinds of back reference, and the search for a back reference.       *)
(*                                                                         *)
(* Indexes are those of the Go code, counted from 0; At converts them to   *)
(* TLA+ sequences, which count from 1.                                     *)
(***************************************************************************)
EXTENDS Integers, Sequences

CONSTANTS
  LengthBits,         \* maxBackrefLenLog2, 8 in the code
  ShortAddrBits,      \* shortAddrBits, 14 in the code
  DynAddrBits,        \* the bound in NewDynamicBackrefType, 21 in the code
  MinRepeatingBytes,  \* minRepeatingBytes in write, 160 in the code
  MaxInputSize,       \* 2^22 in the code
  UserDict            \* the dictionary NewCompressor and Decompress are given

Byte == 0..255
SymbolShort == 254
SymbolDynamic == 255

ASSUME BitsAssumption == {LengthBits, ShortAddrBits, DynAddrBits} \subseteq Nat

\* What powers of two are.  (The arithmetic of the provers stops at exponentiation;
\* TLC evaluates this fact.)
ASSUME PowerAssumption ==
  /\ 2^0 = 1
  /\ \A n \in 0..(16 + LengthBits + ShortAddrBits + DynAddrBits) :
       2^n \in Nat \ {0} /\ 2^(n+1) = 2 * 2^n

\* The first byte of a run may have to be written on its own, and what is left
\* of the run is then written as a back reference, which cannot be empty.
ASSUME RunAssumption == MinRepeatingBytes \in Nat /\ MinRepeatingBytes >= 2

ASSUME SizeAssumption == MaxInputSize \in Nat

ASSUME DictAssumption == UserDict \in Seq(Byte)

At(s, k) == s[k + 1]

canEncodeSymbol(b) == b # SymbolDynamic /\ b # SymbolShort

-----------------------------------------------------------------------------
(* The dictionary. *)

\* Both reserved symbols are appended unless both are there already.
AugmentDict(dict) ==
  IF \A b \in {SymbolShort, SymbolDynamic} : \E k \in DOMAIN dict : dict[k] = b
  THEN dict
  ELSE dict \o <<SymbolShort, SymbolDynamic>>

dictData == AugmentDict(UserDict)
dictLen == Len(dictData)

\* NewCompressor scans the dictionary until it has met both reserved symbols.
ScannedUpTo(p) ==
  /\ p \in DOMAIN dictData
  /\ \A b \in {SymbolShort, SymbolDynamic} : \E k \in 1..p : dictData[k] = b
  /\ ~ \A b \in {SymbolShort, SymbolDynamic} : \E k \in 1..(p-1) : dictData[k] = b

\* dictReservedIdx[b]: the last place of b in the scanned part.
IsReservedIdx(b, idx) ==
  \E p \in DOMAIN dictData :
    /\ ScannedUpTo(p)
    /\ idx \in 0..(p-1)
    /\ At(dictData, idx) = b
    /\ \A k \in (idx+1)..(p-1) : At(dictData, k) # b

-----------------------------------------------------------------------------
(* The two types of back reference. *)

maxLength == 2^LengthBits

\* Mutant: the bits of the delimiter are not counted.
newBackRefTypeNoDelimiter(symbol, nbBitsAddress, nbDict) ==
  [Delimiter      |-> symbol,
   NbBitsAddress  |-> nbBitsAddress,
   NbBitsBackRef  |-> nbBitsAddress + LengthBits,
   nbBytesBackRef |-> (nbBitsAddress + LengthBits + 7) \div 8,
   maxAddress     |-> 2^nbBitsAddress,
   DictLen        |-> nbDict]

newBackRefType(symbol, nbBitsAddress, nbDict) ==
  [Delimiter      |-> symbol,
   NbBitsAddress  |-> nbBitsAddress,
   NbBitsBackRef  |-> 8 + nbBitsAddress + LengthBits,
   nbBytesBackRef |-> (8 + nbBitsAddress + LengthBits + 7) \div 8,
   maxAddress     |-> 2^nbBitsAddress,
   DictLen        |-> nbDict]

NewShortBackrefType == newBackRefType(SymbolShort, ShortAddrBits, 0)
NewDynamicBackrefType == newBackRefType(SymbolDynamic, DynAddrBits, dictLen)

BackrefTypes == {NewShortBackrefType, NewDynamicBackrefType}

\* The type that a delimiter announces.
TypeOf(symbol) == IF symbol = SymbolShort THEN NewShortBackrefType ELSE NewDynamicBackrefType

Backref == [bType : BackrefTypes, address : Int, length : Int]

backref(bType, m) == [bType |-> bType, address |-> m.address, length |-> m.length]

MinInt == -1073741824

savings(b) == IF b.length = -1 THEN MinInt
                               ELSE 8 * b.length - b.bType.NbBitsBackRef

-----------------------------------------------------------------------------
(* The search for a back reference. *)

NoMatch == [address |-> -1, length |-> -1]

\* The n bytes of d from index i on are also in text, from index a on.
Occurs(d, i, n, text, a) ==
  /\ a + n <= Len(text)
  /\ \A k \in 0..(n-1) : At(text, a + k) = At(d, i + k)

Matches(d, i, text, lo, hi, from, to) ==
  {m \in [address : from..(to-1), length : lo..hi] : Occurs(d, i, m.length, text, m.address)}

\* suffixarray.Index.LookupLongest: a longest match of at least lo and at most
\* hi bytes that starts in [from, to).  Which of several longest ones it is
\* depends on the order of the suffixes; here it may be any.
LookupLongest(d, i, text, lo, hi, from, to) ==
  LET found == Matches(d, i, text, lo, hi, from, to)
  IN  IF found = {} THEN {NoMatch}
      ELSE {m \in found : \A o \in found : o.length <= m.length}

\* The dictionary is searched, by dynamic references only, when the input holds
\* no match of the full length.
findBackRef(d, i, bType, minLen) ==
  LET minLength == IF minLen = -1 THEN bType.nbBytesBackRef ELSE minLen
      longest == IF i + maxLength > Len(d) THEN Len(d) - i ELSE maxLength
      windowStart == IF i > bType.maxAddress THEN i - bType.maxAddress ELSE 0
      inData == {[m EXCEPT !.address = @ + bType.DictLen] :
                   m \in LookupLongest(d, i, d, minLength, longest, windowStart, i)}
      inDict == LookupLongest(d, i, dictData, minLength, longest, 0, dictLen)
  IN  IF minLength > longest THEN {NoMatch}
      ELSE IF bType.Delimiter = SymbolShort THEN inData
      ELSE {m \in inData : m.length = longest \/ \A e \in inDict : e.length <= m.length}
           \cup {e \in inDict : \A m \in inData : m.length < longest /\ e.length > m.length}

\* What bestBackref computes at an index that is not in its cache.
BestAt(d, at) ==
  LET minLen == IF canEncodeSymbol(At(d, at)) THEN -1 ELSE 1
      shorts == {backref(NewShortBackrefType, m) :
                   m \in findBackRef(d, at, NewShortBackrefType, minLen)}
      dynamics == {backref(NewDynamicBackrefType, m) :
                     m \in findBackRef(d, at, NewDynamicBackrefType, minLen)}
  IN  {s \in shorts : s.length # -1 /\ \A y \in dynamics : savings(s) > savings(y)}
      \cup {y \in dynamics : \E s \in shorts : s.length = -1 \/ savings(s) <= savings(y)}
=============================================================================
