---------------------------- MODULE Sizing_proof ----------------------------
(***************************************************************************)
(* The answer of CompressedSize256k is the size of a file that             *)
(* decompresses to its argument, whatever the session does meanwhile.      *)
(***************************************************************************)
EXTENDS Sizing, Bits_proof

\* The lemmas on write, about the loop that only counts bits.
Loop == INSTANCE WriteLoop_proof WITH
  MaxInputSize <- MaxSizedInput,
  d <- sd, i <- si, cb <- scb, stream <- sstream, starts <- sstarts, pc <- spc

-----------------------------------------------------------------------------
(* The loop of Sizing and the one the lemmas are about are the same. *)

\* They know the same symbols, dictionary and types of reference.
LEMMA SameTypes ==
  /\ \A s, k : Sizer!At(s, k) = Loop!At(s, k)
  /\ Sizer!dictData = Loop!dictData
  /\ Sizer!maxLength = Loop!maxLength
  /\ \A b : Sizer!canEncodeSymbol(b) <=> Loop!canEncodeSymbol(b)
  /\ Sizer!NewShortBackrefType = Loop!NewShortBackrefType
  /\ Sizer!NewDynamicBackrefType = Loop!NewDynamicBackrefType
  BY ZenonT(60) DEF Sizer!At, Loop!At, Sizer!dictData, Loop!dictData, Sizer!AugmentDict,
      Loop!AugmentDict, Sizer!SymbolShort, Loop!SymbolShort, Sizer!SymbolDynamic,
      Loop!SymbolDynamic, Sizer!maxLength, Loop!maxLength, Sizer!canEncodeSymbol,
      Loop!canEncodeSymbol, Sizer!newBackRefType, Loop!newBackRefType,
      Sizer!NewShortBackrefType, Loop!NewShortBackrefType, Sizer!NewDynamicBackrefType,
      Loop!NewDynamicBackrefType, Sizer!dictLen, Loop!dictLen

\* They count the same savings.
LEMMA SameSavings == \A b : Sizer!savings(b) = Loop!savings(b)
<1>1. Sizer!MinInt = Loop!MinInt
  BY SMTT(60) DEF Sizer!MinInt, Loop!MinInt
<1> QED
  BY <1>1, ZenonT(60) DEF Sizer!savings, Loop!savings

\* They find the same matches.
LEMMA SameMatches ==
  ASSUME NEW data, NEW at, NEW bType, NEW minLen
  PROVE  Sizer!findBackRef(data, at, bType, minLen) = Loop!findBackRef(data, at, bType, minLen)
  BY ZenonT(60) DEF Sizer!At, Loop!At, Sizer!findBackRef, Loop!findBackRef,
      Sizer!LookupLongest, Loop!LookupLongest, Sizer!Matches, Loop!Matches, Sizer!Occurs,
      Loop!Occurs, Sizer!maxLength, Loop!maxLength, Sizer!NoMatch, Loop!NoMatch,
      Sizer!dictData, Loop!dictData, Sizer!dictLen, Loop!dictLen, Sizer!AugmentDict,
      Loop!AugmentDict, Sizer!SymbolShort, Loop!SymbolShort, Sizer!SymbolDynamic,
      Loop!SymbolDynamic

\* They choose the same references.
LEMMA SameBest ==
  ASSUME NEW data, NEW at
  PROVE  Sizer!BestAt(data, at) = Loop!BestAt(data, at)
<1> DEFINE sLen == IF Sizer!canEncodeSymbol(Sizer!At(data, at)) THEN -1 ELSE 1
           lLen == IF Loop!canEncodeSymbol(Loop!At(data, at)) THEN -1 ELSE 1
           sShorts == {Sizer!backref(Sizer!NewShortBackrefType, m) :
                         m \in Sizer!findBackRef(data, at, Sizer!NewShortBackrefType, sLen)}
           lShorts == {Loop!backref(Loop!NewShortBackrefType, m) :
                         m \in Loop!findBackRef(data, at, Loop!NewShortBackrefType, lLen)}
           sDynamics == {Sizer!backref(Sizer!NewDynamicBackrefType, m) :
                           m \in Sizer!findBackRef(data, at, Sizer!NewDynamicBackrefType, sLen)}
           lDynamics == {Loop!backref(Loop!NewDynamicBackrefType, m) :
                           m \in Loop!findBackRef(data, at, Loop!NewDynamicBackrefType, lLen)}
<1>1. sLen = lLen
  BY SameTypes, ZenonT(60)
<1>2. sShorts = lShorts
  BY <1>1, SameTypes, SameMatches, ZenonT(60) DEF Sizer!backref, Loop!backref
<1>3. sDynamics = lDynamics
  BY <1>1, SameTypes, SameMatches, SMTT(60) DEF Sizer!backref, Loop!backref
<1>4. Sizer!BestAt(data, at) =
        {s \in sShorts : s.length # -1 /\ \A y \in sDynamics : Sizer!savings(s) > Sizer!savings(y)}
        \cup {y \in sDynamics : \E s \in sShorts :
                s.length = -1 \/ Sizer!savings(s) <= Sizer!savings(y)}
  BY ZenonT(60) DEF Sizer!BestAt
<1>5. Loop!BestAt(data, at) =
        {s \in lShorts : s.length # -1 /\ \A y \in lDynamics : Loop!savings(s) > Loop!savings(y)}
        \cup {y \in lDynamics : \E s \in lShorts :
                s.length = -1 \/ Loop!savings(s) <= Loop!savings(y)}
  BY ZenonT(60) DEF Loop!BestAt
<1> HIDE DEF sShorts, lShorts, sDynamics, lDynamics
<1> QED
  BY <1>2, <1>3, <1>4, <1>5, SameSavings, SMTT(60)

\* They use the circular buffer in the same way.
LEMMA SameBackref ==
  ASSUME NEW c, NEW at
  PROVE  Sizer!bestBackref(c, at) = Loop!bestBackref(c, at)
<1>1. Sizer!Slots = Loop!Slots
  BY ZenonT(60) DEF Sizer!Slots, Loop!Slots
<1>2. CASE \E j \in Loop!Slots : c.keys[j] = at
  BY <1>1, <1>2, SMTT(60) DEF Sizer!bestBackref, Loop!bestBackref
<1>3. CASE ~ \E j \in Loop!Slots : c.keys[j] = at
  <2>1. \A b : Sizer!push(c, b, at) = Loop!push(c, b, at)
    BY ZenonT(60) DEF Sizer!push, Loop!push
  <2>2. Sizer!BestAt(sd, at) = Loop!BestAt(sd, at)
    BY SameBest, ZenonT(60)
  <2> QED
    BY <1>1, <1>3, <2>1, <2>2, SMTT(60) DEF Sizer!bestBackref, Loop!bestBackref
<1> QED
  BY <1>2, <1>3, SMTT(60)

\* They look ahead in the same way, and write the same phrases.
LEMMA SamePhrases ==
  /\ \A c : Sizer!lookAhead1(c) = Loop!lookAhead1(c)
  /\ \A c : Sizer!lookAhead2(c) = Loop!lookAhead2(c)
  /\ \A b, at : Sizer!writeTo(b, at) = Loop!writeTo(b, at)
  /\ \A b : Sizer!Literal(b) = Loop!Literal(b)
<1>1. /\ \A c : Sizer!lookAhead1(c) = Loop!lookAhead1(c)
      /\ \A c : Sizer!lookAhead2(c) = Loop!lookAhead2(c)
  BY SameTypes, SameBackref, ZenonT(60) DEF Sizer!lookAhead1, Loop!lookAhead1, Sizer!lookAhead2,
      Loop!lookAhead2, Sizer!lookAhead, Loop!lookAhead, Sizer!backref, Loop!backref,
      Sizer!NoMatch, Loop!NoMatch
<1>2. /\ \A b, at : Sizer!writeTo(b, at) = Loop!writeTo(b, at)
      /\ \A b : Sizer!Literal(b) = Loop!Literal(b)
  BY SameTypes, ZenonT(60) DEF Sizer!writeTo, Loop!writeTo, Sizer!Literal, Loop!Literal,
      Sizer!maxLength, Loop!maxLength
<1> QED
  BY <1>1, <1>2, SMTT(60)

\* An iteration starts under the same conditions, and moves on in the same way.
LEMMA SameMoves ==
  /\ Sizer!NoLongRun <=> Loop!NoLongRun
  /\ \A count : Sizer!LongRun(count) <=> Loop!LongRun(count)
  /\ \A p, n : Sizer!Emit(p, n) <=> Loop!Emit(p, n)
  /\ \A p, n, q, m : Sizer!EmitTwo(p, n, q, m) <=> Loop!EmitTwo(p, n, q, m)
  BY SameTypes, ZenonT(60) DEF Sizer!NoLongRun, Loop!NoLongRun, Sizer!LongRun, Loop!LongRun,
      Sizer!Emit, Loop!Emit, Sizer!EmitTwo, Loop!EmitTwo, Sizer!Iteration, Loop!Iteration,
      Sizer!Count, Loop!Count, Sizer!maxLength, Loop!maxLength, Sizer!At, Loop!At

\* So an iteration that searches for a reference is one of the other loop.
LEMMA SameSearchSteps ==
  /\ Sizer!WriteReserved => Loop!WriteReserved
  /\ Sizer!WriteLiteral => Loop!WriteLiteral
  /\ Sizer!WriteLiteralBetterAt1 => Loop!WriteLiteralBetterAt1
  /\ Sizer!WriteLiteralsBetterAt2 => Loop!WriteLiteralsBetterAt2
  /\ Sizer!WriteBackref => Loop!WriteBackref
  BY SameTypes, SameSavings, SameBackref, SamePhrases, SameMoves, ZenonT(60) DEF
      Sizer!WriteReserved, Loop!WriteReserved, Sizer!WriteLiteral, Loop!WriteLiteral,
      Sizer!WriteLiteralBetterAt1, Loop!WriteLiteralBetterAt1, Sizer!WriteLiteralsBetterAt2,
      Loop!WriteLiteralsBetterAt2, Sizer!WriteBackref, Loop!WriteBackref

\* And so is one that writes a long run.
LEMMA SameRunSteps ==
  ASSUME NEW count
  PROVE  /\ Sizer!WriteRunContinued(count) => Loop!WriteRunContinued(count)
         /\ Sizer!WriteRun(count) => Loop!WriteRun(count)
<1>1. \A at, n : Sizer!RunRef(at, n) = Loop!RunRef(at, n)
  BY SameTypes, SameSavings, ZenonT(60) DEF Sizer!RunRef, Loop!RunRef, Sizer!backref,
      Loop!backref, Sizer!dictLen, Loop!dictLen
<1>2. Sizer!FirstOfRun = Loop!FirstOfRun
  BY ZenonT(60) DEF Sizer!FirstOfRun, Loop!FirstOfRun, Sizer!canEncodeSymbol,
      Loop!canEncodeSymbol, Sizer!At, Loop!At, Sizer!Literal, Loop!Literal, Sizer!writeTo,
      Loop!writeTo, Sizer!backref, Loop!backref, Sizer!NewDynamicBackrefType,
      Loop!NewDynamicBackrefType, Sizer!newBackRefType, Loop!newBackRefType, Sizer!dictLen,
      Loop!dictLen, Sizer!dictData, Loop!dictData, Sizer!AugmentDict, Loop!AugmentDict,
      Sizer!SymbolShort, Loop!SymbolShort, Sizer!SymbolDynamic, Loop!SymbolDynamic,
      Sizer!IsReservedIdx, Loop!IsReservedIdx, Sizer!ScannedUpTo, Loop!ScannedUpTo,
      Sizer!maxLength, Loop!maxLength
<1> QED
  BY <1>1, <1>2, SameTypes, SamePhrases, SameMoves, ZenonT(60) DEF Sizer!WriteRun,
      Loop!WriteRun, Sizer!WriteRunContinued, Loop!WriteRunContinued

\* The phrases of that loop are phrases of a file.
LEMMA SameChain ==
  ASSUME NEW data, NEW ss, NEW st, NEW begin, NEW end, Loop!Chain(data, ss, st, begin, end)
  PROVE  Chain(data, ss, st, begin, end)
  BY ZenonT(60) DEF Chain, Loop!Chain, Piece, Loop!Piece, Phrase, Loop!Phrase, Byte,
      Loop!Byte, Occurs, Loop!Occurs, At, Loop!At, dictData, Loop!dictData, dictLen,
      Loop!dictLen, AugmentDict, Loop!AugmentDict, SymbolShort, Loop!SymbolShort,
      SymbolDynamic, Loop!SymbolDynamic, Fits, Loop!Fits, canEncodeSymbol,
      Loop!canEncodeSymbol, Literal, Loop!Literal, maxLength, Loop!maxLength, TypeOf,
      Loop!TypeOf, NewShortBackrefType, Loop!NewShortBackrefType, NewDynamicBackrefType,
      Loop!NewDynamicBackrefType, newBackRefType, Loop!newBackRefType, LiteralOf,
      Loop!LiteralOf, CopyOf, Loop!CopyOf, DictCopyOf, Loop!DictCopyOf, StandsFor,
      Loop!StandsFor, InReach, Loop!InReach

-----------------------------------------------------------------------------
(* The invariant. *)

\* Phrases for all of the argument, and the size they take; or the size of the bypass.
Sized ==
  IF bypassSeen THEN size = HeaderSize + Len(sd)
  ELSE /\ Chain(sd, sstream, sstarts, 0, Len(sd))
       /\ size = HeaderSize + bwLen

\* The inductive invariant: it is about the call alone.
SizeInv ==
  /\ spc = "write" => ~ bypassSeen /\ Loop!WriterInv(0)
  /\ spc = "returned" /\ size > 0 => sd \in Seq(Byte) /\ Sized

\* An iteration of the loop preserves the invariant of write.
LEMMA WriteStepSized ==
  ASSUME Loop!WriterInv(0), Sizer!WriteStep, UNCHANGED spc
  PROVE  Loop!WriterInv(0)'
<1>1. Loop!Byte = Byte
  BY ZenonT(60) DEF Loop!Byte, Byte
<1>2. ASSUME NEW count \in 1..Sizer!maxLength, Sizer!WriteRunContinued(count) \/ Sizer!WriteRun(count)
      PROVE  Loop!WriterInv(0)'
  <2>1. count \in 1..Loop!maxLength /\ (Loop!WriteRunContinued(count) \/ Loop!WriteRun(count))
    BY <1>2, SameTypes, SameRunSteps, ZenonT(60)
  <2> QED
    BY <1>1, <2>1, Loop!RunSteps, ChunksAssumption, DictAssumption, SizingAssumption,
       RunAssumption, PowerAssumption, BitsAssumption, SMTT(60)
<1>3. ASSUME \/ Sizer!WriteReserved \/ Sizer!WriteLiteral \/ Sizer!WriteLiteralBetterAt1
             \/ Sizer!WriteLiteralsBetterAt2 \/ Sizer!WriteBackref
      PROVE  Loop!WriterInv(0)'
  <2>1. \/ Loop!WriteReserved \/ Loop!WriteLiteral \/ Loop!WriteLiteralBetterAt1
        \/ Loop!WriteLiteralsBetterAt2 \/ Loop!WriteBackref
    BY <1>3, SameSearchSteps, ZenonT(60)
  <2> QED
    BY <1>1, <2>1, Loop!SearchSteps, ChunksAssumption, DictAssumption, SizingAssumption,
       RunAssumption, PowerAssumption, BitsAssumption, SMTT(60)
<1>4. ~ Sizer!WriteReturns
  BY ZenonT(60) DEF Sizer!WriteReturns
<1> QED
  BY <1>2, <1>3, <1>4, ZenonT(60) DEF Sizer!WriteStep

\* The call starts the loop with nothing written, if it comes to the loop.
LEMMA SizeCallInv ==
  ASSUME NEW data \in SizedInputs, SizeCall(data)
  PROVE  SizeInv'
<1>1. data \in Seq(Byte) /\ Len(data) \in Nat
  BY SizingAssumption, LenNat, SMTT(60)
<1>2. sd' = data /\ bypassSeen' = noCompression
  BY ZenonT(60) DEF SizeCall
<1>3. CASE noCompression /\ size' = HeaderSize + Len(data) /\ spc' = "returned"
  <2>1. bypassSeen' /\ size' = HeaderSize + Len(sd') /\ sd' \in Seq(Byte)
    BY <1>1, <1>2, <1>3, ZenonT(60)
  <2> QED
    BY <1>3, <2>1, ZenonT(60) DEF SizeInv, Sized
<1>4. CASE size' = 0 /\ spc' = "returned"
  BY <1>4, SMTT(60) DEF SizeInv
<1>5. CASE ~ noCompression /\ Len(data) <= MaxSizedInput /\ spc' = "write"
  <2>1. /\ si' = 0 /\ scb' = newCircularBuffer /\ sstream' = <<>> /\ sstarts' = <<0>>
    BY ZenonT(60) DEF SizeCall
  <2>2. Loop!Chain(sd', sstream', sstarts', 0, si')
    BY <2>1, SMTT(60) DEF Loop!Chain
  <2>3. Loop!BufferOK(sd', scb')
    <3>1. Loop!NewShortBackrefType = NewShortBackrefType
      BY ZenonT(60) DEF Loop!NewShortBackrefType, NewShortBackrefType, Loop!newBackRefType, newBackRefType,
           Loop!SymbolShort, SymbolShort
    <3>2. NoBackref \in Loop!Backref
      BY <3>1, SMTT(60) DEF NoBackref, backref, Loop!Backref, Loop!BackrefTypes
    <3> QED
      BY <2>1, <3>2, SMTT(60) DEF Loop!BufferOK, newCircularBuffer, Slots, Loop!Slots
  <2>4. sd' \in Seq(Loop!Byte) /\ Len(sd') <= MaxSizedInput /\ si' \in 0..Len(sd')
    BY <1>1, <1>2, <1>5, <2>1, SMTT(60) DEF Loop!Byte, Byte
  <2>5. Loop!WriterInv(0)'
    BY <2>2, <2>3, <2>4, ZenonT(60) DEF Loop!WriterInv
  <2>6. ~ bypassSeen' /\ spc' # "returned"
    BY <1>2, <1>5, SMTT(60)
  <2> QED
    BY <2>5, <2>6, ZenonT(60) DEF SizeInv
<1> QED
  BY <1>3, <1>4, <1>5, ZenonT(60) DEF SizeCall

\* When the loop has ended, its phrases are those of all of the argument.
LEMMA SizeReturnsInv ==
  ASSUME SizeInv, SizeReturns
  PROVE  SizeInv'
<1>1. /\ spc = "write" /\ spc' = "returned" /\ si = Len(sd)
      /\ size' = HeaderSize + bwLen
      /\ sd' = sd /\ sstream' = sstream /\ sstarts' = sstarts /\ bypassSeen' = bypassSeen
  BY ZenonT(60) DEF SizeReturns
<1>2. ~ bypassSeen /\ Loop!WriterInv(0)
  BY <1>1, ZenonT(60) DEF SizeInv
<1>3. sd \in Seq(Byte) /\ Loop!Chain(sd, sstream, sstarts, 0, si)
  BY <1>2, SMTT(60) DEF Loop!WriterInv, Loop!Byte, Byte
<1>4. Chain(sd, sstream, sstarts, 0, Len(sd))
  BY <1>1, <1>3, SameChain, ZenonT(60)
<1>5. sd' \in Seq(Byte) /\ Sized'
  BY <1>1, <1>2, <1>3, <1>4, ZenonT(60) DEF Sized, bwLen
<1> QED
  BY <1>1, <1>5 DEF SizeInv

\* No step of the call breaks the invariant, and none of the session concerns it.
LEMMA SizeInvNext ==
  ASSUME SizeInv, [SizingNext]_allVars
  PROVE  SizeInv'
<1>1. ASSUME UNCHANGED sizeVars PROVE SizeInv'
  <2>1. /\ sd' = sd /\ si' = si /\ scb' = scb /\ sstream' = sstream /\ sstarts' = sstarts
        /\ spc' = spc /\ size' = size /\ bypassSeen' = bypassSeen
    BY <1>1, SMTT(60) DEF sizeVars
  <2> QED
    BY <2>1, ZenonT(60) DEF SizeInv, Sized, bwLen, Loop!WriterInv
<1>2. CASE SizeStep
  <2>1. Sizer!WriteStep /\ spc' = spc /\ size' = size /\ bypassSeen' = bypassSeen
    BY <1>2, SMTT(60) DEF SizeStep
  <2>2. spc = "write"
    BY <2>1, ZenonT(60) DEF Sizer!WriteStep, Sizer!WriteRunContinued, Sizer!WriteRun, Sizer!LongRun,
       Sizer!WriteReserved, Sizer!WriteLiteral, Sizer!WriteLiteralBetterAt1,
       Sizer!WriteLiteralsBetterAt2, Sizer!WriteBackref, Sizer!NoLongRun, Sizer!Iteration,
       Sizer!WriteReturns
  <2>3. ~ bypassSeen /\ Loop!WriterInv(0)
    BY <2>2, SMTT(60) DEF SizeInv
  <2>4. Loop!WriterInv(0)'
    BY <2>1, <2>3, WriteStepSized, ZenonT(60)
  <2> QED
    BY <2>1, <2>2, <2>3, <2>4, SMTT(60) DEF SizeInv
<1>3. CASE SizeJudged
  BY <1>3, SMTT(60) DEF SizeJudged, SizeInv
<1>4. CASE SizeReturns
  BY <1>4, SizeReturnsInv, ZenonT(60)
<1>5. CASE \E data \in SizedInputs : SizeCall(data)
  BY <1>5, SizeCallInv, ZenonT(60)
<1>6. SessionStep \/ UNCHANGED allVars => UNCHANGED sizeVars
  BY ZenonT(60) DEF SessionStep, allVars
<1> QED
  BY <1>1, <1>2, <1>3, <1>4, <1>5, <1>6, ZenonT(60) DEF SizingNext

\* The answer is the number of bytes of the file that the phrases make.
LEMMA SizedFile ==
  ASSUME SizeInv, InReach(Len(sd))
  PROVE  SizeOfAFile
<1> SUFFICES ASSUME spc = "returned", size > 0
             PROVE  LET file == IF bypassSeen THEN Bypassed(sd)
                                ELSE HeaderBits(FALSE) \o Aligned(StreamBits(sstream))
                    IN  DecompressesTo(file, sd) /\ Len(file) = 8 * size
  BY ZenonT(60) DEF SizeOfAFile
<1>1. sd \in Seq(Byte) /\ Sized
  BY ZenonT(60) DEF SizeInv
<1>2. CASE bypassSeen
  <2>1. DecompressesTo(Bypassed(sd), sd)
    BY <1>1, BypassDecompresses, ZenonT(60) DEF Bypassed
  <2>2. /\ HeaderBits(TRUE) \in Seq(Bit) /\ Len(HeaderBits(TRUE)) = 24
        /\ BytesBits(sd) \in Seq(Bit) /\ Len(BytesBits(sd)) = 8 * Len(sd) /\ Len(sd) \in Nat
    BY <1>1, HeaderBitsFacts, BytesBitsFacts, LenNat, ZenonT(60)
  <2>3. Len(Bypassed(sd)) = 24 + 8 * Len(sd)
    <3>1. PICK h, b : h = HeaderBits(TRUE) /\ b = BytesBits(sd)
      BY ZenonT(60)
    <3>2. h \in Seq(Bit) /\ b \in Seq(Bit)
      BY <2>2, <3>1, ZenonT(60)
    <3>3. Len(h \o b) = Len(h) + Len(b)
      BY <3>2, ConcatFacts, ZenonT(60)
    <3> QED
      BY <2>2, <3>1, <3>3, ZenonT(60) DEF Bypassed
  <2>4. size = 3 + Len(sd)
    BY <1>1, <1>2, ZenonT(60) DEF Sized, HeaderSize
  <2>5. Len(Bypassed(sd)) = 8 * size
    BY <2>2, <2>3, <2>4, SMTT(60)
  <2> QED
    BY <1>2, <2>1, <2>5, ZenonT(60)
<1>3. CASE ~ bypassSeen
  <2>1. Chain(sd, sstream, sstarts, 0, Len(sd)) /\ size = HeaderSize + bwLen
    BY <1>1, <1>3, SMTT(60) DEF Sized
  <2>2. PICK h, t, a : h = HeaderBits(FALSE) /\ t = StreamBits(sstream) /\ a = Aligned(t)
    BY ZenonT(60)
  <2>3. sstream \in Seq(Phrase) /\ \A k \in DOMAIN sstream : Fits(sstream[k])
    BY <2>1 DEF Chain, Piece
  <2>4. h \in Seq(Bit) /\ Len(h) = 24 /\ t \in Seq(Bit) /\ Len(t) \in Nat
    BY <2>2, <2>3, HeaderBitsFacts, StreamBitsFacts, LenNat, ZenonT(60)
  <2>5. a \in Seq(Bit) /\ Len(a) = 8 * ((Len(t) + 7) \div 8) /\ AlignSkips(t) \in 0..7
    BY <2>2, <2>4, AlignedFacts, ZenonT(60)
  <2>6. PICK pad : pad = [k \in 1..AlignSkips(t) |-> 0]
    BY ZenonT(60)
  <2>7. pad \in Seq(Bit) /\ Len(pad) < 8
    BY <2>5, <2>6, SMTT(60) DEF Bit
  <2>8. a = t \o pad
    BY <2>2, <2>6, ZenonT(60) DEF Aligned
  <2>9. MadeOf(sd, sstream, sstarts)
    BY <1>1, <2>1, ChainMadeOf, SMTT(60)
  <2>10. DecompressesTo(h \o a, sd)
    <3>1. DecompressesTo(HeaderBits(FALSE) \o (StreamBits(sstream) \o pad), sd)
      BY <1>1, <2>3, <2>7, <2>9, FileDecompresses, ZenonT(60)
    <3> QED
      BY <2>2, <2>8, <3>1, ZenonT(60)
  <2>11. Len(h \o a) = Len(h) + Len(a)
    <3>1. h \in Seq(Bit) /\ a \in Seq(Bit)
      BY <2>4, <2>5, ZenonT(60)
    <3> QED
      BY <3>1, ConcatFacts, ZenonT(60)
  <2>12. size = 3 + (Len(t) + 7) \div 8
    BY <2>1, <2>2, ZenonT(60) DEF bwLen, HeaderSize
  <2>13. Len(h \o a) = 8 * size
    BY <2>4, <2>5, <2>11, <2>12, SMTT(60)
  <2> QED
    BY <1>3, <2>2, <2>10, <2>13, ZenonT(60)
<1> QED
  BY <1>2, <1>3

\* compress.go:384-425: the answer of CompressedSize256k is the size of a file that
\* Decompress turns into the argument, if the dictionary is in the reach of its
\* references.
THEOREM SizeIsOfAFile == SizingSpec => [](InReach(Len(sd)) => SizeOfAFile)
<1>1. SizingInit => SizeInv
  BY ZenonT(60) DEF SizingInit, SizeInv
<1>2. SizeInv /\ [SizingNext]_allVars => SizeInv'
  BY SizeInvNext, ZenonT(60)
<1>3. SizeInv => (InReach(Len(sd)) => SizeOfAFile)
  BY SizedFile, ZenonT(60)
<1> QED
  BY <1>1, <1>2, <1>3, PTL, ZenonT(60) DEF SizingSpec
=============================================================================
