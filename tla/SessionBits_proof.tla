-------------------------- MODULE SessionBits_proof --------------------------
(***************************************************************************)
(* What the bits are that a Compressor puts out in a session, and that     *)
(* they decompress to what was written.                                    *)
(***************************************************************************)
EXTENDS Session_proof

\* The number of bits before the padding at the undo point.
LastBits == 8 * lastOutLen - lastNbSkippedBits

\* Whatever has been put out, up to the padding, is the code of what was written,
\* and so is what there was before the last Write.  During a Write this is so for
\* the output, the cache of the bit writer and the input it started with.
BitsInv ==
  ~ tainted =>
    /\ Idle /\ noCompression => outBuf = Bypassed(d)
    /\ Idle /\ ~ noCompression => Coded(SubSeq(outBuf, 1, Len(outBuf) - nbSkippedBits), d)
    /\ pc = "write" =>
         /\ Coded(outBuf \o cache, SubSeq(d, 1, starts[1]))
         /\ starts[1] = lastInLen /\ LastBits = Len(outBuf) + Len(cache)
    /\ Idle /\ ~ noCompression /\ lastInLen # -1 =>
         Coded(SubSeq(outBuf, 1, LastBits), SubSeq(d, 1, lastInLen))

-----------------------------------------------------------------------------
(* The steps of a session. *)

\* A file that a Write goes on from holds the code of data, or data itself.
FileHolds(file, skip, data, bypass) ==
  /\ bypass => file = Bypassed(data)
  /\ ~ bypass => Coded(SubSeq(file, 1, Len(file) - skip), data)

\* What is appended to a bypassed output is appended to the input.
LEMMA BypassedMore ==
  ASSUME NEW a \in Seq(Byte), NEW b \in Seq(Byte)
  PROVE  Bypassed(a) \o BytesBits(b) = Bypassed(a \o b)
<1> DEFINE h == HeaderBits(TRUE)
           x == BytesBits(a)
           y == BytesBits(b)
<1>1. h \in Seq(Bit) /\ x \in Seq(Bit) /\ y \in Seq(Bit)
  BY HeaderBitsFacts, BytesBitsFacts, ZenonT(60)
<1>2. BytesBits(a \o b) = x \o y
  BY BytesBitsConcat, ZenonT(60)
<1>3. Bypassed(a) = h \o x /\ Bypassed(a \o b) = h \o BytesBits(a \o b)
  BY ZenonT(60) DEF Bypassed
<1> HIDE DEF h, x, y
<1>4. (h \o x) \o y = h \o (x \o y)
  BY <1>1, ConcatAssoc, ZenonT(60)
<1> QED
  BY <1>2, <1>3, <1>4, ZenonT(60) DEF y

\* The start of a Write, when the bit writer holds nothing.
LEMMA StartBits ==
  ASSUME NEW file, NEW skip, NEW data, NEW bypass, FileOK(file, skip, data, bypass),
         FileHolds(file, skip, data, bypass), NEW chunk \in Seq(Byte), SessionTypes,
         pc = "idle", StartWrite(file, skip, data, bypass, chunk), cache = <<>>,
         ~ failed' => lastInLen' = Len(data)
  PROVE  BitsInv'
<1> DEFINE bits == <<>> \o SubSeq(file, Len(file) - 7, Len(file) - skip)
           file1 == SubSeq(file, 1, Len(file) - 8) \o WholeBytes(bits)
           rest == Rest(bits)
           tooLarge == Len(data) + Len(chunk) > MaxInputSize
<1>1. /\ file \in Seq(Bit) /\ Len(file) % 8 = 0 /\ 24 <= Len(file) /\ skip \in 0..7
      /\ data \in Seq(Byte) /\ bypass \in BOOLEAN /\ (bypass => skip = 0)
  BY ZenonT(60) DEF FileOK
<1>2. file1 \o rest = SubSeq(file, 1, Len(file) - skip) /\ (skip = 0 => file1 = file)
  BY <1>1, TakeBackBits, ZenonT(60)
<1>3. /\ lastOutLen' = Len(file) \div 8 /\ lastNbSkippedBits' = skip
      /\ noCompression' = bypass /\ cache' = rest /\ starts' = <<Len(data)>>
      /\ \/ tooLarge /\ failed' = TRUE
         \/ /\ ~ tooLarge /\ failed' = FALSE /\ d' = data \o chunk
            /\ \/ bypass /\ outBuf' = file1 \o BytesBits(chunk) /\ pc' = pc
               \/ ~ bypass /\ outBuf' = file1 /\ pc' = "write"
  BY <1>1, ZenonT(60) DEF StartWrite, outLen
<1>4. /\ outBuf' \in Seq(Bit) /\ cache' \in Seq(Bit)
      /\ ~ bypass => Len(outBuf') + Len(cache') = (Len(file) - skip) + Len(cache)
  BY StartWriteSound, ZenonT(60) DEF Started
<1> HIDE DEF bits, file1, rest, tooLarge
<1>5. CASE failed' = TRUE
  <2>1. ~ Idle'
    BY <1>5, ZenonT(60) DEF Idle
  <2>2. pc' # "write"
    BY <1>5, StartWriteSound, ZenonT(60) DEF Started
  <2> QED
    BY <2>1, <2>2, ZenonT(60) DEF BitsInv
<1>6. CASE failed' = FALSE /\ bypass
  <2>1. d' = data \o chunk /\ outBuf' = file1 \o BytesBits(chunk) /\ pc' = "idle" /\ noCompression'
    BY <1>3, <1>6, ZenonT(60)
  <2>2. file1 = file /\ file = Bypassed(data)
    BY <1>1, <1>2, <1>6, ZenonT(60) DEF FileHolds
  <2>3. outBuf' = Bypassed(data) \o BytesBits(chunk)
    BY <2>1, <2>2, ZenonT(60)
  <2>4. outBuf' = Bypassed(d')
    BY <1>1, <2>1, <2>3, BypassedMore, ZenonT(60)
  <2> QED
    BY <2>1, <2>4, ZenonT(60) DEF BitsInv
<1>7. CASE failed' = FALSE /\ ~ bypass
  <2>1. /\ d' = data \o chunk /\ outBuf' = file1 /\ pc' = "write" /\ cache' = rest
        /\ ~ noCompression' /\ lastInLen' = Len(data) /\ starts'[1] = Len(data)
    BY <1>3, <1>7, ZenonT(60)
  <2>2. SubSeq(d', 1, starts'[1]) = data
    <3>1. data \in Seq(Byte) /\ chunk \in Seq(Byte)
      BY <1>1, ZenonT(60)
    <3>2. SubSeq(data \o chunk, 1, Len(data)) = data
      BY <3>1, PrefixAll, ZenonT(60)
    <3> QED
      BY <2>1, <3>2, ZenonT(60)
  <2>3. Coded(outBuf' \o cache', SubSeq(d', 1, starts'[1]))
    <3>1. outBuf' \o cache' = SubSeq(file, 1, Len(file) - skip)
      BY <1>2, <2>1, ZenonT(60)
    <3>2. Coded(SubSeq(file, 1, Len(file) - skip), data)
      BY <1>7, ZenonT(60) DEF FileHolds
    <3> QED
      BY <2>2, <3>1, <3>2, ZenonT(60)
  <2>4. LastBits' = Len(outBuf') + Len(cache')
    <3>1. Len(cache) = 0
      BY ZenonT(60)
    <3>2. Len(outBuf') + Len(cache') = (Len(file) - skip) + 0
      BY <1>4, <1>7, <3>1, ZenonT(60)
    <3>3. LastBits' = 8 * (Len(file) \div 8) - skip
      BY <1>3, ZenonT(60) DEF LastBits
    <3>4. Len(file) \in Nat /\ skip \in Nat
      BY <1>1, SMTT(60)
    <3>5. 8 * (Len(file) \div 8) = Len(file)
      BY <1>1, <3>4, SMTT(60)
    <3> QED
      BY <3>2, <3>3, <3>4, <3>5, SMTT(60)
  <2>5. ~ Idle'
    BY <2>1, ZenonT(60) DEF Idle
  <2> QED
    BY <2>1, <2>3, <2>4, <2>5, ZenonT(60) DEF BitsInv
<1> QED
  BY <1>1, <1>3, <1>5, <1>6, <1>7, ZenonT(60)

\* Write.
LEMMA CallWriteBits ==
  ASSUME SessionInv, BitsInv, NEW chunk \in Chunks, CallWrite(chunk)
  PROVE  BitsInv'
<1>1. /\ Idle /\ StartWrite(outBuf, nbSkippedBits, d, noCompression, chunk)
      /\ lastInLen' = (IF failed' THEN lastInLen ELSE Len(d)) /\ tainted' = tainted
  BY ZenonT(60) DEF CallWrite
<1>2. SessionTypes /\ SizesInv /\ BypassInv /\ FirstWriteInv
  BY ZenonT(60) DEF SessionInv
<1>3. FileOK(outBuf, nbSkippedBits, d, noCompression)
  BY <1>1, <1>2, ZenonT(60) DEF FileOK, SessionTypes, SizesInv, BypassInv, Bit
<1>4. pc = "idle" /\ chunk \in Seq(Byte)
  BY <1>1, ChunksAssumption, ZenonT(60) DEF Idle
<1>5. CASE tainted
  BY <1>1, <1>5, ZenonT(60) DEF BitsInv
<1>6. CASE ~ tainted
  <2>1. cache = <<>>
    BY <1>1, <1>2, <1>6, ZenonT(60) DEF FirstWriteInv, Idle
  <2>2. FileHolds(outBuf, nbSkippedBits, d, noCompression)
    BY <1>1, <1>6, ZenonT(60) DEF BitsInv, FileHolds
  <2>3. ~ failed' => lastInLen' = Len(d)
    BY <1>1, ZenonT(60)
  <2> QED
    BY <1>1, <1>2, <1>3, <1>4, <2>1, <2>2, <2>3, StartBits, ZenonT(60)
<1> QED
  BY <1>5, <1>6, ZenonT(60)

\* A header alone is the code of nothing.
LEMMA HeaderHolds == FileHolds(HeaderBits(FALSE), 0, <<>>, FALSE)
<1> DEFINE h == HeaderBits(FALSE)
<1>1. h \in Seq(Bit)
  BY HeaderBitsFacts, ZenonT(60)
<1>2. Coded(h, <<>>)
  BY CodedNone, ZenonT(60)
<1> HIDE DEF h
<1>3. SubSeq(h, 1, Len(h) - 0) = h
  BY <1>1
<1>4. Coded(SubSeq(h, 1, Len(h) - 0), <<>>)
  BY <1>2, <1>3, ZenonT(60)
<1> QED
  BY <1>4, ZenonT(60) DEF FileHolds, h

\* Compress, and Revert of what was bypassed.
LEMMA FreshCallBits ==
  ASSUME SessionInv, NEW chunk \in Seq(Byte), pc = "idle",
         StartWrite(HeaderBits(FALSE), 0, <<>>, FALSE, chunk),
         lastInLen' = 0, tainted' = (cache # <<>>)
  PROVE  BitsInv'
<1>1. CASE tainted'
  BY <1>1, ZenonT(60) DEF BitsInv
<1>2. CASE ~ tainted'
  <2>1. cache = <<>>
    BY <1>2, ZenonT(60)
  <2>2. SessionTypes
    BY ZenonT(60) DEF SessionInv
  <2>3. lastInLen' = Len(<<>>)
    BY ZenonT(60)
  <2> QED
    BY <2>1, <2>2, <2>3, HeaderIsFile, HeaderHolds, StartBits, ZenonT(60)
<1> QED
  BY <1>1, <1>2, ZenonT(60)

\* Compress starts a file.
LEMMA CompressBits ==
  ASSUME SessionInv, NEW chunk \in Chunks, Compress(chunk)
  PROVE  BitsInv'
<1>1. chunk \in Seq(Byte)
  BY ChunksAssumption, ZenonT(60)
<1> QED
  BY <1>1, FreshCallBits, ZenonT(60) DEF Compress

\* Revert of a bypassed compressor starts a file.
LEMMA RevertBypassedBits ==
  ASSUME SessionInv, RevertBypassed
  PROVE  BitsInv'
<1>1. SubSeq(d, 1, lastInLen) \in Seq(Byte)
  <2>1. d \in Seq(Byte) /\ lastInLen \in -1..Len(d) /\ lastInLen # -1 /\ Len(d) \in Nat
    BY LenNat, ZenonT(60) DEF SessionInv, SessionTypes, RevertBypassed
  <2>2. lastInLen \in Nat /\ lastInLen <= Len(d)
    BY <2>1
  <2> QED
    BY <2>1, <2>2, PrefixFacts, ZenonT(60)
<1> QED
  BY <1>1, FreshCallBits, ZenonT(60) DEF RevertBypassed, MayRevert, Idle

\* Every iteration of write: nothing is put out yet.
LEMMA LoopStepBits ==
  ASSUME SessionInv, BitsInv, LoopStep
  PROVE  BitsInv'
<1>1. PICK begin : begin = starts[1]
  BY ZenonT(60)
<1>2. WriterInv(begin)
  BY <1>1, ZenonT(60) DEF SessionInv
<1>3. WriterInv(begin)'
  <2>1. CASE \E count \in 1..maxLength : WriteRunContinued(count) \/ WriteRun(count)
    BY <1>2, <2>1, RunSteps, ZenonT(60)
  <2>2. CASE WriteReserved \/ WriteLiteral \/ WriteLiteralBetterAt1
             \/ WriteLiteralsBetterAt2 \/ WriteBackref
    BY <1>2, <2>2, SearchSteps, ZenonT(60)
  <2> QED
    BY <2>1, <2>2, ZenonT(60) DEF LoopStep
<1>4. starts'[1] = starts[1]
  BY <1>1, <1>3, ZenonT(60) DEF WriterInv, Chain
<1>5. pc = "write" /\ pc' = pc /\ d' = d
  BY LoopStepStep, ZenonT(60)
<1>6. UNCHANGED <<outVars, lastVars, modeVars, historyVars>>
  BY ZenonT(60) DEF LoopStep
<1>7. /\ outBuf' = outBuf /\ cache' = cache /\ lastOutLen' = lastOutLen
      /\ lastNbSkippedBits' = lastNbSkippedBits /\ lastInLen' = lastInLen /\ tainted' = tainted
  BY <1>6, ZenonT(60) DEF outVars, lastVars, historyVars
<1>8. ~ Idle'
  BY <1>5, ZenonT(60) DEF Idle
<1>9. LastBits' = LastBits
  BY <1>7, ZenonT(60) DEF LastBits
<1> QED
  BY <1>4, <1>5, <1>7, <1>8, <1>9, ZenonT(60) DEF BitsInv

\* Align: what write puts out, without the padding, is the code of the input, and
\* the code of the input before the call is where it was.
LEMMA FinishHolds ==
  ASSUME SessionInv, BitsInv, ~ tainted, pc = "write", i = Len(d)
  PROVE  LET bits == cache \o StreamBits(stream)
             file == outBuf \o Aligned(bits)
         IN  /\ Coded(SubSeq(file, 1, Len(file) - AlignSkips(bits)), d)
             /\ Coded(SubSeq(file, 1, LastBits), SubSeq(d, 1, lastInLen))
<1> DEFINE sb == StreamBits(stream)
           bits == cache \o sb
           file == outBuf \o Aligned(bits)
           all == outBuf \o bits
           old == outBuf \o cache
<1>1. d \in Seq(Byte) /\ outBuf \in Seq(Bit) /\ cache \in Seq(Bit)
  BY ZenonT(60) DEF SessionInv, SessionTypes, Bit
<1>2. Chain(d, stream, starts, starts[1], Len(d))
  BY ZenonT(60) DEF SessionInv, WriterInv
<1>3. stream \in Seq(Phrase)
  BY <1>2, ZenonT(60) DEF Chain
<1>4. sb \in Seq(Bit)
  BY <1>3, StreamBitsFacts, ZenonT(60)
<1>5. /\ Coded(old, SubSeq(d, 1, starts[1]))
      /\ starts[1] = lastInLen /\ LastBits = Len(outBuf) + Len(cache)
  BY ZenonT(60) DEF BitsInv
<1>6. lastInLen \in 0..Len(d)
  BY DEF SessionInv, SessionTypes, CallInv
<1>7. Coded(old \o sb, d)
  <2> HIDE DEF old
  <2>1. starts[1] \in 0..Len(d)
    BY <1>5, <1>6, ZenonT(60)
  <2>2. Coded(old, SubSeq(d, 1, starts[1]))
    BY <1>5, ZenonT(60)
  <2> QED
    BY <1>1, <1>2, <2>1, <2>2, CodedMore, ZenonT(60) DEF sb
<1> HIDE DEF sb
<1>8. bits \in Seq(Bit)
  BY <1>1, <1>4, ConcatFacts, ZenonT(60)
<1>9. old \o sb = all
  BY <1>1, <1>4, ConcatAssoc, ZenonT(60)
<1>10. old \in Seq(Bit) /\ Len(old) = LastBits
  <2>1. old \in Seq(Bit) /\ Len(old) = Len(outBuf) + Len(cache)
    BY <1>1, ConcatFacts, ZenonT(60)
  <2> QED
    BY <1>5, <2>1, ZenonT(60)
<1> HIDE DEF bits
<1>11. /\ file \in Seq(Bit) /\ Len(file) = Len(all) + AlignSkips(bits)
       /\ SubSeq(file, 1, Len(all)) = all
       /\ \A n \in 0..Len(all) : SubSeq(file, 1, n) = SubSeq(all, 1, n)
  BY <1>1, <1>8, AlignPrefix, ZenonT(60)
<1>12. AlignSkips(bits) \in 0..7
  BY <1>8, AlignedFacts, ZenonT(60)
<1> HIDE DEF file, all, old
<1>13. Len(old \o sb) = Len(old) + Len(sb)
  BY <1>4, <1>10, ConcatFacts, ZenonT(60)
<1>14. Len(old) \in Nat /\ Len(sb) \in Nat
  BY <1>4, <1>10, LenNat, ZenonT(60)
<1>15. Len(all) = Len(old) + Len(sb)
  BY <1>9, <1>13, ZenonT(60)
<1>16. SubSeq(file, 1, Len(file) - AlignSkips(bits)) = all
  <2>1. Len(file) - AlignSkips(bits) = Len(all)
    BY <1>11, <1>12, <1>14, <1>15, SMTT(60)
  <2> QED
    BY <1>11, <2>1, ZenonT(60)
<1>17. SubSeq(file, 1, LastBits) = old
  <2>1. Len(old) \in 0..Len(all)
    BY <1>14, <1>15, SMTT(60)
  <2>2. SubSeq(file, 1, Len(old)) = SubSeq(all, 1, Len(old))
    BY <1>11, <2>1, ZenonT(60)
  <2>3. SubSeq(old \o sb, 1, Len(old)) = old
    BY <1>4, <1>10, PrefixAll, ZenonT(60)
  <2> QED
    BY <1>9, <1>10, <2>2, <2>3, ZenonT(60)
<1>18. Coded(SubSeq(file, 1, Len(file) - AlignSkips(bits)), d)
  BY <1>7, <1>9, <1>16, ZenonT(60)
<1>19. Coded(SubSeq(file, 1, LastBits), SubSeq(d, 1, lastInLen))
  BY <1>5, <1>17, ZenonT(60)
<1> QED
  BY <1>18, <1>19, ZenonT(60) DEF file, bits, sb

\* The end of a Write puts out the bits of its phrases.
LEMMA FinishWriteBits ==
  ASSUME SessionInv, BitsInv, FinishWrite
  PROVE  BitsInv'
<1> DEFINE bits == cache \o StreamBits(stream)
           file == outBuf \o Aligned(bits)
           skips == AlignSkips(bits)
<1>1. /\ pc = "write" /\ i = Len(d) /\ pc' = "idle" /\ tainted' = tainted
      /\ d' = d /\ lastInLen' = lastInLen
      /\ IF reverting
         THEN Consider(file, skips, lastInLen, lastOutLen, lastNbSkippedBits)
         ELSE /\ outBuf' = file /\ nbSkippedBits' = skips
              /\ UNCHANGED <<lastOutLen, lastNbSkippedBits, noCompression>>
  BY ZenonT(60) DEF FinishWrite, writeVars
<1>2. CASE tainted
  BY <1>1, <1>2, ZenonT(60) DEF BitsInv
<1>3. CASE ~ tainted
  <2>1. /\ Coded(SubSeq(file, 1, Len(file) - skips), d)
        /\ Coded(SubSeq(file, 1, LastBits), SubSeq(d, 1, lastInLen))
    BY <1>1, <1>3, FinishHolds, ZenonT(60)
  <2>2. ~ noCompression
    BY <1>1, ZenonT(60) DEF SessionInv, CallInv
  <2> HIDE DEF file, skips
  <2>3. \/ noCompression' = TRUE /\ outBuf' = Bypassed(d)
        \/ /\ noCompression' = noCompression /\ outBuf' = file /\ nbSkippedBits' = skips
           /\ lastOutLen' = lastOutLen /\ lastNbSkippedBits' = lastNbSkippedBits
    BY <1>1, ZenonT(60) DEF Consider
  <2>4. CASE noCompression' = TRUE /\ outBuf' = Bypassed(d)
    BY <1>1, <2>4, ZenonT(60) DEF BitsInv
  <2>5. CASE /\ noCompression' = noCompression /\ outBuf' = file /\ nbSkippedBits' = skips
             /\ lastOutLen' = lastOutLen /\ lastNbSkippedBits' = lastNbSkippedBits
    <3>1. LastBits' = LastBits
      BY <2>5, ZenonT(60) DEF LastBits
    <3>2. ~ noCompression' /\ pc' # "write"
      BY <1>1, <2>2, <2>5, ZenonT(60)
    <3> QED
      BY <1>1, <2>1, <2>5, <3>1, <3>2, ZenonT(60) DEF BitsInv
  <2> QED
    BY <2>3, <2>4, <2>5, ZenonT(60)
<1> QED
  BY <1>2, <1>3, ZenonT(60)

\* Revert: what was put out before the last Write, with the padding of that time.
LEMMA RevertCompressedBits ==
  ASSUME SessionInv, BitsInv, RevertCompressed
  PROVE  BitsInv'
<1>1. /\ Idle /\ lastInLen # -1 /\ ~ noCompression
      /\ d' = SubSeq(d, 1, lastInLen) /\ lastInLen' = -1
      /\ outBuf' = SubSeq(outBuf, 1, 8 * lastOutLen)
      /\ nbSkippedBits' = lastNbSkippedBits
      /\ pc' = "idle" /\ noCompression' = noCompression /\ tainted' = tainted
  BY ZenonT(60) DEF RevertCompressed, MayRevert, Idle, modeVars
<1>2. outBuf \in Seq(Bit) /\ lastOutLen \in Nat /\ lastNbSkippedBits \in 0..7
  BY ZenonT(60) DEF SessionInv, SessionTypes, Bit
<1>3. 3 <= lastOutLen /\ 8 * lastOutLen \in 0..Len(outBuf)
  <2>1. HeaderSize <= lastOutLen /\ 8 * lastOutLen <= Len(outBuf)
    BY <1>1, ZenonT(60) DEF SessionInv, SizesInv
  <2>2. Len(outBuf) \in Nat
    BY <1>2, LenNat, ZenonT(60)
  <2> QED
    BY <1>2, <2>1, <2>2, SMTT(60) DEF HeaderSize
<1>4. LastBits \in 0..(8 * lastOutLen) /\ LastBits = 8 * lastOutLen - lastNbSkippedBits
  BY <1>2, <1>3, SMTT(60) DEF LastBits
<1>5. Len(outBuf') = 8 * lastOutLen
  BY <1>1, <1>2, <1>3, PrefixFacts, SMTT(60)
<1>6. SubSeq(outBuf', 1, LastBits) = SubSeq(outBuf, 1, LastBits)
  BY <1>1, <1>2, <1>3, <1>4, PrefixTwice, ZenonT(60)
<1>7. SubSeq(outBuf', 1, Len(outBuf') - nbSkippedBits') = SubSeq(outBuf, 1, LastBits)
  BY <1>1, <1>4, <1>5, <1>6, ZenonT(60)
<1>8. ~ tainted => Coded(SubSeq(outBuf, 1, LastBits), SubSeq(d, 1, lastInLen))
  BY <1>1, ZenonT(60) DEF BitsInv
<1>9. pc' # "write"
  BY <1>1, ZenonT(60)
<1> QED
  BY <1>1, <1>7, <1>8, <1>9, ZenonT(60) DEF BitsInv

\* A compressor that has put out a header and nothing else.
LEMMA FreshBits ==
  ASSUME NEW out0, out0 = HeaderBits(FALSE), NEW data, data = <<>>
  PROVE  /\ Coded(SubSeq(out0, 1, Len(out0) - 0), data)
         /\ Coded(SubSeq(out0, 1, 8 * HeaderSize - 0), SubSeq(data, 1, 0))
<1>1. Coded(SubSeq(out0, 1, Len(out0) - 0), data)
  BY HeaderHolds, ZenonT(60) DEF FileHolds
<1>2. Len(out0) = 24
  BY HeaderBitsFacts, ZenonT(60)
<1>3. SubSeq(data, 1, 0) = data
  BY NothingBefore, ZenonT(60)
<1>4. Len(out0) - 0 = 8 * HeaderSize - 0
  <2> DEFINE n == Len(out0)
  <2>1. n = 24
    BY <1>2, ZenonT(60)
  <2> HIDE DEF n
  <2>2. n - 0 = 8 * HeaderSize - 0
    BY <2>1, SMT DEF HeaderSize
  <2> QED
    BY <2>2, ZenonT(60) DEF n
<1> QED
  BY <1>1, <1>3, <1>4, ZenonT(60)

\* Reset leaves a header.
LEMMA ResetBits ==
  ASSUME Reset
  PROVE  BitsInv'
<1>1. /\ outBuf' = HeaderBits(FALSE) /\ lastOutLen' = HeaderSize
      /\ d' = <<>> /\ noCompression' = FALSE
      /\ nbSkippedBits' = 0 /\ lastNbSkippedBits' = 0 /\ lastInLen' = 0 /\ pc' = "idle"
  BY ZenonT(60) DEF Reset
<1>2. /\ Coded(SubSeq(outBuf', 1, Len(outBuf') - nbSkippedBits'), d')
      /\ Coded(SubSeq(outBuf', 1, LastBits'), SubSeq(d', 1, lastInLen'))
  BY <1>1, FreshBits, ZenonT(60) DEF LastBits
<1>3. pc' # "write" /\ ~ noCompression'
  BY <1>1, ZenonT(60)
<1> QED
  BY <1>2, <1>3, ZenonT(60) DEF BitsInv

\* A new compressor has a header.
LEMMA BitsInvInit ==
  ASSUME Init
  PROVE  BitsInv
<1>1. /\ outBuf = HeaderBits(FALSE) /\ lastOutLen = HeaderSize
      /\ d = <<>> /\ noCompression = FALSE
      /\ nbSkippedBits = 0 /\ lastNbSkippedBits = 0 /\ lastInLen = 0 /\ pc = "idle"
  BY ZenonT(60) DEF Init, WriteInit
<1>2. /\ Coded(SubSeq(outBuf, 1, Len(outBuf) - nbSkippedBits), d)
      /\ Coded(SubSeq(outBuf, 1, LastBits), SubSeq(d, 1, lastInLen))
  BY <1>1, FreshBits, ZenonT(60) DEF LastBits
<1>3. pc # "write" /\ ~ noCompression
  BY <1>1, ZenonT(60)
<1> QED
  BY <1>2, <1>3, ZenonT(60) DEF BitsInv

\* ConsiderBypassing replaces the file, or leaves it alone.
LEMMA ConsiderBypassingBits ==
  ASSUME BitsInv, ConsiderBypassing
  PROVE  BitsInv'
<1>1. /\ Idle /\ Consider(outBuf, nbSkippedBits, lastInLen, lastOutLen, lastNbSkippedBits)
      /\ pc' = "idle" /\ d' = d /\ lastInLen' = lastInLen /\ failed' = failed
      /\ tainted' = tainted
  BY ZenonT(60) DEF ConsiderBypassing, writeVars, Idle
<1>2. \/ noCompression' = TRUE /\ outBuf' = Bypassed(d)
      \/ /\ noCompression' = noCompression /\ outBuf' = outBuf /\ nbSkippedBits' = nbSkippedBits
         /\ lastOutLen' = lastOutLen /\ lastNbSkippedBits' = lastNbSkippedBits
  BY <1>1, ZenonT(60) DEF Consider
<1>3. CASE noCompression' = TRUE /\ outBuf' = Bypassed(d)
  BY <1>1, <1>3, ZenonT(60) DEF BitsInv
<1>4. CASE /\ noCompression' = noCompression /\ outBuf' = outBuf /\ nbSkippedBits' = nbSkippedBits
           /\ lastOutLen' = lastOutLen /\ lastNbSkippedBits' = lastNbSkippedBits
  <2>1. LastBits' = LastBits
    BY <1>4, ZenonT(60) DEF LastBits
  <2>2. pc' # "write"
    BY <1>1, ZenonT(60)
  <2> QED
    BY <1>1, <1>4, <2>1, <2>2, ZenonT(60) DEF BitsInv
<1> QED
  BY <1>2, <1>3, <1>4, ZenonT(60)

-----------------------------------------------------------------------------
(* The invariants of a session. *)

\* Every step of a session keeps the bits right.
LEMMA BitsInvNext ==
  ASSUME SessionInv, BitsInv, [Next]_vars
  PROVE  BitsInv'
<1>1. CASE UNCHANGED vars
  <2>1. /\ pc' = pc /\ UNCHANGED <<d, starts>>
        /\ UNCHANGED <<outBuf, cache, nbSkippedBits, lastOutLen, lastNbSkippedBits, lastInLen>>
        /\ UNCHANGED <<noCompression, failed, tainted>>
    BY <1>1, ZenonT(60) DEF vars, writeVars, outVars, lastVars, modeVars, historyVars
  <2> QED
    BY <2>1, ZenonT(60) DEF BitsInv, LastBits, Idle
<1>2. ASSUME NEW chunk \in Chunks, CallWrite(chunk) PROVE BitsInv'
  BY <1>2, CallWriteBits, ZenonT(60)
<1>3. ASSUME NEW chunk \in Chunks, Compress(chunk) PROVE BitsInv'
  BY <1>3, CompressBits, ZenonT(60)
<1>4. CASE LoopStep
  BY <1>4, LoopStepBits, ZenonT(60)
<1>5. CASE FinishWrite
  BY <1>5, FinishWriteBits, ZenonT(60)
<1>6. CASE RevertRefused
  BY <1>1, <1>6, ZenonT(60) DEF RevertRefused
<1>7. CASE RevertCompressed
  BY <1>7, RevertCompressedBits, ZenonT(60)
<1>8. CASE RevertBypassed
  BY <1>8, RevertBypassedBits, ZenonT(60)
<1>9. CASE Reset
  BY <1>9, ResetBits, ZenonT(60)
<1>10. CASE ConsiderBypassing
  BY <1>10, ConsiderBypassingBits, ZenonT(60)
<1> QED
  BY <1>1, <1>2, <1>3, <1>4, <1>5, <1>6, <1>7, <1>8, <1>9, <1>10, SMTT(60) DEF Next

\* The inductive invariant: the bits of the output at every point of a session.
THEOREM BitsInvariant == InspectionSpec => [](SessionInv /\ BitsInv)
<1>1. InspectionInit => SessionInv /\ BitsInv
  BY SessionInvInit, BitsInvInit, ZenonT(60) DEF InspectionInit
<1>2. SessionInv /\ BitsInv /\ [InspectionNext]_allVars => SessionInv' /\ BitsInv'
  BY InspectionStep, SessionInvNext, BitsInvNext, ZenonT(60)
<1> QED
  BY <1>1, <1>2, PTL DEF InspectionSpec

\* Between calls, the file decompresses to what was written.
LEMMA FileIsRight ==
  ASSUME SessionInv, BitsInv, InReach(Len(d)), Idle, ~ tainted
  PROVE  DecompressesTo(outBuf, d)
<1>1. /\ d \in Seq(Byte) /\ outBuf \in Seq(Bit) /\ nbSkippedBits \in 0..7
      /\ 24 <= Len(outBuf) /\ Len(outBuf) \in Nat
  BY LenNat, ZenonT(60) DEF SessionInv, SessionTypes, SizesInv, Bit
<1>2. CASE noCompression
  BY <1>1, <1>2, BypassDecompresses, ZenonT(60) DEF BitsInv, Bypassed
<1>3. CASE ~ noCompression
  <2>1. Coded(SubSeq(outBuf, 1, Len(outBuf) - nbSkippedBits), d)
    BY <1>3, ZenonT(60) DEF BitsInv
  <2>2. /\ Len(outBuf) - nbSkippedBits \in 0..Len(outBuf)
        /\ Len(outBuf) - (Len(outBuf) - nbSkippedBits) < 8
    BY <1>1
  <2> QED
    BY <1>1, <2>1, <2>2, CodedDecompresses, ZenonT(60)
<1> QED
  BY <1>2, <1>3, ZenonT(60)

\* compress.go:91-129, 289-367: between calls, Bytes() decompresses to
\* WrittenBytes(), whatever was called before, for every input with all of the
\* dictionary in reach.
THEOREM BytesAreRight == InspectionSpec => [](InReach(Len(d)) => BytesDecompress)
<1>1. SessionInv /\ BitsInv => (InReach(Len(d)) => BytesDecompress)
  BY FileIsRight, ZenonT(60) DEF BytesDecompress
<1> QED
  BY <1>1, BitsInvariant, PTL

\* compress.go:322-345: at every point between calls Revert can cut the output down
\* to bytes that decompress to the input before the last Write.
THEOREM RevertPointIsRight == InspectionSpec => [](InReach(Len(d)) => RevertPoint)
<1>1. ASSUME SessionInv, BitsInv, InReach(Len(d)), Idle, ~ tainted, ~ noCompression,
             lastInLen # -1
      PROVE  /\ 8 * lastOutLen <= Len(outBuf)
             /\ DecompressesTo(SubSeq(outBuf, 1, 8 * lastOutLen), SubSeq(d, 1, lastInLen))
  <2> DEFINE file == SubSeq(outBuf, 1, 8 * lastOutLen)
             data == SubSeq(d, 1, lastInLen)
  <2>1. /\ d \in Seq(Byte) /\ outBuf \in Seq(Bit) /\ lastNbSkippedBits \in 0..7
        /\ lastOutLen \in Nat /\ lastInLen \in -1..Len(d) /\ Len(outBuf) \in Nat /\ Len(d) \in Nat
    BY <1>1, LenNat, ZenonT(60) DEF SessionInv, SessionTypes, Bit
  <2>2. 3 <= lastOutLen /\ 8 * lastOutLen <= Len(outBuf)
    BY <1>1, ZenonT(60) DEF SessionInv, SizesInv, HeaderSize
  <2>3. lastInLen \in 0..Len(d) /\ 8 * lastOutLen \in 0..Len(outBuf)
    BY <1>1, <2>1, <2>2, SMTT(60)
  <2>4. LastBits \in 0..(8 * lastOutLen) /\ 8 * lastOutLen - LastBits < 8
    BY <2>1, <2>2, SMTT(60) DEF LastBits
  <2>5. file \in Seq(Bit) /\ Len(file) = 8 * lastOutLen
    BY <2>1, <2>3, PrefixFacts, SMTT(60)
  <2>6. data \in Seq(Byte) /\ Len(data) = lastInLen
    BY <2>1, <2>3, PrefixFacts, SMTT(60)
  <2>7. SubSeq(file, 1, LastBits) = SubSeq(outBuf, 1, LastBits)
    BY <2>1, <2>3, <2>4, PrefixTwice, SMTT(60)
  <2>8. Coded(SubSeq(outBuf, 1, LastBits), data)
    BY <1>1, ZenonT(60) DEF BitsInv
  <2> HIDE DEF file, data
  <2>9. InReach(Len(data))
    <3> DEFINE reach == 2^DynAddrBits + 1
    <3>1. reach \in Nat /\ dictLen \in Nat
      <4>1. 2^DynAddrBits \in Nat
        BY TypeFacts, ZenonT(60) DEF NewDynamicBackrefType, newBackRefType, BackrefTypes
      <4> QED
        BY <4>1, DictFacts, SMTT(60)
    <3>2. Len(d) + dictLen <= reach
      BY <1>1, ZenonT(60) DEF InReach
    <3> HIDE DEF reach
    <3>3. lastInLen + dictLen <= reach
      BY <2>1, <2>3, <3>1, <3>2, SMTT(60)
    <3> QED
      BY <2>6, <3>3, ZenonT(60) DEF InReach, reach
  <2>10. LastBits \in 0..Len(file) /\ Len(file) - LastBits < 8
    BY <2>4, <2>5, ZenonT(60)
  <2>11. Coded(SubSeq(file, 1, LastBits), data)
    BY <2>7, <2>8, ZenonT(60)
  <2>12. DecompressesTo(file, data)
    BY <2>5, <2>6, <2>9, <2>10, <2>11, CodedDecompresses, ZenonT(60)
  <2> QED
    BY <2>2, <2>12, ZenonT(60) DEF file, data
<1>2. SessionInv /\ BitsInv => (InReach(Len(d)) => RevertPoint)
  BY <1>1, ZenonT(60) DEF RevertPoint
<1> QED
  BY <1>2, BitsInvariant, PTL

\* compress.go:93-101: nbSkippedBits is the padding exactly, so that a Write goes on
\* where the phrases end.
THEOREM PaddingIsCounted == InspectionSpec => []PaddingCounted
<1>1. ASSUME SessionInv, BitsInv, Idle, ~ tainted, ~ noCompression
      PROVE  LET bits == SubSeq(outBuf, 8 * HeaderSize + 1, Len(outBuf) - nbSkippedBits)
             IN  StreamBits(ReadPhrases(bits)) = bits
  <2> DEFINE n == Len(outBuf) - nbSkippedBits
             code == SubSeq(outBuf, 1, n)
             body == SubSeq(code, 8 * HeaderSize + 1, Len(code))
             bits == SubSeq(outBuf, 8 * HeaderSize + 1, n)
  <2>1. outBuf \in Seq(Bit) /\ nbSkippedBits \in 0..7 /\ 24 <= Len(outBuf) /\ Len(outBuf) \in Nat
    BY <1>1, LenNat, ZenonT(60) DEF SessionInv, SessionTypes, SizesInv, Bit
  <2>2. n \in 0..Len(outBuf)
    BY <2>1
  <2>3. Coded(code, d)
    BY <1>1, ZenonT(60) DEF BitsInv
  <2>4. code \in Seq(Bit) /\ Len(code) = n
    <3> HIDE DEF n
    <3> QED
      BY <2>1, <2>2, PrefixFacts, SMTT(60)
  <2>5. StreamBits(ReadPhrases(body)) = body
    <3> HIDE DEF code
    <3> QED
      BY <2>3, CodedRead, ZenonT(60)
  <2>6. body = bits
    <3> HIDE DEF n
    <3>1. body = SubSeq(code, 8 * HeaderSize + 1, n)
      BY <2>4, ZenonT(60)
    <3> QED
      BY <2>1, <2>2, <2>4, <3>1, SMTT(60) DEF HeaderSize
  <2> QED
    BY <2>5, <2>6, ZenonT(60)
<1>2. SessionInv => (Idle /\ noCompression => nbSkippedBits = 0)
  BY ZenonT(60) DEF SessionInv, BypassInv
<1>3. SessionInv /\ BitsInv => PaddingCounted
  BY <1>1, <1>2, ZenonT(60) DEF PaddingCounted
<1> QED
  BY <1>3, BitsInvariant, PTL

-----------------------------------------------------------------------------
(* CompressedStreamInfo at any point of a session. *)

\* What StreamInfo defines is the same in its instance.
LEMMA InfoOperators ==
  /\ \A b : Info!canEncodeSymbol(b) <=> canEncodeSymbol(b)
  /\ \A b : Info!TypeOf(b) = TypeOf(b)
  /\ \A t, a, n : Info!CopyBytes(t, a, n) = CopyBytes(t, a, n)
  /\ \A type, s, e, a, n, t :
       Info!CompressionPhrase(type, s, e, a, n, t) = CompressionPhrase(type, s, e, a, n, t)
<1>1. \A b : Info!canEncodeSymbol(b) <=> canEncodeSymbol(b)
  BY ZenonT(60) DEF Info!canEncodeSymbol, canEncodeSymbol, Info!SymbolShort, SymbolShort,
               Info!SymbolDynamic, SymbolDynamic
<1>2. \A b : Info!TypeOf(b) = TypeOf(b)
  <2>1. Info!NewShortBackrefType = NewShortBackrefType
    BY ZenonT(60) DEF Info!NewShortBackrefType, NewShortBackrefType, Info!newBackRefType, newBackRefType,
                 Info!SymbolShort, SymbolShort
  <2>2. Info!NewDynamicBackrefType = NewDynamicBackrefType
    <3>1. Info!dictLen = dictLen
      BY ZenonT(60) DEF Info!dictLen, dictLen, Info!dictData, dictData, Info!AugmentDict, AugmentDict,
                   Info!SymbolShort, SymbolShort, Info!SymbolDynamic, SymbolDynamic
    <3> QED
      BY <3>1, ZenonT(60) DEF Info!NewDynamicBackrefType, NewDynamicBackrefType, Info!newBackRefType,
                         newBackRefType, Info!SymbolDynamic, SymbolDynamic
  <2> QED
    BY <2>1, <2>2, ZenonT(60) DEF Info!TypeOf, TypeOf, Info!SymbolShort, SymbolShort
<1>3. \A t, a, n : Info!CopyBytes(t, a, n) = CopyBytes(t, a, n)
  BY ZenonT(60) DEF Info!CopyBytes, CopyBytes, Info!At, At
<1>4. \A type, s, e, a, n, t :
        Info!CompressionPhrase(type, s, e, a, n, t) = CompressionPhrase(type, s, e, a, n, t)
  BY ZenonT(60) DEF Info!CompressionPhrase, CompressionPhrase
<1> QED
  BY <1>1, <1>2, <1>3, <1>4, ZenonT(60)

\* The literals that were still to come are reported.
LEMMA LiteralsReported ==
  ASSUME fileStream \in Seq(Phrase),
         Taken(fileStream, infoRead, infoOut, literalCopyStart, inI, res)
  PROVE  Taken(fileStream, infoRead, infoOut, -1, Info!inIAfterLiterals, Info!resAfterLiterals)
<1>1. CASE literalCopyStart = -1
  <2>1. Info!inIAfterLiterals = inI /\ Info!resAfterLiterals = res
    BY <1>1, ZenonT(60) DEF Info!inIAfterLiterals, Info!resAfterLiterals
  <2> QED
    BY <1>1, <2>1, ZenonT(60)
<1>2. CASE literalCopyStart # -1
  <2>1. PICK p : p = CompressionPhrase(0, literalCopyStart, Len(infoOut), literalCopyStart,
                                       inI, infoOut)
    BY ZenonT(60)
  <2>2. Info!inIAfterLiterals = inI + (Len(infoOut) - literalCopyStart) * 8
    BY <1>2, ZenonT(60) DEF Info!inIAfterLiterals
  <2>3. Info!resAfterLiterals = Append(res, p)
    BY <1>2, <2>1, InfoOperators, ZenonT(60) DEF Info!resAfterLiterals
  <2>4. Taken(fileStream, infoRead, infoOut, -1, inI + (Len(infoOut) - literalCopyStart) * 8,
              Append(res, CompressionPhrase(0, literalCopyStart, Len(infoOut), literalCopyStart,
                                            inI, infoOut)))
    BY <1>2, TakenFlush, ZenonT(60)
  <2> QED
    BY <2>1, <2>2, <2>3, <2>4, ZenonT(60)
<1> QED
  BY <1>1, <1>2, ZenonT(60)

\* What a step of the loop leaves: all that it has read is decoded and reported.  It
\* returns when everything is, and panics at a reference out of range.
LEMMA InfoStepTaken ==
  ASSUME fileStream \in Seq(Phrase),
         Taken(fileStream, infoRead, infoOut, literalCopyStart, inI, res), Info!InfoStep
  PROVE  /\ ipc' \in {"idle", "info", "panic"} /\ fileStream' = fileStream
         /\ Taken(fileStream, infoRead', infoOut', literalCopyStart', inI', res')
         /\ ipc' = "idle" => infoRead' = Len(fileStream) /\ literalCopyStart' = -1
         /\ ipc' = "panic" =>
              /\ infoRead < Len(fileStream) /\ ~ canEncodeSymbol(fileStream[infoRead+1].symbol)
              /\ fileStream[infoRead+1].address + 1 > Len(infoOut)
<1>1. CASE Info!InfoLiteral
  <2>1. /\ infoRead < Len(fileStream) /\ canEncodeSymbol(fileStream[infoRead+1].symbol)
        /\ literalCopyStart' = From(infoOut, literalCopyStart)
        /\ infoOut' = Append(infoOut, fileStream[infoRead+1].symbol)
        /\ infoRead' = infoRead + 1 /\ ipc' = "info" /\ fileStream' = fileStream
        /\ inI' = inI /\ res' = res
    BY <1>1, InfoOperators, ZenonT(60)
    DEF Info!InfoLiteral, Info!InfoReading, Info!infoPhrase, From
  <2>2. Taken(fileStream, infoRead + 1, Append(infoOut, fileStream[infoRead+1].symbol),
              From(infoOut, literalCopyStart), inI, res)
    BY <2>1, TakenLiteral, ZenonT(60)
  <2>3. Taken(fileStream, infoRead', infoOut', literalCopyStart', inI', res')
    BY <2>1, <2>2, ZenonT(60)
  <2>4. ipc' \in {"idle", "info", "panic"} /\ ipc' # "idle" /\ ipc' # "panic"
    BY <2>1, ZenonT(60)
  <2> QED
    BY <2>1, <2>3, <2>4, ZenonT(60)
<1>2. CASE Info!InfoRef
  <2>1. PICK ph : ph = fileStream[infoRead+1]
    BY ZenonT(60)
  <2>2. PICK a, m, t : a = ph.address + 1 /\ m = ph.length + 1 /\ t = CopyBytes(infoOut, a, m)
    BY ZenonT(60)
  <2>3. PICK z, q : z = Info!inIAfterLiterals /\ q = Info!resAfterLiterals
    BY ZenonT(60)
  <2>4. /\ infoRead < Len(fileStream) /\ ~ canEncodeSymbol(ph.symbol)
        /\ a <= Len(infoOut) /\ infoOut' = t
        /\ res' = Append(q, CompressionPhrase(ph.symbol, Len(t) - m, Len(t), Len(t) - m - a, z, t))
        /\ inI' = z + TypeOf(ph.symbol).NbBitsBackRef
        /\ literalCopyStart' = -1 /\ infoRead' = infoRead + 1
        /\ ipc' = "info" /\ fileStream' = fileStream
    BY <1>2, <2>1, <2>2, <2>3, InfoOperators, ZenonT(60)
    DEF Info!InfoRef, Info!InfoReading, Info!infoPhrase
  <2>5. NextRef(fileStream, infoRead, infoOut, a, m, t)
    BY <2>1, <2>2, <2>4, ZenonT(60) DEF NextRef
  <2>6. Taken(fileStream, infoRead, infoOut, -1, z, q)
    BY <2>3, LiteralsReported, ZenonT(60)
  <2>7. Taken(fileStream, infoRead + 1, t, -1,
              z + TypeOf(fileStream[infoRead+1].symbol).NbBitsBackRef,
              Append(q, CompressionPhrase(fileStream[infoRead+1].symbol, Len(t) - m, Len(t),
                                          Len(t) - m - a, z, t)))
    BY <2>5, <2>6, TakenRef, ZenonT(60)
  <2>8. Taken(fileStream, infoRead', infoOut', literalCopyStart', inI', res')
    BY <2>1, <2>4, <2>7, ZenonT(60)
  <2>9. ipc' \in {"idle", "info", "panic"} /\ ipc' # "idle" /\ ipc' # "panic"
    BY <2>4, ZenonT(60)
  <2> QED
    BY <2>4, <2>8, <2>9, ZenonT(60)
<1>3. CASE Info!InfoPanics
  <2>1. /\ ipc' = "panic" /\ fileStream' = fileStream /\ infoRead' = infoRead /\ infoOut' = infoOut
        /\ literalCopyStart' = literalCopyStart /\ inI' = inI /\ res' = res
    BY <1>3, ZenonT(60) DEF Info!InfoPanics, Info!infoVars
  <2>2. /\ infoRead < Len(fileStream) /\ ~ canEncodeSymbol(fileStream[infoRead+1].symbol)
        /\ fileStream[infoRead+1].address + 1 > Len(infoOut)
    BY <1>3, InfoOperators, ZenonT(60) DEF Info!InfoPanics, Info!InfoReading, Info!infoPhrase
  <2>3. Taken(fileStream, infoRead', infoOut', literalCopyStart', inI', res')
    BY <2>1, ZenonT(60)
  <2>4. ipc' \in {"idle", "info", "panic"} /\ ipc' # "idle"
    BY <2>1, ZenonT(60)
  <2> QED
    BY <2>1, <2>2, <2>3, <2>4, ZenonT(60)
<1>4. CASE Info!InfoReturns
  <2>1. /\ ipc' = "idle" /\ infoRead = Len(fileStream) /\ fileStream' = fileStream
        /\ infoRead' = infoRead /\ infoOut' = infoOut /\ literalCopyStart' = -1
        /\ inI' = Info!inIAfterLiterals /\ res' = Info!resAfterLiterals
    BY <1>4, ZenonT(60) DEF Info!InfoReturns
  <2>2. Taken(fileStream, infoRead, infoOut, -1, Info!inIAfterLiterals, Info!resAfterLiterals)
    BY LiteralsReported, ZenonT(60)
  <2>3. Taken(fileStream, infoRead', infoOut', literalCopyStart', inI', res')
    BY <2>1, <2>2, ZenonT(60)
  <2>4. ipc' \in {"idle", "info", "panic"} /\ ipc' # "panic"
    BY <2>1, ZenonT(60)
  <2> QED
    BY <2>1, <2>3, <2>4, ZenonT(60)
<1> QED
  BY <1>1, <1>2, <1>3, <1>4, SMTT(60) DEF Info!InfoStep

\* The phrases read from a file that ends with skip bits of padding: they end there,
\* and they mean data if the dictionary is in reach.
Opens(ss, file, skip, data) ==
  /\ ss \in Seq(Phrase)
  /\ Len(StreamBits(ss)) + skip = Len(SubSeq(file, 8 * HeaderSize + 1, Len(file)))
  /\ InReach(Len(data)) => HasMeaning(ss) /\ Output(Meaning(ss)) = data

\* What is returned for a file.
Returns(pieces, bits, file, skip, data, bypass) ==
  /\ InReach(Len(data)) => Contents(pieces) = data
  /\ ~ bypass => bits + skip = Len(SubSeq(file, 8 * HeaderSize + 1, Len(file)))

Unread ==
  infoRead = 0 /\ infoOut = dictData /\ literalCopyStart = -1 /\ inI = 0 /\ res = <<>>

\* While CompressedStreamInfo runs, the phrases are those of the file, and what it has
\* read of them is decoded and reported.
InspectInv ==
  /\ ipc \in {"idle", "info", "panic"}
  /\ ipc = "idle" /\ ~ inspected => Unread
  /\ Idle /\ ~ tainted =>
       /\ ipc = "info" =>
            /\ Opens(fileStream, outBuf, nbSkippedBits, d)
            /\ Taken(fileStream, infoRead, infoOut, literalCopyStart, inI, res)
       /\ InReach(Len(d)) => ipc # "panic"
       /\ inspected => Returns(res, inI, outBuf, nbSkippedBits, d, noCompression)

\* The phrases are read from the file of a compressor.
LEMMA FileOpens ==
  ASSUME SessionInv, BitsInv, Idle, ~ tainted, HeaderFlag(outBuf) = 0
  PROVE  Opens(ReadPhrases(Body), outBuf, nbSkippedBits, d)
<1>1. /\ d \in Seq(Byte) /\ outBuf \in Seq(Bit) /\ nbSkippedBits \in 0..7
      /\ 24 <= Len(outBuf) /\ Len(outBuf) \in Nat
  BY LenNat, ZenonT(60) DEF SessionInv, SessionTypes, SizesInv, Bit
<1>2. ~ noCompression
  <2>1. SUFFICES ASSUME noCompression PROVE FALSE
    BY ZenonT(60)
  <2>2. outBuf = HeaderBits(TRUE) \o BytesBits(d)
    BY <2>1, ZenonT(60) DEF BitsInv, Bypassed
  <2>3. BytesBits(d) \in Seq(Bit)
    BY <1>1, BytesBitsFacts, ZenonT(60)
  <2>4. HeaderFlag(outBuf) = ind(TRUE)
    BY <2>2, <2>3, HeaderBack
  <2> QED
    BY <2>4 DEF ind
<1>3. PICK n : n = Len(outBuf) - nbSkippedBits
  BY ZenonT(60)
<1>4. n \in 0..Len(outBuf) /\ Len(outBuf) - n < 8 /\ Len(outBuf) - n = nbSkippedBits
  BY <1>1, <1>3
<1>5. Coded(SubSeq(outBuf, 1, n), d)
  BY <1>2, <1>3, ZenonT(60) DEF BitsInv
<1>6. PICK ss : ss = ReadPhrases(Body)
  BY ZenonT(60)
<1>7. /\ ss \in Seq(Phrase) /\ \E st : Chain(d, ss, st, 0, Len(d))
      /\ Len(StreamBits(ss)) + (Len(outBuf) - n) = Len(Body)
  <2>1. PICK file, data : file = outBuf /\ data = d
    BY ZenonT(60)
  <2>2. file \in Seq(Bit) /\ n \in 0..Len(file) /\ Len(file) - n < 8
    BY <1>1, <1>4, <2>1, ZenonT(60)
  <2>3. data \in Seq(Byte) /\ Coded(SubSeq(file, 1, n), data)
    BY <1>1, <1>5, <2>1, ZenonT(60)
  <2>4. PICK body : body = SubSeq(file, 8 * HeaderSize + 1, Len(file))
    BY ZenonT(60)
  <2>5. /\ ReadPhrases(body) \in Seq(Phrase)
        /\ \E st : Chain(data, ReadPhrases(body), st, 0, Len(data))
        /\ Len(StreamBits(ReadPhrases(body))) + (Len(file) - n) = Len(body)
    BY <2>2, <2>3, <2>4, CodedPhrases, ZenonT(60)
  <2>6. ss = ReadPhrases(body) /\ body = Body
    BY <1>6, <2>1, <2>4, ZenonT(60) DEF Body
  <2> QED
    BY <2>1, <2>5, <2>6, ZenonT(60)
<1>8. PICK st : Chain(d, ss, st, 0, Len(d))
  BY <1>7, ZenonT(60)
<1>9. ASSUME InReach(Len(d)) PROVE HasMeaning(ss) /\ Output(Meaning(ss)) = d
  <2>1. MadeOf(d, ss, st)
    BY <1>1, <1>8, <1>9, ChainMadeOf, ZenonT(60)
  <2> QED
    BY <1>1, <2>1, MeaningSound, ZenonT(60)
<1>10. Len(StreamBits(ss)) + nbSkippedBits = Len(Body)
  BY <1>4, <1>7, ZenonT(60)
<1> QED
  BY <1>6, <1>7, <1>9, <1>10, ZenonT(60) DEF Opens, Body

\* The bytes are read from the file of a compressor that has been bypassed.
LEMMA FileReturns ==
  ASSUME SessionInv, BitsInv, Idle, ~ tainted, HeaderFlag(outBuf) = 1,
         NEW pieces, NEW bits,
         pieces = <<CompressionPhrase(0, 0, outLen(outBuf) - HeaderSize, 0, 0, BytesOf(Body))>>
  PROVE  Returns(pieces, bits, outBuf, nbSkippedBits, d, noCompression)
<1>1. /\ d \in Seq(Byte) /\ outBuf \in Seq(Bit) /\ nbSkippedBits \in 0..7
      /\ 24 <= Len(outBuf) /\ Len(outBuf) \in Nat
  BY LenNat, ZenonT(60) DEF SessionInv, SessionTypes, SizesInv, Bit
<1>2. noCompression
  <2>1. SUFFICES ASSUME ~ noCompression PROVE FALSE
    BY ZenonT(60)
  <2>2. PICK n : n = Len(outBuf) - nbSkippedBits
    BY ZenonT(60)
  <2>3. n \in 0..Len(outBuf) /\ Len(outBuf) - n < 8
    BY <1>1, <2>2, SMTT(60)
  <2>4. Coded(SubSeq(outBuf, 1, n), d)
    BY <2>1, <2>2, ZenonT(60) DEF BitsInv
  <2>5. HeaderFlag(outBuf) = 0
    BY <1>1, <2>3, <2>4, CodedPhrases, SMTT(60)
  <2> QED
    BY <2>5, SMTT(60)
<1>3. outBuf = Bypassed(d)
  BY <1>2, ZenonT(60) DEF BitsInv
<1>4. Body = BytesBits(d)
  <2>1. BytesBits(d) \in Seq(Bit)
    BY <1>1, BytesBitsFacts, ZenonT(60)
  <2>2. PICK file : file = HeaderBits(TRUE) \o BytesBits(d)
    BY ZenonT(60)
  <2>3. SubSeq(file, 8 * HeaderSize + 1, Len(file)) = BytesBits(d)
    BY <2>1, <2>2, HeaderBack
  <2>4. file = outBuf
    BY <1>3, <2>2, ZenonT(60) DEF Bypassed
  <2> QED
    BY <2>3, <2>4, ZenonT(60) DEF Body
<1>5. BytesOf(Body) = d
  BY <1>1, <1>4, BytesBack, ZenonT(60)
<1>6. outLen(outBuf) - HeaderSize = Len(d)
  <2>1. Len(outBuf) = 8 * (Len(d) + HeaderSize)
    BY <1>1, <1>3, BypassedFacts, ZenonT(60)
  <2> QED
    BY <1>1, <2>1, LenNat, SMTT(60) DEF outLen, HeaderSize
<1>7. PICK p : p = CompressionPhrase(0, 0, Len(d), 0, 0, d)
  BY ZenonT(60)
<1>8. p.Content = d
  <2>1. SubSeq(d, 0 + 1, Len(d)) = d
    BY <1>1
  <2> QED
    BY <1>7, <2>1, ZenonT(60) DEF CompressionPhrase
<1>9. pieces = Append(<<>>, p)
  <2>1. pieces = <<p>>
    BY <1>5, <1>6, <1>7, ZenonT(60)
  <2> QED
    BY <2>1
<1>10. Contents(pieces) = d
  <2>1. <<>> \in Seq({p}) /\ p \in {p}
    OBVIOUS
  <2>2. Contents(Append(<<>>, p)) = Contents(<<>>) \o p.Content
    BY <2>1, ContentsAppend, ZenonT(60)
  <2>3. Contents(pieces) = <<>> \o d
    BY <1>8, <1>9, <2>2, ContentsNone, ZenonT(60)
  <2>4. <<>> \o d = d
    BY <1>1
  <2> QED
    BY <2>3, <2>4, ZenonT(60)
<1> QED
  BY <1>2, <1>10, ZenonT(60) DEF Returns

\* The last step of CompressedStreamInfo.
LEMMA AllReturned ==
  ASSUME NEW ss, NEW file, NEW skip, NEW data, NEW bypass, Opens(ss, file, skip, data),
         NEW text, NEW bits, NEW pieces, Taken(ss, Len(ss), text, -1, bits, pieces)
  PROVE  Returns(pieces, bits, file, skip, data, bypass)
<1>1. ss \in Seq(Phrase)
  BY ZenonT(60) DEF Opens
<1>2. Contents(pieces) = Output(Meaning(ss)) /\ bits = Len(StreamBits(ss))
  BY <1>1, TakenAll, ZenonT(60)
<1> QED
  BY <1>2, ZenonT(60) DEF Opens, Returns

\* Nothing has been inspected at first.
LEMMA InspectInvInit == InspectionInit => InspectInv
<1> SUFFICES ASSUME InspectionInit PROVE InspectInv
  BY ZenonT(60)
<1>1. ipc = "idle" /\ inspected = FALSE
  BY ZenonT(60) DEF InspectionInit
<1>2. Info!dictData = dictData
  BY ZenonT(60) DEF Info!dictData, dictData, Info!AugmentDict, AugmentDict,
               Info!SymbolShort, SymbolShort, Info!SymbolDynamic, SymbolDynamic
<1>3. Unread
  BY <1>2, ZenonT(60) DEF InspectionInit, Info!InfoInit, Unread
<1> QED
  BY <1>1, <1>3, ZenonT(60) DEF InspectInv

\* Every step of a session and of CompressedStreamInfo keeps the invariant.
LEMMA InspectInvNext ==
  ASSUME SessionInv, BitsInv, InspectInv, [InspectionNext]_allVars
  PROVE  InspectInv'
<1>1. ASSUME UNCHANGED vars
      PROVE  /\ outBuf' = outBuf /\ nbSkippedBits' = nbSkippedBits /\ d' = d
             /\ noCompression' = noCompression /\ tainted' = tainted /\ (Idle' <=> Idle)
  BY <1>1, ZenonT(60) DEF vars, writeVars, outVars, lastVars, modeVars, historyVars, Idle
<1> DEFINE Right ==
             /\ ipc' = "info" =>
                  /\ Opens(fileStream', outBuf, nbSkippedBits, d)
                  /\ Taken(fileStream', infoRead', infoOut', literalCopyStart', inI', res')
             /\ InReach(Len(d)) => ipc' # "panic"
             /\ inspected' => Returns(res', inI', outBuf, nbSkippedBits, d, noCompression)
<1>2. ASSUME UNCHANGED vars, ipc' \in {"idle", "info", "panic"},
             ~ (ipc' = "idle" /\ ~ inspected'), Idle /\ ~ tainted => Right
      PROVE  InspectInv'
  <2>1. ASSUME Idle', ~ tainted'
        PROVE  /\ ipc' = "info" =>
                    /\ Opens(fileStream', outBuf', nbSkippedBits', d')
                    /\ Taken(fileStream', infoRead', infoOut', literalCopyStart', inI', res')
               /\ InReach(Len(d')) => ipc' # "panic"
               /\ inspected' => Returns(res', inI', outBuf', nbSkippedBits', d', noCompression')
    <3>1. Right
      BY <1>2, <1>1, <2>1, SMTT(60)
    <3> QED
      BY <1>2, <1>1, <3>1, ZenonT(60)
  <2> QED
    BY <1>2, <2>1, ZenonT(60) DEF InspectInv
<1>3. CASE UNCHANGED allVars
  <2>1. /\ UNCHANGED vars /\ ipc' = ipc /\ fileStream' = fileStream /\ inspected' = inspected
        /\ infoRead' = infoRead /\ infoOut' = infoOut /\ literalCopyStart' = literalCopyStart
        /\ inI' = inI /\ res' = res
    BY <1>3, ZenonT(60) DEF allVars, infoVars
  <2> QED
    BY <1>1, <2>1, ZenonT(60) DEF InspectInv, Unread
<1>4. CASE NothingReturned
  <2>1. ipc' = "idle" /\ inspected' = FALSE /\ Unread'
    BY <1>4, ZenonT(60) DEF NothingReturned, Unread
  <2> QED
    BY <2>1, ZenonT(60) DEF InspectInv
<1>5. CASE InspectNotCompressed
  <2>1. /\ ipc' = "idle" /\ inspected' = TRUE /\ pc = "idle" /\ HeaderFlag(outBuf) = 1
        /\ UNCHANGED vars
        /\ res' = <<CompressionPhrase(0, 0, outLen(outBuf) - HeaderSize, 0, 0, BytesOf(Body))>>
    BY <1>5, ZenonT(60) DEF InspectNotCompressed, MayInspect
  <2>2. ASSUME Idle, ~ tainted PROVE Returns(res', inI', outBuf, nbSkippedBits, d, noCompression)
    <3>1. PICK pieces, bits : pieces = res' /\ bits = inI'
      BY ZenonT(60)
    <3>2. pieces = <<CompressionPhrase(0, 0, outLen(outBuf) - HeaderSize, 0, 0, BytesOf(Body))>>
      BY <2>1, <3>1, ZenonT(60)
    <3>3. Returns(pieces, bits, outBuf, nbSkippedBits, d, noCompression)
      BY <2>1, <2>2, <3>2, FileReturns, ZenonT(60)
    <3> QED
      BY <3>1, <3>3, ZenonT(60)
  <2>3. ipc' \in {"idle", "info", "panic"} /\ ipc' # "info" /\ ipc' # "panic" /\ inspected'
    BY <2>1, ZenonT(60)
  <2>4. Idle /\ ~ tainted => Right
    BY <2>2, <2>3, ZenonT(60)
  <2> HIDE DEF Right
  <2> QED
    BY <1>2, <2>1, <2>3, <2>4, SMTT(60)
<1>6. CASE InspectCompressed
  <2>1. /\ ipc = "idle" /\ ~ inspected /\ HeaderFlag(outBuf) = 0
        /\ ipc' = "info" /\ fileStream' = ReadPhrases(Body) /\ UNCHANGED vars
        /\ infoRead' = infoRead /\ infoOut' = infoOut /\ literalCopyStart' = literalCopyStart
        /\ inI' = inI /\ res' = res /\ inspected' = inspected
    BY <1>6, ZenonT(60) DEF InspectCompressed, MayInspect, infoVars
  <2>2. Unread
    BY <2>1, ZenonT(60) DEF InspectInv
  <2>3. ASSUME Idle, ~ tainted
        PROVE  /\ Opens(fileStream', outBuf, nbSkippedBits, d)
               /\ Taken(fileStream', infoRead', infoOut', literalCopyStart', inI', res')
    <3>1. PICK ss : ss = ReadPhrases(Body)
      BY ZenonT(60)
    <3>2. Opens(ss, outBuf, nbSkippedBits, d)
      BY <2>1, <2>3, <3>1, FileOpens, ZenonT(60)
    <3>3. ss \in Seq(Phrase)
      BY <3>2, ZenonT(60) DEF Opens
    <3>4. Taken(ss, 0, dictData, -1, 0, <<>>)
      BY <3>3, TakenNone, ZenonT(60)
    <3> QED
      BY <2>1, <2>2, <3>1, <3>2, <3>4, ZenonT(60) DEF Unread
  <2>4. ipc' \in {"idle", "info", "panic"} /\ ipc' # "idle" /\ ipc' # "panic" /\ ~ inspected'
    BY <2>1, ZenonT(60)
  <2>5. Idle /\ ~ tainted => Right
    BY <2>3, <2>4, ZenonT(60)
  <2> HIDE DEF Right
  <2> QED
    BY <1>2, <2>1, <2>4, <2>5, ZenonT(60)
<1>7. CASE InspectStep
  <2>1. /\ ipc = "info" /\ Info!InfoStep /\ inspected' = (ipc' = "idle") /\ UNCHANGED vars
    BY <1>7, ZenonT(60) DEF InspectStep
  <2>2. ipc' \in {"idle", "info", "panic"}
    BY <2>1, ZenonT(60) DEF Info!InfoStep, Info!InfoLiteral, Info!InfoRef, Info!InfoPanics,
                       Info!InfoReturns, Info!InfoReading
  <2>3. ASSUME Idle, ~ tainted
        PROVE  /\ ipc' = "info" =>
                    /\ Opens(fileStream', outBuf, nbSkippedBits, d)
                    /\ Taken(fileStream', infoRead', infoOut', literalCopyStart', inI', res')
               /\ InReach(Len(d)) => ipc' # "panic"
               /\ ipc' = "idle" => Returns(res', inI', outBuf, nbSkippedBits, d, noCompression)
    <3>1. /\ Opens(fileStream, outBuf, nbSkippedBits, d)
          /\ Taken(fileStream, infoRead, infoOut, literalCopyStart, inI, res)
      BY <2>1, <2>3, ZenonT(60) DEF InspectInv
    <3>2. fileStream \in Seq(Phrase)
      BY <3>1, ZenonT(60) DEF Opens
    <3>3. /\ fileStream' = fileStream
          /\ Taken(fileStream, infoRead', infoOut', literalCopyStart', inI', res')
          /\ ipc' = "idle" => infoRead' = Len(fileStream) /\ literalCopyStart' = -1
          /\ ipc' = "panic" =>
               /\ infoRead < Len(fileStream) /\ ~ canEncodeSymbol(fileStream[infoRead+1].symbol)
               /\ fileStream[infoRead+1].address + 1 > Len(infoOut)
      BY <2>1, <3>1, <3>2, InfoStepTaken, ZenonT(60)
    <3>4. ASSUME InReach(Len(d)), ipc' = "panic" PROVE FALSE
      <4>1. HasMeaning(fileStream)
        BY <3>1, <3>4, ZenonT(60) DEF Opens
      <4> QED
        BY <3>1, <3>2, <3>3, <3>4, <4>1, NotOutOfRange, ZenonT(60)
    <3>5. ASSUME ipc' = "idle" PROVE Returns(res', inI', outBuf, nbSkippedBits, d, noCompression)
      <4>1. PICK ss, text, bits, pieces :
              ss = fileStream /\ text = infoOut' /\ bits = inI' /\ pieces = res'
        BY ZenonT(60)
      <4>2. Taken(ss, Len(ss), text, -1, bits, pieces) /\ Opens(ss, outBuf, nbSkippedBits, d)
        BY <3>1, <3>3, <3>5, <4>1, ZenonT(60)
      <4>3. Returns(pieces, bits, outBuf, nbSkippedBits, d, noCompression)
        BY <4>2, AllReturned, ZenonT(60)
      <4> QED
        BY <4>1, <4>3, ZenonT(60)
    <3> QED
      BY <3>1, <3>3, <3>4, <3>5, ZenonT(60)
  <2>4. ipc' = "idle" <=> inspected'
    BY <2>1, ZenonT(60)
  <2>5. Idle /\ ~ tainted => Right
    BY <2>3, <2>4, ZenonT(60)
  <2> HIDE DEF Right
  <2> QED
    BY <1>2, <2>1, <2>2, <2>4, <2>5, ZenonT(60)
<1>8. SessionStep \/ InspectTorn => NothingReturned
  BY ZenonT(60) DEF SessionStep, InspectTorn
<1>9. CASE InspectRefused
  <2>1. /\ UNCHANGED vars /\ fileStream' = fileStream /\ inspected' = inspected
        /\ infoRead' = infoRead /\ infoOut' = infoOut /\ literalCopyStart' = literalCopyStart
        /\ inI' = inI /\ res' = res
    BY <1>9, ZenonT(60) DEF InspectRefused, infoVars
  <2>2. ipc = "idle" /\ ~ inspected /\ ~ HeaderAccepted /\ ipc' \in {"idle", "panic"}
    BY <1>9, ZenonT(60) DEF InspectRefused, MayInspect
  <2>4. ASSUME Idle, ~ tainted, InReach(Len(d)) PROVE ipc' # "panic"
    <3>1. DecompressesTo(outBuf, d)
      BY <2>4, FileIsRight, ZenonT(60)
    <3> QED
      BY <2>2, <3>1, ZenonT(60) DEF HeaderAccepted, DecompressesTo
  <2>5. ~ inspected' /\ Unread' /\ ipc' # "info"
    BY <2>1, <2>2, ZenonT(60) DEF InspectInv, Unread
  <2>6. ASSUME Idle', ~ tainted', InReach(Len(d')) PROVE ipc' # "panic"
    <3>1. d' = d /\ tainted' = tainted /\ (Idle' <=> Idle)
      BY <1>1, <2>1, ZenonT(60)
    <3>2. Idle /\ ~ tainted /\ InReach(Len(d))
      BY <2>6, <3>1, SMTT(60)
    <3> QED
      BY <2>4, <3>2, ZenonT(60)
  <2>7. ipc' \in {"idle", "info", "panic"}
    BY <2>2, ZenonT(60)
  <2> QED
    BY <2>5, <2>6, <2>7, ZenonT(60) DEF InspectInv
<1> QED
  BY <1>3, <1>4, <1>5, <1>6, <1>7, <1>8, <1>9, ZenonT(60) DEF InspectionNext

\* The inductive invariant of a session whose output is inspected.
THEOREM InspectInvariant == InspectionSpec => [](SessionInv /\ BitsInv /\ InspectInv)
<1>1. InspectionInit => SessionInv /\ BitsInv /\ InspectInv
  BY SessionInvInit, BitsInvInit, InspectInvInit, ZenonT(60) DEF InspectionInit
<1>2. /\ SessionInv /\ BitsInv /\ InspectInv /\ [InspectionNext]_allVars
      => SessionInv' /\ BitsInv' /\ InspectInv'
  BY InspectionStep, SessionInvNext, BitsInvNext, InspectInvNext, ZenonT(60)
<1> QED
  BY <1>1, <1>2, PTL DEF InspectionSpec

\* decompress.go:97-206: at any point of a session CompressedStreamInfo takes Bytes()
\* apart into pieces that make up WrittenBytes(), in either mode, and does not panic,
\* for every input with all of the dictionary in reach.
THEOREM InfoIsRight == InspectionSpec => [](InReach(Len(d)) => InfoOfSession)
<1>1. InspectInv => (InReach(Len(d)) => InfoOfSession)
  BY ZenonT(60) DEF InspectInv, InfoOfSession, Returns
<1> QED
  BY <1>1, InspectInvariant, PTL

\* decompress.go:138-173, compress.go:93-101: the bits that it has counted end where
\* the padding starts that the compressor has counted, for every input.
THEOREM InfoEndsRight == InspectionSpec => []InfoEndsAtPadding
<1>1. InspectInv => InfoEndsAtPadding
  BY ZenonT(60) DEF InspectInv, InfoEndsAtPadding, Returns, Body
<1> QED
  BY <1>1, InspectInvariant, PTL
=============================================================================
