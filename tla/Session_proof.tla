---------------------------- MODULE Session_proof ----------------------------
(***************************************************************************)
(* A Compressor in the hands of a client: whatever calls are made, in      *)
(* whatever order, the sizes it keeps stay right, and what it holds is a   *)
(* text with one undo.                                                     *)
(***************************************************************************)
EXTENDS Inspection, Bits_proof

\* The sizes of what was put out.  A Write that goes on takes the last byte off the
\* output and gives it back, so that what it was before is never cut into; between
\* calls that did not fail there is a header at least.
SizesInv ==
  /\ 16 <= Len(outBuf)
  /\ Idle => 24 <= Len(outBuf)
  /\ ~ noCompression => HeaderSize <= lastOutLen
  /\ Idle => 8 * lastOutLen <= Len(outBuf)

\* The state of a call to write.
CallInv ==
  pc = "write" =>
    /\ ~ failed /\ ~ noCompression /\ ~ considered
    /\ lastInLen # -1 /\ (reverting => lastInLen = 0)
    /\ 8 * lastOutLen < Len(outBuf) + Len(cache) + 8

BypassInv ==
  /\ noCompression => Len(outBuf) = 8 * (Len(d) + HeaderSize) /\ nbSkippedBits = 0
  /\ considered => Len(outBuf) <= 8 * (Len(d) + HeaderSize)

\* What a compressor has put out for its first Write.
FirstWriteInv ==
  ~ tainted /\ ~ failed =>
    /\ Idle => cache = <<>>
    /\ Idle /\ d = <<>> => Len(outBuf) = 8 * HeaderSize /\ nbSkippedBits = 0
    /\ lastInLen = 0 /\ ~ noCompression =>
         /\ lastOutLen = HeaderSize /\ lastNbSkippedBits = 0
         /\ pc = "write" => Len(outBuf) = 8 * HeaderSize /\ cache = <<>>

SessionInv ==
  /\ SessionTypes /\ WriterInv(starts[1])
  /\ SizesInv /\ CallInv /\ BypassInv /\ FirstWriteInv

-----------------------------------------------------------------------------
(* The start of a Write. *)

\* A Write can go on from file, with skip bits of padding, when the input is data.
FileOK(file, skip, data, bypass) ==
  /\ file \in Seq(Bit) /\ Len(file) % 8 = 0 /\ 24 <= Len(file) /\ skip \in 0..7
  /\ data \in Seq(Byte) /\ Len(data) <= MaxInputSize
  /\ bypass \in BOOLEAN
  /\ bypass => Len(file) = 8 * (Len(data) + HeaderSize) /\ skip = 0

\* What it leaves when it starts its loop, or has returned.
Started(file, skip, data, bypass, chunk) ==
  /\ outBuf' \in Seq(Bit) /\ Len(outBuf') % 8 = 0 /\ 16 <= Len(outBuf')
  /\ cache' \in Seq(Bit) /\ Len(cache') < 8
  /\ ~ bypass => Len(outBuf') + Len(cache') = (Len(file) - skip) + Len(cache)
  /\ bypass => Len(outBuf') = 8 * (Len(d') + HeaderSize)
  /\ skip = 0 /\ Len(cache) = 0 => Len(cache') = 0 /\ (~ bypass => Len(outBuf') = Len(file))
  /\ failed' \in BOOLEAN /\ (failed' <=> Len(data) + Len(chunk) > MaxInputSize)
  /\ failed' \/ bypass => pc' = "idle"
  /\ ~ failed' /\ ~ bypass => pc' = "write"
  /\ failed' => d' = data
  /\ ~ failed' => d' = data \o chunk /\ Len(d') = Len(data) + Len(chunk)
  /\ lastOutLen' = Len(file) \div 8 /\ lastNbSkippedBits' = skip /\ nbSkippedBits' = skip
  /\ noCompression' = bypass /\ considered' = FALSE

\* The beginning of a Write (compress.go:93-122), whatever call makes it.
LEMMA StartWriteSound ==
  ASSUME NEW file, NEW skip, NEW data, NEW bypass, FileOK(file, skip, data, bypass),
         NEW chunk \in Seq(Byte), SessionTypes, pc = "idle",
         StartWrite(file, skip, data, bypass, chunk)
  PROVE  WriterInv(starts[1])' /\ Started(file, skip, data, bypass, chunk)
<1>0. /\ file \in Seq(Bit) /\ Len(file) % 8 = 0 /\ 24 <= Len(file) /\ skip \in 0..7
      /\ data \in Seq(Byte) /\ Len(data) <= MaxInputSize
      /\ bypass \in BOOLEAN
      /\ bypass => Len(file) = 8 * (Len(data) + HeaderSize) /\ skip = 0
      /\ cache \in Seq(Bit) /\ Len(cache) < 8
  BY ZenonT(60) DEF FileOK, SessionTypes, Bit
<1> DEFINE bits == cache \o SubSeq(file, Len(file) - 7, Len(file) - skip)
           file1 == SubSeq(file, 1, Len(file) - 8) \o WholeBytes(bits)
           rest == Rest(bits)
           tooLarge == Len(data) + Len(chunk) > MaxInputSize
<1>1. /\ file1 \in Seq(Bit) /\ Len(file1) % 8 = 0 /\ 16 <= Len(file1)
      /\ rest \in Seq(Bit) /\ Len(rest) < 8
      /\ Len(file1) + Len(rest) = (Len(file) - skip) + Len(cache)
      /\ skip = 0 => Len(file1) = Len(file) /\ Len(rest) = Len(cache)
  BY <1>0, TakeBack, ZenonT(60)
<1>2. /\ lastOutLen' = Len(file) \div 8 /\ lastNbSkippedBits' = skip /\ nbSkippedBits' = skip
      /\ noCompression' = bypass /\ considered' = FALSE /\ cache' = rest
      /\ i' = Len(data) /\ cb' = newCircularBuffer /\ stream' = <<>> /\ starts' = <<Len(data)>>
      /\ \/ tooLarge /\ failed' = TRUE /\ d' = data /\ outBuf' = file1 /\ pc' = pc
         \/ /\ ~ tooLarge /\ failed' = FALSE /\ d' = data \o chunk
            /\ \/ bypass /\ outBuf' = file1 \o BytesBits(chunk) /\ pc' = pc
               \/ ~ bypass /\ outBuf' = file1 /\ pc' = "write"
  BY <1>0, ZenonT(60) DEF StartWrite, outLen
<1> HIDE DEF bits, file1, rest
<1>3. BytesBits(chunk) \in Seq(Bit) /\ Len(BytesBits(chunk)) = 8 * Len(chunk)
  BY BytesBitsFacts, ZenonT(60)
<1>4. /\ file1 \o BytesBits(chunk) \in Seq(Bit)
      /\ Len(file1 \o BytesBits(chunk)) = Len(file1) + Len(BytesBits(chunk))
  BY <1>1, <1>3, ConcatFacts, ZenonT(60)
<1>5. data \o chunk \in Seq(Byte) /\ Len(data \o chunk) = Len(data) + Len(chunk)
  BY <1>0, ConcatFacts, ZenonT(60)
<1>6. Len(data) \in Nat /\ Len(chunk) \in Nat /\ Len(file1) \in Nat /\ MaxInputSize \in Nat
  <2>1. file1 \in Seq(Bit)
    BY <1>1, ZenonT(60)
  <2> QED
    BY <1>0, <2>1, LenNat, SizeAssumption, ZenonT(60)
<1>7. d' \in Seq(Byte) /\ Len(d') <= MaxInputSize /\ Len(data) <= Len(d')
  <2>1. CASE tooLarge
    BY <1>0, <1>2, <1>6, <2>1, SMTT(60)
  <2>2. CASE ~ tooLarge
    <3>1. d' = data \o chunk
      BY <1>2, <2>2, ZenonT(60)
    <3>2. Len(data) + Len(chunk) <= MaxInputSize /\ Len(data) <= Len(data) + Len(chunk)
      BY <1>6, <2>2
    <3> QED
      BY <1>5, <3>1, <3>2, ZenonT(60)
  <2> QED
    BY <2>1, <2>2, ZenonT(60)
<1>8. WriterInv(starts[1])'
  <2>1. i' \in 0..Len(d') /\ i' \in Nat
    BY <1>2, <1>6, <1>7, SMTT(60)
  <2>2. Chain(d', <<>>, <<i'>>, i', i') /\ BufferOK(d', newCircularBuffer)
    BY <1>7, <2>1, FreshWriter, ZenonT(60)
  <2>3. starts'[1] = i' /\ starts' = <<i'>>
    BY <1>2, ZenonT(60)
  <2> QED
    BY <1>2, <1>7, <2>1, <2>2, <2>3, ZenonT(60) DEF WriterInv
<1>9. outBuf' \in Seq(Bit)
  BY <1>1, <1>2, <1>4, ZenonT(60)
<1>10. Len(outBuf') % 8 = 0 /\ 16 <= Len(outBuf')
  <2>1. CASE outBuf' = file1
    BY <1>1, <2>1, ZenonT(60)
  <2>2. CASE outBuf' = file1 \o BytesBits(chunk)
    <3> DEFINE f == Len(file1)
               n == Len(chunk)
    <3>1. Len(outBuf') = f + 8 * n /\ f \in Nat /\ n \in Nat /\ f % 8 = 0 /\ 16 <= f
      BY <1>1, <1>3, <1>4, <1>6, <2>2, ZenonT(60)
    <3> HIDE DEF f, n
    <3> QED
      BY <3>1
  <2>3. outBuf' = file1 \/ outBuf' = file1 \o BytesBits(chunk)
    BY <1>2, ZenonT(60)
  <2> QED
    BY <2>1, <2>2, <2>3, ZenonT(60)
<1>11. ASSUME bypass PROVE Len(outBuf') = 8 * (Len(d') + HeaderSize)
  <2>1. Len(file1) = 8 * (Len(data) + HeaderSize)
    BY <1>0, <1>1, <1>11, ZenonT(60)
  <2>2. CASE tooLarge
    BY <1>2, <2>1, <2>2, ZenonT(60)
  <2>3. CASE ~ tooLarge
    <3>1. outBuf' = file1 \o BytesBits(chunk) /\ d' = data \o chunk
      BY <1>2, <1>11, <2>3, ZenonT(60)
    <3> QED
      BY <1>3, <1>4, <1>5, <1>6, <2>1, <3>1, SMTT(60) DEF HeaderSize
  <2> QED
    BY <2>2, <2>3, ZenonT(60)
<1>12. CASE tooLarge
  <2>1. failed' = TRUE /\ d' = data /\ outBuf' = file1 /\ pc' = "idle"
    BY <1>2, <1>12, ZenonT(60)
  <2> QED
    BY <1>1, <1>2, <1>8, <1>9, <1>10, <1>11, <1>12, <2>1, ZenonT(60) DEF Started
<1>13. CASE ~ tooLarge
  <2>1. failed' = FALSE /\ d' = data \o chunk
    BY <1>2, <1>13, ZenonT(60)
  <2>2. /\ bypass => pc' = "idle"
        /\ ~ bypass => pc' = "write" /\ outBuf' = file1
    BY <1>2, <1>13, ZenonT(60)
  <2> QED
    BY <1>1, <1>2, <1>5, <1>8, <1>9, <1>10, <1>11, <1>13, <2>1, <2>2, ZenonT(60) DEF Started
<1> QED
  BY <1>12, <1>13, ZenonT(60)

\* What the three calls that start a Write have in common otherwise.
CallOK(file, skip) ==
  /\ {reverting', reverted', tainted'} \subseteq BOOLEAN
  /\ lastInLen' \in -1..Len(d')
  /\ ~ failed' => lastInLen' # -1
  /\ reverting' => lastInLen' = 0
  /\ ~ tainted' => Len(cache) = 0
  /\ ~ tainted' /\ ~ failed' /\ lastInLen' = 0 => Len(file) = 24 /\ skip = 0

\* They keep SessionInv.
LEMMA CallStarts ==
  ASSUME NEW file, NEW skip, NEW data, NEW bypass, FileOK(file, skip, data, bypass),
         NEW chunk \in Seq(Byte), SessionTypes, pc = "idle",
         StartWrite(file, skip, data, bypass, chunk), CallOK(file, skip)
  PROVE  SessionInv'
<1>1. WriterInv(starts[1])' /\ Started(file, skip, data, bypass, chunk)
  BY StartWriteSound, ZenonT(60)
<1>2. /\ Len(file) \in Nat /\ Len(cache) \in Nat /\ Len(outBuf') \in Nat /\ Len(cache') \in Nat
      /\ Len(d') \in Nat
      /\ d' \in Seq(Byte) /\ i' \in 0..Len(d') /\ Len(d') <= MaxInputSize
  <2>1. d' \in Seq(Byte) /\ i' \in 0..Len(d') /\ Len(d') <= MaxInputSize
    BY <1>1, ZenonT(60) DEF WriterInv
  <2>2. outBuf' \in Seq(Bit) /\ cache' \in Seq(Bit)
    BY <1>1, ZenonT(60) DEF Started
  <2>3. cache \in Seq(Bit)
    BY ZenonT(60) DEF SessionTypes, Bit
  <2>4. file \in Seq(Bit)
    BY ZenonT(60) DEF FileOK
  <2>5. Len(file) \in Nat /\ Len(cache) \in Nat /\ Len(outBuf') \in Nat /\ Len(cache') \in Nat
    BY <2>2, <2>3, <2>4, LenNat, ZenonT(60)
  <2>6. Len(d') \in Nat
    BY <2>1, LenNat, ZenonT(60)
  <2> QED
    BY <2>1, <2>5, <2>6, ZenonT(60)
<1>3. lastOutLen' \in Nat /\ HeaderSize <= lastOutLen' /\ 8 * lastOutLen' = Len(file)
  <2>1. lastOutLen' = Len(file) \div 8 /\ Len(file) % 8 = 0 /\ 24 <= Len(file)
    BY <1>1, ZenonT(60) DEF Started, FileOK
  <2> QED
    BY <1>2, <2>1 DEF HeaderSize
<1>4. noCompression' = bypass /\ considered' = FALSE /\ bypass \in BOOLEAN /\ failed' \in BOOLEAN
  BY <1>1, ZenonT(60) DEF Started, FileOK
<1>5. /\ pc' \in {"idle", "write"}
      /\ pc' = "write" => ~ failed' /\ ~ bypass
      /\ Idle' => bypass /\ ~ failed'
  BY <1>1, <1>4, ZenonT(60) DEF Started, Idle
<1>6. SessionTypes'
  <2>1. {noCompression', reverting', failed', tainted', reverted', considered'} \subseteq BOOLEAN
    BY <1>4, ZenonT(60) DEF CallOK
  <2>2. nbSkippedBits' \in 0..7 /\ lastNbSkippedBits' \in 0..7
    BY <1>1, ZenonT(60) DEF Started, FileOK
  <2>3. outBuf' \in Seq({0, 1}) /\ Len(outBuf') % 8 = 0 /\ cache' \in Seq({0, 1}) /\ Len(cache') < 8
    BY <1>1, ZenonT(60) DEF Started, Bit
  <2>4. lastInLen' \in -1..Len(d')
    BY ZenonT(60) DEF CallOK
  <2> QED
    BY <1>2, <1>3, <1>5, <2>1, <2>2, <2>3, <2>4, ZenonT(60) DEF SessionTypes
<1>7. bypass => Len(outBuf') = 8 * (Len(d') + HeaderSize) /\ nbSkippedBits' = 0
  BY <1>1, ZenonT(60) DEF Started, FileOK
<1>8. SizesInv'
  <2>1. bypass => 24 <= Len(outBuf')
    BY <1>2, <1>7 DEF HeaderSize
  <2>2. 16 <= Len(outBuf')
    BY <1>1, ZenonT(60) DEF Started
  <2>3. ASSUME Idle' PROVE 8 * lastOutLen' <= Len(outBuf')
    <3>1. bypass /\ ~ failed'
      BY <1>5, <2>3, ZenonT(60)
    <3>2. Len(d') = Len(data) + Len(chunk)
      BY <1>1, <3>1, ZenonT(60) DEF Started
    <3>3. Len(data) \in Nat /\ Len(chunk) \in Nat
      BY LenNat, ZenonT(60) DEF FileOK
    <3>4. 8 * lastOutLen' = 8 * (Len(data) + HeaderSize)
      BY <1>3, <3>1, ZenonT(60) DEF FileOK
    <3>5. 8 * (Len(data) + HeaderSize) <= 8 * ((Len(data) + Len(chunk)) + HeaderSize)
      BY <3>3 DEF HeaderSize
    <3> QED
      BY <1>7, <3>1, <3>2, <3>4, <3>5, ZenonT(60)
  <2> QED
    BY <1>3, <1>4, <1>5, <2>1, <2>2, <2>3, ZenonT(60) DEF SizesInv
<1>9. CallInv'
  <2>1. ASSUME ~ bypass PROVE 8 * lastOutLen' < Len(outBuf') + Len(cache') + 8
    <3>1. Len(outBuf') + Len(cache') = (Len(file) - skip) + Len(cache) /\ skip \in 0..7
      BY <1>1, <2>1, ZenonT(60) DEF Started, FileOK
    <3>2. PICK x, y, z : x = Len(file) /\ y = Len(outBuf') + Len(cache') /\ z = lastOutLen'
      BY ZenonT(60)
    <3>3. Len(cache) \in Nat /\ x \in Nat /\ y = (x - skip) + Len(cache) /\ 8 * z = x
      BY <1>2, <1>3, <3>1, <3>2, ZenonT(60)
    <3>4. 8 * z < y + 8
      BY <3>1, <3>3, SMTT(60)
    <3>5. y + 8 = Len(outBuf') + Len(cache') + 8
      BY <3>2, ZenonT(60)
    <3> QED
      BY <3>2, <3>4, <3>5, ZenonT(60)
  <2>2. /\ ~ failed' => lastInLen' # -1
        /\ reverting' => lastInLen' = 0
    BY ZenonT(60) DEF CallOK
  <2> QED
    BY <1>4, <1>5, <2>1, <2>2, ZenonT(60) DEF CallInv
<1>10. BypassInv'
  BY <1>4, <1>7, ZenonT(60) DEF BypassInv
<1>11. FirstWriteInv'
  <2> SUFFICES ASSUME ~ tainted', ~ failed'
               PROVE  /\ Idle' => cache' = <<>>
                      /\ Idle' /\ d' = <<>> => Len(outBuf') = 8 * HeaderSize /\ nbSkippedBits' = 0
                      /\ lastInLen' = 0 /\ ~ noCompression' =>
                           /\ lastOutLen' = HeaderSize /\ lastNbSkippedBits' = 0
                           /\ pc' = "write" /\ Len(outBuf') = 8 * HeaderSize /\ cache' = <<>>
    BY ZenonT(60) DEF FirstWriteInv
  <2>1. Len(cache) = 0
    BY ZenonT(60) DEF CallOK
  <2>2. skip = 0 => cache' = <<>>
    <3>1. cache' \in Seq(Bit) /\ (skip = 0 => Len(cache') = 0)
      BY <1>1, <2>1, ZenonT(60) DEF Started
    <3> QED
      BY <3>1, SMTT(60)
  <2>3. Idle' => cache' = <<>>
    BY <1>5, <2>2, ZenonT(60) DEF FileOK
  <2>4. Idle' /\ d' = <<>> => Len(outBuf') = 8 * HeaderSize /\ nbSkippedBits' = 0
    <3>1. d' = <<>> => Len(d') = 0
      OBVIOUS
    <3> QED
      BY <1>5, <1>7, <3>1, SMTT(60) DEF HeaderSize
  <2>5. ASSUME lastInLen' = 0, ~ noCompression'
        PROVE  /\ lastOutLen' = HeaderSize /\ lastNbSkippedBits' = 0
               /\ pc' = "write" /\ Len(outBuf') = 8 * HeaderSize /\ cache' = <<>>
    <3>1. Len(file) = 24 /\ skip = 0 /\ ~ bypass
      BY <1>4, <2>5, ZenonT(60) DEF CallOK
    <3>2. Len(outBuf') = 24 /\ pc' = "write" /\ lastNbSkippedBits' = 0
      BY <1>1, <2>1, <3>1, ZenonT(60) DEF Started
    <3>3. lastOutLen' = HeaderSize
      <4>1. lastOutLen' \in Nat /\ 8 * lastOutLen' = 24
        BY <1>3, <3>1, ZenonT(60)
      <4>2. \A n \in Nat : 8 * n = 24 => n = 3
        OBVIOUS
      <4> QED
        BY <4>1, <4>2, ZenonT(60) DEF HeaderSize
    <3> QED
      BY <2>2, <3>1, <3>2, <3>3, SMTT(60) DEF HeaderSize
  <2> QED
    BY <2>3, <2>4, <2>5, ZenonT(60)
<1> QED
  BY <1>1, <1>6, <1>8, <1>9, <1>10, <1>11, ZenonT(60) DEF SessionInv

-----------------------------------------------------------------------------
(* The other calls, and the steps of write. *)

\* A header alone is a file that nothing was written to.
LEMMA HeaderIsFile == FileOK(HeaderBits(FALSE), 0, <<>>, FALSE)
<1>1. HeaderBits(FALSE) \in Seq(Bit) /\ Len(HeaderBits(FALSE)) = 24
  BY HeaderBitsFacts, ZenonT(60)
<1> DEFINE h == HeaderBits(FALSE)
           none == <<>>
<1>2. none \in Seq(Byte) /\ Len(none) <= MaxInputSize
  BY SizeAssumption
<1>3. h \in Seq(Bit) /\ Len(h) = 24
  BY <1>1, ZenonT(60)
<1>4. 0 \in 0..7
  OBVIOUS
<1> HIDE DEF h, none
<1>5. Len(h) % 8 = 0 /\ 24 <= Len(h) /\ h \in Seq(Bit)
  BY <1>3
<1>6. FileOK(h, 0, none, FALSE)
  BY <1>2, <1>4, <1>5, ZenonT(60) DEF FileOK
<1> QED
  BY <1>6, ZenonT(60) DEF h, none

\* Write.
LEMMA CallWriteStep ==
  ASSUME SessionInv, NEW chunk \in Chunks, CallWrite(chunk)
  PROVE  SessionInv'
<1>1. /\ Idle /\ StartWrite(outBuf, nbSkippedBits, d, noCompression, chunk)
      /\ lastInLen' = (IF failed' THEN lastInLen ELSE Len(d))
      /\ reverting' = FALSE /\ reverted' = (reverted /\ failed') /\ tainted' = tainted
  BY ZenonT(60) DEF CallWrite
<1>2. SessionTypes /\ SizesInv /\ BypassInv /\ FirstWriteInv
  BY ZenonT(60) DEF SessionInv
<1>3. FileOK(outBuf, nbSkippedBits, d, noCompression)
  BY <1>1, <1>2, ZenonT(60) DEF FileOK, SessionTypes, SizesInv, BypassInv, Bit
<1>4. pc = "idle" /\ chunk \in Seq(Byte)
  BY <1>1, ChunksAssumption, ZenonT(60) DEF Idle
<1>5. Started(outBuf, nbSkippedBits, d, noCompression, chunk)
  BY <1>1, <1>2, <1>3, <1>4, StartWriteSound, ZenonT(60)
<1>6. CallOK(outBuf, nbSkippedBits)
  <2>1. {reverting', reverted', tainted'} \subseteq BOOLEAN
    BY <1>1, <1>2, ZenonT(60) DEF SessionTypes
  <2>2. Len(d) \in Nat /\ lastInLen \in -1..Len(d) /\ Len(chunk) \in Nat
    BY <1>2, <1>4, LenNat, ZenonT(60) DEF SessionTypes
  <2>3. lastInLen' \in -1..Len(d') /\ (~ failed' => lastInLen' # -1 /\ lastInLen' = Len(d))
    <3>1. CASE failed'
      BY <1>1, <1>5, <2>2, <3>1, ZenonT(60) DEF Started
    <3>2. CASE ~ failed'
      <4>1. lastInLen' = Len(d) /\ Len(d') = Len(d) + Len(chunk)
        BY <1>1, <1>5, <3>2, ZenonT(60) DEF Started
      <4> QED
        BY <2>2, <4>1
    <3> QED
      BY <3>1, <3>2, ZenonT(60)
  <2>4. ~ tainted' => Len(cache) = 0
    BY <1>1, <1>2 DEF FirstWriteInv, Idle
  <2>5. ASSUME ~ tainted', ~ failed', lastInLen' = 0
        PROVE  Len(outBuf) = 24 /\ nbSkippedBits = 0
    <3>1. d = <<>>
      BY <1>2, <2>3, <2>5, SMTT(60) DEF SessionTypes
    <3> QED
      BY <1>1, <1>2, <2>5, <3>1, SMTT(60) DEF FirstWriteInv, Idle, HeaderSize
  <2> QED
    BY <1>1, <2>1, <2>3, <2>4, <2>5, ZenonT(60) DEF CallOK
<1> QED
  BY <1>1, <1>2, <1>3, <1>4, <1>6, CallStarts, ZenonT(60)

\* Compress, and Revert of what was bypassed: both write to a fresh compressor.
LEMMA FreshCallStep ==
  ASSUME SessionInv, NEW chunk \in Seq(Byte), pc = "idle",
         StartWrite(HeaderBits(FALSE), 0, <<>>, FALSE, chunk),
         lastInLen' = 0, {reverting', reverted'} \subseteq BOOLEAN, tainted' = (cache # <<>>)
  PROVE  SessionInv'
<1>1. SessionTypes
  BY ZenonT(60) DEF SessionInv
<1>2. WriterInv(starts[1])' /\ Started(HeaderBits(FALSE), 0, <<>>, FALSE, chunk)
  BY <1>1, HeaderIsFile, StartWriteSound, ZenonT(60)
<1>3. CallOK(HeaderBits(FALSE), 0)
  <2>1. 0 \in -1..Len(d')
    <3>1. Len(d') \in Nat
      BY <1>2, LenNat, ZenonT(60) DEF WriterInv
    <3> QED
      BY <3>1
  <2>2. Len(HeaderBits(FALSE)) = 24
    BY HeaderBitsFacts, ZenonT(60)
  <2>3. ~ tainted' => Len(cache) = 0
    <3>1. ~ tainted' => cache = <<>>
      BY ZenonT(60)
    <3> QED
      BY <3>1
  <2>4. {reverting', reverted', tainted'} \subseteq BOOLEAN
    <3>1. tainted' \in BOOLEAN
      BY ZenonT(60)
    <3> QED
      BY <3>1, ZenonT(60)
  <2>5. lastInLen' \in -1..Len(d') /\ lastInLen' # -1
    BY <2>1, SMTT(60)
  <2> QED
    BY <2>2, <2>3, <2>4, <2>5, ZenonT(60) DEF CallOK
<1> QED
  BY <1>1, <1>3, HeaderIsFile, CallStarts, ZenonT(60)

\* Compress resets, and writes its argument.
LEMMA CompressStep ==
  ASSUME SessionInv, NEW chunk \in Chunks, Compress(chunk)
  PROVE  SessionInv'
<1>1. chunk \in Seq(Byte)
  BY ChunksAssumption, ZenonT(60)
<1> QED
  BY <1>1, FreshCallStep, ZenonT(60) DEF Compress

\* Revert of a bypassed compressor resets, and writes the older input again.
LEMMA RevertBypassedStep ==
  ASSUME SessionInv, RevertBypassed
  PROVE  SessionInv'
<1>1. SubSeq(d, 1, lastInLen) \in Seq(Byte)
  <2>1. d \in Seq(Byte) /\ lastInLen \in -1..Len(d) /\ lastInLen # -1 /\ Len(d) \in Nat
    BY LenNat, ZenonT(60) DEF SessionInv, SessionTypes, RevertBypassed
  <2>2. lastInLen \in Nat /\ lastInLen <= Len(d)
    BY <2>1
  <2> QED
    BY <2>1, <2>2, PrefixFacts, ZenonT(60)
<1> QED
  BY <1>1, FreshCallStep, ZenonT(60) DEF RevertBypassed, MayRevert, Idle

\* Every iteration of write.
LEMMA LoopStepStep ==
  ASSUME SessionInv, LoopStep
  PROVE  SessionInv' /\ pc = "write" /\ UNCHANGED <<pc, d>>
<1>1. PICK begin : begin = starts[1]
  BY ZenonT(60)
<1>2. WriterInv(begin)
  BY <1>1, ZenonT(60) DEF SessionInv
<1>3. WriterInv(begin)'
  <2>1. CASE \E count \in 1..maxLength : WriteRunContinued(count) \/ WriteRun(count)
    BY <1>2, <2>1, RunSteps, ZenonT(60)
  <2>2. CASE WriteReserved \/ WriteLiteral \/ WriteLiteralBetterAt1
             \/ WriteLiteralsBetterAt2 \/ WriteBackref
    BY <1>2, <2>2, SearchSteps, ZenonT(60)
  <2> QED
    BY <2>1, <2>2, ZenonT(60) DEF LoopStep
<1>4. WriterInv(starts[1])'
  <2>1. starts'[1] = begin
    BY <1>3, ZenonT(60) DEF WriterInv, Chain
  <2> QED
    BY <1>3, <2>1, ZenonT(60) DEF WriterInv
<1>5. pc = "write" /\ UNCHANGED <<pc, d>>
  BY ZenonT(60) DEF LoopStep, WriteRunContinued, WriteRun, LongRun, WriteReserved, WriteLiteral,
     WriteLiteralBetterAt1, WriteLiteralsBetterAt2, WriteBackref, NoLongRun, Iteration
<1>6. UNCHANGED <<outVars, lastVars, modeVars, historyVars>>
  BY ZenonT(60) DEF LoopStep
<1>7. /\ outBuf' = outBuf /\ cache' = cache /\ nbSkippedBits' = nbSkippedBits
      /\ lastOutLen' = lastOutLen /\ lastNbSkippedBits' = lastNbSkippedBits
      /\ lastInLen' = lastInLen /\ noCompression' = noCompression /\ reverting' = reverting
      /\ failed' = failed /\ tainted' = tainted /\ reverted' = reverted
      /\ considered' = considered /\ d' = d /\ pc' = pc
  BY <1>5, <1>6, ZenonT(60) DEF outVars, lastVars, modeVars, historyVars
<1>8. SessionTypes'
  BY <1>4, <1>7, ZenonT(60) DEF SessionInv, SessionTypes, WriterInv
<1>9. SizesInv' /\ CallInv' /\ BypassInv'
  BY <1>7, ZenonT(60) DEF SessionInv, SizesInv, CallInv, BypassInv, Idle
<1>10. FirstWriteInv'
  BY <1>5, <1>7, ZenonT(60) DEF SessionInv, FirstWriteInv, Idle
<1> QED
  BY <1>4, <1>5, <1>8, <1>9, <1>10, ZenonT(60) DEF SessionInv

\* The output of a bypassed compressor is its input, and a header.
LEMMA BypassedFacts ==
  ASSUME NEW data \in Seq(Byte)
  PROVE  Bypassed(data) \in Seq(Bit) /\ Len(Bypassed(data)) = 8 * (Len(data) + HeaderSize)
<1> DEFINE h == HeaderBits(TRUE)
           b == BytesBits(data)
<1>1. h \in Seq(Bit) /\ Len(h) = 24
  BY HeaderBitsFacts, ZenonT(60)
<1>2. b \in Seq(Bit) /\ Len(b) = 8 * Len(data)
  BY BytesBitsFacts, ZenonT(60)
<1>3. Bypassed(data) = h \o b
  BY ZenonT(60) DEF Bypassed
<1> HIDE DEF h, b
<1>4. h \o b \in Seq(Bit) /\ Len(h \o b) = Len(h) + Len(b)
  <2>1. h \in Seq(Bit) /\ b \in Seq(Bit)
    BY <1>1, <1>2, ZenonT(60)
  <2> QED
    BY <2>1, ConcatFacts, ZenonT(60)
<1>5. Len(data) \in Nat
  BY LenNat, ZenonT(60)
<1> QED
  BY <1>1, <1>2, <1>3, <1>4, <1>5, SMTT(60) DEF HeaderSize

\* ConsiderBypassing, at the end of a Revert or when it is called.
LEMMA ConsiderSound ==
  ASSUME d \in Seq(Byte), noCompression \in BOOLEAN,
         NEW file \in Seq(Bit), Len(file) % 8 = 0, NEW skip \in 0..7,
         NEW last \in -1..Len(d), NEW lastOut \in Nat, NEW lastSkip \in 0..7,
         Consider(file, skip, last, lastOut, lastSkip)
  PROVE  /\ outBuf' \in Seq(Bit) /\ Len(outBuf') % 8 = 0
         /\ nbSkippedBits' \in 0..7 /\ lastNbSkippedBits' \in 0..7
         /\ lastOutLen' \in Nat /\ noCompression' \in BOOLEAN
         /\ Len(outBuf') <= 8 * (Len(d) + HeaderSize)
         /\ \/ /\ noCompression' = TRUE
               /\ Len(outBuf') = 8 * (Len(d) + HeaderSize) /\ nbSkippedBits' = 0
               /\ 8 * lastOutLen' <= Len(outBuf')
            \/ /\ noCompression' = noCompression /\ outBuf' = file /\ nbSkippedBits' = skip
               /\ lastOutLen' = lastOut /\ lastNbSkippedBits' = lastSkip
<1>0. Len(d) \in Nat /\ Len(file) \in Nat
  BY LenNat, ZenonT(60)
<1>1. CASE Expands(file, d)
  <2>1. /\ noCompression' = TRUE
        /\ outBuf' = Bypassed(d) /\ nbSkippedBits' = 0
        /\ lastOutLen' = last + HeaderSize /\ lastNbSkippedBits' = 0
    BY <1>1, ZenonT(60) DEF Consider
  <2>2. outBuf' \in Seq(Bit) /\ Len(outBuf') = 8 * (Len(d) + HeaderSize)
    BY <2>1, BypassedFacts, ZenonT(60)
  <2>3. last + HeaderSize \in Nat /\ 8 * (Len(d) + HeaderSize) \in Nat
    BY <1>0 DEF HeaderSize
  <2>4. Len(outBuf') % 8 = 0
    BY <1>0, <2>2, SMTT(60) DEF HeaderSize
  <2>5. 8 * (last + HeaderSize) <= 8 * (Len(d) + HeaderSize)
    BY <1>0 DEF HeaderSize
  <2>6. 8 * (Len(d) + HeaderSize) <= 8 * (Len(d) + HeaderSize)
    BY <2>3
  <2>7. 0 \in 0..7
    OBVIOUS
  <2> QED
    BY <2>1, <2>2, <2>3, <2>4, <2>5, <2>6, <2>7, ZenonT(60)
<1>2. CASE ~ Expands(file, d)
  <2>1. /\ noCompression' = noCompression /\ outBuf' = file /\ nbSkippedBits' = skip
        /\ lastOutLen' = lastOut /\ lastNbSkippedBits' = lastSkip
    BY <1>2, ZenonT(60) DEF Consider
  <2>2. Len(file) <= 8 * (Len(d) + HeaderSize)
    BY <1>0, <1>2, SMTT(60) DEF Expands, HeaderSize
  <2> QED
    BY <2>1, <2>2, ZenonT(60)
<1> QED
  BY <1>1, <1>2, ZenonT(60)

\* The end of write: what it puts out holds at least the bytes there were before.
LEMMA FinishFacts ==
  ASSUME SessionInv, pc = "write"
  PROVE  LET bits == cache \o StreamBits(stream)
             file == outBuf \o Aligned(bits)
         IN  /\ file \in Seq(Bit) /\ Len(file) % 8 = 0 /\ AlignSkips(bits) \in 0..7
             /\ 8 * lastOutLen <= Len(file) /\ 24 <= Len(file)
             /\ cache = <<>> => Len(file) = Len(outBuf) + Len(Aligned(StreamBits(stream)))
             /\ cache = <<>> /\ d = <<>> => Len(file) = Len(outBuf) /\ AlignSkips(bits) = 0
<1> DEFINE sb == StreamBits(stream)
           bits == cache \o sb
           al == Aligned(bits)
           file == outBuf \o al
<1>1. stream \in Seq(Phrase)
  BY ZenonT(60) DEF SessionInv, WriterInv, Chain
<1>2. sb \in Seq(Bit)
  BY <1>1, StreamBitsFacts, ZenonT(60)
<1>3. d = <<>> => sb = <<>>
  <2>1. ASSUME d = <<>>, stream # <<>> PROVE FALSE
    <3>1. 1 \in DOMAIN stream
      BY <1>1, <2>1, SMTT(60)
    <3>2. Piece(d, stream[1], starts[1], starts[2])
      BY <3>1, SMTT(60) DEF SessionInv, WriterInv, Chain
    <3>3. starts[1] \in Nat /\ starts[2] \in Nat
      BY <1>1, <3>1, SMTT(60) DEF SessionInv, WriterInv, Chain
    <3>4. Len(d) = 0
      BY <2>1, ZenonT(60)
    <3> QED
      BY <3>2, <3>3, <3>4, SMTT(60) DEF Piece
  <2> QED
    BY <2>1, StreamBitsNone, ZenonT(60)
<1>4. cache = <<>> => bits = sb
  BY <1>2
<1>5. cache \in Seq(Bit) /\ outBuf \in Seq(Bit)
  BY ZenonT(60) DEF SessionInv, SessionTypes, Bit
<1>6. /\ Len(outBuf) % 8 = 0 /\ lastOutLen \in Nat /\ HeaderSize <= lastOutLen
      /\ 8 * lastOutLen < Len(outBuf) + Len(cache) + 8
  BY ZenonT(60) DEF SessionInv, SessionTypes, SizesInv, CallInv
<1> HIDE DEF sb
<1>7. bits \in Seq(Bit) /\ Len(bits) = Len(cache) + Len(sb)
  BY <1>2, <1>5, ConcatFacts, ZenonT(60)
<1>8. sb = <<>> => Len(sb) = 0
  OBVIOUS
<1> HIDE DEF bits
<1>9. /\ al \in Seq(Bit) /\ AlignSkips(bits) \in 0..7
      /\ Len(al) = Len(bits) + AlignSkips(bits)
      /\ Len(al) = 8 * ((Len(bits) + 7) \div 8)
  BY <1>7, AlignedFacts, ZenonT(60)
<1> HIDE DEF al
<1>10. file \in Seq(Bit) /\ Len(file) = Len(outBuf) + Len(al)
  <2>1. al \in Seq(Bit)
    BY <1>9, ZenonT(60)
  <2> QED
    BY <1>5, <2>1, ConcatFacts, ZenonT(60)
<1> HIDE DEF file
<1>11. Len(outBuf) \in Nat /\ Len(cache) \in Nat /\ Len(sb) \in Nat /\ Len(bits) \in Nat
  BY <1>2, <1>5, <1>7, LenNat, ZenonT(60)
<1> DEFINE o == Len(outBuf)
           c == Len(cache)
           n == Len(sb)
           b == Len(bits)
           f == Len(file)
           skips == AlignSkips(bits)
<1>12. /\ f = o + 8 * ((b + 7) \div 8) /\ f = o + (b + skips) /\ skips \in 0..7 /\ b = c + n
       /\ o % 8 = 0 /\ lastOutLen \in Nat /\ 3 <= lastOutLen /\ 8 * lastOutLen < o + c + 8
       /\ o \in Nat /\ c \in Nat /\ n \in Nat
  <2>1. f = o + 8 * ((b + 7) \div 8) /\ f = o + (b + skips)
    BY <1>9, <1>10, ZenonT(60)
  <2>2. b = c + n
    BY <1>7, ZenonT(60)
  <2>3. o % 8 = 0 /\ lastOutLen \in Nat /\ 3 <= lastOutLen /\ 8 * lastOutLen < o + c + 8
    BY <1>6, ZenonT(60) DEF HeaderSize
  <2> QED
    BY <1>9, <1>11, <2>1, <2>2, <2>3, ZenonT(60)
<1> HIDE DEF o, c, n, b, f, skips
<1>13. f % 8 = 0
  BY <1>12, SMTT(60)
<1>14. 8 * lastOutLen <= f /\ 24 <= f
  BY <1>12, <1>13, SMTT(60)
<1>15. n = 0 /\ c = 0 => f = o /\ skips = 0
  BY <1>12
<1>16. cache = <<>> => Len(file) = Len(outBuf) + Len(Aligned(sb))
  BY <1>4, <1>10, ZenonT(60) DEF al
<1>17. cache = <<>> /\ d = <<>> => n = 0 /\ c = 0
  BY <1>3, <1>8, ZenonT(60) DEF n, c
<1> QED
  BY <1>10, <1>12, <1>13, <1>14, <1>15, <1>16, <1>17, ZenonT(60) DEF f, o, skips, file, al, bits, sb

\* Align, and the rest of Revert if that is the caller.
LEMMA FinishWriteStep ==
  ASSUME SessionInv, FinishWrite
  PROVE  SessionInv'
<1> DEFINE bits == cache \o StreamBits(stream)
           file == outBuf \o Aligned(bits)
           skips == AlignSkips(bits)
<1>1. /\ pc = "write" /\ i = Len(d) /\ pc' = "idle" /\ reverting' = FALSE /\ cache' = <<>>
      /\ considered' = reverting
      /\ \/ /\ reverting
            /\ Consider(file, skips, lastInLen, lastOutLen, lastNbSkippedBits)
         \/ /\ ~ reverting /\ outBuf' = file /\ nbSkippedBits' = skips
            /\ UNCHANGED <<lastOutLen, lastNbSkippedBits, noCompression>>
      /\ UNCHANGED <<stream, writeVars, lastInLen, failed, tainted, reverted>>
  BY ZenonT(60) DEF FinishWrite
<1>2. /\ stream' = stream /\ d' = d /\ i' = i /\ cb' = cb /\ starts' = starts
      /\ lastInLen' = lastInLen /\ failed' = failed /\ tainted' = tainted /\ reverted' = reverted
  BY <1>1, ZenonT(60) DEF writeVars
<1>3. SessionTypes /\ WriterInv(starts[1]) /\ SizesInv /\ CallInv /\ BypassInv /\ FirstWriteInv
  BY ZenonT(60) DEF SessionInv
<1>4. /\ file \in Seq(Bit) /\ Len(file) % 8 = 0 /\ skips \in 0..7
      /\ 8 * lastOutLen <= Len(file) /\ 24 <= Len(file)
      /\ cache = <<>> => Len(file) = Len(outBuf) + Len(Aligned(StreamBits(stream)))
      /\ cache = <<>> /\ d = <<>> => Len(file) = Len(outBuf) /\ skips = 0
  BY <1>1, FinishFacts, ZenonT(60)
<1> HIDE DEF bits, file, skips
<1>5. /\ ~ failed /\ ~ noCompression /\ lastInLen # -1 /\ (reverting => lastInLen = 0)
      /\ HeaderSize <= lastOutLen
  BY <1>1, <1>3, ZenonT(60) DEF CallInv, SizesInv
<1>6. /\ d \in Seq(Byte) /\ lastInLen \in -1..Len(d) /\ lastOutLen \in Nat
      /\ lastNbSkippedBits \in 0..7
  BY <1>3, ZenonT(60) DEF SessionTypes
<1>7. /\ noCompression \in BOOLEAN /\ reverting \in BOOLEAN /\ failed \in BOOLEAN
      /\ tainted \in BOOLEAN /\ reverted \in BOOLEAN
  BY <1>3, ZenonT(60) DEF SessionTypes
<1>8. /\ outBuf' \in Seq(Bit) /\ Len(outBuf') % 8 = 0
      /\ nbSkippedBits' \in 0..7 /\ lastNbSkippedBits' \in 0..7
      /\ lastOutLen' \in Nat /\ noCompression' \in BOOLEAN
      /\ reverting => Len(outBuf') <= 8 * (Len(d) + HeaderSize)
      /\ \/ /\ noCompression' = TRUE
            /\ Len(outBuf') = 8 * (Len(d) + HeaderSize) /\ nbSkippedBits' = 0
            /\ 8 * lastOutLen' <= Len(outBuf')
         \/ /\ noCompression' = noCompression /\ outBuf' = file /\ nbSkippedBits' = skips
            /\ lastOutLen' = lastOutLen /\ lastNbSkippedBits' = lastNbSkippedBits
  <2>1. CASE reverting
    <3>1. Consider(file, skips, lastInLen, lastOutLen, lastNbSkippedBits)
      BY <1>1, <2>1, ZenonT(60)
    <3> QED
      BY <1>4, <1>6, <1>7, <3>1, ConsiderSound, ZenonT(60)
  <2>2. CASE ~ reverting
    BY <1>1, <1>4, <1>6, <1>7, <2>2, ZenonT(60)
  <2> QED
    BY <2>1, <2>2, ZenonT(60)
<1>9. 24 <= Len(outBuf')
  <2>1. Len(d) \in Nat
    BY <1>6, LenNat, ZenonT(60)
  <2> QED
    BY <1>4, <1>8, <2>1, SMTT(60) DEF HeaderSize
<1>10. WriterInv(starts[1])'
  BY <1>2, <1>3, ZenonT(60) DEF WriterInv
<1>11. SessionTypes'
  <2>1. {noCompression', reverting', failed', tainted', reverted', considered'} \subseteq BOOLEAN
    BY <1>1, <1>2, <1>7, <1>8, ZenonT(60)
  <2>2. cache' \in Seq({0, 1}) /\ Len(cache') < 8
    BY <1>1
  <2>3. d' \in Seq(Byte) /\ Len(d') <= MaxInputSize /\ i' \in 0..Len(d') /\ lastInLen' \in -1..Len(d')
    BY <1>2, <1>3, ZenonT(60) DEF SessionTypes
  <2>4. outBuf' \in Seq({0, 1})
    BY <1>8, ZenonT(60) DEF Bit
  <2> QED
    BY <1>1, <1>8, <2>1, <2>2, <2>3, <2>4, ZenonT(60) DEF SessionTypes
<1>12. SizesInv'
  <2>1. 8 * lastOutLen' <= Len(outBuf') /\ (~ noCompression' => HeaderSize <= lastOutLen')
    BY <1>4, <1>5, <1>8, ZenonT(60)
  <2>2. 16 <= Len(outBuf')
    <3>1. Len(outBuf') \in Nat
      BY <1>8, LenNat, ZenonT(60)
    <3> QED
      BY <1>9, <3>1, SMTT(60)
  <2> QED
    BY <1>9, <2>1, <2>2, ZenonT(60) DEF SizesInv
<1>13. CallInv'
  BY <1>1, ZenonT(60) DEF CallInv
<1>14. BypassInv'
  BY <1>1, <1>2, <1>5, <1>8, SMTT(60) DEF BypassInv
<1>15. FirstWriteInv'
  <2> SUFFICES ASSUME ~ tainted', ~ failed'
               PROVE  /\ Idle' => cache' = <<>>
                      /\ Idle' /\ d' = <<>> => Len(outBuf') = 8 * HeaderSize /\ nbSkippedBits' = 0
                      /\ lastInLen' = 0 /\ ~ noCompression' =>
                           lastOutLen' = HeaderSize /\ lastNbSkippedBits' = 0 /\ pc' # "write"
    BY ZenonT(60) DEF FirstWriteInv
  <2>1. ASSUME lastInLen = 0
        PROVE  /\ lastOutLen = HeaderSize /\ lastNbSkippedBits = 0
               /\ Len(outBuf) = 8 * HeaderSize /\ cache = <<>>
    BY <1>1, <1>2, <1>3, <1>5, <2>1, SMTT(60) DEF FirstWriteInv
  <2>2. ASSUME d' = <<>> PROVE Len(outBuf') = 8 * HeaderSize /\ nbSkippedBits' = 0
    <3>1. lastInLen = 0 /\ Len(d) = 0 /\ d = <<>>
      BY <1>2, <1>5, <1>6, <2>2, SMTT(60)
    <3>2. Len(file) = 8 * HeaderSize /\ skips = 0
      BY <1>4, <2>1, <3>1, ZenonT(60)
    <3> QED
      BY <1>8, <3>1, <3>2, SMTT(60) DEF HeaderSize
  <2>3. ASSUME lastInLen' = 0, ~ noCompression'
        PROVE  lastOutLen' = HeaderSize /\ lastNbSkippedBits' = 0
    <3>1. lastOutLen' = lastOutLen /\ lastNbSkippedBits' = lastNbSkippedBits /\ lastInLen = 0
      BY <1>2, <1>8, <2>3, ZenonT(60)
    <3> QED
      BY <2>1, <3>1, ZenonT(60)
  <2> QED
    BY <1>1, <2>2, <2>3, ZenonT(60)
<1> QED
  BY <1>10, <1>11, <1>12, <1>13, <1>14, <1>15, ZenonT(60) DEF SessionInv

\* Revert, when the output is cut down.
LEMMA RevertCompressedStep ==
  ASSUME SessionInv, RevertCompressed
  PROVE  SessionInv'
<1>1. /\ pc = "idle" /\ Idle /\ lastInLen # -1 /\ ~ noCompression
      /\ d' = SubSeq(d, 1, lastInLen) /\ i' = lastInLen /\ lastInLen' = -1
      /\ outBuf' = SubSeq(outBuf, 1, 8 * lastOutLen)
      /\ nbSkippedBits' = lastNbSkippedBits
      /\ reverted' = TRUE /\ considered' = FALSE
      /\ stream' = <<>> /\ starts' = <<lastInLen>> /\ cb' = newCircularBuffer
      /\ pc' = pc /\ cache' = cache /\ lastOutLen' = lastOutLen
      /\ lastNbSkippedBits' = lastNbSkippedBits
      /\ noCompression' = noCompression /\ reverting' = reverting
      /\ failed' = failed /\ tainted' = tainted
  BY ZenonT(60) DEF RevertCompressed, MayRevert, Idle, modeVars
<1>2. SessionTypes /\ SizesInv /\ FirstWriteInv
  BY ZenonT(60) DEF SessionInv
<1>3. /\ d \in Seq(Byte) /\ Len(d) <= MaxInputSize /\ lastInLen \in Nat /\ lastInLen <= Len(d)
      /\ outBuf \in Seq(Bit) /\ lastOutLen \in Nat
  <2>1. /\ d \in Seq(Byte) /\ Len(d) <= MaxInputSize /\ lastInLen \in -1..Len(d)
        /\ outBuf \in Seq(Bit) /\ lastOutLen \in Nat
    BY <1>2, ZenonT(60) DEF SessionTypes, Bit
  <2>2. Len(d) \in Nat
    BY <2>1, LenNat, ZenonT(60)
  <2> QED
    BY <1>1, <2>1, <2>2, SMTT(60)
<1>4. HeaderSize <= lastOutLen /\ 8 * lastOutLen <= Len(outBuf) /\ 8 * lastOutLen \in Nat
  BY <1>1, <1>2, <1>3, SMTT(60) DEF SizesInv
<1>5. outBuf' \in Seq(Bit) /\ Len(outBuf') = 8 * lastOutLen
  BY <1>1, <1>3, <1>4, PrefixFacts, ZenonT(60)
<1>6. d' \in Seq(Byte) /\ Len(d') = lastInLen
  BY <1>1, <1>3, PrefixFacts, ZenonT(60)
<1>7. Len(d) \in Nat /\ Len(d') <= MaxInputSize
  BY <1>3, <1>6, LenNat, SizeAssumption, SMTT(60)
<1>8. WriterInv(starts[1])'
  <2>1. Chain(d', <<>>, <<lastInLen>>, lastInLen, lastInLen) /\ BufferOK(d', newCircularBuffer)
    BY <1>3, <1>6, FreshWriter, ZenonT(60)
  <2>2. starts'[1] = lastInLen /\ i' \in 0..Len(d')
    BY <1>1, <1>3, <1>6, SMTT(60)
  <2> QED
    BY <1>1, <1>6, <1>7, <2>1, <2>2, ZenonT(60) DEF WriterInv
<1>9. SessionTypes'
  <2>1. {noCompression', reverting', failed', tainted', reverted', considered'} \subseteq BOOLEAN
    BY <1>1, <1>2, ZenonT(60) DEF SessionTypes
  <2>2. /\ cache' \in Seq({0, 1}) /\ Len(cache') < 8 /\ pc' \in {"idle", "write"}
        /\ nbSkippedBits' \in 0..7 /\ lastNbSkippedBits' \in 0..7 /\ lastOutLen' \in Nat
    BY <1>1, <1>2, ZenonT(60) DEF SessionTypes
  <2>3. i' \in 0..Len(d') /\ lastInLen' \in -1..Len(d')
    BY <1>1, <1>3, <1>6
  <2>4. Len(outBuf') % 8 = 0
    BY <1>3, <1>5, SMTT(60)
  <2>5. outBuf' \in Seq({0, 1})
    BY <1>5, ZenonT(60) DEF Bit
  <2> QED
    BY <1>6, <1>7, <2>1, <2>2, <2>3, <2>4, <2>5, SMTT(60) DEF SessionTypes
<1>10. SizesInv'
  <2>1. 24 <= Len(outBuf') /\ 16 <= Len(outBuf') /\ 8 * lastOutLen <= Len(outBuf')
    BY <1>3, <1>4, <1>5, SMTT(60) DEF HeaderSize
  <2> QED
    BY <1>1, <1>4, <2>1, ZenonT(60) DEF SizesInv
<1>11. CallInv' /\ BypassInv'
  BY <1>1, ZenonT(60) DEF CallInv, BypassInv
<1>12. FirstWriteInv'
  <2> SUFFICES ASSUME ~ tainted
               PROVE  /\ cache' = <<>>
                      /\ d' = <<>> => Len(outBuf') = 8 * HeaderSize /\ nbSkippedBits' = 0
    <3>1. lastInLen' # 0 /\ tainted' = tainted
      BY <1>1, SMTT(60)
    <3> QED
      BY <3>1, ZenonT(60) DEF FirstWriteInv
  <2>1. cache = <<>>
    BY <1>1, <1>2, ZenonT(60) DEF FirstWriteInv, Idle
  <2>2. ASSUME d' = <<>> PROVE Len(outBuf') = 8 * HeaderSize /\ nbSkippedBits' = 0
    <3>1. lastInLen = 0
      BY <1>6, <2>2, ZenonT(60)
    <3>2. lastOutLen = HeaderSize /\ lastNbSkippedBits = 0
      BY <1>1, <1>2, <3>1, ZenonT(60) DEF FirstWriteInv, Idle
    <3> QED
      BY <1>1, <1>5, <3>2, ZenonT(60)
  <2> QED
    BY <1>1, <2>1, <2>2, ZenonT(60)
<1> QED
  BY <1>8, <1>9, <1>10, <1>11, <1>12, ZenonT(60) DEF SessionInv

\* Reset leaves what a new compressor has.
LEMMA ResetStep ==
  ASSUME SessionInv, Reset
  PROVE  SessionInv'
<1>0. outBuf' = HeaderBits(FALSE) /\ stream' = <<>> /\ lastOutLen' = HeaderSize
  BY ZenonT(60) DEF Reset
<1>1. /\ d' = <<>> /\ i' = 0 /\ noCompression' = FALSE
      /\ nbSkippedBits' = 0 /\ lastNbSkippedBits' = 0 /\ lastInLen' = 0
      /\ failed' = FALSE /\ reverted' = FALSE /\ considered' = FALSE
      /\ starts' = <<0>> /\ cb' = newCircularBuffer
      /\ pc = "idle" /\ pc' = pc /\ cache' = cache /\ reverting' = reverting
  BY ZenonT(60) DEF Reset
<1>2. tainted' \in BOOLEAN /\ (~ tainted' => cache = <<>>)
  BY ZenonT(60) DEF Reset
<1>3. outBuf' \in Seq(Bit) /\ Len(outBuf') = 24
  BY <1>0, HeaderBitsFacts, ZenonT(60)
<1>4. d' \in Seq(Byte) /\ Len(d') = 0 /\ MaxInputSize \in Nat
  BY <1>1, SizeAssumption, SMTT(60)
<1>5. WriterInv(starts[1])'
  <2>1. Chain(d', <<>>, <<0>>, 0, 0) /\ BufferOK(d', newCircularBuffer)
    BY <1>4, FreshWriter, ZenonT(60)
  <2>2. starts'[1] = 0 /\ i' \in 0..Len(d') /\ Len(d') <= MaxInputSize
    BY <1>1, <1>4
  <2> QED
    BY <1>0, <1>1, <1>4, <2>1, <2>2, ZenonT(60) DEF WriterInv
<1>6. SessionTypes'
  <2>1. /\ cache \in Seq({0, 1}) /\ Len(cache) < 8 /\ reverting \in BOOLEAN
    BY ZenonT(60) DEF SessionInv, SessionTypes
  <2>2. outBuf' \in Seq({0, 1}) /\ Len(outBuf') % 8 = 0
    BY <1>3, SMTT(60) DEF Bit
  <2>3. lastOutLen' \in Nat
    BY <1>0, ZenonT(60) DEF HeaderSize
  <2>4. Len(d') <= MaxInputSize /\ i' \in 0..Len(d') /\ lastInLen' \in -1..Len(d')
    BY <1>1, <1>4, SMTT(60)
  <2>5. {noCompression', reverting', failed', tainted', reverted', considered'} \subseteq BOOLEAN
    BY <1>1, <1>2, <2>1, ZenonT(60)
  <2>6. pc' \in {"idle", "write"} /\ cache' \in Seq({0, 1}) /\ Len(cache') < 8
    BY <1>1, <2>1, ZenonT(60)
  <2>7. nbSkippedBits' \in 0..7 /\ lastNbSkippedBits' \in 0..7
    BY <1>1
  <2> QED
    BY <1>4, <2>2, <2>3, <2>4, <2>5, <2>6, <2>7, ZenonT(60) DEF SessionTypes
<1>7. SizesInv'
  <2>0. lastOutLen' = 3
    BY <1>0, ZenonT(60) DEF HeaderSize
  <2>1. 24 <= Len(outBuf') /\ 16 <= Len(outBuf') /\ 8 * lastOutLen' <= Len(outBuf')
    BY <2>0, <1>3, SMTT(60)
  <2> QED
    BY <1>1, <2>0, <2>1, SMTT(60) DEF SizesInv, HeaderSize
<1>8. CallInv' /\ BypassInv'
  BY <1>1, ZenonT(60) DEF CallInv, BypassInv
<1>9. FirstWriteInv'
  <2>1. Len(outBuf') = 8 * HeaderSize
    BY <1>3, SMTT(60) DEF HeaderSize
  <2> QED
    BY <1>0, <1>1, <1>2, <2>1, ZenonT(60) DEF FirstWriteInv, Idle
<1> QED
  BY <1>5, <1>6, <1>7, <1>8, <1>9, ZenonT(60) DEF SessionInv

\* A new compressor.
LEMMA SessionInvInit ==
  ASSUME Init
  PROVE  SessionInv
<1>0. outBuf = HeaderBits(FALSE) /\ stream = <<>> /\ lastOutLen = HeaderSize
  BY ZenonT(60) DEF Init, WriteInit
<1>1. /\ d = <<>> /\ i = 0 /\ noCompression = FALSE
      /\ nbSkippedBits = 0 /\ lastNbSkippedBits = 0 /\ lastInLen = 0
      /\ failed = FALSE /\ reverted = FALSE /\ considered = FALSE /\ tainted = FALSE
      /\ starts = <<0>> /\ cb = newCircularBuffer
      /\ pc = "idle" /\ cache = <<>> /\ reverting = FALSE
  BY ZenonT(60) DEF Init, WriteInit
<1>2. outBuf \in Seq(Bit) /\ Len(outBuf) = 24
  BY <1>0, HeaderBitsFacts, ZenonT(60)
<1>3. d \in Seq(Byte) /\ Len(d) = 0 /\ MaxInputSize \in Nat
  BY <1>1, SizeAssumption, SMTT(60)
<1>4. WriterInv(starts[1])
  <2>1. Chain(d, <<>>, <<0>>, 0, 0) /\ BufferOK(d, newCircularBuffer)
    BY <1>3, FreshWriter, ZenonT(60)
  <2>2. starts[1] = 0 /\ i \in 0..Len(d) /\ Len(d) <= MaxInputSize
    BY <1>1, <1>3
  <2> QED
    BY <1>0, <1>1, <1>3, <2>1, <2>2, ZenonT(60) DEF WriterInv
<1>5. SessionTypes
  <2>1. outBuf \in Seq({0, 1}) /\ Len(outBuf) % 8 = 0
    BY <1>2, SMTT(60) DEF Bit
  <2>2. cache \in Seq({0, 1}) /\ Len(cache) < 8
    BY <1>1, SMTT(60)
  <2>3. lastOutLen \in Nat
    BY <1>0, ZenonT(60) DEF HeaderSize
  <2>4. Len(d) <= MaxInputSize /\ i \in 0..Len(d) /\ lastInLen \in -1..Len(d)
    BY <1>1, <1>3, SMTT(60)
  <2>5. {noCompression, reverting, failed, tainted, reverted, considered} \subseteq BOOLEAN
    BY <1>1, ZenonT(60)
  <2>6. pc \in {"idle", "write"}
    BY <1>1, ZenonT(60)
  <2>7. nbSkippedBits \in 0..7 /\ lastNbSkippedBits \in 0..7
    BY <1>1
  <2> QED
    BY <1>3, <2>1, <2>2, <2>3, <2>4, <2>5, <2>6, <2>7, ZenonT(60) DEF SessionTypes
<1>6. SizesInv
  <2>0. lastOutLen = 3
    BY <1>0, ZenonT(60) DEF HeaderSize
  <2>1. 24 <= Len(outBuf) /\ 16 <= Len(outBuf) /\ 8 * lastOutLen <= Len(outBuf)
    BY <2>0, <1>2, SMTT(60)
  <2> QED
    BY <1>1, <2>0, <2>1, SMTT(60) DEF SizesInv, HeaderSize
<1>7. CallInv /\ BypassInv
  BY <1>1, ZenonT(60) DEF CallInv, BypassInv
<1>8. FirstWriteInv
  <2>1. Len(outBuf) = 8 * HeaderSize
    BY <1>2 DEF HeaderSize
  <2> QED
    BY <1>0, <1>1, <2>1, ZenonT(60) DEF FirstWriteInv, Idle
<1> QED
  BY <1>4, <1>5, <1>6, <1>7, <1>8, ZenonT(60) DEF SessionInv

\* ConsiderBypassing, when it is called.
LEMMA ConsiderBypassingStep ==
  ASSUME SessionInv, ConsiderBypassing
  PROVE  SessionInv'
<1>1. /\ Idle /\ Consider(outBuf, nbSkippedBits, lastInLen, lastOutLen, lastNbSkippedBits)
      /\ considered' = TRUE
      /\ UNCHANGED <<pc, stream, writeVars, cache, lastInLen, reverting, failed, tainted, reverted>>
  BY ZenonT(60) DEF ConsiderBypassing
<1>2. /\ pc' = pc /\ pc = "idle" /\ ~ failed
      /\ stream' = stream /\ d' = d /\ i' = i /\ cb' = cb /\ starts' = starts
      /\ cache' = cache /\ lastInLen' = lastInLen /\ reverting' = reverting
      /\ failed' = failed /\ tainted' = tainted /\ reverted' = reverted
  BY <1>1, ZenonT(60) DEF writeVars, Idle
<1>3. SessionTypes /\ WriterInv(starts[1]) /\ SizesInv /\ CallInv /\ BypassInv /\ FirstWriteInv
  BY ZenonT(60) DEF SessionInv
<1>4. /\ d \in Seq(Byte) /\ lastInLen \in -1..Len(d) /\ lastOutLen \in Nat
      /\ lastNbSkippedBits \in 0..7 /\ nbSkippedBits \in 0..7 /\ noCompression \in BOOLEAN
      /\ outBuf \in Seq(Bit) /\ Len(outBuf) % 8 = 0 /\ Len(d) \in Nat
  BY <1>3, LenNat, ZenonT(60) DEF SessionTypes, Bit
<1>5. /\ outBuf' \in Seq(Bit) /\ Len(outBuf') % 8 = 0
      /\ nbSkippedBits' \in 0..7 /\ lastNbSkippedBits' \in 0..7
      /\ lastOutLen' \in Nat /\ noCompression' \in BOOLEAN
      /\ Len(outBuf') <= 8 * (Len(d) + HeaderSize)
      /\ \/ /\ noCompression' = TRUE
            /\ Len(outBuf') = 8 * (Len(d) + HeaderSize) /\ nbSkippedBits' = 0
            /\ 8 * lastOutLen' <= Len(outBuf')
         \/ /\ noCompression' = noCompression /\ outBuf' = outBuf /\ nbSkippedBits' = nbSkippedBits
            /\ lastOutLen' = lastOutLen /\ lastNbSkippedBits' = lastNbSkippedBits
  BY <1>1, <1>4, ConsiderSound, ZenonT(60)
<1>6. ASSUME noCompression' = TRUE,
             Len(outBuf') = 8 * (Len(d) + HeaderSize), nbSkippedBits' = 0,
             8 * lastOutLen' <= Len(outBuf')
      PROVE  SizesInv' /\ BypassInv' /\ FirstWriteInv'
  <2>1. SizesInv'
    <3>1. 24 <= Len(outBuf') /\ 16 <= Len(outBuf')
      BY <1>4, <1>6, SMTT(60) DEF HeaderSize
    <3> QED
      BY <1>6, <3>1, ZenonT(60) DEF SizesInv
  <2>2. BypassInv'
    BY <1>2, <1>5, <1>6, ZenonT(60) DEF BypassInv
  <2>3. FirstWriteInv'
    <3>1. ~ tainted => cache = <<>>
      BY <1>2, <1>3, ZenonT(60) DEF FirstWriteInv, Idle
    <3>2. d = <<>> => Len(outBuf') = 8 * HeaderSize
      BY <1>6, SMTT(60) DEF HeaderSize
    <3> QED
      BY <1>2, <1>6, <3>1, <3>2, ZenonT(60) DEF FirstWriteInv, Idle
  <2> QED
    BY <2>1, <2>2, <2>3, ZenonT(60)
<1>7. ASSUME noCompression' = noCompression, outBuf' = outBuf, nbSkippedBits' = nbSkippedBits,
             lastOutLen' = lastOutLen, lastNbSkippedBits' = lastNbSkippedBits
      PROVE  SizesInv' /\ BypassInv' /\ FirstWriteInv'
  <2>1. SizesInv'
    BY <1>2, <1>3, <1>7, ZenonT(60) DEF SizesInv, Idle
  <2>2. BypassInv'
    BY <1>2, <1>3, <1>5, <1>7, SMTT(60) DEF BypassInv
  <2>3. FirstWriteInv'
    BY <1>2, <1>3, <1>7, ZenonT(60) DEF FirstWriteInv, Idle
  <2> QED
    BY <2>1, <2>2, <2>3, ZenonT(60)
<1>8. SizesInv' /\ BypassInv' /\ FirstWriteInv'
  BY <1>5, <1>6, <1>7, ZenonT(60)
<1>9. WriterInv(starts[1])'
  BY <1>2, <1>3, ZenonT(60) DEF WriterInv
<1>10. CallInv'
  BY <1>2, ZenonT(60) DEF CallInv
<1>11. SessionTypes'
  <2>1. outBuf' \in Seq({0, 1})
    BY <1>5, ZenonT(60) DEF Bit
  <2> QED
    BY <1>1, <1>2, <1>3, <1>5, <2>1, SMTT(60) DEF SessionTypes
<1> QED
  BY <1>8, <1>9, <1>10, <1>11, ZenonT(60) DEF SessionInv

-----------------------------------------------------------------------------
(* The invariants of a session. *)

\* Every step of a session keeps the invariant.
LEMMA SessionInvNext ==
  ASSUME SessionInv, [Next]_vars
  PROVE  SessionInv'
<1>1. CASE UNCHANGED vars
  <2>1. /\ stream' = stream /\ pc' = pc /\ UNCHANGED <<d, i, cb, starts>>
        /\ UNCHANGED <<outBuf, cache, nbSkippedBits, lastOutLen, lastNbSkippedBits, lastInLen>>
        /\ UNCHANGED <<noCompression, reverting, failed, tainted, reverted, considered>>
    BY <1>1, ZenonT(60) DEF vars, writeVars, outVars, lastVars, modeVars, historyVars
  <2>2. WriterInv(starts[1])' /\ SessionTypes'
    BY <2>1, ZenonT(60) DEF SessionInv, WriterInv, SessionTypes
  <2>3. SizesInv' /\ CallInv' /\ BypassInv' /\ FirstWriteInv'
    BY <2>1, ZenonT(60) DEF SessionInv, SizesInv, CallInv, BypassInv, FirstWriteInv, Idle
  <2> QED
    BY <2>2, <2>3, ZenonT(60) DEF SessionInv
<1>2. ASSUME NEW chunk \in Chunks, CallWrite(chunk) PROVE SessionInv'
  BY <1>2, CallWriteStep, ZenonT(60)
<1>3. ASSUME NEW chunk \in Chunks, Compress(chunk) PROVE SessionInv'
  BY <1>3, CompressStep, ZenonT(60)
<1>4. CASE LoopStep
  BY <1>4, LoopStepStep, ZenonT(60)
<1>5. CASE FinishWrite
  BY <1>5, FinishWriteStep, ZenonT(60)
<1>6. CASE RevertRefused
  BY <1>1, <1>6, ZenonT(60) DEF RevertRefused
<1>7. CASE RevertCompressed
  BY <1>7, RevertCompressedStep, ZenonT(60)
<1>8. CASE RevertBypassed
  BY <1>8, RevertBypassedStep, ZenonT(60)
<1>9. CASE Reset
  BY <1>9, ResetStep, ZenonT(60)
<1>10. CASE ConsiderBypassing
  BY <1>10, ConsiderBypassingStep, ZenonT(60)
<1> QED
  BY <1>1, <1>2, <1>3, <1>4, <1>5, <1>6, <1>7, <1>8, <1>9, <1>10, ZenonT(60) DEF Next

\* A client that also calls CompressedStreamInfo changes nothing about the session:
\* every step of Inspection is a step of the Compressor, or leaves it alone.
LEMMA InspectionStep ==
  ASSUME [InspectionNext]_allVars
  PROVE  [Next]_vars
  BY ZenonT(60) DEF InspectionNext, SessionStep, InspectRefused, InspectNotCompressed, InspectCompressed,
         InspectTorn, InspectStep, allVars

\* The inductive invariant: the sizes of the output at every point of a session.
THEOREM SessionInvariant == InspectionSpec => []SessionInv
<1>1. InspectionInit => SessionInv
  BY SessionInvInit, ZenonT(60) DEF InspectionInit
<1>2. SessionInv /\ [InspectionNext]_allVars => SessionInv'
  BY InspectionStep, SessionInvNext, ZenonT(60)
<1> QED
  BY <1>1, <1>2, PTL DEF InspectionSpec

\* compress.go:91-129, 289-367: after any sequence of calls, also of ones that
\* failed, the output is made of whole bytes and the padding is less than a byte;
\* between calls that did not fail, the place to revert to is inside the input and
\* the output.
THEOREM SessionTyped == InspectionSpec => []SessionTypeOK
<1>1. SessionInv => SessionTypeOK
  BY ZenonT(60) DEF SessionInv, SizesInv, SessionTypeOK
<1> QED
  BY <1>1, SessionInvariant, PTL

\* compress.go:348-367: ConsiderBypassing bounds the output by the size of the
\* input and of a header.
THEOREM BypassIsBounded == InspectionSpec => []BypassBounds
<1>1. SessionInv => BypassBounds
  <2> SUFFICES ASSUME SessionInv, considered \/ noCompression
               PROVE  Len(outBuf) <= 8 * (Len(d) + HeaderSize)
    BY ZenonT(60) DEF BypassBounds
  <2>1. Len(d) \in Nat
    BY LenNat, ZenonT(60) DEF SessionInv, SessionTypes
  <2> QED
    BY <2>1, SMTT(60) DEF SessionInv, BypassInv, HeaderSize
<1> QED
  BY <1>1, SessionInvariant, PTL

-----------------------------------------------------------------------------
(* A Compressor is a text with one undo. *)

\* What can be undone, as Session.tla maps it.
Before == IF reverted THEN {} ELSE {SubSeq(d, 1, lastInLen)}

\* An empty text is all of its first 0 elements.
LEMMA NothingBefore == SubSeq(<<>>, 1, 0) = <<>>
  OBVIOUS

\* A successful Write appends, and what was there before can be restored; a Write
\* that fails changes nothing.
LEMMA CallWriteUndo ==
  ASSUME SessionInv, NEW chunk \in Chunks, CallWrite(chunk)
  PROVE  \/ d' = d \o chunk /\ Before' = {d}
         \/ d' = d /\ Before' = Before
<1>1. /\ Idle /\ StartWrite(outBuf, nbSkippedBits, d, noCompression, chunk)
      /\ lastInLen' = (IF failed' THEN lastInLen ELSE Len(d)) /\ reverted' = (reverted /\ failed')
  BY ZenonT(60) DEF CallWrite
<1>2. d \in Seq(Byte) /\ chunk \in Seq(Byte) /\ reverted \in BOOLEAN
  BY ChunksAssumption, ZenonT(60) DEF SessionInv, SessionTypes
<1>3. \/ failed' = TRUE /\ d' = d
      \/ failed' = FALSE /\ d' = d \o chunk
  BY <1>1, ZenonT(60) DEF StartWrite
<1>4. CASE failed' = TRUE /\ d' = d
  <2>1. lastInLen' = lastInLen /\ reverted' = reverted
    BY <1>1, <1>2, <1>4, ZenonT(60)
  <2> QED
    BY <1>4, <2>1, ZenonT(60) DEF Before
<1>5. CASE failed' = FALSE /\ d' = d \o chunk
  <2>1. lastInLen' = Len(d) /\ reverted' = FALSE
    BY <1>1, <1>5, ZenonT(60)
  <2>2. SubSeq(d \o chunk, 1, Len(d)) = d
    BY <1>2
  <2> QED
    BY <1>5, <2>1, <2>2, ZenonT(60) DEF Before
<1> QED
  BY <1>3, <1>4, <1>5, ZenonT(60)

\* Compress replaces the text, or clears it when the argument is too large.
LEMMA CompressUndo ==
  ASSUME NEW chunk \in Chunks, Compress(chunk)
  PROVE  (d' = chunk \/ d' = <<>>) /\ Before' = {<<>>}
<1>1. chunk \in Seq(Byte)
  BY ChunksAssumption, ZenonT(60)
<1>2. /\ StartWrite(HeaderBits(FALSE), 0, <<>>, FALSE, chunk) /\ lastInLen' = 0
      /\ reverted' = FALSE
  BY ZenonT(60) DEF Compress
<1>3. d' = <<>> \/ d' = <<>> \o chunk
  BY <1>2, ZenonT(60) DEF StartWrite
<1>4. <<>> \o chunk = chunk
  BY <1>1
<1>5. d' = <<>> \/ d' = chunk
  BY <1>3, <1>4, ZenonT(60)
<1>6. SubSeq(d', 1, 0) = <<>>
  <2>1. <<>> \in Seq(Byte)
    OBVIOUS
  <2>2. d' \in Seq(Byte)
    BY <1>1, <1>5, <2>1, ZenonT(60)
  <2> QED
    BY <2>2
<1> QED
  BY <1>2, <1>5, <1>6, ZenonT(60) DEF Before

\* Revert restores the text before the last addition, once.
LEMMA RevertUndo ==
  ASSUME SessionInv, "RevertAgain" \notin Calls, RevertCompressed \/ RevertBypassed
  PROVE  d' \in Before /\ Before' = {}
<1>1. ~ reverted
  BY ZenonT(60) DEF RevertCompressed, RevertBypassed, MayRevert
<1>2. reverted' = TRUE
  BY ZenonT(60) DEF RevertCompressed, RevertBypassed
<1>3. d' = SubSeq(d, 1, lastInLen)
  <2>1. CASE RevertCompressed
    BY <2>1, ZenonT(60) DEF RevertCompressed
  <2>2. CASE RevertBypassed
    <3> DEFINE text == SubSeq(d, 1, lastInLen)
    <3>1. d \in Seq(Byte) /\ Len(d) <= MaxInputSize /\ lastInLen \in -1..Len(d) /\ lastInLen # -1
      BY <2>2, ZenonT(60) DEF SessionInv, SessionTypes, RevertBypassed
    <3>2. lastInLen \in Nat /\ lastInLen <= Len(d) /\ Len(d) \in Nat
      BY <3>1, LenNat, SMTT(60)
    <3>3. text \in Seq(Byte) /\ Len(text) = lastInLen
      BY <3>1, <3>2, PrefixFacts, ZenonT(60)
    <3>4. StartWrite(HeaderBits(FALSE), 0, <<>>, FALSE, text)
      BY <2>2, ZenonT(60) DEF RevertBypassed
    <3> HIDE DEF text
    <3>5. ~ (Len(<<>>) + Len(text) > MaxInputSize)
      BY <3>1, <3>2, <3>3, SizeAssumption
    <3>6. d' = <<>> \o text
      BY <3>4, <3>5, ZenonT(60) DEF StartWrite
    <3> QED
      BY <3>3, <3>6, SMTT(60) DEF text
  <2> QED
    BY <2>1, <2>2, ZenonT(60)
<1> QED
  BY <1>1, <1>2, <1>3, ZenonT(60) DEF Before

\* Every step of a session is a step of the undo log, or none.
LEMMA UndoStep ==
  ASSUME SessionInv, [Next]_vars, "RevertAgain" \notin Calls
  PROVE  \/ d' \in Before /\ Before' = {}
         \/ d' = <<>> /\ Before' = {<<>>}
         \/ \E chunk \in Chunks : \/ d' = d \o chunk /\ Before' = {d}
                                  \/ d' = chunk /\ Before' = {<<>>}
         \/ d' = d /\ Before' = Before
<1>1. ASSUME d' = d, lastInLen' = lastInLen, reverted' = reverted PROVE d' = d /\ Before' = Before
  BY <1>1, ZenonT(60) DEF Before
<1>2. CASE UNCHANGED vars
  BY <1>1, <1>2, ZenonT(60) DEF vars, writeVars, lastVars, historyVars
<1>3. ASSUME NEW chunk \in Chunks, CallWrite(chunk)
      PROVE  \/ d' = d \o chunk /\ Before' = {d}
             \/ d' = d /\ Before' = Before
  BY <1>3, CallWriteUndo, ZenonT(60)
<1>4. ASSUME NEW chunk \in Chunks, Compress(chunk)
      PROVE  (d' = chunk \/ d' = <<>>) /\ Before' = {<<>>}
  BY <1>4, CompressUndo, ZenonT(60)
<1>5. CASE LoopStep
  <2>1. d' = d
    BY <1>5, LoopStepStep, ZenonT(60)
  <2> QED
    BY <1>1, <1>5, <2>1, ZenonT(60) DEF LoopStep, lastVars, historyVars
<1>6. CASE FinishWrite
  BY <1>1, <1>6, ZenonT(60) DEF FinishWrite, writeVars
<1>7. CASE RevertRefused
  BY <1>2, <1>7, ZenonT(60) DEF RevertRefused
<1>8. CASE RevertCompressed \/ RevertBypassed
  BY <1>8, RevertUndo, ZenonT(60)
<1>9. CASE Reset
  <2>1. d' = <<>> /\ lastInLen' = 0 /\ reverted' = FALSE
    BY <1>9, ZenonT(60) DEF Reset
  <2> QED
    BY <2>1, NothingBefore, ZenonT(60) DEF Before
<1>10. CASE ConsiderBypassing
  BY <1>1, <1>10, ZenonT(60) DEF ConsiderBypassing, writeVars
<1> QED
  BY <1>2, <1>3, <1>4, <1>5, <1>6, <1>7, <1>8, <1>9, <1>10, ZenonT(60) DEF Next

\* compress.go:91-129, 322-345: for a client that does not revert twice in a row, a
\* Compressor is a text with one undo: whatever calls are made, the input it holds
\* is what was written, and a Revert restores the input before the last Write.
THEOREM SessionRefinesUndoLog ==
  ASSUME "RevertAgain" \notin Calls
  PROVE  InspectionSpec => UndoSpec
<1>1. InspectionInit => Undo!Init
  <2> SUFFICES ASSUME InspectionInit PROVE Undo!Init
    BY ZenonT(60)
  <2>1. d = <<>> /\ lastInLen = 0 /\ reverted = FALSE
    BY ZenonT(60) DEF InspectionInit, Init, WriteInit
  <2> QED
    BY <2>1, NothingBefore, ZenonT(60) DEF Undo!Init
<1>2. SessionInv /\ [InspectionNext]_allVars => [Undo!Next]_<<d, Before>>
  <2> SUFFICES ASSUME SessionInv, [InspectionNext]_allVars PROVE [Undo!Next]_<<d, Before>>
    BY ZenonT(60)
  <2>1. [Next]_vars
    BY InspectionStep, ZenonT(60)
  <2>2. \/ d' \in Before /\ Before' = {}
        \/ d' = <<>> /\ Before' = {<<>>}
        \/ \E chunk \in Chunks : \/ d' = d \o chunk /\ Before' = {d}
                                 \/ d' = chunk /\ Before' = {<<>>}
        \/ d' = d /\ Before' = Before
    BY <2>1, UndoStep, ZenonT(60)
  <2> QED
    BY <2>2, ZenonT(60) DEF Undo!Next, Undo!Undo, Undo!Clear, Undo!Append1, Undo!Replace, Before
<1> QED
  BY <1>1, <1>2, SessionInvariant, PTL DEF InspectionSpec, UndoSpec, Undo!Spec, Before
=============================================================================
