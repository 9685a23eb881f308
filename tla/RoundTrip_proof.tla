--------------------------- MODULE RoundTrip_proof ---------------------------
(***************************************************************************)
(* Proofs of the safety properties of RoundTrip, for every dictionary,     *)
(* every input and every width of the fields.                              *)
(***************************************************************************)
EXTENDS Expansion, WriteLoop_proof

-----------------------------------------------------------------------------
(* The reader's part of the invariant. *)

\* Decompress has put out the bytes the phrases it has read stand for, but for
\* those that a copy in progress has still to add, and that are right to add.
ReaderInv ==
  pc = "decompress" =>
    /\ ~ err
    /\ i = Len(d)
    /\ Len(out) = starts[nRead + 1] - copy.left
    /\ \A k \in 1..Len(out) : out[k] = d[k]
    /\ copy.left > 0 =>
         /\ copy.address <= Len(out)
         /\ \A k \in Len(out)..(starts[nRead + 1] - 1) : At(d, k) = At(d, k - copy.address)

\* A copy by a dynamic reference starts inside the output.
CopyInv == copy.left > 0 /\ copy.symbol # SymbolShort => copy.address <= Len(out)

\* The inductive invariant.
IndInv ==
  /\ TypeOK /\ WriterInv(0) /\ CopyInv
  /\ InReach(Len(d)) => ReaderInv
  /\ pc # "write" => i = Len(d)

\* The writer's part of the invariant gives the types of its variables.
LEMMA TypeFromWriter ==
  ASSUME WriterInv(0)
  PROVE  /\ d \in Seq(Byte) /\ Len(d) <= MaxInputSize /\ i \in 0..Len(d)
         /\ stream \in Seq(Phrase) /\ starts \in Seq(Nat)
         /\ cb \in [k : Slots, keys : [Slots -> Int], bestBackref : [Slots -> Backref]]
  BY Zenon DEF WriterInv, Chain, BufferOK

\* A new compressor satisfies the invariant.
LEMMA InvInit == Init => IndInv
<1> SUFFICES ASSUME Init PROVE IndInv
  BY Zenon
<1>1. d = <<>> /\ stream = <<>> /\ starts = <<0>> /\ i = 0 /\ cb = newCircularBuffer /\ pc = "idle"
  BY Zenon DEF Init, WriteInit
<1>2. Chain(d, stream, starts, 0, i) /\ BufferOK(d, cb)
  <2>1. d \in Seq(Byte) /\ 0 \in Nat
    BY <1>1
  <2>2. Chain(d, <<>>, <<0>>, 0, 0) /\ BufferOK(d, newCircularBuffer)
    BY <2>1, FreshWriter, Zenon
  <2> QED
    BY <1>1, <2>2, Zenon
<1>3. WriterInv(0)
  BY <1>1, <1>2, SizeAssumption DEF WriterInv
<1>4. TypeOK
  <2>1. NoCopy \in [symbol : Byte, address : Nat \ {0}, left : Nat]
    BY DEF NoCopy, Byte, SymbolShort
  <2> QED
    BY <1>1, <1>3, <2>1, TypeFromWriter, Zenon DEF TypeOK, Init, ReadInit
<1> QED
  BY <1>1, <1>3, <1>4, Zenon DEF IndInv, ReaderInv, CopyInv, Init, ReadInit, NoCopy

\* A call of Write, which appends to the input and resets the buffer, preserves it.
LEMMA WriteCall ==
  ASSUME IndInv, NEW chunk \in Chunks, Write(chunk), UNCHANGED readVars
  PROVE  IndInv'
<1>1. chunk \in Seq(Byte) /\ d \in Seq(Byte) /\ MaxInputSize \in Nat
  BY ChunksAssumption, SizeAssumption, Zenon DEF IndInv, WriterInv
<1>2. /\ pc = "idle" /\ pc' = "write" /\ d' = d \o chunk /\ i' = Len(d) /\ i = Len(d)
      /\ cb' = newCircularBuffer /\ stream' = stream /\ starts' = starts
      /\ Len(d) + Len(chunk) <= MaxInputSize
  BY Zenon DEF Write, IndInv
<1>3. d' \in Seq(Byte) /\ Len(d') = Len(d) + Len(chunk) /\ i' \in 0..Len(d')
  BY <1>1, <1>2
<1>4. BufferOK(d', cb')
  <2>1. NoBackref \in Backref
    BY DEF NoBackref, backref, Backref, BackrefTypes
  <2> QED
    BY <1>2, <2>1 DEF BufferOK, newCircularBuffer, Slots
<1>5. Chain(d', stream', starts', 0, i')
  <2>1. Chain(d, stream, starts, 0, i)
    BY Zenon DEF IndInv, WriterInv
  <2> QED
    BY <1>1, <1>2, <2>1, ChainExtended, Zenon
<1>6. WriterInv(0)'
  BY <1>2, <1>3, <1>4, <1>5, Zenon DEF WriterInv
<1>7. TypeOK'
  <2>1. /\ d' \in Seq(Byte) /\ Len(d') <= MaxInputSize /\ i' \in 0..Len(d')
        /\ cb' \in [k : Slots, keys : [Slots -> Int], bestBackref : [Slots -> Backref]]
    BY <1>2, <1>3, <1>4, Zenon DEF BufferOK
  <2> QED
    BY <1>2, <2>1, Zenon DEF IndInv, TypeOK, readVars
<1> QED
  BY <1>2, <1>6, <1>7, Zenon DEF IndInv, ReaderInv, CopyInv, readVars

\* Every iteration of write, and its return, preserves it.
LEMMA WriteSteps ==
  ASSUME IndInv, WriteStep, UNCHANGED readVars
  PROVE  IndInv'
<1>1. WriterInv(0)
  BY Zenon DEF IndInv
<1>2. pc = "write" /\ pc' \in {"write", "idle"}
  BY Zenon DEF WriteStep, WriteRunContinued, WriteRun, LongRun, WriteReserved, WriteLiteral,
         WriteLiteralBetterAt1, WriteLiteralsBetterAt2, WriteBackref, NoLongRun, Iteration,
         WriteReturns
<1>3. WriterInv(0)'
  <2>1. CASE \E count \in 1..maxLength : WriteRunContinued(count) \/ WriteRun(count)
    BY <1>1, <2>1, RunSteps, Zenon
  <2>2. CASE WriteReserved \/ WriteLiteral \/ WriteLiteralBetterAt1
             \/ WriteLiteralsBetterAt2 \/ WriteBackref
    BY <1>1, <2>2, SearchSteps, Zenon
  <2>3. CASE WriteReturns
    BY <1>1, <2>3, Zenon DEF WriteReturns, writeVars, WriterInv
  <2> QED
    BY <2>1, <2>2, <2>3, Zenon DEF WriteStep
<1>4. pc' # "write" => i' = Len(d')
  <2>1. CASE WriteReturns
    BY <2>1, Zenon DEF WriteReturns, writeVars
  <2>2. CASE ~ WriteReturns
    BY <1>2, <2>2, ZenonT(60)
    DEF WriteStep, WriteRunContinued, WriteRun, LongRun, WriteReserved, WriteLiteral,
        WriteLiteralBetterAt1, WriteLiteralsBetterAt2, WriteBackref, NoLongRun, Iteration
  <2> QED
    BY <2>1, <2>2, Zenon
<1>5. Len(stream) <= Len(stream')
  \* the stream only grows
  <2>1. stream \in Seq(Phrase)
    BY <1>1, TypeFromWriter, Zenon
  <2>2. ASSUME NEW ph, NEW n, Emit(ph, n) PROVE Len(stream) <= Len(stream')
    BY <2>1, <2>2 DEF Emit
  <2>3. ASSUME NEW ph, NEW n, NEW q, NEW m, EmitTwo(ph, n, q, m) PROVE Len(stream) <= Len(stream')
    BY <2>1, <2>3 DEF EmitTwo
  <2>4. CASE WriteReturns
    BY <2>1, <2>4 DEF WriteReturns
  <2> QED
    BY <2>2, <2>3, <2>4, ZenonT(60)
    DEF WriteStep, WriteRunContinued, WriteRun, WriteReserved, WriteLiteral,
        WriteLiteralBetterAt1, WriteLiteralsBetterAt2, WriteBackref
<1>6. TypeOK'
  <2>1. /\ d' \in Seq(Byte) /\ Len(d') <= MaxInputSize /\ i' \in 0..Len(d')
        /\ stream' \in Seq(Phrase) /\ starts' \in Seq(Nat)
        /\ cb' \in [k : Slots, keys : [Slots -> Int], bestBackref : [Slots -> Backref]]
    BY <1>3, Zenon DEF WriterInv, Chain, BufferOK
  <2>2. nRead \in Nat /\ nRead <= Len(stream) /\ Len(stream) \in Nat /\ Len(stream') \in Nat
    BY <2>1, SMTT(30) DEF IndInv, TypeOK
  <2>3. nRead' \in 0..Len(stream')
    BY <1>5, <2>2 DEF readVars
  <2> QED
    BY <1>2, <2>1, <2>3, Zenon DEF IndInv, TypeOK, readVars
<1> QED
  BY <1>2, <1>3, <1>4, <1>6, Zenon DEF IndInv, ReaderInv, CopyInv, readVars

\* The phrase Decompress reads next stands for the bytes that follow its output.
LEMMA NextPhrase ==
  ASSUME InReach(Len(d)), IndInv, Reading
  PROVE  /\ phrase \in Phrase
         /\ starts[(nRead + 1) + 1] \in Nat
         /\ Len(out) = starts[nRead + 1]
         /\ StandsFor(d, phrase, Len(out), starts[(nRead + 1) + 1])
<1>1. Chain(d, stream, starts, 0, i) /\ nRead \in 0..Len(stream) /\ nRead < Len(stream)
  BY Zenon DEF IndInv, WriterInv, TypeOK, Reading
<1>2. nRead + 1 \in DOMAIN stream /\ (nRead + 1) + 1 \in DOMAIN starts /\ nRead + 1 \in DOMAIN starts
  BY <1>1 DEF Chain
<1>3. copy.left = 0 /\ Len(out) = starts[nRead + 1] - copy.left
  BY Zenon DEF IndInv, ReaderInv, Reading
<1>4. starts[nRead + 1] \in Nat /\ starts[(nRead + 1) + 1] \in Nat /\ stream[nRead + 1] \in Phrase
  BY <1>1, <1>2, SMTT(60) DEF Chain
<1>5. Len(out) = starts[nRead + 1]
  BY <1>3, <1>4
<1>6. StandsFor(d, stream[nRead + 1], starts[nRead + 1], starts[(nRead + 1) + 1])
  <2>1. d \in Seq(Byte)
    BY Zenon DEF IndInv, TypeOK
  <2> QED
    BY <1>1, <1>2, <2>1, ChainStands, Zenon
<1> QED
  BY <1>4, <1>5, <1>6, Zenon DEF phrase

\* What every step of Decompress that meets no error has to establish.
LEMMA ReadStepInv ==
  ASSUME InReach(Len(d)), IndInv, UNCHANGED <<stream, writeVars>>, pc = "decompress", pc' = pc,
         nRead' \in 0..Len(stream), out' \in Seq(Byte),
         copy' \in [symbol : Byte, address : Nat \ {0}, left : Nat], err' = FALSE,
         Len(out') = starts[nRead' + 1] - copy'.left,
         \A k \in 1..Len(out') : out'[k] = d[k],
         copy'.left > 0 =>
           /\ copy'.address <= Len(out')
           /\ \A k \in Len(out')..(starts[nRead' + 1] - 1) : At(d, k) = At(d, k - copy'.address)
  PROVE  IndInv'
<1>1. TypeOK'
  BY Zenon DEF IndInv, TypeOK, writeVars
<1>2. WriterInv(0)'
  BY Zenon DEF IndInv, WriterInv, writeVars
<1>3. ReaderInv'
  <2>1. i' = Len(d') /\ d' = d /\ starts' = starts /\ ~ err'
    BY Zenon DEF IndInv, ReaderInv, writeVars
  <2> QED
    BY <2>1, Zenon DEF ReaderInv
<1>4. i' = Len(d')
  BY Zenon DEF IndInv, ReaderInv, writeVars
<1>5. CopyInv'
  BY Zenon DEF CopyInv
<1> QED
  BY <1>1, <1>2, <1>3, <1>4, <1>5, ZenonT(60) DEF IndInv

\* Decompress puts out a literal.
LEMMA ReadLiteralStep ==
  ASSUME InReach(Len(d)), IndInv, ReadLiteral, UNCHANGED writeVars PROVE IndInv'
<1>1. /\ Reading /\ canEncodeSymbol(phrase.symbol) /\ out' = Append(out, phrase.symbol)
      /\ nRead' = nRead + 1 /\ UNCHANGED <<pc, stream, copy, err>>
  BY Zenon DEF ReadLiteral
<1>2. /\ phrase \in Phrase /\ Len(out) = starts[nRead + 1]
      /\ StandsFor(d, phrase, Len(out), starts[(nRead + 1) + 1])
  BY <1>1, NextPhrase, Zenon
<1>3. LiteralOf(d, phrase, Len(out), starts[(nRead + 1) + 1])
  BY <1>1, <1>2, ZenonT(60) DEF StandsFor, CopyOf, DictCopyOf, canEncodeSymbol, SymbolShort, SymbolDynamic
<1>4. out \in Seq(Byte) /\ d \in Seq(Byte) /\ nRead \in 0..Len(stream) /\ Len(stream) \in Nat
  BY DEF IndInv, TypeOK
<1>5. phrase.symbol \in Byte
  BY <1>2, Zenon DEF Phrase
<1>6. out' \in Seq(Byte) /\ Len(out') = Len(out) + 1
  BY <1>1, <1>4, <1>5
<1>7. copy' = copy /\ copy'.left = 0 /\ pc = "decompress" /\ err = FALSE
  BY <1>1, Zenon DEF Reading, IndInv, TypeOK
<1>8. nRead' \in 0..Len(stream)
  BY <1>1, <1>4 DEF Reading
<1>9. starts[nRead' + 1] = Len(out) + 1 /\ phrase.symbol = At(d, Len(out))
  BY <1>1, <1>3, Zenon DEF LiteralOf
<1>10. Len(out') = starts[nRead' + 1] - copy'.left
  BY <1>4, <1>6, <1>7, <1>9
<1>11. ASSUME NEW k \in 1..Len(out') PROVE out'[k] = d[k]
  <2>1. CASE k = Len(out) + 1
    BY <1>1, <1>4, <1>9, <2>1 DEF At
  <2>2. CASE k # Len(out) + 1
    <3>1. k \in 1..Len(out) /\ out'[k] = out[k]
      BY <1>1, <1>4, <1>6, <2>2
    <3> QED
      BY <1>7, <3>1, Zenon DEF IndInv, ReaderInv
  <2> QED
    BY <2>1, <2>2, Zenon
<1>12. copy' \in [symbol : Byte, address : Nat \ {0}, left : Nat] /\ ~ (copy'.left > 0)
  BY <1>7 DEF IndInv, TypeOK
<1> QED
  BY <1>1, <1>6, <1>7, <1>8, <1>10, <1>11, <1>12, ReadStepInv, ZenonT(60)

\* Decompress meets a reference into its own output.
LEMMA StartCopyStep ==
  ASSUME InReach(Len(d)), IndInv, ReadShort \/ ReadDynamicInOutput, UNCHANGED writeVars PROVE IndInv'
<1>1. /\ Reading /\ phrase.symbol \in {SymbolShort, SymbolDynamic}
      /\ phrase.symbol = SymbolDynamic => phrase.address + 1 <= Len(out)
      /\ copy' = [symbol |-> phrase.symbol, address |-> phrase.address + 1, left |-> phrase.length + 1]
      /\ nRead' = nRead + 1 /\ UNCHANGED <<pc, stream, out, err>>
  BY DEF ReadShort, ReadDynamicInOutput, StartCopy, refAddress, refLength, SymbolShort, SymbolDynamic
<1> DEFINE e == starts[(nRead + 1) + 1]
<1>2. /\ phrase \in Phrase /\ e \in Nat /\ Len(out) = starts[nRead + 1]
      /\ StandsFor(d, phrase, Len(out), e)
  BY <1>1, NextPhrase, Zenon
<1>3. out \in Seq(Byte) /\ nRead \in 0..Len(stream) /\ Len(stream) \in Nat /\ Len(out) \in Nat
  BY DEF IndInv, TypeOK
<1>4. phrase.symbol \in Byte /\ phrase.length \in Nat /\ phrase.address \in Nat
  BY <1>2, Zenon DEF Phrase
<1> HIDE DEF e
<1>5. CopyOf(d, phrase, Len(out), e)
  <2>1. ~ LiteralOf(d, phrase, Len(out), e)
    BY <1>1, Zenon DEF LiteralOf, canEncodeSymbol
  <2>2. ASSUME DictCopyOf(d, phrase, Len(out), e) PROVE FALSE
    <3>1. PICK a \in 0..(dictLen-1) : phrase.address + 1 = Len(out) + (dictLen - a)
      BY <2>2, Zenon DEF DictCopyOf
    <3>2. phrase.address + 1 <= Len(out)
      BY <1>1, <2>2, Zenon DEF DictCopyOf
    <3>3. dictLen \in Nat
      BY DictFacts, Zenon
    <3> QED
      BY <1>3, <1>4, <3>1, <3>2, <3>3
  <2> QED
    BY <1>2, <2>1, <2>2, Zenon DEF StandsFor
<1>6. pc = "decompress" /\ err = FALSE /\ nRead' \in 0..Len(stream) /\ nRead' + 1 = (nRead + 1) + 1
  BY <1>1, <1>3 DEF Reading, IndInv, TypeOK
<1>7. copy' \in [symbol : Byte, address : Nat \ {0}, left : Nat]
  BY <1>1, <1>4
<1>8. copy'.left = phrase.length + 1 /\ copy'.address = phrase.address + 1
  BY <1>1, Zenon
<1>9. Len(out) = e - copy'.left
  <2>1. phrase.length + 1 = e - Len(out)
    BY <1>5, Zenon DEF CopyOf
  <2> QED
    BY <1>2, <1>3, <1>4, <1>8, <2>1
<1>10. \A k \in 1..Len(out) : out[k] = d[k]
  BY <1>6, Zenon DEF IndInv, ReaderInv
<1>11. /\ copy'.address <= Len(out)
       /\ \A k \in Len(out)..(e-1) : At(d, k) = At(d, k - copy'.address)
  BY <1>5, <1>8, Zenon DEF CopyOf
<1>12. e = starts[nRead' + 1] /\ out' = out
  BY <1>1, <1>6, Zenon DEF e
<1> QED
  BY <1>1, <1>3, <1>6, <1>7, <1>9, <1>10, <1>11, <1>12, ReadStepInv, Zenon

\* Decompress copies one byte of its output, perhaps one it has just put out.
LEMMA CopyByteStep ==
  ASSUME InReach(Len(d)), IndInv, CopyByte, UNCHANGED writeVars PROVE IndInv'
<1> DEFINE e == starts[nRead + 1]
           L == Len(out)
<1>1. /\ pc = "decompress" /\ err = FALSE /\ copy.left > 0 /\ UNCHANGED <<pc, stream, nRead>>
      /\ copy \in [symbol : Byte, address : Nat \ {0}, left : Nat]
      /\ out \in Seq(Byte) /\ d \in Seq(Byte) /\ nRead \in 0..Len(stream)
  BY Zenon DEF CopyByte, IndInv, TypeOK
<1>2. /\ L = e - copy.left /\ \A k \in 1..L : out[k] = d[k]
      /\ copy.address <= L /\ \A k \in L..(e-1) : At(d, k) = At(d, k - copy.address)
  BY <1>1, Zenon DEF IndInv, ReaderInv
<1>3. e \in Nat /\ L \in Nat /\ copy.left \in Nat /\ copy.address \in Nat \ {0}
  <2>1. starts \in Seq(Nat) /\ Len(starts) = Len(stream) + 1 /\ Len(stream) \in Nat
    BY DEF IndInv, WriterInv, Chain
  <2>2. nRead + 1 \in DOMAIN starts
    BY <1>1, <2>1
  <2> QED
    BY <1>1, <2>1, <2>2, SMTT(60)
<1> HIDE DEF e
<1>4. ~ (copy.symbol = SymbolShort /\ copy.address > L)
  BY <1>2, <1>3
<1>5. /\ out' = Append(out, At(out, L - copy.address)) /\ err' = err
      /\ copy' = [copy EXCEPT !.left = @ - 1]
  BY <1>4, Zenon DEF CopyByte
<1>6. L - copy.address \in Int /\ 0 <= L - copy.address /\ L - copy.address < L
  BY <1>2, <1>3
<1>7. (L - copy.address) + 1 \in 1..L
  BY <1>3, <1>6
<1>8. At(out, L - copy.address) = At(d, L - copy.address)
  BY <1>2, <1>7, Zenon DEF At
<1>9. L \in L..(e-1)
  BY <1>1, <1>2, <1>3
<1>10. At(out, L - copy.address) = At(d, L)
  BY <1>2, <1>8, <1>9, Zenon
<1>11. At(out, L - copy.address) \in Byte
  BY <1>1, <1>7 DEF At
<1>12. out' \in Seq(Byte) /\ Len(out') = L + 1
  BY <1>1, <1>5, <1>11
<1>13. /\ copy'.left = copy.left - 1 /\ copy'.address = copy.address
       /\ copy' \in [symbol : Byte, address : Nat \ {0}, left : Nat]
  <2>1. copy.left - 1 \in Nat
    BY <1>1, <1>3
  <2> QED
    BY <1>1, <1>5, <2>1, Zenon
<1>14. Len(out') = e - copy'.left
  BY <1>2, <1>3, <1>12, <1>13
<1>15. ASSUME NEW k \in 1..Len(out') PROVE out'[k] = d[k]
  <2>1. CASE k = L + 1
    BY <1>1, <1>5, <1>10, <2>1 DEF At
  <2>2. CASE k # L + 1
    <3>1. k \in 1..L /\ out'[k] = out[k]
      BY <1>1, <1>3, <1>5, <1>12, <2>2, SMTT(60)
    <3> QED
      BY <1>2, <3>1, Zenon
  <2> QED
    BY <2>1, <2>2, Zenon
<1>16. copy'.address <= Len(out')
  BY <1>2, <1>3, <1>12, <1>13, SMTT(30)
<1>17. ASSUME NEW k \in Len(out')..(e-1) PROVE At(d, k) = At(d, k - copy'.address)
  <2>1. k \in L..(e-1)
    BY <1>3, <1>12
  <2> QED
    BY <1>2, <1>13, <2>1, Zenon
<1>18. e = starts[nRead' + 1] /\ nRead' \in 0..Len(stream)
  BY <1>1, Zenon DEF e
<1> QED
  BY <1>1, <1>5, <1>12, <1>13, <1>14, <1>15, <1>16, <1>17, <1>18, ReadStepInv, Zenon

\* Decompress copies from the dictionary.
LEMMA DictCopyStep ==
  ASSUME InReach(Len(d)), IndInv, ReadDynamicInDict, UNCHANGED writeVars PROVE IndInv'
<1> DEFINE e == starts[(nRead + 1) + 1]
           L == Len(out)
           n == phrase.length + 1
<1>1. /\ Reading /\ phrase.symbol = SymbolDynamic /\ phrase.address + 1 > L
      /\ UNCHANGED <<pc, stream, copy>>
  BY Zenon DEF ReadDynamicInDict, refAddress
<1>2. phrase \in Phrase /\ e \in Nat /\ L = starts[nRead + 1] /\ StandsFor(d, phrase, L, e)
  BY <1>1, NextPhrase, Zenon
<1>3. /\ out \in Seq(Byte) /\ d \in Seq(Byte) /\ nRead \in 0..Len(stream) /\ Len(stream) \in Nat
      /\ L \in Nat /\ copy \in [symbol : Byte, address : Nat \ {0}, left : Nat]
  BY DEF IndInv, TypeOK
<1>4. phrase.length \in Nat /\ phrase.address \in Nat /\ dictLen \in Nat
  BY <1>2, DictFacts, Zenon DEF Phrase
<1> HIDE DEF e
<1>5. DictCopyOf(d, phrase, L, e)
  <2>1. ~ LiteralOf(d, phrase, L, e)
    BY <1>1, Zenon DEF LiteralOf, canEncodeSymbol
  <2>2. ~ CopyOf(d, phrase, L, e)
    BY <1>1, <1>3, <1>4 DEF CopyOf
  <2> QED
    BY <1>2, <2>1, <2>2, Zenon DEF StandsFor
<1>6. n = e - L
  BY <1>5, Zenon DEF DictCopyOf
<1>7. PICK a \in 0..(dictLen-1) :
        phrase.address + 1 = L + (dictLen - a) /\ Occurs(d, L, n, dictData, a)
  BY <1>5, <1>6, Zenon DEF DictCopyOf
<1>8. dictStart = a
  <2>1. dictStart = dictLen - ((phrase.address + 1) - L)
    BY Zenon DEF dictStart, refAddress
  <2>2. dictLen - ((L + (dictLen - a)) - L) = a
    BY <1>3, <1>4
  <2> QED
    BY <1>7, <2>1, <2>2, Zenon
<1>9. /\ a + n <= dictLen /\ a \in Nat /\ n \in Nat \ {0} /\ L + n <= Len(d)
      /\ \A k \in 0..(n-1) : At(dictData, a + k) = At(d, L + k)
  <2>1. a + n <= dictLen /\ \A k \in 0..(n-1) : At(dictData, a + k) = At(d, L + k)
    BY <1>7, Zenon DEF Occurs, dictLen
  <2>2. e <= Len(d)
    BY <1>2, Zenon DEF StandsFor
  <2>3. L + n = e
    BY <1>2, <1>3, <1>6, SMTT(60)
  <2> QED
    BY <1>4, <2>1, <2>2, <2>3, SMTT(30)
<1> DEFINE piece == SubSeq(dictData, a + 1, a + n)
<1>10. out' = out \o piece /\ nRead' = nRead + 1 /\ err' = err
  <2>1. ~ (dictStart < 0 \/ dictStart > dictLen \/ dictStart + refLength > dictLen)
    <3>1. refLength = n
      BY Zenon DEF refLength
    <3>2. ~ (a < 0) /\ ~ (a > dictLen) /\ ~ (a + n > dictLen)
      BY <1>4, <1>9, SMTT(60)
    <3> QED
      BY <1>8, <3>1, <3>2, Zenon
  <2> QED
    BY <1>8, <2>1, Zenon DEF ReadDynamicInDict, refLength
<1>11. piece \in Seq(Byte) /\ Len(piece) = n /\ \A k \in 1..n : piece[k] = dictData[a + k]
  <2>1. dictData \in Seq(Byte) /\ Len(dictData) = dictLen
    BY DictFacts, Zenon DEF dictLen
  <2>2. a \in Nat /\ n \in Nat /\ a + n <= Len(dictData)
    BY <1>4, <1>9, <2>1, Zenon
  <2> HIDE DEF n
  <2> QED
    BY <2>1, <2>2, SliceFacts
<1> HIDE DEF piece, n
<1>12. out' \in Seq(Byte) /\ Len(out') = L + n
  <2>1. out \o piece \in Seq(Byte)
    BY <1>3, <1>11
  <2>2. Len(out \o piece) = Len(out) + Len(piece)
    <3>1. out \in Seq(Byte) /\ piece \in Seq(Byte)
      BY <1>3, <1>11, Zenon
    <3> QED
      BY <3>1
  <2> QED
    BY <1>10, <1>11, <2>1, <2>2, Zenon
<1>13. ASSUME NEW k \in 1..Len(out') PROVE out'[k] = d[k]
  <2>1. CASE k <= L
    <3>1. k \in 1..L /\ out'[k] = out[k]
      BY <1>3, <1>10, <1>11, <2>1
    <3> QED
      BY <1>1, <3>1, Zenon DEF IndInv, ReaderInv, Reading
  <2>2. CASE k > L
    <3>1. k - L \in 1..n /\ (k - L) - 1 \in 0..(n-1) /\ k \in Int
      BY <1>3, <1>9, <1>12, <2>2
    <3>2. out'[k] = piece[k - L]
      <4>1. out \in Seq(Byte) /\ piece \in Seq(Byte)
        BY <1>3, <1>11, Zenon
      <4>2. k \in (Len(out) + 1)..(Len(out) + Len(piece))
        BY <1>3, <1>9, <1>11, <1>12, <2>2
      <4>3. (out \o piece)[k] = piece[k - Len(out)]
        BY <4>1, <4>2, ConcatFacts
      <4> QED
        BY <1>10, <4>3, Zenon
    <3>3. piece[k - L] = dictData[a + (k - L)]
      BY <1>11, <3>1, Zenon
    <3>4. At(dictData, a + ((k - L) - 1)) = At(d, L + ((k - L) - 1))
      BY <1>9, <3>1, Zenon
    <3>5. (a + ((k - L) - 1)) + 1 = a + (k - L) /\ (L + ((k - L) - 1)) + 1 = k
      BY <1>3, <1>9, <3>1
    <3> QED
      BY <3>2, <3>3, <3>4, <3>5, Zenon DEF At
  <2> QED
    BY <1>3, <1>12, <2>1, <2>2
<1>14. copy' = copy /\ copy'.left = 0 /\ pc = "decompress" /\ err = FALSE
  BY <1>1, Zenon DEF Reading, IndInv, TypeOK
<1>15. nRead' \in 0..Len(stream) /\ e = starts[nRead' + 1]
  BY <1>1, <1>3, <1>10 DEF Reading, e
<1>16. Len(out') = starts[nRead' + 1] - copy'.left
  <2>1. L + n = e
    BY <1>2, <1>3, <1>6, <1>9, SMTT(30)
  <2>2. e - copy'.left = e
    BY <1>2, <1>14
  <2> QED
    BY <1>12, <1>15, <2>1, <2>2, Zenon
<1>17. copy' \in [symbol : Byte, address : Nat \ {0}, left : Nat] /\ ~ (copy'.left > 0)
  BY <1>3, <1>14
<1> QED
  BY <1>1, <1>10, <1>12, <1>13, <1>14, <1>15, <1>16, <1>17, ReadStepInv, ZenonT(60)

\* A call of Decompress starts from an empty output.
LEMMA DecompressCall ==
  ASSUME IndInv, Decompress, UNCHANGED writeVars PROVE IndInv'
<1>1. /\ pc = "idle" /\ pc' = "decompress" /\ nRead' = 0 /\ out' = <<>> /\ copy' = NoCopy
      /\ err' = FALSE /\ stream' = stream /\ d' = d /\ i' = i /\ starts' = starts /\ cb' = cb
  BY Zenon DEF Decompress, writeVars
<1>2. WriterInv(0)'
  BY <1>1, Zenon DEF IndInv, WriterInv
<1>3. stream \in Seq(Phrase) /\ starts[1] = 0 /\ i = Len(d)
  BY <1>1, Zenon DEF IndInv, WriterInv, Chain
<1>4. NoCopy \in [symbol : Byte, address : Nat \ {0}, left : Nat] /\ NoCopy.left = 0
  BY DEF NoCopy, Byte, SymbolShort
<1>5. TypeOK'
  <2>1. nRead' \in 0..Len(stream') /\ out' \in Seq(Byte)
    BY <1>1, <1>3
  <2> QED
    BY <1>1, <1>4, <2>1, Zenon DEF IndInv, TypeOK
<1>6. ReaderInv'
  <2>1. Len(out') = starts'[nRead' + 1] - copy'.left /\ Len(out') = 0 /\ ~ (copy'.left > 0)
    BY <1>1, <1>3, <1>4
  <2> QED
    BY <1>1, <1>3, <2>1 DEF ReaderInv
<1> QED
  BY <1>1, <1>2, <1>3, <1>4, <1>5, <1>6 DEF IndInv, CopyInv

\* Decompress returns and leaves what it has put out.
LEMMA DecompressReturn ==
  ASSUME IndInv, DecompressReturns, UNCHANGED writeVars PROVE IndInv'
<1>1. /\ pc = "decompress" /\ pc' = "idle" /\ UNCHANGED <<stream, d, i, starts, cb>>
      /\ UNCHANGED <<nRead, out, copy, err>>
  BY Zenon DEF DecompressReturns, writeVars, readVars
<1>2. WriterInv(0)'
  BY <1>1, Zenon DEF IndInv, WriterInv
<1>3. TypeOK'
  BY <1>1, Zenon DEF IndInv, TypeOK
<1> QED
  BY <1>1, <1>2, <1>3, Zenon DEF IndInv, ReaderInv, CopyInv

\* Without the dictionary in reach, a step of Decompress still keeps the types.
LEMMA ReadTyped ==
  ASSUME IndInv, ReadStep, UNCHANGED writeVars
  PROVE  TypeOK' /\ CopyInv'
<1> DEFINE Copies == [symbol : Byte, address : Nat \ {0}, left : Nat]
<1>1. /\ out \in Seq(Byte) /\ nRead \in 0..Len(stream) /\ stream \in Seq(Phrase)
      /\ copy \in Copies /\ err \in BOOLEAN /\ pc \in {"idle", "write", "decompress"}
      /\ Len(stream) \in Nat /\ Len(out) \in Nat
  BY DEF IndInv, TypeOK
<1>2. ASSUME stream' = stream, pc' \in {"idle", "decompress"}, nRead' \in 0..Len(stream),
             out' \in Seq(Byte), copy' \in Copies, err' \in BOOLEAN
      PROVE  TypeOK'
  BY <1>2, Zenon DEF IndInv, TypeOK, writeVars
<1>3. ASSUME Reading
      PROVE  /\ phrase \in Phrase /\ phrase.symbol \in Byte /\ phrase.length \in Nat
             /\ phrase.address \in Nat /\ nRead + 1 \in 0..Len(stream)
             /\ pc = "decompress" /\ copy.left = 0
  <2>1. nRead + 1 \in DOMAIN stream /\ nRead + 1 \in 0..Len(stream)
    BY <1>1, <1>3 DEF Reading
  <2>2. phrase \in Phrase
    BY <1>1, <2>1 DEF phrase
  <2> QED
    BY <1>3, <2>1, <2>2, Zenon DEF Phrase, Reading
<1>4. CASE ReadLiteral
  <2>1. Reading /\ out' = Append(out, phrase.symbol) /\ UNCHANGED <<pc, stream, copy, err>>
        /\ nRead' = nRead + 1
    BY <1>4, Zenon DEF ReadLiteral
  <2>2. out' \in Seq(Byte)
    BY <1>1, <1>3, <2>1
  <2> QED
    BY <1>1, <1>2, <1>3, <2>1, <2>2 DEF CopyInv
<1>5. CASE ReadShort \/ ReadDynamicInOutput
  <2>1. /\ Reading /\ nRead' = nRead + 1 /\ UNCHANGED <<pc, stream, out, err>>
        /\ copy' = [symbol |-> phrase.symbol, address |-> phrase.address + 1,
                    left |-> phrase.length + 1]
        /\ phrase.symbol = SymbolShort \/ phrase.address + 1 <= Len(out)
    BY <1>5, Zenon DEF ReadShort, ReadDynamicInOutput, StartCopy, refAddress, refLength
  <2>2. copy' \in Copies
    BY <1>3, <2>1
  <2>3. CopyInv'
    BY <2>1, Zenon DEF CopyInv
  <2> QED
    BY <1>1, <1>2, <1>3, <2>1, <2>2, <2>3, Zenon
<1>6. CASE ReadDynamicInDict
  <2>1. Reading /\ UNCHANGED <<pc, stream, copy>>
    BY <1>6, Zenon DEF ReadDynamicInDict
  <2>2. CopyInv'
    BY <1>3, <2>1 DEF CopyInv
  <2>3. CASE err' = TRUE /\ UNCHANGED <<nRead, out>>
    BY <1>1, <1>2, <1>3, <2>1, <2>2, <2>3, Zenon
  <2>4. CASE ~ (err' = TRUE /\ UNCHANGED <<nRead, out>>)
    <3>1. /\ ~ (dictStart < 0 \/ dictStart > dictLen \/ dictStart + refLength > dictLen)
          /\ out' = out \o SubSeq(dictData, dictStart + 1, dictStart + refLength)
          /\ nRead' = nRead + 1 /\ err' = err
      BY <1>6, <2>4, Zenon DEF ReadDynamicInDict
    <3>2. refLength \in Nat /\ refAddress \in Nat
      BY <1>3, <2>1 DEF refLength, refAddress
    <3>3. dictLen \in Nat /\ dictData \in Seq(Byte) /\ Len(dictData) = dictLen
      BY DictFacts, Zenon DEF dictLen
    <3>4. dictStart \in Int
      BY <1>1, <3>2, <3>3 DEF dictStart
    <3>5. dictStart \in Nat /\ dictStart + refLength <= Len(dictData)
      BY <3>1, <3>2, <3>3, <3>4
    <3>6. SubSeq(dictData, dictStart + 1, dictStart + refLength) \in Seq(Byte)
      BY <3>2, <3>3, <3>5, SliceFacts, Zenon
    <3>7. out' \in Seq(Byte)
      BY <1>1, <3>1, <3>6
    <3> QED
      BY <1>1, <1>2, <1>3, <2>1, <2>2, <3>1, <3>7, Zenon
  <2> QED
    BY <2>3, <2>4, Zenon
<1>7. CASE CopyByte
  <2>1. pc = "decompress" /\ copy.left > 0 /\ UNCHANGED <<pc, stream, nRead>>
    BY <1>7, Zenon DEF CopyByte
  <2>2. CASE copy.symbol = SymbolShort /\ copy.address > Len(out)
    BY <1>1, <1>2, <1>7, <2>1, <2>2, Zenon DEF CopyByte, CopyInv, IndInv
  <2>3. CASE ~ (copy.symbol = SymbolShort /\ copy.address > Len(out))
    <3>1. /\ out' = Append(out, At(out, Len(out) - copy.address)) /\ err' = err
          /\ copy' = [copy EXCEPT !.left = @ - 1]
      BY <1>7, <2>3, Zenon DEF CopyByte
    <3>2. copy.address \in Nat \ {0} /\ copy.left \in Nat
      BY <1>1, Zenon
    <3>3. copy.address <= Len(out)
      BY <1>1, <2>1, <2>3, <3>2 DEF CopyInv, IndInv
    <3>4. (Len(out) - copy.address) + 1 \in 1..Len(out)
      BY <1>1, <3>2, <3>3
    <3>5. out' \in Seq(Byte) /\ Len(out') = Len(out) + 1
      BY <1>1, <3>1, <3>4 DEF At
    <3>6. copy' \in Copies /\ copy'.address = copy.address
      <4>1. copy.left - 1 \in Nat
        BY <2>1, <3>2
      <4> QED
        BY <1>1, <3>1, <4>1, Zenon
    <3>7. CopyInv'
      BY <1>1, <3>2, <3>3, <3>5, <3>6 DEF CopyInv
    <3> QED
      BY <1>1, <1>2, <2>1, <3>1, <3>5, <3>6, <3>7, ZenonT(60)
  <2> QED
    BY <2>2, <2>3, Zenon
<1>8. CASE DecompressReturns
  BY <1>1, <1>2, <1>8, Zenon DEF DecompressReturns, readVars, CopyInv, IndInv
<1> QED
  BY <1>4, <1>5, <1>6, <1>7, <1>8, ZenonT(60) DEF ReadStep

\* If it is not in reach there is nothing more to show.
LEMMA ReadOutOfReach ==
  ASSUME ~ InReach(Len(d)), IndInv, ReadStep, UNCHANGED writeVars
  PROVE  IndInv'
<1>1. pc = "decompress" /\ stream' = stream /\ UNCHANGED <<d, i, starts, cb>>
  BY Zenon DEF ReadStep, ReadLiteral, ReadShort, ReadDynamicInOutput, ReadDynamicInDict, StartCopy,
         CopyByte, DecompressReturns, Reading, writeVars
<1>2. WriterInv(0)'
  BY <1>1, Zenon DEF IndInv, WriterInv
<1>3. i' = Len(d') /\ ~ InReach(Len(d'))
  BY <1>1, Zenon DEF IndInv
<1> QED
  BY <1>2, <1>3, ReadTyped, Zenon DEF IndInv

\* The invariant is inductive.
LEMMA InvNext ==
  ASSUME IndInv, [Next]_vars PROVE IndInv'
<1>1. CASE UNCHANGED vars
  <2>1. UNCHANGED <<stream, pc, d, i, cb, starts, nRead, out, copy, err>>
    BY <1>1, Zenon DEF vars, writeVars, readVars
  <2>2. TypeOK'
    BY <2>1, Zenon DEF IndInv, TypeOK
  <2>3. WriterInv(0)'
    BY <2>1, Zenon DEF IndInv, WriterInv
  <2>4. InReach(Len(d')) => ReaderInv'
    BY <2>1, Zenon DEF IndInv, ReaderInv
  <2> QED
    BY <2>1, <2>2, <2>3, <2>4, Zenon DEF IndInv, CopyInv
<1>2. CASE (\E chunk \in Chunks : Write(chunk)) /\ UNCHANGED readVars
  BY <1>2, WriteCall, Zenon
<1>3. CASE WriteStep /\ UNCHANGED readVars
  BY <1>3, WriteSteps, Zenon
<1>4. CASE Decompress /\ UNCHANGED writeVars
  BY <1>4, DecompressCall, Zenon
<1>5. CASE ReadStep /\ UNCHANGED writeVars
  <2>1. CASE InReach(Len(d))
    BY <1>5, <2>1, ReadLiteralStep, StartCopyStep, DictCopyStep, CopyByteStep, DecompressReturn, ZenonT(60)
    DEF ReadStep
  <2>2. CASE ~ InReach(Len(d))
    BY <1>5, <2>2, ReadOutOfReach, Zenon
  <2> QED
    BY <2>1, <2>2, Zenon
<1> QED
  BY <1>1, <1>2, <1>3, <1>4, <1>5, Zenon DEF Next

-----------------------------------------------------------------------------
(* The properties. *)

\* The invariant implies each property that the run round_trip checks.
LEMMA InvImplies ==
  ASSUME InReach(Len(d)), IndInv
  PROVE  PhrasesSound /\ DecodesPrefix /\ DecodesAll
<1>1. PhrasesSound
  <2>1. Chain(d, stream, starts, 0, i) /\ d \in Seq(Byte)
    BY Zenon DEF IndInv, WriterInv
  <2>2. \A n \in DOMAIN stream : StandsFor(d, stream[n], starts[n], starts[n+1])
    BY <2>1, ChainStands, Zenon
  <2> QED
    BY <2>1, <2>2, Zenon DEF Chain, PhrasesSound
<1>3. ASSUME pc = "decompress"
      PROVE  /\ ~ err /\ out \in Seq(Byte) /\ d \in Seq(Byte) /\ Len(out) <= Len(d)
             /\ \A k \in 1..Len(out) : out[k] = d[k]
             /\ Finished => Len(out) = Len(d)
  <2>1. /\ ~ err /\ i = Len(d) /\ Len(out) = starts[nRead + 1] - copy.left
        /\ \A k \in 1..Len(out) : out[k] = d[k]
    BY <1>3, Zenon DEF IndInv, ReaderInv
  <2>2. /\ out \in Seq(Byte) /\ d \in Seq(Byte) /\ nRead \in 0..Len(stream) /\ copy.left \in Nat
        /\ stream \in Seq(Phrase)
    BY Zenon DEF IndInv, TypeOK
  <2>3. Chain(d, stream, starts, 0, i)
    BY Zenon DEF IndInv, WriterInv
  <2>4. starts[nRead + 1] \in Nat /\ starts[nRead + 1] <= Len(d)
    <3>1. CASE nRead = 0
      BY <2>2, <2>3, <3>1 DEF Chain
    <3>2. CASE nRead # 0
      <4>1. nRead \in DOMAIN stream /\ nRead + 1 \in DOMAIN starts
        BY <2>2, <2>3, <3>2 DEF Chain
      <4>2. Piece(d, stream[nRead], starts[nRead], starts[nRead + 1])
        BY <2>3, <4>1, Zenon DEF Chain
      <4>3. starts[nRead + 1] <= Len(d)
        BY <4>2, Zenon DEF Piece
      <4> QED
        BY <2>3, <4>1, <4>3 DEF Chain
    <3> QED
      BY <3>1, <3>2, Zenon
  <2>5. Len(out) <= Len(d)
    BY <2>1, <2>2, <2>4
  <2>6. ASSUME Finished PROVE Len(out) = Len(d)
    <3>1. nRead = Len(stream) /\ copy.left = 0
      BY <2>1, <2>6, Zenon DEF Finished
    <3>2. nRead + 1 = Len(starts)
      BY <2>3, <3>1, Zenon DEF Chain
    <3>3. starts[nRead + 1] = Len(d)
      BY <2>1, <2>3, <3>2, Zenon DEF Chain
    <3> QED
      BY <2>1, <2>4, <3>1, <3>3
  <2> QED
    BY <2>1, <2>2, <2>5, <2>6, Zenon
<1>4. DecodesPrefix
  <2>1. ASSUME pc = "decompress" PROVE Len(out) <= Len(d) /\ out = SubSeq(d, 1, Len(out))
    <3>1. /\ out \in Seq(Byte) /\ d \in Seq(Byte) /\ Len(out) <= Len(d)
          /\ \A k \in 1..Len(out) : out[k] = d[k]
      BY <1>3, <2>1, Zenon
    <3>2. out = SubSeq(d, 1, Len(out))
      BY <3>1
    <3> QED
      BY <3>1, <3>2, Zenon
  <2> QED
    BY <1>3, <2>1, Zenon DEF DecodesPrefix
<1>5. DecodesAll
  <2>1. ASSUME pc = "decompress", Finished PROVE out = d
    BY <1>3, <2>1, SMTT(60)
  <2> QED
    BY <2>1, Zenon DEF DecodesAll
<1> QED
  BY <1>1, <1>4, <1>5, Zenon

\* The invariant is one.
LEMMA Invariance == Spec => []IndInv
<1>1. Init => IndInv
  BY InvInit, Zenon
<1>2. IndInv /\ [Next]_vars => IndInv'
  BY InvNext, Zenon
<1> QED
  BY <1>1, <1>2, PTL DEF Spec

\* For every dictionary, every sequence of writes and every width of the fields:
\* as long as the input reaches no further than the address field over the
\* dictionary, Decompress meets no invalid reference and never puts out anything
\* but a prefix of what was written ...
THEOREM RoundTripCorrect == Spec => [](InReach(Len(d)) => DecodesPrefix)
<1>1. IndInv => (InReach(Len(d)) => DecodesPrefix)
  BY InvImplies, Zenon
<1> QED
  BY <1>1, Invariance, PTL

\* ... and all of it in the end.
THEOREM RoundTripComplete == Spec => [](InReach(Len(d)) => DecodesAll)
<1>1. IndInv => (InReach(Len(d)) => DecodesAll)
  BY InvImplies, Zenon
<1> QED
  BY <1>1, Invariance, PTL

\* Under the same condition the phrases stand for consecutive pieces of the input.
THEOREM WriterCorrect == Spec => [](InReach(Len(d)) => PhrasesSound)
<1>1. IndInv => (InReach(Len(d)) => PhrasesSound)
  BY InvImplies, Zenon
<1> QED
  BY <1>1, Invariance, PTL

\* Without any condition, the circular buffer never returns anything but what a
\* search would: it is reset when a write changes what a search can find.
THEOREM BufferCoherent == Spec => []CacheCoherent
<1>1. IndInv => CacheCoherent
  BY Zenon DEF IndInv, WriterInv, BufferOK, CacheCoherent
<1> QED
  BY <1>1, Invariance, PTL

\* Without any condition, types are kept, also when Decompress meets a reference
\* that was cut by the width of its field.
THEOREM RoundTripTyped == Spec => []TypeOK
<1>1. IndInv => TypeOK
  BY Zenon DEF IndInv
<1> QED
  BY <1>1, Invariance, PTL
-----------------------------------------------------------------------------
(* Sums. *)

\* The sum of the first n numbers is the last of their partial sums.
LEMMA TotalRec ==
  ASSUME NEW n \in Nat, NEW f, \A k \in 1..n : f[k] \in Nat
  PROVE  \E t \in [0..n -> Nat] :
           t[0] = 0 /\ (\A k \in 1..n : t[k] = t[k - 1] + f[k]) /\ Total(f, n) = t[n]
<1> DEFINE g == [p \in Nat \X (1..n) |-> p[1] + f[p[2]]]
           rec(t) == t = [k \in 0..n |-> IF k = 0 THEN 0 ELSE t[k - 1] + f[k]]
           sum == CHOOSE t : rec(t)
<1>1. g \in [Nat \X (1..n) -> Nat] /\ \A x \in Nat, k \in 1..n : g[<<x, k>>] = x + f[k]
  OBVIOUS
<1>2. Total(f, n) = sum[n]
  BY Zenon DEF Total
<1> HIDE DEF g
<1>3. PICK t \in [0..n -> Nat] : t[0] = 0 /\ \A k \in 1..n : t[k] = g[<<t[k-1], k>>]
  <2>1. 0 \in Nat
    BY Zenon
  <2>2. \E t \in [0..n -> Nat] : Iterates(t, g, 0, n)
    BY <1>1, <2>1, IterateExists, Zenon
  <2> QED
    BY <2>2, Zenon DEF Iterates
<1>4. ASSUME NEW k \in 1..n PROVE t[k] = t[k-1] + f[k]
  <2>1. t[k-1] \in Nat
    OBVIOUS
  <2> QED
    BY <1>1, <1>3, <2>1, Zenon
<1>5. rec(t)
  <2> SUFFICES ASSUME NEW k \in 0..n, k # 0 PROVE t[k] = t[k - 1] + f[k]
    BY <1>3, Zenon
  <2> QED
    BY <1>4
<1>6. rec(sum)
  BY <1>5, Zenon
<1> HIDE DEF sum
<1>7. sum[0] = 0 /\ \A k \in 1..n : sum[k] = sum[k-1] + f[k]
  <2>1. 0 \in 0..n /\ \A k \in 1..n : k \in 0..n /\ k # 0
    OBVIOUS
  <2> QED
    BY <1>6, <2>1, Zenon
<1> DEFINE P == {k \in 0..n : sum[k] = t[k]}
<1>8. \A k \in 0..n : k \in P
  <2>1. 0 \in P
    BY <1>3, <1>7
  <2>2. \A k \in 1..n : k - 1 \in P => k \in P
    BY <1>4, <1>7
  <2> HIDE DEF P
  <2> QED
    BY <2>1, <2>2, UpTo, Zenon
<1> QED
  BY <1>2, <1>3, <1>4, <1>8

\* Partial sums are sums.
LEMMA TotalIs ==
  ASSUME NEW n \in Nat, NEW f, \A k \in 1..n : f[k] \in Nat,
         NEW t, t[0] = 0, \A k \in 1..n : t[k] = t[k - 1] + f[k]
  PROVE  Total(f, n) = t[n]
<1>1. PICK u \in [0..n -> Nat] :
        u[0] = 0 /\ (\A k \in 1..n : u[k] = u[k - 1] + f[k]) /\ Total(f, n) = u[n]
  BY TotalRec, Zenon
<1> DEFINE P == {k \in 0..n : u[k] = t[k]}
<1>2. \A k \in 0..n : k \in P
  <2>1. 0 \in P
    BY <1>1
  <2>2. \A k \in 1..n : k - 1 \in P => k \in P
    BY <1>1
  <2> HIDE DEF P
  <2> QED
    BY <2>1, <2>2, UpTo, Zenon
<1> QED
  BY <1>1, <1>2

\* A sum depends on its terms only.
LEMMA TotalSame ==
  ASSUME NEW n \in Nat, NEW f, NEW g, \A k \in 1..n : f[k] \in Nat /\ g[k] = f[k]
  PROVE  Total(f, n) = Total(g, n)
<1>1. PICK t \in [0..n -> Nat] :
        t[0] = 0 /\ (\A k \in 1..n : t[k] = t[k - 1] + f[k]) /\ Total(f, n) = t[n]
  BY TotalRec, Zenon
<1>2. \A k \in 1..n : g[k] \in Nat /\ t[k] = t[k - 1] + g[k]
  BY <1>1, Zenon
<1>3. Total(g, n) = t[n]
  BY <1>1, <1>2, TotalIs, ZenonT(60)
<1> QED
  BY <1>1, <1>3, Zenon

\* A term is added to the sum.
LEMMA TotalStep ==
  ASSUME NEW n \in Nat, NEW f, \A k \in 1..(n + 1) : f[k] \in Nat
  PROVE  Total(f, n + 1) = Total(f, n) + f[n + 1] /\ Total(f, n) \in Nat
<1>1. PICK t \in [0..(n + 1) -> Nat] :
        /\ t[0] = 0 /\ \A k \in 1..(n + 1) : t[k] = t[k - 1] + f[k]
        /\ Total(f, n + 1) = t[n + 1]
  <2>1. n + 1 \in Nat
    OBVIOUS
  <2> QED
    BY <2>1, TotalRec, Zenon
<1>2. Total(f, n) = t[n]
  <2>1. \A k \in 1..n : k \in 1..(n + 1)
    OBVIOUS
  <2>2. /\ \A k \in 1..n : f[k] \in Nat
        /\ t[0] = 0 /\ \A k \in 1..n : t[k] = t[k - 1] + f[k]
    BY <1>1, <2>1, Zenon
  <2> QED
    BY <2>2, TotalIs, ZenonT(60)
<1>3. n + 1 \in 1..(n + 1) /\ (n + 1) - 1 = n /\ n \in 0..(n + 1)
  OBVIOUS
<1> QED
  BY <1>1, <1>2, <1>3, Zenon

\* m + n terms, of which the last n are at least 8, and the first of these is x.
LEMMA TotalGrows ==
  ASSUME NEW m \in Nat, NEW n \in Nat \ {0}, NEW f, \A k \in 1..(m + n) : f[k] \in Nat,
         \A k \in (m + 1)..(m + n) : f[k] >= 8
  PROVE  /\ Total(f, m) \in Nat /\ Total(f, m + n) \in Nat
         /\ Total(f, m + 1) = Total(f, m) + f[m + 1]
         /\ Total(f, m + n) >= Total(f, m) + f[m + 1] + 8 * (n - 1)
<1>1. PICK t \in [0..(m + n) -> Nat] :
        /\ t[0] = 0 /\ \A k \in 1..(m + n) : t[k] = t[k - 1] + f[k]
        /\ Total(f, m + n) = t[m + n]
  <2>1. m + n \in Nat
    OBVIOUS
  <2> QED
    BY <2>1, TotalRec, Zenon
<1>2. Total(f, m) = t[m] /\ Total(f, m + 1) = t[m + 1]
  <2>1. ASSUME NEW k \in Nat, k <= m + n PROVE Total(f, k) = t[k]
    <3>1. \A j \in 1..k : j \in 1..(m + n)
      BY <2>1
    <3>2. /\ \A j \in 1..k : f[j] \in Nat
          /\ t[0] = 0 /\ \A j \in 1..k : t[j] = t[j - 1] + f[j]
      BY <1>1, <3>1, Zenon
    <3> QED
      BY <3>2, TotalIs, ZenonT(60)
  <2> QED
    BY <2>1
<1>3. t[m + 1] = t[m] + f[m + 1] /\ t[m] \in Nat /\ t[m + 1] \in Nat /\ t[m + n] \in Nat
  <2>1. m + 1 \in 1..(m + n) /\ (m + 1) - 1 = m /\ m \in 0..(m + n) /\ m + 1 \in 0..(m + n)
        /\ m + n \in 0..(m + n)
    OBVIOUS
  <2> QED
    BY <1>1, <2>1, Zenon
<1> DEFINE P == {k \in 0..(n - 1) : t[(m + 1) + k] >= t[m + 1] + 8 * k}
<1>4. \A k \in 0..(n - 1) : k \in P
  <2>1. 0 \in P
    BY <1>3
  <2>2. ASSUME NEW k \in 1..(n - 1), k - 1 \in P PROVE k \in P
    <3>1. /\ (m + 1) + k \in (m + 1)..(m + n) /\ (m + 1) + k \in 1..(m + n)
          /\ ((m + 1) + k) - 1 = (m + 1) + (k - 1) /\ (m + 1) + (k - 1) \in 0..(m + n)
      OBVIOUS
    <3>2. t[(m + 1) + k] = t[(m + 1) + (k - 1)] + f[(m + 1) + k]
      BY <1>1, <3>1, Zenon
    <3>3. f[(m + 1) + k] >= 8 /\ f[(m + 1) + k] \in Nat /\ t[(m + 1) + (k - 1)] \in Nat
      BY <1>1, <3>1, Zenon
    <3>4. t[(m + 1) + (k - 1)] >= t[m + 1] + 8 * (k - 1)
      BY <2>2, Zenon
    <3>5. t[(m + 1) + k] >= t[m + 1] + 8 * k
      <4>1. PICK a, b, c, e : /\ a = t[(m + 1) + k] /\ b = t[(m + 1) + (k - 1)]
                              /\ c = f[(m + 1) + k] /\ e = t[m + 1]
        BY Zenon
      <4>2. b \in Nat /\ c \in Nat /\ e \in Nat /\ a = b + c /\ c >= 8 /\ b >= e + 8 * (k - 1)
        BY <1>3, <3>2, <3>3, <3>4, <4>1, Zenon
      <4>3. a >= e + 8 * k
        BY <4>2
      <4> QED
        BY <4>1, <4>3, Zenon
    <3>6. k \in 0..(n - 1)
      OBVIOUS
    <3> QED
      BY <3>5, <3>6, Zenon
  <2>3. n - 1 \in Nat
    OBVIOUS
  <2> HIDE DEF P
  <2> QED
    BY <2>1, <2>2, <2>3, UpTo, Zenon
<1>5. t[m + n] >= t[m + 1] + 8 * (n - 1)
  <2>1. n - 1 \in 0..(n - 1) /\ (m + 1) + (n - 1) = m + n
    OBVIOUS
  <2>2. n - 1 \in P
    BY <1>4, <2>1, ZenonT(60)
  <2> QED
    BY <2>1, <2>2, Zenon
<1> QED
  BY <1>1, <1>2, <1>3, <1>5, Zenon
-----------------------------------------------------------------------------
(* The bits of the phrases. *)

PhraseTotal(ss) == Total([n \in DOMAIN ss |-> NbBits(ss[n].symbol)], Len(ss))
ByteTotal(data, n) == Total([k \in DOMAIN data |-> MaxBits(data[k])], n)

\* A phrase takes at least a byte.
LEMMA AtLeastAByte == \A s : NbBits(s) \in Nat /\ MaxBits(s) \in Nat /\ MaxBits(s) >= 8
  BY BitsAssumption
  DEF NbBits, MaxBits, TypeOf, NewShortBackrefType, NewDynamicBackrefType, newBackRefType

\* A phrase adds its bits to those of the stream.
LEMMA PhraseAdded ==
  ASSUME NEW ss \in Seq(Phrase), NEW p \in Phrase
  PROVE  PhraseTotal(Append(ss, p)) = PhraseTotal(ss) + NbBits(p.symbol) /\ PhraseTotal(ss) \in Nat
<1>1. PICK N, tt : N = Len(ss) /\ tt = Append(ss, p)
  BY Zenon
<1>2. /\ N \in Nat /\ Len(tt) = N + 1 /\ DOMAIN tt = 1..(N + 1) /\ DOMAIN ss = 1..N
      /\ tt[N + 1] = p /\ \A n \in 1..N : tt[n] = ss[n]
  BY <1>1
<1>3. PICK f, g : /\ f = [n \in DOMAIN ss |-> NbBits(ss[n].symbol)]
                  /\ g = [n \in DOMAIN tt |-> NbBits(tt[n].symbol)]
  BY Zenon
<1>4. /\ \A n \in 1..(N + 1) : g[n] \in Nat
      /\ \A n \in 1..N : f[n] \in Nat /\ g[n] = f[n]
      /\ g[N + 1] = NbBits(p.symbol)
  <2>1. \A n \in 1..(N + 1) : g[n] = NbBits(tt[n].symbol)
    BY <1>2, <1>3, Zenon
  <2>2. \A n \in 1..N : f[n] = NbBits(ss[n].symbol)
    BY <1>2, <1>3, Zenon
  <2>3. N + 1 \in 1..(N + 1) /\ \A n \in 1..N : n \in 1..(N + 1)
    BY <1>2, SMTT(60)
  <2> QED
    BY <1>2, <2>1, <2>2, <2>3, AtLeastAByte, ZenonT(60)
<1>5. Total(f, N) = Total(g, N)
  BY <1>2, <1>4, TotalSame, Zenon
<1>6. Total(g, N + 1) = Total(g, N) + g[N + 1] /\ Total(g, N) \in Nat
  BY <1>2, <1>4, TotalStep, Zenon
<1>7. PhraseTotal(ss) = Total(f, N) /\ PhraseTotal(tt) = Total(g, N + 1)
  BY <1>1, <1>2, <1>3, Zenon DEF PhraseTotal
<1> QED
  BY <1>1, <1>4, <1>5, <1>6, <1>7, Zenon

\* The bytes data[m:m+n) may take as many bits as the first of them and n-1 literals.
LEMMA BytesAdded ==
  ASSUME NEW data \in Seq(Byte), NEW m \in Nat, NEW n \in Nat \ {0}, m + n <= Len(data)
  PROVE  /\ ByteTotal(data, m) \in Nat /\ ByteTotal(data, m + n) \in Nat
         /\ ByteTotal(data, m + n) >= ByteTotal(data, m) + MaxBits(At(data, m)) + 8 * (n - 1)
<1>1. PICK f : f = [k \in DOMAIN data |-> MaxBits(data[k])]
  BY Zenon
<1>2. /\ m + 1 \in 1..(m + n) /\ \A k \in 1..(m + n) : k \in DOMAIN data
      /\ \A k \in (m + 1)..(m + n) : k \in 1..(m + n)
  BY LenNat
<1>3. \A k \in 1..(m + n) : f[k] = MaxBits(data[k])
  BY <1>1, <1>2, Zenon
<1>4. /\ \A k \in 1..(m + n) : f[k] \in Nat
      /\ \A k \in (m + 1)..(m + n) : f[k] >= 8
      /\ f[m + 1] = MaxBits(At(data, m))
  BY <1>2, <1>3, AtLeastAByte, Zenon DEF At
<1>5. /\ Total(f, m) \in Nat /\ Total(f, m + n) \in Nat
      /\ Total(f, m + n) >= Total(f, m) + f[m + 1] + 8 * (n - 1)
  BY <1>4, TotalGrows, Zenon
<1>6. ByteTotal(data, m) = Total(f, m) /\ ByteTotal(data, m + n) = Total(f, m + n)
  BY <1>1, Zenon DEF ByteTotal
<1> QED
  BY <1>4, <1>5, <1>6, Zenon

\* ExpansionBounded, for any stream.
Bounded(ss, data, n) == PhraseTotal(ss) <= ByteTotal(data, n)

\* A phrase for the next n bytes keeps the bound if it takes no more bits than the
\* first of them and n-1 literals.
LEMMA BoundKept ==
  ASSUME NEW ss \in Seq(Phrase), NEW data \in Seq(Byte), NEW m \in Nat, Bounded(ss, data, m),
         NEW p \in Phrase, NEW n \in Nat \ {0}, m + n <= Len(data),
         NbBits(p.symbol) <= MaxBits(At(data, m)) + 8 * (n - 1)
  PROVE  Bounded(Append(ss, p), data, m + n)
<1>1. PICK a, b, c, e, s, x :
        /\ a = PhraseTotal(ss) /\ b = PhraseTotal(Append(ss, p)) /\ c = ByteTotal(data, m)
        /\ e = ByteTotal(data, m + n) /\ s = NbBits(p.symbol) /\ x = MaxBits(At(data, m))
  BY Zenon
<1>2. /\ b = a + s /\ a \in Nat /\ s \in Nat /\ a <= c /\ x \in Nat /\ s <= x + 8 * (n - 1)
      /\ c \in Nat /\ e \in Nat /\ e >= c + x + 8 * (n - 1)
  <2>1. b = a + s /\ a \in Nat
    BY <1>1, PhraseAdded, Zenon
  <2>2. c \in Nat /\ e \in Nat /\ e >= c + x + 8 * (n - 1)
    BY <1>1, BytesAdded, Zenon
  <2> QED
    BY <1>1, <2>1, <2>2, AtLeastAByte, ZenonT(60) DEF Bounded
<1>3. b <= e
  BY <1>2
<1> QED
  BY <1>1, <1>3, Zenon DEF Bounded
\* An iteration that writes one phrase keeps the bound if the phrase is no dearer ...
LEMMA EmitBounded ==
  ASSUME WriterInv(0), WriterInv(0)', Iteration, Bounded(stream, d, i),
         NEW p, NEW n \in Nat \ {0}, Emit(p, n), NbBits(p.symbol) <= MaxBits(At(d, i)) + 8 * (n - 1)
  PROVE  Bounded(stream', d', i')
<1>1. /\ stream \in Seq(Phrase) /\ stream' \in Seq(Phrase) /\ d \in Seq(Byte) /\ i \in Nat
      /\ d' = d /\ i' = i + n /\ stream' = Append(stream, p) /\ i' \in 0..Len(d')
  BY DEF WriterInv, Chain, Emit, Iteration
<1>2. p \in Phrase
  <2>1. Len(stream) + 1 \in DOMAIN stream' /\ stream'[Len(stream) + 1] = p
    BY <1>1
  <2> QED
    BY <1>1, <2>1
<1>3. i + n <= Len(d)
  BY <1>1
<1> QED
  BY <1>1, <1>2, <1>3, BoundKept, ZenonT(60)

\* ... and one that writes two if both are.
LEMMA EmitTwoBounded ==
  ASSUME WriterInv(0), WriterInv(0)', Iteration, Bounded(stream, d, i),
         NEW p, NEW n \in Nat \ {0}, NEW q, NEW m \in Nat \ {0}, EmitTwo(p, n, q, m),
         NbBits(p.symbol) <= MaxBits(At(d, i)) + 8 * (n - 1),
         NbBits(q.symbol) <= MaxBits(At(d, i + n)) + 8 * (m - 1)
  PROVE  Bounded(stream', d', i')
<1>1. /\ stream \in Seq(Phrase) /\ stream' \in Seq(Phrase) /\ d \in Seq(Byte) /\ i \in Nat
      /\ d' = d /\ i' = i + n + m /\ stream' = stream \o <<p, q>> /\ i' \in 0..Len(d')
  BY DEF WriterInv, Chain, EmitTwo, Iteration
<1>2. p \in Phrase /\ q \in Phrase
  <2>1. /\ Len(stream) + 1 \in DOMAIN stream' /\ stream'[Len(stream) + 1] = p
        /\ Len(stream) + 2 \in DOMAIN stream' /\ stream'[Len(stream) + 2] = q
    BY <1>1
  <2> QED
    BY <1>1, <2>1
<1>3. stream' = Append(Append(stream, p), q) /\ Append(stream, p) \in Seq(Phrase)
  BY <1>1, <1>2, SMTT(60)
<1>4. i + n <= Len(d) /\ (i + n) + m <= Len(d) /\ i + n \in Nat
  BY <1>1, LenNat, SMTT(60)
<1>5. Bounded(Append(stream, p), d, i + n)
  BY <1>1, <1>2, <1>4, BoundKept, Zenon
<1>6. Bounded(Append(Append(stream, p), q), d, (i + n) + m)
  BY <1>1, <1>2, <1>3, <1>4, <1>5, BoundKept, ZenonT(60)
<1> QED
  BY <1>1, <1>3, <1>6, ZenonT(60)

\* A reference takes the bits of its type, by which its savings are reckoned.
LEMMA ReferenceBits ==
  ASSUME NEW b, b.bType \in BackrefTypes, b.length \in Nat, NEW at
  PROVE  /\ NbBits(writeTo(b, at).symbol) = b.bType.NbBitsBackRef
         /\ b.bType.NbBitsBackRef \in Nat
         /\ savings(b) = 8 * b.length - b.bType.NbBitsBackRef
         /\ savings(b) >= 0 => NbBits(writeTo(b, at).symbol) <= 8 * b.length
<1>1. writeTo(b, at).symbol = b.bType.Delimiter
  BY Zenon DEF writeTo
<1>2. NbBits(b.bType.Delimiter) = b.bType.NbBitsBackRef /\ b.bType.NbBitsBackRef \in Nat
  BY BitsAssumption
  DEF NbBits, canEncodeSymbol, TypeOf, BackrefTypes, NewShortBackrefType, NewDynamicBackrefType,
      newBackRefType, SymbolShort, SymbolDynamic
<1>3. b.length # -1
  OBVIOUS
<1>4. savings(b) = 8 * b.length - b.bType.NbBitsBackRef
  BY <1>3, Zenon DEF savings
<1> QED
  BY <1>1, <1>2, <1>4, SMTT(60)

\* The reference written for a long run saves bits, with or without the first byte.
LEMMA RunSaves ==
  ASSUME NEW at \in Nat, NEW count \in Nat, count >= MinRepeatingBytes - 1
  PROVE  NbBits(writeTo(RunRef(at, count), at).symbol) <= 8 * count
<1>1. PICK s, y : /\ s = backref(NewShortBackrefType, [address |-> at - 1, length |-> count])
                  /\ y = backref(NewDynamicBackrefType,
                                 [address |-> dictLen + at - 1, length |-> count])
  BY Zenon
<1>2. /\ s.bType \in BackrefTypes /\ s.length = count
      /\ y.bType \in BackrefTypes /\ y.length = count
      /\ y.bType.NbBitsBackRef = 8 + DynAddrBits + LengthBits
  BY <1>1, Zenon DEF backref, BackrefTypes, NewDynamicBackrefType, newBackRefType
<1>3. RunRef(at, count) = IF savings(s) > savings(y) THEN s ELSE y
  BY <1>1, ZenonT(60) DEF RunRef
<1>4. /\ savings(s) \in Int /\ savings(y) \in Int
      /\ savings(y) = 8 * count - (8 + DynAddrBits + LengthBits)
      /\ savings(s) >= 0 => NbBits(writeTo(s, at).symbol) <= 8 * count
      /\ savings(y) >= 0 => NbBits(writeTo(y, at).symbol) <= 8 * count
  BY <1>2, ReferenceBits, SMTT(60)
<1>5. savings(y) >= 0
  BY <1>4, ExpansionAssumption, RunAssumption, BitsAssumption, SMTT(60)
<1> QED
  BY <1>3, <1>4, <1>5, SMTT(60)

\* All longest matches are equally long.
LEMMA LookupUniform ==
  ASSUME NEW dd, NEW at, NEW text, NEW lo \in Int, NEW hi \in Nat, NEW from \in Int, NEW to \in Int,
         NEW x \in LookupLongest(dd, at, text, lo, hi, from, to),
         NEW y \in LookupLongest(dd, at, text, lo, hi, from, to)
  PROVE  x.length = y.length /\ x.length \in Int /\ x.length <= hi
<1> DEFINE found == Matches(dd, at, text, lo, hi, from, to)
<1>1. \A m \in found : m.length \in Int /\ m.length <= hi
  BY SMTT(60) DEF Matches
<1> HIDE DEF found
<1>2. CASE found = {}
  BY <1>2 DEF LookupLongest, NoMatch, found
<1>3. CASE found # {}
  <2>1. x \in found /\ y \in found /\ x.length <= y.length /\ y.length <= x.length
    BY <1>3, Zenon DEF LookupLongest, found
  <2> QED
    BY <1>1, <2>1, SMTT(60)
<1> QED
  BY <1>2, <1>3, ZenonT(60)

\* The search for a dynamic reference of at least one byte always has an answer.
LEMMA FindDefined ==
  ASSUME NEW dd \in Seq(Byte), NEW at \in 0..(Len(dd)-1)
  PROVE  findBackRef(dd, at, NewDynamicBackrefType, 1) # {}
<1> DEFINE bType == NewDynamicBackrefType
           longest == IF at + maxLength > Len(dd) THEN Len(dd) - at ELSE maxLength
           windowStart == IF at > bType.maxAddress THEN at - bType.maxAddress ELSE 0
           found == LookupLongest(dd, at, dd, 1, longest, windowStart, at)
           inData == {[o EXCEPT !.address = @ + bType.DictLen] : o \in found}
           inDict == LookupLongest(dd, at, dictData, 1, longest, 0, dictLen)
<1>1. longest \in Nat \ {0} /\ dictLen \in Nat /\ windowStart \in Int /\ at \in Int
  <2>1. bType \in BackrefTypes
    BY Zenon DEF BackrefTypes
  <2> QED
    BY <2>1, TypeFacts, DictFacts, SMTT(60)
<1>2. bType.Delimiter # SymbolShort
  BY DEF NewDynamicBackrefType, newBackRefType, SymbolDynamic, SymbolShort
<1>3. ~ (1 > longest)
  BY <1>1
<1>4. findBackRef(dd, at, bType, 1) =
        {o \in inData : o.length = longest \/ \A e \in inDict : e.length <= o.length}
        \cup {e \in inDict : \A o \in inData : o.length < longest /\ e.length > o.length}
  BY <1>2, <1>3 DEF findBackRef
<1> HIDE DEF bType, longest, windowStart
<1>5. PICK x \in Int : x <= longest /\ \A o \in inData : o.length = x
  <2>1. PICK o \in found : TRUE
    BY <1>1, LookupDefined
  <2>2. \A c \in found : c.length = o.length /\ o.length \in Int /\ o.length <= longest
    BY <1>1, <2>1, LookupUniform
  <2>3. \A c \in found : [c EXCEPT !.address = @ + bType.DictLen].length = c.length
    BY <1>1, LookupSound DEF NoMatch, Matches
  <2> QED
    BY <2>1, <2>2, <2>3, ZenonT(60)
<1>6. PICK e \in inDict : TRUE
  BY <1>1, LookupDefined
<1>7. e.length \in Int /\ \A c \in inDict : c.length = e.length
  BY <1>1, <1>6, LookupUniform
<1>8. inData # {}
  <2>1. found # {}
    BY <1>1, LookupDefined
  <2> HIDE DEF found
  <2> QED
    BY <2>1, Zenon
<1> HIDE DEF inData, inDict
<1>9. PICK o \in inData : o.length = x
  BY <1>5, <1>8, Zenon
<1>10. CASE x = longest \/ e.length <= x
  BY <1>4, <1>7, <1>9, <1>10, Zenon DEF bType
<1>11. CASE ~ (x = longest \/ e.length <= x)
  <2>1. x < longest /\ e.length > x
    BY <1>1, <1>5, <1>7, <1>11, SMTT(60)
  <2> QED
    BY <1>4, <1>5, <1>6, <2>1, SMTT(60) DEF bType
<1> QED
  BY <1>10, <1>11, ZenonT(60)

\* What is written for a reserved symbol, and the bytes after it, takes no more bits
\* than a dynamic reference for it and literals for the others.
LEMMA ReservedBits ==
  ASSUME NEW dd \in Seq(Byte), NEW at \in 0..(Len(dd)-1), ~ canEncodeSymbol(At(dd, at)),
         NEW b \in BestAt(dd, at)
  PROVE  /\ b.length \in Nat \ {0}
         /\ NbBits(writeTo(b, at).symbol) <= MaxBits(At(dd, at)) + 8 * (b.length - 1)
<1>1. b.bType \in BackrefTypes /\ b.length \in Nat \ {0}
  <2>1. RefersTo(dd, b, at)
    BY BestSound, Zenon
  <2> QED
    BY <2>1, TypeFacts DEF RefersTo
<1>2. /\ NbBits(writeTo(b, at).symbol) = b.bType.NbBitsBackRef /\ b.bType.NbBitsBackRef \in Nat
      /\ savings(b) = 8 * b.length - b.bType.NbBitsBackRef
  BY <1>1, ReferenceBits, Zenon
<1>3. PICK x \in Nat : x = NewDynamicBackrefType.NbBitsBackRef
  BY BitsAssumption, SMTT(60) DEF NewDynamicBackrefType, newBackRefType
<1>4. MaxBits(At(dd, at)) = x
  BY <1>3, BitsAssumption, SMTT(60)
  DEF MaxBits, NbBits, canEncodeSymbol, TypeOf, NewDynamicBackrefType, newBackRefType,
      SymbolShort, SymbolDynamic
<1>5. b.bType.NbBitsBackRef <= x + 8 * (b.length - 1)
  <2>1. PICK m \in findBackRef(dd, at, NewDynamicBackrefType, 1) : TRUE
    BY FindDefined, Zenon
  <2>2. PICK y : y = backref(NewDynamicBackrefType, m)
    BY Zenon
  <2>3. m.length # -1
    BY <2>1, FindReserved, Zenon
  <2>4. RefersTo(dd, y, at) /\ y.bType = NewDynamicBackrefType
    <3>1. NewDynamicBackrefType \in BackrefTypes /\ 1 \in {-1, 1}
      BY Zenon DEF BackrefTypes
    <3>2. RefersTo(dd, backref(NewDynamicBackrefType, m), at)
      BY <2>1, <2>3, <3>1, FindSound, Zenon
    <3> QED
      BY <2>2, <3>2, Zenon DEF backref
  <2>5. y.length \in Nat \ {0} /\ y.bType \in BackrefTypes
    BY <2>4, TypeFacts, SMTT(60) DEF RefersTo
  <2>6. savings(y) = 8 * y.length - x
    BY <1>3, <2>4, <2>5, ReferenceBits, ZenonT(60)
  <2>7. b.bType = NewDynamicBackrefType \/ savings(b) > savings(y)
    BY <2>1, <2>2, SMTT(60) DEF BestAt, backref
  <2>8. CASE b.bType = NewDynamicBackrefType
    BY <1>1, <1>3, <2>8, SMTT(60)
  <2>9. CASE savings(b) > savings(y)
    <3>1. PICK z, l, o : z = b.bType.NbBitsBackRef /\ l = b.length /\ o = y.length
      BY Zenon
    <3>2. 8 * l - z > 8 * o - x /\ z \in Nat /\ l \in Nat /\ o \in Nat \ {0}
      BY <1>1, <1>2, <2>5, <2>6, <2>9, <3>1, ZenonT(60)
    <3>3. z <= x + 8 * (l - 1)
      BY <3>2
    <3> QED
      BY <3>1, <3>3, ZenonT(60)
  <2> QED
    BY <2>7, <2>8, <2>9, Zenon
<1> QED
  BY <1>1, <1>2, <1>4, <1>5, Zenon
-----------------------------------------------------------------------------
(* The steps of write. *)

\* Writing a long run keeps the bound.
LEMMA RunBounded ==
  ASSUME WriterInv(0), WriterInv(0)', Bounded(stream, d, i), NEW count \in 1..maxLength,
         WriteRunContinued(count) \/ WriteRun(count)
  PROVE  Bounded(stream', d', i')
<1>1. /\ Iteration /\ count \in Nat \ {0} /\ count - 1 \in Nat \ {0} /\ i \in Nat
      /\ count >= MinRepeatingBytes - 1 /\ count - 1 >= MinRepeatingBytes - 1
  <2>1. Iteration /\ count >= MinRepeatingBytes
    BY Zenon DEF WriteRunContinued, WriteRun, LongRun
  <2>2. count \in Nat /\ MinRepeatingBytes \in Nat /\ MinRepeatingBytes >= 2
    BY RunAssumption, TypeFacts, SMTT(60)
  <2> QED
    BY <2>1, <2>2, SMTT(60) DEF WriterInv
<1>2. CASE WriteRunContinued(count)
  <2>1. PICK p : p = writeTo(RunRef(i, count), i)
    BY Zenon
  <2>2. Emit(p, count)
    BY <1>2, <2>1, ZenonT(60) DEF WriteRunContinued
  <2>3. NbBits(p.symbol) <= 8 * count
    BY <1>1, <2>1, RunSaves, ZenonT(60)
  <2>4. NbBits(p.symbol) <= MaxBits(At(d, i)) + 8 * (count - 1)
    BY <1>1, <2>3, AtLeastAByte
  <2> QED
    BY <1>1, <2>2, <2>4, EmitBounded, ZenonT(60)
<1>3. CASE WriteRun(count)
  <2>1. PICK p \in FirstOfRun :
          EmitTwo(p, 1, writeTo(RunRef(i + 1, count - 1), i + 1), count - 1)
    BY <1>3, Zenon DEF WriteRun
  <2>2. PICK q : q = writeTo(RunRef(i + 1, count - 1), i + 1)
    BY Zenon
  <2>3. NbBits(p.symbol) = MaxBits(At(d, i))
    <3>1. CASE canEncodeSymbol(At(d, i))
      BY <2>1, <3>1 DEF FirstOfRun, Literal, NbBits, MaxBits
    <3>2. CASE ~ canEncodeSymbol(At(d, i))
      <4>1. PICK idx : p = writeTo(backref(NewDynamicBackrefType, [address |-> idx, length |-> 1]), i)
        BY <2>1, <3>2, ZenonT(60) DEF FirstOfRun
      <4>2. p.symbol = SymbolDynamic
        BY <4>1, Zenon DEF writeTo, backref, NewDynamicBackrefType, newBackRefType
      <4> QED
        BY <3>2, <4>2, ZenonT(60) DEF MaxBits
    <3> QED
      BY <3>1, <3>2, ZenonT(60)
  <2>4. NbBits(q.symbol) <= 8 * (count - 1)
    <3>1. i + 1 \in Nat
      BY <1>1, SMTT(60)
    <3> QED
      BY <1>1, <2>2, <3>1, RunSaves, ZenonT(60)
  <2>5. /\ NbBits(p.symbol) <= MaxBits(At(d, i)) + 8 * (1 - 1)
        /\ NbBits(q.symbol) <= MaxBits(At(d, i + 1)) + 8 * ((count - 1) - 1)
    BY <1>1, <2>3, <2>4, AtLeastAByte, SMTT(60)
  <2>6. EmitTwo(p, 1, q, count - 1) /\ 1 \in Nat \ {0}
    BY <2>1, <2>2
  <2> QED
    BY <1>1, <2>5, <2>6, EmitTwoBounded, ZenonT(60)
<1> QED
  BY <1>2, <1>3, Zenon

\* So does every iteration that searches for a reference.
LEMMA SearchBounded ==
  ASSUME WriterInv(0), WriterInv(0)', Bounded(stream, d, i),
         \/ WriteReserved \/ WriteLiteral \/ WriteLiteralBetterAt1
         \/ WriteLiteralsBetterAt2 \/ WriteBackref
  PROVE  Bounded(stream', d', i')
<1>1. Iteration
  BY ZenonT(60) DEF WriteReserved, WriteLiteral, WriteLiteralBetterAt1, WriteLiteralsBetterAt2,
         WriteBackref, NoLongRun
<1>2. /\ d \in Seq(Byte) /\ i \in 0..(Len(d)-1)
      /\ \A best \in bestBackref(cb, i) : best.ref \in BestAt(d, i)
  BY <1>1, SearchFacts, ZenonT(60)
<1>3. ASSUME NEW b \in Byte PROVE canEncodeSymbol(b) => NbBits(Literal(b).symbol) <= MaxBits(b) + 8 * (1 - 1)
  BY DEF Literal, NbBits, MaxBits
<1>4. CASE WriteReserved
  <2>1. PICK best \in bestBackref(cb, i) : Emit(writeTo(best.ref, i), best.ref.length)
    BY <1>4, Zenon DEF WriteReserved
  <2>2. ~ canEncodeSymbol(At(d, i))
    BY <1>4, Zenon DEF WriteReserved
  <2>3. PICK b \in BestAt(d, i) : Emit(writeTo(b, i), b.length)
    BY <1>2, <2>1, Zenon
  <2>4. /\ b.length \in Nat \ {0}
        /\ NbBits(writeTo(b, i).symbol) <= MaxBits(At(d, i)) + 8 * (b.length - 1)
    BY <1>2, <2>2, <2>3, ReservedBits, ZenonT(60)
  <2> QED
    BY <1>1, <2>3, <2>4, EmitBounded, ZenonT(60)
<1>5. CASE WriteLiteral \/ WriteLiteralBetterAt1
  <2>1. canEncodeSymbol(At(d, i)) /\ Emit(Literal(At(d, i)), 1)
    BY <1>5, ZenonT(60) DEF WriteLiteral, WriteLiteralBetterAt1
  <2>3. 1 \in Nat \ {0}
    OBVIOUS
  <2>2. At(d, i) \in Byte
    BY <1>2 DEF At
  <2> QED
    BY <1>1, <1>3, <2>1, <2>2, <2>3, EmitBounded, ZenonT(60)
<1>6. CASE WriteLiteralsBetterAt2
  <2>1. EmitTwo(Literal(At(d, i)), 1, Literal(At(d, i + 1)), 1) /\ 1 \in Nat \ {0}
    BY <1>6 DEF WriteLiteralsBetterAt2
  <2>2. i + 1 + 1 <= Len(d)
    BY <1>2, <1>6, LookedTwoAhead, LenNat, SMTT(60)
  <2>3. At(d, i) \in Byte /\ At(d, i + 1) \in Byte
    BY <1>2, <2>2, SMTT(60) DEF At
  <2>4. canEncodeSymbol(At(d, i)) /\ canEncodeSymbol(At(d, i + 1))
    BY <1>6, LookedTwoAhead, ZenonT(60) DEF WriteLiteralsBetterAt2
  <2> QED
    BY <1>1, <1>3, <2>1, <2>3, <2>4, EmitTwoBounded, ZenonT(60)
<1>7. CASE WriteBackref
  <2>1. PICK best \in bestBackref(cb, i) :
          savings(best.ref) >= 0 /\ Emit(writeTo(best.ref, i), best.ref.length)
    BY <1>7, Zenon DEF WriteBackref
  <2>2. PICK b \in BestAt(d, i) : savings(b) >= 0 /\ Emit(writeTo(b, i), b.length)
    BY <1>2, <2>1, SMTT(60)
  <2>3. b.length # -1
    BY <2>2, SMTT(60) DEF savings, MinInt
  <2>4. b.bType \in BackrefTypes /\ b.length \in Nat \ {0}
    <3>1. RefersTo(d, b, i)
      BY <1>2, <2>2, <2>3, BestSound, SMTT(60)
    <3> QED
      BY <3>1, TypeFacts, SMTT(60) DEF RefersTo
  <2>5. NbBits(writeTo(b, i).symbol) <= 8 * b.length
    BY <2>2, <2>4, ReferenceBits
  <2>6. NbBits(writeTo(b, i).symbol) <= MaxBits(At(d, i)) + 8 * (b.length - 1)
    <3>1. PICK z, l, x : z = NbBits(writeTo(b, i).symbol) /\ l = b.length /\ x = MaxBits(At(d, i))
      OBVIOUS
    <3>2. z \in Nat /\ l \in Nat /\ x \in Nat /\ x >= 8 /\ z <= 8 * l
      BY <2>4, <2>5, <3>1, AtLeastAByte, SMTT(60)
    <3>3. z <= x + 8 * (l - 1)
      BY <3>2
    <3> QED
      BY <3>1, <3>3, Zenon
  <2> QED
    BY <1>1, <2>2, <2>4, <2>6, EmitBounded, ZenonT(60)
<1> QED
  BY <1>4, <1>5, <1>6, <1>7, ZenonT(60)

\* The bits that the bytes before index n may take do not depend on those after.
LEMMA BytesKept ==
  ASSUME NEW data \in Seq(Byte), NEW chunk \in Seq(Byte), NEW n \in 0..Len(data)
  PROVE  ByteTotal(data \o chunk, n) = ByteTotal(data, n)
<1>1. PICK e : e = data \o chunk
  OBVIOUS
<1>2. \A k \in 1..n : k \in DOMAIN data /\ k \in DOMAIN e /\ e[k] = data[k]
  BY <1>1
<1>3. PICK f, g : /\ f = [k \in DOMAIN data |-> MaxBits(data[k])]
                  /\ g = [k \in DOMAIN e |-> MaxBits(e[k])]
  OBVIOUS
<1>4. \A k \in 1..n : f[k] \in Nat /\ g[k] = f[k]
  BY <1>2, <1>3, AtLeastAByte, Zenon
<1>5. n \in Nat
  OBVIOUS
<1>6. Total(f, n) = Total(g, n)
  BY <1>4, <1>5, TotalSame, SMTT(60)
<1> QED
  BY <1>1, <1>3, <1>6, Zenon DEF ByteTotal

\* Every step of the program keeps the bound.
LEMMA BoundedNext ==
  ASSUME IndInv, IndInv', ExpansionBounded, [Next]_vars
  PROVE  ExpansionBounded'
<1>1. WriterInv(0) /\ WriterInv(0)' /\ Bounded(stream, d, i)
  BY Zenon DEF IndInv, ExpansionBounded, Bounded, PhraseTotal, ByteTotal
<1>2. SUFFICES Bounded(stream', d', i')
  BY Zenon DEF ExpansionBounded, Bounded, PhraseTotal, ByteTotal
<1>3. CASE UNCHANGED <<stream, d, i>>
  BY <1>1, <1>3, Zenon
<1>4. CASE \E chunk \in Chunks : Write(chunk)
  <2>1. PICK chunk \in Chunks : Write(chunk)
    BY <1>4
  <2>2. chunk \in Seq(Byte) /\ d \in Seq(Byte) /\ i \in 0..Len(d)
    BY <1>1, ChunksAssumption DEF WriterInv
  <2>3. d' = d \o chunk /\ i' = i /\ stream' = stream
    BY <2>1 DEF IndInv, Write
  <2>4. ByteTotal(d', i) = ByteTotal(d, i)
    BY <2>2, <2>3, BytesKept
  <2> QED
    BY <1>1, <2>3, <2>4, Zenon DEF Bounded
<1>5. CASE WriteStep
  <2>1. CASE \E count \in 1..maxLength : WriteRunContinued(count) \/ WriteRun(count)
    BY <1>1, <2>1, RunBounded, Zenon
  <2>2. CASE WriteReserved \/ WriteLiteral \/ WriteLiteralBetterAt1
             \/ WriteLiteralsBetterAt2 \/ WriteBackref
    BY <1>1, <2>2, SearchBounded, Zenon
  <2>3. CASE WriteReturns
    BY <1>3, <2>3 DEF WriteReturns, writeVars
  <2> QED
    BY <1>5, <2>1, <2>2, <2>3, Zenon DEF WriteStep
<1>6. CASE UNCHANGED writeVars /\ (Decompress \/ ReadStep)
  <2>1. UNCHANGED stream
    BY <1>6 DEF Decompress, ReadStep, ReadLiteral, ReadShort, ReadDynamicInOutput,
                ReadDynamicInDict, StartCopy, CopyByte, DecompressReturns
  <2> QED
    BY <1>3, <1>6, <2>1 DEF writeVars
<1>7. CASE UNCHANGED vars
  BY <1>3, <1>7 DEF vars, writeVars
<1> QED
  BY <1>4, <1>5, <1>6, <1>7 DEF Next

\* For every dictionary, every sequence of writes and every width of the fields for
\* which a long run is longer than a reference: compression costs nothing but for
\* reserved symbols (compress.go:176-257).
THEOREM ExpansionIsBounded == Spec => []ExpansionBounded
<1>1. Init => ExpansionBounded
  <2> SUFFICES ASSUME Init PROVE ExpansionBounded
    OBVIOUS
  <2>1. Len(stream) = 0 /\ i = 0
    BY DEF Init, WriteInit
  <2>2. \A f : Total(f, 0) = 0
    <3> TAKE f
    <3>1. 0 \in Nat /\ \A k \in 1..0 : f[k] \in Nat
      OBVIOUS
    <3>2. PICK t \in [0..0 -> Nat] : t[0] = 0 /\ Total(f, 0) = t[0]
      BY <3>1, TotalRec
    <3> QED
      BY <3>2
  <2>3. \A f : Total(f, Len(stream)) = 0 /\ Total(f, i) = 0
    BY <2>1, <2>2, Zenon
  <2> QED
    BY <2>3 DEF ExpansionBounded
<1>2. IndInv /\ IndInv' /\ ExpansionBounded /\ [Next]_vars => ExpansionBounded'
  BY BoundedNext
<1> QED
  BY <1>1, <1>2, Invariance, PTL DEF Spec
=============================================================================
