----------------------------- MODULE Compressor -----------------------------
(***************************************************************************)
(* A Compressor as its client sees it: Write, Revert, Reset,               *)
(* ConsiderBypassing and Compress, with the bytes of the output buffer,    *)
(* the cache of the bit writer and the record of the state before the last *)
(* Write.  The loop of write is that of WriteLoop, step by step.           *)
(***************************************************************************)
EXTENDS WriteLoop, Bits

CONSTANT Calls        \* the calls the client makes
ASSUME CallsAssumption ==
  Calls \subseteq {"Revert", "RevertAgain", "Reset", "ConsiderBypassing", "Compress"}

VARIABLES
  outBuf,             \* the bits of outBuf, a multiple of 8
  cache,              \* the bits in the cache of bw
  nbSkippedBits,
  lastOutLen,         \* in bytes
  lastNbSkippedBits,
  lastInLen,          \* or -1 after a Revert
  noCompression,
  reverting,          \* the Write in progress is the one that Revert makes
  failed,             \* history: the last Write returned an error
  tainted,            \* history: the bit writer held bits at the last Reset
  reverted,           \* history: no Write or Reset since the last Revert
  lastBytes,          \* history: outBuf before the last Write
  considered          \* history: ConsiderBypassing was called since the output last changed

outVars == <<outBuf, cache, nbSkippedBits>>
lastVars == <<lastOutLen, lastNbSkippedBits, lastInLen>>
modeVars == <<noCompression, reverting>>
historyVars == <<failed, tainted, reverted, lastBytes, considered>>
vars == <<stream, pc, writeVars, outVars, lastVars, modeVars, historyVars>>

\* NewCompressor
Init ==
  /\ pc = "idle" /\ WriteInit
  /\ outBuf = HeaderBits(FALSE) /\ cache = <<>> /\ nbSkippedBits = 0
  /\ lastOutLen = HeaderSize /\ lastNbSkippedBits = 0 /\ lastInLen = 0
  /\ noCompression = FALSE /\ reverting = FALSE
  /\ failed = FALSE /\ tainted = FALSE /\ reverted = FALSE
  /\ lastBytes = HeaderBits(FALSE) /\ considered = FALSE

\* Mutant: the length is taken when the last byte has been cut off.
outLenCut(file) == (Len(file) \div 8) - 1

outLen(file) == Len(file) \div 8

\* Write(chunk) on a compressor with output file, the last skip bits of which are
\* padding, and input data.  The bits of the last byte go back through the cache
\* before the size of the input is looked at.
StartWrite(file, skip, data, bypass, chunk) ==
  LET bits == cache \o SubSeq(file, Len(file) - 7, Len(file) - skip)
      file1 == SubSeq(file, 1, Len(file) - 8) \o WholeBytes(bits)
  IN  /\ lastOutLen' = outLen(file) /\ lastBytes' = file
      /\ lastNbSkippedBits' = skip
      /\ nbSkippedBits' = skip
      /\ cache' = Rest(bits)
      /\ noCompression' = bypass /\ considered' = FALSE
      /\ i' = Len(data) /\ cb' = newCircularBuffer /\ stream' = <<>> /\ starts' = <<Len(data)>>
      /\ IF Len(data) + Len(chunk) > MaxInputSize
         THEN /\ failed' = TRUE
              /\ d' = data /\ outBuf' = file1
              /\ UNCHANGED pc
         ELSE /\ failed' = FALSE
              /\ d' = data \o chunk
              /\ IF bypass THEN outBuf' = file1 \o BytesBits(chunk) /\ UNCHANGED pc
                           ELSE outBuf' = file1 /\ pc' = "write"

Idle == pc = "idle" /\ ~ failed

CallWrite(chunk) ==
  /\ Idle
  /\ StartWrite(outBuf, nbSkippedBits, d, noCompression, chunk)
  /\ lastInLen' = IF failed' THEN lastInLen ELSE Len(d)
  /\ reverting' = FALSE /\ reverted' = (reverted /\ failed')
  /\ UNCHANGED tainted

\* Mutant: the header is counted on the wrong side as well.
ExpandsMore(file, data) == Len(file) - 8 * HeaderSize > 8 * (Len(data) + HeaderSize)

\* compressor.outBuf.Len() > compressor.inBuf.Len()+HeaderSize
Expands(file, data) == Len(file) > 8 * (Len(data) + HeaderSize)

Bypassed(data) == HeaderBits(TRUE) \o BytesBits(data)

\* ConsiderBypassing, when the output is file and the input was data[0:last) before
\* the last Write; skip and lastOut are what it leaves when it does nothing.
Consider(file, skip, last, lastOut, lastSkip) ==
  IF Expands(file, d)
  THEN /\ noCompression' = TRUE
       /\ outBuf' = Bypassed(d) /\ nbSkippedBits' = 0
       /\ lastOutLen' = last + HeaderSize /\ lastNbSkippedBits' = 0
  ELSE /\ UNCHANGED noCompression
       /\ outBuf' = file /\ nbSkippedBits' = skip
       /\ lastOutLen' = lastOut /\ lastNbSkippedBits' = lastSkip

\* The loop of write is over: Align, and the rest of Revert if that is the caller.
FinishWrite ==
  LET bits == cache \o StreamBits(stream)
      file == outBuf \o Aligned(bits)
  IN  /\ pc = "write" /\ i = Len(d)
      /\ pc' = "idle" /\ reverting' = FALSE
      /\ cache' = <<>>
      /\ IF reverting
         THEN Consider(file, AlignSkips(bits), lastInLen, lastOutLen, lastNbSkippedBits)
         ELSE /\ outBuf' = file /\ nbSkippedBits' = AlignSkips(bits)
              /\ UNCHANGED <<lastOutLen, lastNbSkippedBits, noCompression>>
      /\ considered' = reverting
      /\ UNCHANGED <<stream, writeVars, lastInLen, failed, tainted, reverted, lastBytes>>

LoopStep ==
  /\ \/ \E count \in 1..maxLength : WriteRunContinued(count) \/ WriteRun(count)
     \/ WriteReserved \/ WriteLiteral \/ WriteLiteralBetterAt1
     \/ WriteLiteralsBetterAt2 \/ WriteBackref
  /\ UNCHANGED <<outVars, lastVars, modeVars, historyVars>>

-----------------------------------------------------------------------------
\* The client keeps to "between any two calls to Revert, a call to Reset or Write
\* should be made" unless it makes the call RevertAgain.
MayRevert == Idle /\ (IF reverted THEN "RevertAgain" ELSE "Revert") \in Calls

RevertRefused == MayRevert /\ lastInLen = -1 /\ UNCHANGED vars

\* Mutant: nbSkippedBits is not restored.
RevertKeepsPadding ==
  /\ MayRevert /\ lastInLen # -1 /\ ~ noCompression
  /\ d' = SubSeq(d, 1, lastInLen) /\ i' = lastInLen
  /\ lastInLen' = -1
  /\ outBuf' = SubSeq(outBuf, 1, 8 * lastOutLen)
  /\ reverted' = TRUE /\ considered' = FALSE
  /\ stream' = <<>> /\ starts' = <<lastInLen>> /\ cb' = newCircularBuffer
  /\ UNCHANGED <<pc, cache, nbSkippedBits, lastOutLen, lastNbSkippedBits, modeVars, failed,
                 tainted, lastBytes>>

RevertCompressed ==
  /\ MayRevert /\ lastInLen # -1 /\ ~ noCompression
  /\ d' = SubSeq(d, 1, lastInLen) /\ i' = lastInLen
  /\ lastInLen' = -1
  /\ outBuf' = SubSeq(outBuf, 1, 8 * lastOutLen)
  /\ nbSkippedBits' = lastNbSkippedBits
  /\ reverted' = TRUE /\ considered' = FALSE
  /\ stream' = <<>> /\ starts' = <<lastInLen>> /\ cb' = newCircularBuffer
  /\ UNCHANGED <<pc, cache, lastOutLen, lastNbSkippedBits, modeVars, failed, tainted, lastBytes>>

\* Mutant: all of the input is compressed anew.
RevertKeepsInput ==
  /\ MayRevert /\ lastInLen # -1 /\ noCompression
  /\ StartWrite(HeaderBits(FALSE), 0, <<>>, FALSE, d)
  /\ lastInLen' = 0
  /\ reverting' = TRUE /\ reverted' = TRUE /\ tainted' = (cache # <<>>)

\* What was bypassed is compressed anew, and bypassed again if it expands.
RevertBypassed ==
  /\ MayRevert /\ lastInLen # -1 /\ noCompression
  /\ StartWrite(HeaderBits(FALSE), 0, <<>>, FALSE, SubSeq(d, 1, lastInLen))
  /\ lastInLen' = 0
  /\ reverting' = TRUE /\ reverted' = TRUE /\ tainted' = (cache # <<>>)

\* bw is not reset.
Reset ==
  /\ pc = "idle" /\ "Reset" \in Calls
  /\ d' = <<>> /\ i' = 0
  /\ noCompression' = FALSE
  /\ outBuf' = HeaderBits(FALSE) /\ nbSkippedBits' = 0
  /\ lastOutLen' = HeaderSize /\ lastNbSkippedBits' = 0 /\ lastInLen' = 0
  /\ failed' = FALSE /\ reverted' = FALSE /\ considered' = FALSE
  /\ lastBytes' = outBuf' /\ tainted' = (cache # <<>>)
  /\ stream' = <<>> /\ starts' = <<0>> /\ cb' = newCircularBuffer
  /\ UNCHANGED <<pc, cache, reverting>>

ConsiderBypassing ==
  /\ Idle /\ "ConsiderBypassing" \in Calls
  /\ Consider(outBuf, nbSkippedBits, lastInLen, lastOutLen, lastNbSkippedBits)
  /\ considered' = TRUE
  /\ UNCHANGED <<pc, stream, writeVars, cache, lastInLen, reverting, failed, tainted, reverted,
                 lastBytes>>

\* Reset, and Write.
Compress(chunk) ==
  /\ pc = "idle" /\ "Compress" \in Calls
  /\ StartWrite(HeaderBits(FALSE), 0, <<>>, FALSE, chunk)
  /\ lastInLen' = 0
  /\ reverting' = FALSE /\ reverted' = FALSE /\ tainted' = (cache # <<>>)

Next ==
  \/ \E chunk \in Chunks : CallWrite(chunk) \/ Compress(chunk)
  \/ LoopStep \/ FinishWrite
  \/ RevertRefused \/ RevertCompressed \/ RevertBypassed
  \/ Reset \/ ConsiderBypassing

\* A call that was made runs until it returns.
Spec == Init /\ [][Next]_vars /\ WF_vars(LoopStep \/ FinishWrite)
=============================================================================
