----------------------------- MODULE Inspection -----------------------------
(***************************************************************************)
(* A client that calls CompressedStreamInfo on the Bytes() of its          *)
(* compressor between two calls, at any point of a session: the header,    *)
(* the branch for a file that is not compressed, and the loop of           *)
(* StreamInfo on the phrases that the bits hold.                           *)
(***************************************************************************)
EXTENDS Session

VARIABLES
  ipc,         \* "idle", "info" in the loop, "panic"
  fileStream,  \* the phrases that are read
  infoRead, infoOut, literalCopyStart, inI, res,   \* those of StreamInfo
  inspected    \* res is what CompressedStreamInfo returned for outBuf

infoVars == <<infoRead, infoOut, literalCopyStart, inI, res>>
allVars == <<vars, ipc, fileStream, infoVars, inspected>>

Info == INSTANCE StreamInfo WITH pc <- ipc, stream <- fileStream

InspectionInit ==
  Init /\ ipc = "idle" /\ fileStream = <<>> /\ Info!InfoInit /\ inspected = FALSE

Body == SubSeq(outBuf, 8 * HeaderSize + 1, Len(outBuf))

HeaderAccepted == HeaderIsRead(outBuf) /\ Field(outBuf, 0, 16) = Version

MayInspect == pc = "idle" /\ ipc = "idle" /\ ~ inspected

\* The header is refused: ReadFrom returns an error, or the version is another, for
\* which CompressedStreamInfo panics.
InspectRefused ==
  /\ MayInspect /\ ~ HeaderAccepted
  /\ ipc' = IF HeaderIsRead(outBuf) THEN "panic" ELSE ipc
  /\ UNCHANGED <<vars, fileStream, infoVars, inspected>>

\* Mutant: the content is taken from the start of the file.
InspectNotCompressedWhole ==
  /\ MayInspect /\ HeaderAccepted /\ HeaderFlag(outBuf) = 1
  /\ res' = <<CompressionPhrase(0, 0, outLen(outBuf) - HeaderSize, 0, 0, BytesOf(outBuf))>>
  /\ inspected' = TRUE
  /\ UNCHANGED <<vars, ipc, fileStream, infoRead, infoOut, literalCopyStart, inI>>

InspectNotCompressed ==
  /\ MayInspect /\ HeaderAccepted /\ HeaderFlag(outBuf) = 1
  /\ res' = <<CompressionPhrase(0, 0, outLen(outBuf) - HeaderSize, 0, 0, BytesOf(Body))>>
  /\ inspected' = TRUE
  /\ UNCHANGED <<vars, ipc, fileStream, infoRead, infoOut, literalCopyStart, inI>>

InspectCompressed ==
  /\ MayInspect /\ HeaderAccepted /\ HeaderFlag(outBuf) = 0
  /\ ipc' = "info" /\ fileStream' = ReadPhrases(Body)
  /\ UNCHANGED <<vars, infoVars, inspected>>

NothingReturned ==
  /\ ipc' = "idle" /\ fileStream' = <<>> /\ inspected' = FALSE
  /\ infoRead' = 0 /\ infoOut' = dictData /\ literalCopyStart' = -1 /\ inI' = 0 /\ res' = <<>>

Torn == infoRead < Len(fileStream) /\ fileStream[infoRead + 1] = EndsInRef

\* readFrom returns an error inside a reference, and no phrases are returned.
InspectTorn ==
  /\ ipc = "info" /\ Torn
  /\ NothingReturned /\ UNCHANGED vars

InspectStep ==
  /\ ipc = "info" /\ ~ Torn
  /\ Info!InfoStep
  /\ inspected' = (ipc' = "idle")
  /\ UNCHANGED vars

\* The next call to the compressor; what was returned is forgotten.
SessionStep ==
  /\ ipc # "info" /\ Next
  /\ NothingReturned

InspectionNext ==
  \/ SessionStep
  \/ InspectRefused \/ InspectNotCompressed \/ InspectCompressed
  \/ InspectTorn \/ InspectStep

\* A call that was made to the compressor runs until it returns.
InspectionSpec ==
  InspectionInit /\ [][InspectionNext]_allVars /\ WF_vars(LoopStep \/ FinishWrite)

-----------------------------------------------------------------------------
\* At any point of a session, in either mode, CompressedStreamInfo takes Bytes()
\* apart into pieces that make up WrittenBytes(), and no reference leads it out of
\* range: the bits that a Revert leaves in the padding are not taken for a phrase
\* (decompress.go:97-206).
InfoOfSession ==
  Idle /\ ~ tainted =>
    /\ ipc # "panic"
    /\ inspected => Contents(res) = d

\* Reader and writer agree on where the phrases end: the bits that
\* CompressedStreamInfo has counted are all but the padding that the compressor has
\* counted in nbSkippedBits, where the next Write goes on (decompress.go:138-173,
\* compress.go:93-101).
InfoEndsAtPadding ==
  inspected /\ Idle /\ ~ tainted /\ ~ noCompression => inI + nbSkippedBits = Len(Body)
=============================================================================
