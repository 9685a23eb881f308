------------------------------- MODULE Session -------------------------------
(* The properties of a Compressor in the hands of a client. *)
EXTENDS Compressor

SessionTypes ==
  /\ pc \in {"idle", "write"}
  /\ d \in Seq(Byte) /\ Len(d) <= MaxInputSize /\ i \in 0..Len(d)
  /\ outBuf \in Seq({0, 1}) /\ Len(outBuf) % 8 = 0
  /\ cache \in Seq({0, 1}) /\ Len(cache) < 8
  /\ nbSkippedBits \in 0..7 /\ lastNbSkippedBits \in 0..7
  /\ lastOutLen \in Nat /\ lastInLen \in -1..Len(d)
  /\ {noCompression, reverting, failed, tainted, reverted, considered} \subseteq BOOLEAN

\* The place to revert to is inside the output, unless a Write has failed, which may
\* have taken a byte off.
SessionTypeOK == SessionTypes /\ (Idle => 8 * lastOutLen <= Len(outBuf))

\* Between calls, Bytes() decompresses to WrittenBytes(), after any sequence of
\* calls (compress.go:91-129, 289-367), unless a Write that failed has left bits
\* in the cache of the bit writer.
BytesDecompress == Idle /\ ~ tainted => DecompressesTo(outBuf, d)

\* compress.go:90: "The compressor cannot recover from a Write error. It must be
\* Reset before writing again": after a Reset it is as good as new.
ResetRecovers == Idle => DecompressesTo(outBuf, d)

\* Revert can cut the output down to its state before the last Write: the bytes up
\* to lastOutLen are there and decompress to the input up to lastInLen, whatever
\* the last Write has put in the padding of the last of them (compress.go:341-343).
RevertPoint ==
  Idle /\ ~ tainted /\ ~ noCompression /\ lastInLen # -1 =>
    /\ 8 * lastOutLen <= Len(outBuf)
    /\ DecompressesTo(SubSeq(outBuf, 1, 8 * lastOutLen), SubSeq(d, 1, lastInLen))

\* nbSkippedBits counts exactly the padding: what stands before it are the phrases,
\* complete, and more can be written from there on (compress.go:93-101).
PaddingCounted ==
  Idle /\ ~ tainted =>
    LET bits == SubSeq(outBuf, 8 * HeaderSize + 1, Len(outBuf) - nbSkippedBits)
    IN  IF noCompression THEN nbSkippedBits = 0
        ELSE StreamBits(ReadPhrases(bits)) = bits

\* ConsiderBypassing leaves at most the input and a header in Bytes(), also at the
\* end of a Revert, and what is written to a bypassed compressor adds no more than
\* itself (compress.go:331-339, 348-367).
BypassBounds ==
  Idle /\ ~ tainted /\ (considered \/ noCompression) => Len(outBuf) <= 8 * (Len(d) + HeaderSize)

Undo == INSTANCE UndoLog WITH
  content <- d,
  before <- IF reverted THEN {} ELSE {SubSeq(d, 1, lastInLen)},
  Additions <- Chunks

\* A Compressor is a text with one undo, for a client that does not revert twice
\* in a row: a Write that fails changes nothing, and a Revert restores the input
\* before the last Write, in either mode (compress.go:322-345).
UndoSpec == Undo!Spec

\* compress.go:326: a second Revert in a row is refused, "cannot revert twice in
\* a row": it leaves the input alone.
SecondRevertRefused == [][(RevertCompressed \/ RevertBypassed) /\ reverted => d' = d]_vars

\* compress.go:322: "Revert undoes the last call to Write": the output is again
\* what it was before that call.
RevertRestoresBytes == Idle /\ reverted /\ lastInLen = -1 /\ ~ noCompression => outBuf = lastBytes

\* Every call returns.
CallReturns == [](pc = "write" => <>(pc = "idle"))
=============================================================================
