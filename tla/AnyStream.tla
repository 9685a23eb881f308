------------------------------ MODULE AnyStream ------------------------------
(***************************************************************************)
(* The two decoders on streams of phrases that no compressor need have     *)
(* written, against the meaning the README gives to a stream.              *)
(***************************************************************************)
EXTENDS Decompressor, StreamInfo

CONSTANT Streams
ASSUME StreamsAssumption == Streams \subseteq Seq(Phrase)

vars == <<stream, pc, readVars, infoVars>>

Init == pc = "idle" /\ stream \in Streams /\ ReadInit /\ InfoInit

Next ==
  \/ (Decompress \/ ReadStep) /\ UNCHANGED infoVars
  \/ (CompressedStreamInfo \/ InfoStep) /\ UNCHANGED readVars

Fairness == WF_vars(ReadStep /\ UNCHANGED infoVars) /\ WF_vars(InfoStep /\ UNCHANGED readVars)

Spec == Init /\ [][Next]_vars /\ Fairness

-----------------------------------------------------------------------------
AnyTypeOK ==
  /\ pc \in {"idle", "decompress", "info", "panic"}
  /\ stream \in Seq(Phrase)
  /\ nRead \in 0..Len(stream) /\ infoRead \in 0..Len(stream)
  /\ out \in Seq(Byte) /\ infoOut \in Seq(Byte)
  /\ copy \in [symbol : Byte, address : Nat \ {0}, left : Nat]
  /\ err \in BOOLEAN
  /\ literalCopyStart \in {-1} \cup (dictLen..Len(infoOut)) /\ inI \in Nat

\* Whatever the stream, what Decompress returns without an error is what the
\* README says the stream means (decompress.go:44-83).
DecodesMeaning ==
  pc = "decompress" /\ Finished /\ ~ err => HasMeaning(stream) /\ out = Output(Meaning(stream))

\* Decompress returns an error for exactly the streams that hold a short reference to
\* before the output, or a dynamic one that does not stay inside the dictionary,
\* counted from the output before it (decompress.go:43-84).
RefusesExactly == pc = "decompress" /\ Finished => (err <=> ~ Accepted(stream))

\* README.md:60: "Whenever the computed index `i` of a byte to copy turns out
\* negative, it is interpreted as the byte at index `DICT_SIZE + i` in the
\* dictionary", so a stream none of whose references goes further is accepted.
AcceptsMeaning == pc = "decompress" /\ err => ~ HasMeaning(stream)

InfoDone == pc = "idle" /\ infoRead = Len(stream)

\* The two decoders agree: what CompressedStreamInfo reports piece by piece is
\* what Decompress returns, if that accepts the stream (decompress.go:97-206).
InfoAgrees ==
  InfoDone /\ nRead = Len(stream) /\ copy.left = 0 /\ ~ err /\ Len(stream) > 0
    => Contents(res) = out

\* Each reported piece starts where the one before it ends, in the output and in
\* the compressed stream, and the last ends where the streams end.
InfoContiguous ==
  LET bits(ph) == IF ph.Type = 0 THEN 8 * ph.Length ELSE TypeOf(ph.Type).NbBitsBackRef
      ends == Append(res, [StartDecompressed |-> Len(infoOut), StartCompressed |-> inI])
  IN  InfoDone /\ res # <<>> =>
        /\ res[1].StartCompressed = 0 /\ res[1].StartDecompressed = dictLen
        /\ \A n \in DOMAIN res :
             /\ ends[n+1].StartDecompressed = res[n].StartDecompressed + res[n].Length
             /\ ends[n+1].StartCompressed = res[n].StartCompressed + bits(res[n])

\* Both decoders return, or stop at an index out of range, on every stream.
DecodersReturn == [](pc # "idle" => <>(pc \in {"idle", "panic"}))
=============================================================================
