------------------------------ MODULE RoundTrip ------------------------------
(***************************************************************************)
(* A client that writes to a compressor and decompresses what it has       *)
(* written so far: the write loop and the decompressor joined by the       *)
(* stream of phrases.  Calls are sequential, as the package requires.      *)
(***************************************************************************)
EXTENDS WriteLoop, Decompressor

vars == <<stream, pc, writeVars, readVars>>

Init == pc = "idle" /\ WriteInit /\ ReadInit

Next ==
  \/ (\E chunk \in Chunks : Write(chunk)) /\ UNCHANGED readVars
  \/ WriteStep /\ UNCHANGED readVars
  \/ Decompress /\ UNCHANGED writeVars
  \/ ReadStep /\ UNCHANGED writeVars

\* A call that was made runs until it returns; the client need not make one.
Fairness == WF_vars(WriteStep /\ UNCHANGED readVars) /\ WF_vars(ReadStep /\ UNCHANGED writeVars)

Spec == Init /\ [][Next]_vars /\ Fairness

-----------------------------------------------------------------------------
TypeOK ==
  /\ pc \in {"idle", "write", "decompress"}
  /\ d \in Seq(Byte) /\ Len(d) <= MaxInputSize
  /\ stream \in Seq(Phrase)
  /\ starts \in Seq(Nat)
  /\ i \in 0..Len(d)
  /\ cb \in [k : Slots, keys : [Slots -> Int], bestBackref : [Slots -> Backref]]
  /\ nRead \in 0..Len(stream)
  /\ out \in Seq(Byte)
  /\ copy \in [symbol : Byte, address : Nat \ {0}, left : Nat]
  /\ err \in BOOLEAN

\* The phrases written so far stand for consecutive pieces of d[0:i): none is
\* lost, cut by the width of a field or out of the reach of its type
\* (backref.go:63-68, compress.go:432-470).
PhrasesSound ==
  /\ Len(starts) = Len(stream) + 1
  /\ starts[1] = 0 /\ starts[Len(starts)] = i
  /\ \A n \in DOMAIN stream : StandsFor(d, stream[n], starts[n], starts[n+1])

\* What Decompress has put out is at all times a prefix of what was written, and
\* it meets no invalid reference (decompress.go:53,67): every phrase write emits
\* means the same to its reader as it did to its writer.
DecodesPrefix ==
  pc = "decompress" => ~ err /\ Len(out) <= Len(d) /\ out = SubSeq(d, 1, Len(out))

\* When Decompress comes to the end of the stream, it has put out all that was
\* written: the round trip of FuzzCompress (compress_test.go:71).
DecodesAll == pc = "decompress" /\ Finished => out = d

\* Whatever the circular buffer holds for an index ahead is what a new search
\* there would find (compress.go:146-173): a hit never differs from a miss.
CacheCoherent ==
  \A j \in Slots : cb.keys[j] # -1 =>
    /\ cb.keys[j] \in 0..(Len(d)-1)
    /\ cb.bestBackref[j] \in BestAt(d, cb.keys[j])

\* Every call returns: the loop of write moves on in every iteration, also at a
\* reserved symbol, for which some reference must exist (compress.go:221-225).
CallsReturn == [](pc # "idle" => <>(pc = "idle"))
=============================================================================
