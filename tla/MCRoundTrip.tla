---------------------------- MODULE MCRoundTrip ----------------------------
(* Instances of RoundTrip for TLC. *)
EXTENDS Expansion

CONSTANTS Alphabet, ChunkLengths

\* "aaab" and no reserved symbol, so both are appended.
DictText == <<97, 97, 97, 98>>

AllChunks == UNION {[1..n -> Alphabet] : n \in ChunkLengths}
=============================================================================
