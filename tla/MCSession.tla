------------------------------ MODULE MCSession ------------------------------
(* Instances of Session and Inspection for TLC. *)
EXTENDS Inspection

CONSTANTS Alphabet, ChunkLengths

\* The reserved symbols are not in it, so both are appended.
DictText == <<97, 97, 97>>

AllChunks == UNION {[1..n -> Alphabet] : n \in ChunkLengths}
=============================================================================
