----------------------------- MODULE MCAnyStream -----------------------------
(* Instances of AnyStream for TLC. *)
EXTENDS AnyStream

CONSTANTS Literals, MaxPhrases

DictText == <<97, 98>>

\* Every phrase that the fields of a reference can hold.
AllPhrases ==
  {Literal(b) : b \in Literals}
    \cup [symbol : {SymbolShort}, length : 0..(2^LengthBits-1), address : 0..(2^ShortAddrBits-1)]
    \cup [symbol : {SymbolDynamic}, length : 0..(2^LengthBits-1), address : 0..(2^DynAddrBits-1)]

AllStreams == UNION {[1..n -> AllPhrases] : n \in 0..MaxPhrases}
=============================================================================
