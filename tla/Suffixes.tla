------------------------------ MODULE Suffixes ------------------------------
(***************************************************************************)
(* The suffixes of a text and their order: what an array must hold to be   *)
(* the suffix array of a text.  Sais is checked against it, SuffixIndex    *)
(* searches an array that satisfies it.  Suffixes are counted from 0, as   *)
(* in the code.                                                            *)
(***************************************************************************)
EXTENDS Integers, Sequences, FiniteSets

Suffix(text, k) == SubSeq(text, k + 1, Len(text))

\* bytes.Compare(u, v) < 0
Less(u, v) ==
  \E k \in 0..Len(u) :
    /\ k < Len(v) /\ SubSeq(u, 1, k) = SubSeq(v, 1, k)
    /\ k < Len(u) => u[k + 1] < v[k + 1]

\* bytes.HasPrefix(u, s)
HasPrefix(u, s) == Len(s) <= Len(u) /\ SubSeq(u, 1, Len(s)) = s

\* s lists the suffixes of text, each once, in increasing order.
IsSuffixArray(text, s) ==
  /\ Len(s) = Len(text)
  /\ {s[r] : r \in 1..Len(s)} = 0..(Len(text)-1)
  /\ \A r \in 1..(Len(s)-1) : Less(Suffix(text, s[r]), Suffix(text, s[r + 1]))

\* Mutant: the suffixes are counted from one.
SuffixArraysFromOne(text) ==
  {s \in [1..Len(text) -> 1..Len(text)] : IsSuffixArray(text, [r \in 1..Len(text) |-> s[r] - 1])}

\* What text_32 may leave in sa.
SuffixArrays(text) ==
  {s \in [1..Len(text) -> 0..(Len(text)-1)] : IsSuffixArray(text, s)}
=============================================================================
