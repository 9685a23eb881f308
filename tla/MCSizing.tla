------------------------------ MODULE MCSizing ------------------------------
(* Instances of Sizing for TLC. *)
EXTENDS Sizing

\* A phrase that occurs twice, at either of which a reference may lead.
DictText == <<97, 98, 97, 98>>
\* Reserved symbols: the session expands, and is bypassed.
ExpandingChunks == {<<255>>, <<255, 255>>}
\* A literal, a run, a reference to the dictionary, a reserved symbol.
MixedChunks == {<<97>>, <<97, 97, 97>>, <<97, 98, 97>>, <<255, 97, 98>>}
\* Nothing, and more than the limit.
MixedInputs == MixedChunks \cup {<<>>, <<97, 98, 97, 98>>}
=============================================================================
