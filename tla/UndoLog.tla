------------------------------ MODULE UndoLog ------------------------------
(***************************************************************************)
(* What a Compressor promises its client about the input it holds: a text  *)
(* that can be added to and cleared, and of which the last addition can be *)
(* undone once.                                                            *)
(***************************************************************************)
EXTENDS Sequences

CONSTANT Additions

VARIABLES
  content,   \* what was written
  before     \* what it was before the last addition: one text, or none

Init == content = <<>> /\ before = {<<>>}

Append1(text) == content' = content \o text /\ before' = {content}

Undo == content' \in before /\ before' = {}

Clear == content' = <<>> /\ before' = {<<>>}

\* Clear and Append1 in one call.
Replace(text) == content' = text /\ before' = {<<>>}

Next == Undo \/ Clear \/ \E text \in Additions : Append1(text) \/ Replace(text)

Spec == Init /\ [][Next]_<<content, before>>
=============================================================================
