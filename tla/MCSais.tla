------------------------------- MODULE MCSais -------------------------------
(* Instances of Sais for TLC. *)
EXTENDS Sais

CONSTANTS Letters, MaxText

\* Every text up to a length.
AllTexts == UNION {[1..len -> Letters] : len \in 0..MaxText}

Words(blocks, counts) == {FlattenSeq(w) : w \in UNION {[1..c -> blocks] : c \in counts}}

\* The subproblems are as long as they can be, and have subproblems of their own:
\* a work space is made, for all levels.
AllocatingTexts == {<<3>> \o w : w \in Words({<<0,1,0,3>>, <<0,1,0,1,0,3>>}, {4, 5})}

\* There is room in the middle of sa, for the subproblems of subproblems too.
RoomyTexts == {<<3>> \o w : w \in Words({<<0,0,1,0,0,0,1>>, <<0,0,1,0,0,1,0,0,0,1>>}, {2, 3, 4})}

\* Most LMS-substrings are different, and there is no room for frequencies.
DiverseTexts == {<<3,0,1,0,0,1,0,3,0,3,1,3>> \o w : w \in Words({<<0,1>>, <<0,3>>}, {4})}

\* LMS-substrings of one length, too long to be packed.
SimilarTexts == {<<3>> \o w : w \in Words({<<0,0,1,1>>, <<0,0,1,3>>, <<0,1,1,3>>}, {3})}

ShortAndDeepTexts ==
  AllTexts \cup AllocatingTexts \cup RoomyTexts \cup DiverseTexts \cup SimilarTexts
=============================================================================
