---------------------------- MODULE MCSuffixIndex ----------------------------
(* Instances of SuffixIndex for TLC. *)
EXTENDS SuffixIndex

CONSTANTS Alphabet, MaxText, PatternLength

AllTexts == UNION {[1..n -> Alphabet] : n \in 1..MaxText}
AllPatterns == [1..PatternLength -> Alphabet]
NoDict == <<>>
=============================================================================
