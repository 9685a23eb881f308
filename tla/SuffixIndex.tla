---------------------------- MODULE SuffixIndex ----------------------------
(***************************************************************************)
(* The suffix array index of package suffixarray: New builds the index of  *)
(* a text, and LookupLongest finds a longest match in a range of it, by a  *)
(* binary search on the length of the match.  One probe of that search is  *)
(* one step.  Lzss uses what LookupLongest returns by its contract; here   *)
(* the code is shown to keep it.                                           *)
(***************************************************************************)
EXTENDS Lzss, Suffixes

CONSTANTS Texts, Patterns, MaxEnd
ASSUME TextsAssumption == Texts \cup Patterns \subseteq Seq(Byte) /\ MaxEnd \in Nat

VARIABLES
  data,        \* the indexed text
  sa,          \* its suffix array
  query,       \* the arguments of LookupLongest
  at,          \* "new", then where LookupLongest is: "initial", "search", "returned"
  sStart, sEnd, low, high,
  index, length

searchVars == <<sStart, sEnd, low, high>>
resultVars == <<index, length>>
vars == <<data, sa, query, at, searchVars, resultVars>>

\* The calls findBackRef makes: 1 <= minEnd <= maxEnd <= len(s), and a range.
Queries(text) ==
  {q \in [s : Patterns, minEnd : 1..MaxEnd, maxEnd : 1..MaxEnd,
          rangeStart : 0..Len(text), rangeEnd : 0..Len(text)] :
     q.minEnd <= q.maxEnd /\ q.maxEnd <= Len(q.s) /\ q.rangeStart <= q.rangeEnd}

Init ==
  /\ data \in Texts /\ sa = [r \in 1..Len(data) |-> 0]
  /\ query \in Queries(data) /\ at = "new"
  /\ sStart = 0 /\ sEnd = 0 /\ low = 0 /\ high = 0
  /\ index = -1 /\ length = -1

New ==
  /\ at = "new"
  /\ sa' \in SuffixArrays(data)
  /\ at' = "initial"
  /\ UNCHANGED <<data, query, searchVars, resultVars>>

-----------------------------------------------------------------------------
SuffixAt(k) == Suffix(data, At(sa, k))

\* sort.Search(n, f): binary search, from [lo, hi) on, for the least k with f[k], or n.
Search(n, f) ==
  LET bisect[p \in (0..n) \X (0..n)] ==
        LET lo == p[1]
            hi == p[2]
            h == (lo + hi) \div 2
        IN  IF lo >= hi THEN lo ELSE IF f[h] THEN bisect[<<lo, h>>] ELSE bisect[<<h + 1, hi>>]
  IN  bisect[<<0, n>>]

\* Mutant: the end of the range is counted in.
InRangeInclusive(k) == query.rangeStart <= At(sa, k) /\ At(sa, k) <= query.rangeEnd

InRange(k) == query.rangeStart <= At(sa, k) /\ At(sa, k) < query.rangeEnd

\* The ranks of the suffixes that start with s, or <<-1, -1>>.
lookupLongestInitial(s) ==
  LET first == Search(Len(sa), [k \in 0..(Len(sa)-1) |-> ~ Less(SuffixAt(k), s)])
      size == Search(Len(sa) - first,
                     [k \in 0..(Len(sa)-first-1) |-> ~ HasPrefix(SuffixAt(first + k), s)])
  IN  IF first = Len(sa) \/ ~ HasPrefix(SuffixAt(first), s) THEN <<-1, -1>> ELSE <<first, first + size>>

\* Mutant: only the first suffix that starts with s is looked at.
lookupFirst(s, from, to) ==
  LET first == from + Search(to - from, [k \in 0..(to-from-1) |-> ~ Less(SuffixAt(from + k), s)])
  IN  IF first = to \/ ~ HasPrefix(SuffixAt(first), s) THEN [rStart |-> from, offset |-> -1]
      ELSE [rStart |-> first, offset |-> IF InRange(first) THEN At(sa, first) ELSE -1]

\* The first suffix of rank in [from, to) that starts with s in the range, with
\* the rank of the first that starts with s at all; or offset -1.
lookupLongest(s, from, to) ==
  LET first == from + Search(to - from, [k \in 0..(to-from-1) |-> ~ Less(SuffixAt(from + k), s)])
      run == {k \in first..(to-1) : \A j \in first..k : HasPrefix(SuffixAt(j), s)}
      valid == {k \in run : InRange(k)}
  IN  IF first = to \/ ~ HasPrefix(SuffixAt(first), s) THEN [rStart |-> from, offset |-> -1]
      ELSE [rStart |-> first,
            offset |-> IF valid = {} THEN -1
                       ELSE At(sa, CHOOSE k \in valid : \A j \in valid : k <= j)]

\* The search at minEnd: no match in the range ends the call.
Initial ==
  LET ranks == lookupLongestInitial(SubSeq(query.s, 1, query.minEnd))
      valid == {k \in ranks[1]..(ranks[2]-1) : k >= 0 /\ InRange(k)}
  IN  /\ at = "initial"
      /\ IF valid = {} THEN /\ at' = "returned"
                            /\ UNCHANGED <<searchVars, resultVars>>
         ELSE /\ at' = "search"
              /\ index' = At(sa, CHOOSE k \in valid : \A j \in valid : k <= j)
              /\ length' = query.minEnd
              /\ sStart' = ranks[1] /\ sEnd' = ranks[2]
              /\ low' = query.minEnd /\ high' = query.maxEnd
      /\ UNCHANGED <<data, sa, query>>

mid == low + (high - low) \div 2

\* Mutant: the lower bound does not move past the length that was found.
ProbeStays ==
  LET found == lookupLongest(SubSeq(query.s, 1, mid), sStart, sEnd)
  IN  /\ at = "search" /\ low <= high
      /\ IF found.offset # -1
         THEN /\ sStart' = found.rStart
              /\ index' = found.offset /\ length' = mid
              /\ low' = mid
              /\ UNCHANGED high
         ELSE high' = mid - 1 /\ UNCHANGED <<sStart, low, resultVars>>
      /\ UNCHANGED <<data, sa, query, at, sEnd>>

Probe ==
  LET found == lookupLongest(SubSeq(query.s, 1, mid), sStart, sEnd)
  IN  /\ at = "search" /\ low <= high
      /\ IF found.offset # -1
         THEN /\ sStart' = found.rStart
              /\ index' = found.offset /\ length' = mid
              /\ low' = mid + 1
              /\ UNCHANGED high
         ELSE high' = mid - 1 /\ UNCHANGED <<sStart, low, resultVars>>
      /\ UNCHANGED <<data, sa, query, at, sEnd>>

Return ==
  /\ at = "search" /\ low > high
  /\ at' = "returned"
  /\ UNCHANGED <<data, sa, query, searchVars, resultVars>>

Next == New \/ Initial \/ Probe \/ Return

Spec == Init /\ [][Next]_vars /\ WF_vars(Next)

-----------------------------------------------------------------------------
IndexTypeOK ==
  /\ data \in Texts
  /\ sa \in [1..Len(data) -> 0..(Len(data)-1)]
  /\ at \in {"new", "initial", "search", "returned"}
  /\ {sStart, sEnd} \subseteq 0..Len(data)
  /\ {low, high} \subseteq Nat
  /\ index \in -1..(Len(data)-1) /\ length \in Int

\* What LookupLongest returns is a longest match in the range, or none if there
\* is none: narrowing the ranks with every longer match that is found, and giving
\* up the upper half of the lengths with every one that is not, loses no longer
\* match in the range (suffixarray.go:95-117).
ReturnsLongest ==
  at = "returned" =>
    [address |-> index, length |-> length]
      \in LookupLongest(query.s, 0, data, query.minEnd, query.maxEnd,
                        query.rangeStart, query.rangeEnd)

\* While the search goes on, index and length are a match, and every match longer
\* than high has been ruled out (suffixarray.go:98-115).
SearchSound ==
  at = "search" =>
    LET matches == Matches(query.s, 0, data, query.minEnd, query.maxEnd,
                           query.rangeStart, query.rangeEnd)
    IN  /\ [address |-> index, length |-> length] \in matches
        /\ \A m \in matches : m.length <= high

\* Every call of LookupLongest returns.
LookupReturns == <>(at = "returned")
=============================================================================
