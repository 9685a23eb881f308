-------------------------------- MODULE Sais --------------------------------
(***************************************************************************)
(* The construction of the suffix array of a text: SAIS, as suffixarray    *)
(* runs it, in place.  A call sorts its text in a slice of an array that   *)
(* also holds its work queues; the recursive call finds its text, its      *)
(* result and often its work space in slices of the caller's array.  So    *)
(* the state is the memory, arrays of integers, and a stack of calls whose *)
(* arguments are slices of it.                                             *)
(*                                                                         *)
(* A pass over the text or over the array is one step, except the four     *)
(* induced sorts, whose loops read the queue they write: there one         *)
(* iteration is one step.  An index outside its slice, which panics in the *)
(* code, has no value here and stops TLC.                                  *)
(***************************************************************************)
EXTENDS Suffixes, SequencesExt, TLC

CONSTANTS
  ByteBits,    \* the width of a byte, 8 in the code
  Texts        \* the texts that are indexed

AlphabetSize == 2^ByteBits
WordBytes == 4
WordSize == AlphabetSize^WordBytes

ASSUME SaisAssumption ==
  /\ ByteBits \in Nat \ {0}
  /\ Texts \subseteq Seq(0..(AlphabetSize-1))

VARIABLES
  mem,         \* the arrays: text, sa, tmp and the one that recurse_32 may make
  stack,       \* the active calls, the innermost first
  at,          \* the pass that the innermost call runs next, or runs
  i,           \* the loops of the induced sorts: the entry that is read,
  cB, b,       \* the cached bucket and its cursor,
  top,         \* and where the sorted starts are packed
  allocs       \* the arrays that were made for one sort (history)

loopVars == <<i, cB, b, top>>
vars == <<mem, stack, at, loopVars, allocs>>

-----------------------------------------------------------------------------
\* Slices: len entries of an array from off.
Slice(buf, off, len) == [buf |-> buf, off |-> off, len |-> len]
Sub(s, from, to) == Slice(s.buf, s.off + from, to - from)
Get(m, s, k) == CASE k \in 0..(s.len-1) -> m[s.buf][s.off + k]
Put(m, s, k, v) == CASE k \in 0..(s.len-1) -> [m EXCEPT ![s.buf][s.off + k] = v]

\* The values vs[0], vs[1], ... written to the slice.
Fill(m, s, vs) ==
  [m EXCEPT ![s.buf] = [k \in s.off..(s.off + s.len - 1) |-> vs[k - s.off]] @@ @]
Zeroed(m, s) == Fill(m, s, [k \in 0..(s.len-1) |-> 0])

\* A call of sais_8_32 or sais_32, with the results of its passes.
Call(text, textMax, sa, tmp) ==
  [text |-> text, textMax |-> textMax, sa |-> sa, tmp |-> tmp, numLMS |-> 0, maxID |-> 0]

f == Head(stack)
n == f.sa.len
Char(k) == Get(mem, f.text, k)
SA(k) == Get(mem, f.sa, k)
Text == [k \in 1..f.text.len |-> Char(k - 1)]

\* If there is only room for one slice, it is the buckets.
HasFreq == f.tmp.len >= 2 * f.textMax
Freq == Sub(f.tmp, 0, f.textMax)
Bucket == IF HasFreq THEN Sub(f.tmp, f.textMax, 2 * f.textMax) ELSE Freq

\* The outermost call sorts bytes (sais.go), the others the IDs that the caller
\* gave to its LMS-substrings (sais2.go).
Bytes == Len(stack) = 1
IDs == Len(stack) > 1

-----------------------------------------------------------------------------
(* Frequencies and buckets *)

Count(c) == Cardinality({k \in 0..(f.text.len-1) : Char(k) = c})

\* freq[0] >= 0 says that the frequencies are there from an earlier pass.
freq(m) ==
  IF HasFreq /\ Get(m, Freq, 0) >= 0 THEN m
  ELSE Fill(m, Freq, [c \in 0..(f.textMax-1) |-> Count(c)])

\* The frequencies of the characters up to c, summed.
Total(m, c) == FoldLeft(LAMBDA sum, x : sum + Get(m, Freq, x - 1), 0, [x \in 1..(c + 1) |-> x])

bucketMin(m) == LET counted == freq(m)
                IN  Fill(counted, Bucket, [c \in 0..(f.textMax-1) |-> Total(counted, c - 1)])
bucketMax(m) == LET counted == freq(m)
                IN  Fill(counted, Bucket, [c \in 0..(f.textMax-1) |-> Total(counted, c)])

\* The "LMS-substring iterator": the starts of the LMS-substrings, from the last.
LMSStarts ==
  LET isTypeS[k \in 0..(n-1)] ==
        k < n - 1 /\ (Char(k) < Char(k + 1) \/ (Char(k) = Char(k + 1) /\ isTypeS[k + 1]))
      startsFrom[k \in 1..n] ==
        IF k = n THEN <<>>
        ELSE IF isTypeS[k] /\ Char(k - 1) > Char(k) THEN Append(startsFrom[k + 1], k)
        ELSE startsFrom[k + 1]
  IN  startsFrom[1]

\* The start of an LMS-substring, put below the others of its bucket.
PutDown(m, k) ==
  LET slot == Get(m, Bucket, Char(k)) - 1
  IN  Put(Put(m, Bucket, Char(k), slot), f.sa, slot, k)

-----------------------------------------------------------------------------
(* The passes, in the order of the calls *)

\* A pass that is one step, and the pass that follows.
Pass(name, m, next) == /\ at = name
                       /\ mem' = m /\ at' = next
                       /\ UNCHANGED <<loopVars, allocs>>

New ==
  /\ Pass("new", Zeroed(mem, f.sa), "sais")
  /\ UNCHANGED stack

\* The checks, the base cases, and the mark that the frequencies are not known.
Enter ==
  /\ LET misuse == f.sa.len # f.text.len \/ f.tmp.len < f.textMax
     IN  Pass("sais",
              CASE misuse \/ n = 0 -> mem
                [] ~ misuse /\ n = 1 -> Put(mem, f.sa, 0, 0)
                [] OTHER -> IF HasFreq THEN Put(mem, Freq, 0, -1) ELSE mem,
              CASE misuse -> "panic" [] ~ misuse /\ n <= 1 -> "return" [] OTHER -> "placeLMS")
  /\ UNCHANGED stack

\* The starts go to the upper ends of their buckets; the leftmost ends no substring.
placeLMS ==
  LET numLMS == Len(LMSStarts)
      placed == FoldLeft(PutDown, bucketMax(mem), LMSStarts)
      leftmost == Get(placed, Bucket, Char(Last(LMSStarts)))
  IN  /\ Pass("placeLMS",
              IF numLMS > 1 THEN Put(placed, f.sa, leftmost, 0) ELSE placed,
              IF numLMS > 1 THEN "induceSubL" ELSE "induceL")
      /\ stack' = [stack EXCEPT ![1].numLMS = numLMS]

-----------------------------------------------------------------------------
(* The induced sorts: sa is input, output and work queue of the scan *)

\* k, marked by its sign if the scan that finds it must leave it to the next one.
Mark(k, leave) == IF leave THEN -k ELSE k

\* v goes to the cursor of the bucket of c.  b is a copy of bucket[cB] that is
\* written back when another bucket is needed.
Cursor(m, c) == IF c = cB THEN b ELSE Get(m, Bucket, c)
\* Mutant: the cursor of the bucket that is left is forgotten.
WriteBackNothing(m, c) == m
WriteBack(m, c) == IF c = cB THEN m ELSE Put(m, Bucket, cB, b)
PlaceUp(m, c, v) == /\ mem' = Put(WriteBack(m, c), f.sa, Cursor(m, c), v)
                    /\ cB' = c /\ b' = Cursor(m, c) + 1
PlaceDown(m, c, v) == /\ mem' = Put(WriteBack(m, c), f.sa, Cursor(m, c) - 1, v)
                      /\ cB' = c /\ b' = Cursor(m, c) - 1

\* A scan upwards begins with the entry that sa[-1] = len(text) would queue.
ScanUp(name, scan) ==
  LET ready == bucketMin(mem)
      k == n - 1
      slot == Get(ready, Bucket, Char(k))
  IN  /\ at = name /\ at' = scan
      /\ mem' = Put(ready, f.sa, slot, Mark(k, Char(k - 1) < Char(k)))
      /\ i' = 0 /\ cB' = Char(k) /\ b' = slot + 1
      /\ UNCHANGED <<top, stack, allocs>>

ScanDown(name, scan) ==
  /\ at = name /\ at' = scan
  /\ mem' = bucketMax(mem)
  /\ i' = n - 1 /\ cB' = 0 /\ b' = Get(mem', Bucket, 0) /\ top' = n
  /\ UNCHANGED <<stack, allocs>>

Skip == UNCHANGED <<mem, cB, b, top>>
Advance(scan, next) == /\ at = scan
                       /\ i' = i + 1 /\ at' = IF i' = n THEN next ELSE scan
                       /\ UNCHANGED <<stack, allocs>>
Retreat(scan, next) == /\ at = scan
                       /\ i' = i - 1 /\ at' = IF i = 0 THEN next ELSE scan
                       /\ UNCHANGED <<stack, allocs>>

\* Of every LMS-substring only the leftmost L-type index is left behind.
induceSubL ==
  \/ ScanUp("induceSubL", "scanSubL")
  \/ /\ Advance("scanSubL", "induceSubS")
     /\ LET j == SA(i)
            k == j - 1
        IN  \/ j = 0 /\ Skip
            \/ j < 0 /\ mem' = Put(mem, f.sa, i, -j) /\ UNCHANGED <<cB, b, top>>
            \/ /\ j > 0
               /\ PlaceUp(Put(mem, f.sa, i, 0), Char(k), Mark(k, Char(k - 1) < Char(k)))
               /\ UNCHANGED top

\* Of every LMS-substring only its start is left, packed at the upper end of sa.
induceSubS ==
  \/ ScanDown("induceSubS", "scanSubS")
  \/ /\ Retreat("scanSubS", "length")
     /\ LET j == SA(i)
            k == j - 1
            cleared == Put(mem, f.sa, i, 0)
        IN  \/ j = 0 /\ Skip
            \/ /\ j < 0
               /\ top' = top - 1 /\ mem' = Put(cleared, f.sa, top - 1, -j)
               /\ UNCHANGED <<cB, b>>
            \/ /\ j > 0
               /\ PlaceDown(cleared, Char(k), Mark(k, Char(k - 1) > Char(k)))
               /\ UNCHANGED top

\* The L-type suffixes; the leftmost are marked for induceS.
induceL ==
  \/ ScanUp("induceL", "scanL")
  \/ /\ Advance("scanL", "induceS")
     /\ LET j == SA(i)
            k == j - 1
        IN  \/ j <= 0 /\ Skip
            \/ /\ j > 0
               /\ PlaceUp(mem, Char(k), Mark(k, k > 0 /\ Char(k - 1) < Char(k)))
               /\ UNCHANGED top

\* Mutant: a run of equal characters is not continued.
IsTypeSAboveStrict(k) == k > 0 /\ Char(k - 1) < Char(k)

\* The suffix before the S-type suffix k is S-type too.
IsTypeSAbove(k) == k > 0 /\ Char(k - 1) <= Char(k)

\* The S-type suffixes; the marks are taken off.
induceS ==
  \/ ScanDown("induceS", "scanS")
  \/ /\ Retreat("scanS", "return")
     /\ LET j == -SA(i)
            k == j - 1
        IN  \/ j <= 0 /\ Skip
            \/ /\ j > 0
               /\ PlaceDown(Put(mem, f.sa, i, j), Char(k), Mark(k, IsTypeSAbove(k)))
               /\ UNCHANGED top

-----------------------------------------------------------------------------
(* Naming the LMS-substrings, and the recursion *)

\* The text of an LMS-substring packed in a word: each byte plus one, the last
\* byte on top, all bits inverted.
Packed(from, to) ==
  LET cx == FoldLeft(LAMBDA acc, k : acc * AlphabetSize + ((Char(k) + 1) % AlphabetSize),
                     0, [k \in 1..(to - from + 1) |-> to - k + 1])
  IN  WordSize - 1 - cx
int32(word) == IF word >= WordSize \div 2 THEN word - WordSize ELSE word
uint32(word) == word % WordSize

\* What stands for the LMS-substring at start number k of LMSStarts: its length,
\* or its text where that packs into a word that cannot be a length.
LMSLength(k) == LMSStarts[k - 1] + 1 - LMSStarts[k]
Code_8_32(k) ==
  LET packed == Packed(LMSStarts[k], LMSStarts[k - 1])
  IN  IF LMSLength(k) <= WordBytes /\ packed >= n THEN int32(packed) ELSE LMSLength(k)
Code_32(k) == LMSLength(k)

\* The code of the LMS-substring at j goes to sa[j/2].  The last one gets 0.
Length(Code(_)) ==
  /\ Pass("length",
          FoldLeft(LAMBDA m, k : Put(m, f.sa, LMSStarts[k] \div 2, IF k = 1 THEN 0 ELSE Code(k)),
                   mem, [k \in 1..f.numLMS |-> k]),
          "assignID")
  /\ UNCHANGED stack

length_8_32 == Bytes /\ Length(Code_8_32)
length_32 == IDs /\ Length(Code_32)

\* Mutant: substrings of one length are taken for equal.
SameSubstringByLength(j, last, code) == TRUE

\* The substrings at j and last have the same code.  It is their text or their length.
SameSubstring(j, last, code) ==
  uint32(code) >= n \/ \A k \in 0..(code-1) : Char(j + k) = Char(last + k)

\* The IDs replace the codes: equal substrings are neighbours in the sorted list.
assignID ==
  LET Name(acc, r) ==
        LET j == Get(acc.m, f.sa, n - f.numLMS + r - 1)
            code == Get(acc.m, f.sa, j \div 2)
            same == code = acc.lastLen /\ SameSubstring(j, acc.lastPos, code)
            id == IF same THEN acc.id ELSE acc.id + 1
        IN  [m |-> Put(acc.m, f.sa, j \div 2, id), id |-> id,
             lastLen |-> code, lastPos |-> IF same THEN acc.lastPos ELSE j]
      named == FoldLeft(Name, [m |-> mem, id |-> 0, lastLen |-> -1, lastPos |-> 0],
                        [r \in 1..f.numLMS |-> r])
  IN  /\ Pass("assignID", named.m, IF named.id < f.numLMS THEN "map" ELSE "copy")
      /\ stack' = [stack EXCEPT ![1].maxID = named.id]

\* The IDs, in the order of the text, are the text of the subproblem.
map_32 ==
  LET Pack(acc, k) ==
        LET j == Get(acc.m, f.sa, k)
        IN  IF j > 0 THEN [m |-> Put(acc.m, f.sa, acc.w - 1, j - 1), w |-> acc.w - 1] ELSE acc
  IN  /\ Pass("map",
              FoldLeft(Pack, [m |-> mem, w |-> n], [k \in 1..(n \div 2 + 1) |-> n \div 2 + 1 - k]).m,
              "recurse")
      /\ UNCHANGED stack

\* Every LMS-substring is unique: the order of the substrings is that of the suffixes.
copy ==
  /\ Pass("copy",
          Fill(mem, Sub(f.sa, 0, f.numLMS), [k \in 0..(f.numLMS-1) |-> SA(n - f.numLMS + k)]),
          "expand")
  /\ UNCHANGED stack

\* Mutant: the slices of work space and text are confused.
saTmpAtEnd == Sub(f.sa, n - f.numLMS, n)

dst == Sub(f.sa, 0, f.numLMS)
saTmp == Sub(f.sa, f.numLMS, n - f.numLMS)

\* Mutants: the new array is as long as this level needs, or as the deeper ones need.
MakeForThisLevel == f.maxID
MakeForDeeperLevels == f.numLMS \div 2

\* The length of the new array, if one is made.
MakeLength == Max({f.maxID, f.numLMS \div 2})

\* The work space of the recursive call is the caller's tmp, the middle of sa, or new.
recurse_32 ==
  LET tmp == IF f.tmp.len < saTmp.len THEN saTmp ELSE f.tmp
      short == tmp.len < f.numLMS
      made == IF short THEN [k \in 0..(MakeLength-1) |-> 0] ELSE mem.made
      space == IF short THEN Slice("made", 0, MakeLength) ELSE tmp
  IN  /\ at = "recurse" /\ at' = "sais"
      /\ mem' = [Zeroed(mem, dst) EXCEPT !.made = made]
      /\ stack' = <<Call(Sub(f.sa, n - f.numLMS, n), f.maxID, dst, space)>> \o stack
      /\ allocs' = IF short THEN allocs + 1 ELSE allocs
      /\ UNCHANGED loopVars

\* Mutant: the starts are listed from the last.
unmapIndexReversed(k) == k - 1

\* Where the start number k of LMSStarts goes in the inverse map.
unmapIndex(k) == f.numLMS - k

\* The K'th LMS-substring of the subproblem's suffix array is the start it came from.
unmap ==
  LET unmapped == FoldLeft(LAMBDA m, k : Put(m, Sub(f.sa, n - f.numLMS, n), unmapIndex(k), LMSStarts[k]),
                           mem, [k \in 1..f.numLMS |-> k])
  IN  /\ Pass("unmap",
              Fill(unmapped, Sub(f.sa, 0, f.numLMS),
                   [k \in 0..(f.numLMS-1) |-> Get(unmapped, f.sa, n - f.numLMS + SA(k))]),
              "expand")
      /\ UNCHANGED stack

\* The sorted starts move from the lower end of sa to the upper ends of their
\* buckets, and the rest is cleared.
expand ==
  LET Load(m, x) ==
        LET saX == Get(m, f.sa, x)
            slot == Get(m, Bucket, Char(saX)) - 1
        IN  [m |-> Put(m, Bucket, Char(saX), slot), x |-> x, saX |-> saX, slot |-> slot]
      Lay(acc, k) ==
        IF k # acc.slot THEN [acc EXCEPT !.m = Put(acc.m, f.sa, k, 0)]
        ELSE LET laid == Put(acc.m, f.sa, k, acc.saX)
             IN  IF acc.x > 0 THEN Load(laid, acc.x - 1) ELSE [acc EXCEPT !.m = laid]
  IN  /\ Pass("expand",
              FoldLeft(Lay, Load(bucketMax(mem), f.numLMS - 1), [k \in 1..n |-> n - k]).m,
              "induceL")
      /\ UNCHANGED stack

\* Mutant: the caller is not told.
MarkNothing(m) == m

MarkTmp(m) == IF n > 1 THEN Put(m, f.tmp, 0, -1) ELSE m

\* The end of a call: tmp[0] tells the caller that its frequencies may be gone.
Return ==
  /\ at = "return"
  /\ mem' = MarkTmp(mem)
  /\ stack' = Tail(stack)
  /\ at' = IF Bytes THEN "done" ELSE "unmap"
  /\ UNCHANGED <<loopVars, allocs>>

-----------------------------------------------------------------------------
(* The code has every pass twice, for a text of bytes and for one of IDs. *)

sais_8_32 == Bytes /\ (Enter \/ copy \/ Return)
placeLMS_8_32 == Bytes /\ placeLMS
induceSubL_8_32 == Bytes /\ induceSubL
induceSubS_8_32 == Bytes /\ induceSubS
assignID_8_32 == Bytes /\ assignID
unmap_8_32 == Bytes /\ unmap
expand_8_32 == Bytes /\ expand
induceL_8_32 == Bytes /\ induceL
induceS_8_32 == Bytes /\ induceS

sais_32 == IDs /\ (Enter \/ copy \/ Return)
placeLMS_32 == IDs /\ placeLMS
induceSubL_32 == IDs /\ induceSubL
induceSubS_32 == IDs /\ induceSubS
assignID_32 == IDs /\ assignID
unmap_32 == IDs /\ unmap
expand_32 == IDs /\ expand
induceL_32 == IDs /\ induceL
induceS_32 == IDs /\ induceS

\* New is given a slice of inputSa, which is longer and holds an earlier index.
Spare == 1

\* Mutant: the slice is longer than the array.
text_32Long(len) ==
  Call(Slice("text", 0, len), AlphabetSize, Slice("sa", 0, len), Slice("tmp", 0, 2 * AlphabetSize + 1))

\* The call that text_32 makes.
text_32(len) ==
  Call(Slice("text", 0, len), AlphabetSize, Slice("sa", 0, len), Slice("tmp", 0, 2 * AlphabetSize))

Init ==
  /\ \E text \in Texts :
       /\ mem = [text |-> [k \in 0..(Len(text)-1) |-> text[k + 1]],
                 sa   |-> [k \in 0..(Len(text)+Spare-1) |-> k],
                 tmp  |-> [k \in 0..(2*AlphabetSize-1) |-> 0],
                 made |-> [k \in {} |-> 0]]
       /\ stack = <<text_32(Len(text))>>
  /\ at = "new"
  /\ i = 0 /\ cB = 0 /\ b = 0 /\ top = 0 /\ allocs = 0

Over == at \in {"done", "panic"}

Next ==
  \/ New
  \/ sais_8_32 \/ placeLMS_8_32 \/ induceSubL_8_32 \/ induceSubS_8_32 \/ length_8_32
  \/ assignID_8_32 \/ unmap_8_32 \/ expand_8_32 \/ induceL_8_32 \/ induceS_8_32
  \/ map_32 \/ recurse_32
  \/ sais_32 \/ placeLMS_32 \/ induceSubL_32 \/ induceSubS_32 \/ length_32
  \/ assignID_32 \/ unmap_32 \/ expand_32 \/ induceL_32 \/ induceS_32
  \/ Over /\ UNCHANGED vars

\* Weak fairness of Next, with ENABLED spelled out: every state of a sort that is
\* not over has a step (TLC checks that there is no deadlock).
Fairness == []<>Over \/ []<><<Next>>_vars

Spec == Init /\ [][Next]_vars /\ Fairness

-----------------------------------------------------------------------------
(* Properties *)

Scans == {"scanSubL", "scanSubS", "scanL", "scanS"}

SaisTypeOK ==
  /\ DOMAIN mem = {"text", "sa", "tmp", "made"}
  /\ \A buf \in DOMAIN mem : \A k \in DOMAIN mem[buf] : mem[buf][k] \in -WordSize..WordSize
  /\ \A d \in 1..Len(stack) : \A s \in {stack[d].text, stack[d].sa, stack[d].tmp} :
       s.off..(s.off + s.len - 1) \subseteq DOMAIN mem[s.buf]
  /\ at \in {"new", "sais", "placeLMS", "induceSubL", "induceSubS", "length", "assignID", "map",
             "copy", "recurse", "unmap", "expand", "induceL", "induceS", "return"} \cup Scans
            \/ Over
  /\ {i, cB, b, top, allocs} \subseteq Int

\* A call that returns, the outermost or a recursive one, leaves the suffix array
\* of its text in sa (sais.go:135-203, sais2.go:7-67): this is what New promises
\* and what LookupLongest searches.
SuffixSorted ==
  at = "return" => IsSuffixArray(Text, [r \in 1..n |-> SA(r - 1)])

\* Frequencies that freq takes for known are those of the text of the call, also
\* after a recursive call has used the same tmp for its own (sais.go:205-216).
FreqFresh ==
  (at \notin {"new", "sais"} /\ ~ Over /\ n > 1 /\ HasFreq /\ Get(mem, Freq, 0) >= 0) =>
    \A c \in 0..(f.textMax-1) : Get(mem, Freq, c) = Count(c)

\* An LMS-substring with the sentinel that ends the last one.
LMSSubstring(k) ==
  IF k = 1 THEN Append(Suffix(Text, LMSStarts[1]), -1)
  ELSE SubSeq(Text, LMSStarts[k] + 1, LMSStarts[k - 1] + 1)

\* The IDs name the LMS-substrings: equal IDs are equal substrings, whether their
\* texts or their packed words were compared, and the order of the IDs never
\* contradicts that of the suffixes (sais.go:511-627).
NamesFaithful ==
  at \in {"map", "copy"} =>
    \A k, l \in 1..f.numLMS :
      LET idK == SA(LMSStarts[k] \div 2)
          idL == SA(LMSStarts[l] \div 2)
      IN  /\ (idK = idL) <=> (LMSSubstring(k) = LMSSubstring(l))
          /\ Less(Suffix(Text, LMSStarts[k]), Suffix(Text, LMSStarts[l])) => idK <= idL

\* What expand distributes is every LMS-suffix, in order, whether it comes from the
\* recursion or from the order of the substrings (sais.go:177-200).
LMSSuffixesSorted ==
  at = "expand" =>
    /\ {SA(k) : k \in 0..(f.numLMS-1)} = Range(LMSStarts)
    /\ \A k \in 1..(f.numLMS-1) : Less(Suffix(Text, SA(k - 1)), Suffix(Text, SA(k)))

\* "this one allocation is guaranteed to suffice for the entire stack of recursive
\* calls" (sais.go:692-696).
OneAllocation == allocs <= 1

\* Where a scan may put down what it finds.
FreeSlot(p) ==
  \/ at \in {"scanSubL", "scanL"} /\ p > i /\ SA(p) = 0
  \/ at = "scanSubS" /\ (p < i \/ p = top - 1) /\ SA(p) = 0
  \/ at = "scanS" /\ p < i /\ SA(p) >= 0

\* An iteration of an induced sort changes the entry it reads and one entry more:
\* one that it has yet to reach and that holds no work ("guaranteed to happen at
\* sa[i'] for some i' > i"), or the slot where a start is packed (sais.go:345-509,
\* 789-899).
QueueKept ==
  [][(at \in Scans) => \A p \in (0..(n-1)) \ {i} : SA(p)' # SA(p) => FreeSlot(p)]_vars

\* No step changes the text of an active call, although the text of a recursive
\* call lies in the array its caller sorts in (sais.go:651-717).
TextsUntouched ==
  [][\A d \in 1..Len(stack) : \A k \in 0..(stack[d].text.len-1) :
       Get(mem', stack[d].text, k) = Get(mem, stack[d].text, k)]_vars

\* Every sort returns: no panic, and no loop or recursion without end.
SortReturns == <>(at = "done")
=============================================================================
