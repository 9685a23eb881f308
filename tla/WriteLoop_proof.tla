--------------------------- MODULE WriteLoop_proof ---------------------------
(***************************************************************************)
(* Every iteration of write adds phrases that stand for the bytes it moves *)
(* over, and keeps the circular buffer coherent, for every dictionary,     *)
(* input and width of the fields.  The lemmas on numbers, on sequences and *)
(* on the dictionary come first; the other proofs use them too.            *)
(***************************************************************************)
EXTENDS WriteLoop, WellFoundedInduction, TLAPS

-----------------------------------------------------------------------------
(* Numbers and sequences. *)

\* A number below the modulus is what a field of that width stores.
LEMMA ModSmall == \A x, m \in Nat : x < m => x % m = x
  BY SMT

\* A non-empty set of natural numbers has a least one.
LEMMA LeastExists ==
  ASSUME NEW T \in SUBSET Nat, T # {}
  PROVE  \E t \in T : \A u \in T : t <= u
<1> DEFINE less == {ss \in Nat \X Nat : ss[1] < ss[2]}
<1>1. IsWellFoundedOn(less, Nat)
  BY NatLessThanWellFounded, Zenon DEF OpToRel
<1>2. \A x, y \in Nat : x < y => <<x, y>> \in less
  BY Zenon
<1> HIDE DEF less
<1>3. PICK t \in T : \A u \in T : <<u, t>> \notin less
  BY <1>1, WFMin, Zenon
<1>4. ASSUME NEW u \in T PROVE t <= u
  <2>1. u \in Nat /\ t \in Nat /\ ~ (u < t)
    BY <1>2, <1>3, Zenon
  <2> QED
    BY <2>1
<1> QED
  BY <1>4, Zenon

\* A non-empty set of integers with an upper bound has a greatest one.
LEMMA GreatestExists ==
  ASSUME NEW hi \in Int, NEW L \in SUBSET Int, L # {}, \A x \in L : x <= hi
  PROVE  \E x \in L : \A y \in L : y <= x
<1> DEFINE T == {n \in Nat : hi - n \in L}
<1>1. PICK z \in L : TRUE
  BY Zenon
<1>2. hi - z \in T
  BY <1>1
<1>3. PICK t \in T : \A u \in T : t <= u
  BY <1>2, LeastExists, Zenon
<1>4. ASSUME NEW y \in L PROVE y <= hi - t
  <2>1. hi - y \in T
    OBVIOUS
  <2>2. t \in Nat /\ t <= hi - y
    BY <1>3, <2>1, Zenon
  <2> QED
    BY <2>2
<1> QED
  BY <1>3, <1>4, Zenon

\* Induction on the numbers up to N, for a set in the place of a predicate.
LEMMA UpTo ==
  ASSUME NEW N \in Nat, NEW P, 0 \in P, \A n \in 1..N : n - 1 \in P => n \in P
  PROVE  \A n \in 0..N : n \in P
<1> DEFINE T == {n \in 0..N : n \notin P}
<1>1. ASSUME T # {} PROVE FALSE
  <2>0. T \in SUBSET Nat
    OBVIOUS
  <2>1. PICK t \in T : \A u \in T : t <= u
    BY <1>1, <2>0, LeastExists, Zenon
  <2>2. t \in 1..N /\ t - 1 \in 0..N /\ t - 1 \notin T
    BY <2>1
  <2> QED
    BY <2>1, <2>2, Zenon
<1> QED
  BY <1>1, Zenon

\* f[n] is the result of n steps from a, the n-th of them g's for n.
Iterates(f, g, a, N) == f[0] = a /\ \A n \in 1..N : f[n] = g[<<f[n-1], n>>]

\* A step on the elements of S can be iterated as often as one likes.
LEMMA IterateExists ==
  ASSUME NEW S, NEW a \in S, NEW N \in Nat, NEW g \in [S \X (1..N) -> S]
  PROVE  \E f \in [0..N -> S] : Iterates(f, g, a, N)
<1> DEFINE iter(f, m) == f[0] = a /\ \A n \in 1..m : f[n] = g[<<f[n-1], n>>]
           T == {m \in 0..N : \A f \in [0..m -> S] : ~ iter(f, m)}
<1>1. ASSUME T # {} PROVE FALSE
  <2>1. T \in SUBSET Nat
    OBVIOUS
  <2>2. PICK t \in T : \A u \in T : t <= u
    BY <1>1, <2>1, LeastExists, Zenon
  <2>3. CASE t = 0
    <3> DEFINE f == [n \in 0..0 |-> a]
    <3>1. f \in [0..t -> S]
      BY <2>3, Zenon
    <3>2. iter(f, t)
      BY <2>3
    <3> QED
      BY <2>2, <3>1, <3>2, Zenon
  <2>4. CASE t # 0
    <3>1. t \in 1..N /\ t - 1 \in 0..N /\ t - 1 \notin T
      BY <2>2, <2>4
    <3>2. PICK f \in [0..(t-1) -> S] : iter(f, t - 1)
      BY <3>1, Zenon
    <3> DEFINE h == [n \in 0..t |-> IF n = t THEN g[<<f[t-1], t>>] ELSE f[n]]
    <3>3. f[t-1] \in S
      BY <3>1, <3>2
    <3>4. g[<<f[t-1], t>>] \in S
      BY <3>1, <3>3, Zenon
    <3>5. h \in [0..t -> S]
      BY <3>1, <3>2, <3>4
    <3>6. h[t] = g[<<h[t-1], t>>]
      BY <3>1, SMTT(60)
    <3>7. ASSUME NEW n \in 1..(t-1) PROVE h[n] = g[<<h[n-1], n>>]
      BY <3>1, <3>2
    <3>8. iter(h, t)
      <4>1. h[0] = a
        BY <3>1, <3>2
      <4>2. ASSUME NEW n \in 1..t PROVE h[n] = g[<<h[n-1], n>>]
        <5>1. n = t \/ n \in 1..(t-1)
          BY <3>1
        <5> QED
          BY <3>6, <3>7, <5>1, Zenon
      <4> QED
        BY <4>1, <4>2, Zenon
    <3> QED
      BY <2>2, <3>5, <3>8, Zenon
  <2> QED
    BY <2>3, <2>4, Zenon
<1>2. N \in 0..N /\ N \notin T
  BY <1>1, SMTT(60)
<1> QED
  BY <1>2, Zenon DEF Iterates

\* The length of a sequence is a number.
LEMMA LenNat == ASSUME NEW S, NEW s \in Seq(S) PROVE Len(s) \in Nat
  OBVIOUS

\* Two sequences, one behind the other.
LEMMA ConcatFacts ==
  ASSUME NEW S, NEW s \in Seq(S), NEW t \in Seq(S)
  PROVE  /\ s \o t \in Seq(S)
         /\ Len(s \o t) = Len(s) + Len(t)
         /\ \A k \in 1..Len(s) : (s \o t)[k] = s[k]
         /\ \A k \in 1..Len(t) : (s \o t)[Len(s) + k] = t[k]
  OBVIOUS

\* The n elements of s behind the first m.
LEMMA SliceFacts ==
  ASSUME NEW S, NEW s \in Seq(S), NEW m \in Nat, NEW n \in Nat, m + n <= Len(s)
  PROVE  /\ SubSeq(s, m + 1, m + n) \in Seq(S)
         /\ Len(SubSeq(s, m + 1, m + n)) = n
         /\ \A k \in 1..n : SubSeq(s, m + 1, m + n)[k] = s[m + k]
<1>1. SubSeq(s, m + 1, m + n) = [k \in 1..n |-> s[m + k]]
  BY SMTT(30)
<1>2. \A k \in 1..n : s[m + k] \in S
  OBVIOUS
<1>3. PICK t : t = [k \in 1..n |-> s[m + k]]
  BY Zenon
<1>4. t \in [1..n -> S] /\ \A k \in 1..n : t[k] = s[m + k]
  BY <1>2, <1>3, Zenon
<1>5. t \in Seq(S) /\ Len(t) = n
  BY <1>4
<1> QED
  BY <1>1, <1>3, <1>4, <1>5, Zenon

\* The first n elements of s.
LEMMA PrefixFacts ==
  ASSUME NEW S, NEW s \in Seq(S), NEW n \in Nat, n <= Len(s)
  PROVE  /\ SubSeq(s, 1, n) \in Seq(S)
         /\ Len(SubSeq(s, 1, n)) = n
         /\ \A k \in 1..n : SubSeq(s, 1, n)[k] = s[k]
<1>1. SubSeq(s, 0 + 1, 0 + n) \in Seq(S) /\ Len(SubSeq(s, 0 + 1, 0 + n)) = n
      /\ \A k \in 1..n : SubSeq(s, 0 + 1, 0 + n)[k] = s[0 + k]
  BY SliceFacts
<1>2. 0 + 1 = 1 /\ 0 + n = n /\ \A k \in 1..n : 0 + k = k
  OBVIOUS
<1> QED
  BY <1>1, <1>2, Zenon

-----------------------------------------------------------------------------
(* The dictionary and the types of back reference. *)

\* The augmented dictionary contains both reserved symbols (AugmentDict).
LEMMA DictFacts ==
  /\ dictData \in Seq(Byte)
  /\ dictLen \in Nat
  /\ \A b \in {SymbolShort, SymbolDynamic} : \E k \in 0..(dictLen-1) : At(dictData, k) = b
<1>1. \A b \in {SymbolShort, SymbolDynamic} : \E k \in DOMAIN dictData : dictData[k] = b
  <2>1. CASE dictData = UserDict
    BY <2>1, DictAssumption DEF dictData, AugmentDict, SymbolShort, SymbolDynamic
  <2>2. CASE dictData = UserDict \o <<SymbolShort, SymbolDynamic>>
    <3>1. /\ Len(UserDict) + 1 \in DOMAIN dictData
          /\ Len(UserDict) + 2 \in DOMAIN dictData
          /\ dictData[Len(UserDict) + 1] = SymbolShort
          /\ dictData[Len(UserDict) + 2] = SymbolDynamic
      BY <2>2, DictAssumption
    <3> QED
      BY <3>1, Zenon
  <2> QED
    BY <2>1, <2>2, Zenon DEF dictData, AugmentDict
<1>2. dictData \in Seq(Byte)
  <2>1. <<SymbolShort, SymbolDynamic>> \in Seq(Byte)
    BY DEF SymbolShort, SymbolDynamic, Byte
  <2>2. UserDict \o <<SymbolShort, SymbolDynamic>> \in Seq(Byte)
    BY <2>1, DictAssumption
  <2> QED
    BY <2>2, DictAssumption, Zenon DEF dictData, AugmentDict
<1>3. ASSUME NEW b, NEW k \in DOMAIN dictData, dictData[k] = b
      PROVE  k - 1 \in 0..(dictLen-1) /\ At(dictData, k - 1) = b
  BY <1>2, <1>3 DEF dictLen, At
<1>4. dictLen \in Nat
  BY <1>2 DEF dictLen
<1> QED
  BY <1>1, <1>2, <1>3, <1>4, Zenon

\* The widths and limits of both reference types are positive naturals (newBackRefType).
LEMMA TypeFacts ==
  /\ maxLength \in Nat \ {0}
  /\ \A t \in BackrefTypes :
       /\ t.Delimiter \in {SymbolShort, SymbolDynamic}
       /\ t.NbBitsBackRef \in Nat
       /\ t.nbBytesBackRef \in Nat \ {0}
       /\ t.maxAddress \in Nat \ {0}
       /\ t.DictLen \in Nat
<1>1. ASSUME NEW n \in Nat PROVE (8 + n + LengthBits + 7) \div 8 \in Nat \ {0}
  BY BitsAssumption
<1>2. \A t \in BackrefTypes : t.nbBytesBackRef \in Nat \ {0}
  BY <1>1, BitsAssumption
  DEF BackrefTypes, NewShortBackrefType, NewDynamicBackrefType, newBackRefType
<1> dictLen \in Nat
  BY DictFacts, Zenon
<1>3. \A t \in BackrefTypes :
        /\ t.Delimiter \in {SymbolShort, SymbolDynamic}
        /\ t.NbBitsBackRef \in Nat
        /\ t.DictLen \in Nat
  BY BitsAssumption
  DEF BackrefTypes, NewShortBackrefType, NewDynamicBackrefType, newBackRefType
<1>4. {2^LengthBits, 2^ShortAddrBits, 2^DynAddrBits} \subseteq Nat \ {0}
  <2>1. /\ LengthBits \in 0..(16 + LengthBits + ShortAddrBits + DynAddrBits)
        /\ ShortAddrBits \in 0..(16 + LengthBits + ShortAddrBits + DynAddrBits)
        /\ DynAddrBits \in 0..(16 + LengthBits + ShortAddrBits + DynAddrBits)
    BY BitsAssumption
  <2> QED
    BY <2>1, PowerAssumption, Zenon
<1>5. \A t \in BackrefTypes : t.maxAddress \in Nat \ {0}
  BY <1>4
  DEF BackrefTypes, NewShortBackrefType, NewDynamicBackrefType, newBackRefType
<1>6. maxLength \in Nat \ {0}
  BY <1>4, Zenon DEF maxLength
<1> QED
  BY <1>2, <1>3, <1>5, <1>6, Zenon

-----------------------------------------------------------------------------
(* What the search finds. *)

\* b is a reference, of a length and an offset its type can express, to bytes
\* of dd before index at, or of the dictionary, that equal those from at on.
RefersTo(dd, b, at) ==
  /\ b.bType \in BackrefTypes
  /\ b.address \in Int
  /\ b.length \in 1..maxLength
  /\ at + b.length <= Len(dd)
  /\ \/ \E a \in 0..(at-1) :
          /\ b.address = a + b.bType.DictLen
          /\ at - a <= b.bType.maxAddress
          /\ Occurs(dd, at, b.length, dd, a)
     \/ /\ b.bType = NewDynamicBackrefType
        /\ b.address \in 0..(dictLen-1)
        /\ Occurs(dd, at, b.length, dictData, b.address)

\* LookupLongest returns a match, or -1, -1 when there is none.
LEMMA LookupSound ==
  ASSUME NEW dd, NEW at, NEW text, NEW lo \in Int, NEW hi \in Int, NEW from \in Int, NEW to \in Int,
         NEW m \in LookupLongest(dd, at, text, lo, hi, from, to)
  PROVE  \/ m = NoMatch /\ Matches(dd, at, text, lo, hi, from, to) = {}
         \/ m \in Matches(dd, at, text, lo, hi, from, to)
  BY Zenon DEF LookupLongest

\* The search always has an answer, if only the one for no match.
LEMMA LookupDefined ==
  ASSUME NEW dd, NEW at, NEW text, NEW lo \in Int, NEW hi \in Int, NEW from \in Int, NEW to \in Int
  PROVE  LookupLongest(dd, at, text, lo, hi, from, to) # {}
<1> DEFINE found == Matches(dd, at, text, lo, hi, from, to)
           L == {m.length : m \in found}
<1>1. CASE found = {}
  BY <1>1, Zenon DEF LookupLongest
<1>2. CASE found # {}
  <2>1. L \in SUBSET Int /\ L # {} /\ \A x \in L : x <= hi
    BY <1>2 DEF Matches
  <2>2. PICK x \in L : \A y \in L : y <= x
    <3> HIDE DEF L
    <3> QED
      BY <2>1, GreatestExists, Zenon
  <2>3. PICK m \in found : m.length = x
    BY Zenon
  <2>4. \A o \in found : o.length <= m.length
    BY <2>2, <2>3, Zenon
  <2> QED
    BY <1>2, <2>4, Zenon DEF LookupLongest
<1> QED
  BY <1>1, <1>2, Zenon

\* findBackRef returns a reference to equal bytes within its window or in the
\* dictionary, or -1 as the length.
LEMMA FindSound ==
  ASSUME NEW dd \in Seq(Byte), NEW at \in 0..(Len(dd)-1), NEW bType \in BackrefTypes,
         NEW minLen \in {-1, 1}, NEW m \in findBackRef(dd, at, bType, minLen)
  PROVE  /\ m.address \in Int /\ m.length \in Int
         /\ m.length # -1 => RefersTo(dd, backref(bType, m), at)
<1> DEFINE minLength == IF minLen = -1 THEN bType.nbBytesBackRef ELSE minLen
           longest == IF at + maxLength > Len(dd) THEN Len(dd) - at ELSE maxLength
           windowStart == IF at > bType.maxAddress THEN at - bType.maxAddress ELSE 0
           found == LookupLongest(dd, at, dd, minLength, longest, windowStart, at)
           inData == {[o EXCEPT !.address = @ + bType.DictLen] : o \in found}
           inDict == LookupLongest(dd, at, dictData, minLength, longest, 0, dictLen)
<1>1. /\ minLength \in Nat \ {0}
      /\ longest \in 1..maxLength /\ at + longest <= Len(dd)
      /\ windowStart \in 0..at /\ at - windowStart <= bType.maxAddress
      /\ maxLength \in Nat /\ bType.DictLen \in Nat /\ dictLen \in Nat /\ at \in Nat
  BY TypeFacts, DictFacts, SMTT(60)
<1>2. m = NoMatch \/ m \in inData \/ (bType.Delimiter # SymbolShort /\ m \in inDict)
  BY Zenon DEF findBackRef
<1>3. bType.Delimiter # SymbolShort => bType = NewDynamicBackrefType
  BY DEF BackrefTypes, NewShortBackrefType, newBackRefType
<1>4. /\ minLength \in Int /\ longest \in Int /\ windowStart \in Int /\ Len(dd) \in Int
      /\ 1 <= minLength /\ longest <= maxLength /\ at + longest <= Len(dd)
      /\ 0 <= windowStart /\ at - windowStart <= bType.maxAddress
      /\ maxLength \in Int /\ at \in Int /\ bType.maxAddress \in Int
  BY <1>1, TypeFacts
<1> HIDE DEF minLength, longest, windowStart
<1>5. CASE m = NoMatch
  BY <1>5 DEF NoMatch
<1>6. CASE m \in inData
  <2>1. PICK o \in found : m = [o EXCEPT !.address = @ + bType.DictLen]
    BY <1>6, Zenon
  <2>2. CASE o = NoMatch
    BY <1>1, <2>1, <2>2, SMTT(60) DEF NoMatch
  <2>3. CASE o \in Matches(dd, at, dd, minLength, longest, windowStart, at)
    <3>1. /\ o.address \in windowStart..(at-1) /\ o.length \in minLength..longest
          /\ Occurs(dd, at, o.length, dd, o.address)
          /\ m.address = o.address + bType.DictLen /\ m.length = o.length
      BY <2>1, <2>3, Zenon DEF Matches
    <3> HIDE DEF found, inData, inDict
    <3>2. o.length \in minLength..longest /\ o.address \in windowStart..(at-1)
      BY <3>1, Zenon
    <3>a. /\ o.length \in Int /\ minLength <= o.length /\ o.length <= longest
          /\ o.address \in Int /\ windowStart <= o.address /\ o.address <= at - 1
      BY <1>4, <3>2
    <3>b. o.length \in 1..maxLength /\ at + o.length <= Len(dd)
      <4>1. 1 <= o.length /\ o.length <= maxLength
        BY <1>4, <3>a, SMTT(30)
      <4>2. at + o.length <= at + longest
        BY <1>4, <3>a, SMTT(60)
      <4> QED
        BY <1>4, <3>a, <4>1, <4>2, SMTT(60)
    <3>3. m.length \in 1..maxLength
      BY <3>1, <3>b, Zenon
    <3>4. at + m.length <= Len(dd)
      BY <3>1, <3>b, Zenon
    <3>5. /\ o.address \in 0..(at-1) /\ at - o.address <= bType.maxAddress
      BY <1>4, <3>a, SMTT(60)
    <3>6. m.address \in Int
      <4>1. o.address \in Int /\ bType.DictLen \in Int
        BY <1>1, <3>a
      <4>2. o.address + bType.DictLen \in Int
        BY <4>1
      <4> QED
        BY <3>1, <4>2, Zenon
    <3>7. /\ m.address = o.address + bType.DictLen
          /\ Occurs(dd, at, m.length, dd, o.address)
      BY <3>1, Zenon
    <3> QED
      BY <3>3, <3>4, <3>5, <3>6, <3>7, SMTT(60) DEF RefersTo, backref
  <2> QED
    BY <1>1, <2>2, <2>3, LookupSound
<1>7. CASE bType.Delimiter # SymbolShort /\ m \in inDict
  <2>1. CASE m = NoMatch
    BY <2>1 DEF NoMatch
  <2>2. CASE m \in Matches(dd, at, dictData, minLength, longest, 0, dictLen)
    <3>1. /\ m.address \in 0..(dictLen-1) /\ m.length \in minLength..longest
          /\ Occurs(dd, at, m.length, dictData, m.address)
      BY <2>2, Zenon DEF Matches
    <3>2. m.length \in minLength..longest /\ m.address \in Int
      BY <3>1
    <3>3. m.length \in 1..maxLength
      BY <1>4, <3>2, SMTT(60)
    <3>4. at + m.length <= Len(dd)
      BY <1>4, <3>2
    <3> QED
      BY <1>3, <1>7, <3>1, <3>2, <3>3, <3>4 DEF RefersTo, backref
  <2> QED
    BY <1>1, <1>7, <2>1, <2>2, LookupSound
<1> QED
  BY <1>2, <1>5, <1>6, <1>7, Zenon

\* A reserved symbol is found at least in the dictionary.
LEMMA FindReserved ==
  ASSUME NEW dd \in Seq(Byte), NEW at \in 0..(Len(dd)-1), ~ canEncodeSymbol(At(dd, at)),
         NEW m \in findBackRef(dd, at, NewDynamicBackrefType, 1)
  PROVE  m.length # -1
<1> DEFINE bType == NewDynamicBackrefType
           longest == IF at + maxLength > Len(dd) THEN Len(dd) - at ELSE maxLength
           windowStart == IF at > bType.maxAddress THEN at - bType.maxAddress ELSE 0
           found == LookupLongest(dd, at, dd, 1, longest, windowStart, at)
           inData == {[o EXCEPT !.address = @ + bType.DictLen] : o \in found}
           inDict == LookupLongest(dd, at, dictData, 1, longest, 0, dictLen)
<1>1. longest \in Nat \ {0} /\ dictLen \in Nat
  BY TypeFacts, DictFacts
<1>2. bType.Delimiter # SymbolShort
  BY DEF NewDynamicBackrefType, newBackRefType, SymbolDynamic, SymbolShort
<1>3. ~ (1 > longest)
  BY <1>1
<1>4. findBackRef(dd, at, bType, 1) =
        {o \in inData : o.length = longest \/ \A e \in inDict : e.length <= o.length}
        \cup {e \in inDict : \A o \in inData : o.length < longest /\ e.length > o.length}
  BY <1>2, <1>3 DEF findBackRef
<1> HIDE DEF bType, longest, windowStart
<1>5. PICK k \in 0..(dictLen-1) : At(dictData, k) = At(dd, at)
  BY DictFacts, Zenon DEF canEncodeSymbol
<1>6. [address |-> k, length |-> 1] \in Matches(dd, at, dictData, 1, longest, 0, dictLen)
  <2>1. Occurs(dd, at, 1, dictData, k)
    <3>1. k + 1 <= Len(dictData)
      BY <1>1 DEF dictLen
    <3>2. k + 0 = k /\ at + 0 = at /\ 0..(1-1) = {0}
      OBVIOUS
    <3> QED
      BY <1>5, <3>1, <3>2, Zenon DEF Occurs
  <2>2. 1 \in 1..longest
    BY <1>1
  <2> QED
    BY <2>1, <2>2, Zenon DEF Matches
<1>7. \A e \in inDict : e.length \in Int /\ e.length >= 1
  <2> TAKE e \in inDict
  <2>1. e \in Matches(dd, at, dictData, 1, longest, 0, dictLen)
    BY <1>1, <1>6, LookupSound
  <2> QED
    BY <2>1 DEF Matches
<1>8. PICK e \in inDict : TRUE
  BY <1>1, LookupDefined
<1> HIDE DEF inDict, inData
<1>9. CASE m \in inData /\ (m.length = longest \/ \A f \in inDict : f.length <= m.length)
  <2>1. e.length \in Int /\ e.length >= 1
    BY <1>7, <1>8, Zenon
  <2> SUFFICES ASSUME m.length = -1 PROVE FALSE
    BY Zenon
  <2>2. m.length # longest
    BY <1>1
  <2>3. e.length <= -1
    BY <1>9, <2>2, Zenon
  <2> QED
    BY <2>1, <2>3
<1>10. CASE m \in inDict
  <2>1. m.length \in Int /\ m.length >= 1
    BY <1>7, <1>10, Zenon
  <2> QED
    BY <2>1
<1>11. m \in findBackRef(dd, at, bType, 1)
  BY Zenon DEF bType
<1> QED
  BY <1>4, <1>9, <1>10, <1>11, Zenon

\* What bestBackref computes: a reference to equal bytes, or one of length -1,
\* and the latter never at a reserved symbol.
LEMMA BestSound ==
  ASSUME NEW dd \in Seq(Byte), NEW at \in 0..(Len(dd)-1), NEW b \in BestAt(dd, at)
  PROVE  /\ b \in Backref
         /\ b.length # -1 => RefersTo(dd, b, at)
         /\ ~ canEncodeSymbol(At(dd, at)) => b.length # -1
<1> DEFINE minLen == IF canEncodeSymbol(At(dd, at)) THEN -1 ELSE 1
           refs(t) == {backref(t, m) : m \in findBackRef(dd, at, t, minLen)}
<1>1. \/ b \in refs(NewShortBackrefType) /\ b.length # -1
      \/ b \in refs(NewDynamicBackrefType)
  BY Zenon DEF BestAt
<1>2. \E t \in BackrefTypes : \E m \in findBackRef(dd, at, t, minLen) : b = backref(t, m)
  BY <1>1, Zenon DEF BackrefTypes
<1>3. minLen \in {-1, 1}
  BY Zenon
<1>4. b \in Backref /\ (b.length # -1 => RefersTo(dd, b, at))
  <2>0. PICK t \in BackrefTypes : \E m \in findBackRef(dd, at, t, minLen) : b = backref(t, m)
    BY <1>2, Zenon
  <2>1. PICK m \in findBackRef(dd, at, t, minLen) : b = backref(t, m)
    BY <2>0, Zenon
  <2> HIDE DEF minLen
  <2>2. /\ m.address \in Int /\ m.length \in Int
        /\ m.length # -1 => RefersTo(dd, backref(t, m), at)
    BY <1>3, <2>1, FindSound, Zenon
  <2> QED
    BY <2>1, <2>2, Zenon DEF backref, Backref
<1>5. ASSUME ~ canEncodeSymbol(At(dd, at)), b \in refs(NewDynamicBackrefType)
      PROVE  b.length # -1
  <2>1. PICK m \in findBackRef(dd, at, NewDynamicBackrefType, 1) :
          b = backref(NewDynamicBackrefType, m)
    BY <1>5, Zenon
  <2> QED
    BY <1>5, <2>1, FindReserved, Zenon DEF backref
<1> QED
  BY <1>1, <1>4, <1>5, Zenon

-----------------------------------------------------------------------------
(* What is written for a reference. *)

\* ph is written for data[s:e); its fields hold it, and it stands for that piece
\* if the dictionary is in reach.
Piece(data, ph, s, e) ==
  /\ s \in Nat /\ s < e /\ e <= Len(data)
  /\ Fits(ph)
  /\ InReach(s + 1) => StandsFor(data, ph, s, e)

\* A reference to equal bytes, once written, stands for these bytes: neither of
\* its two fields is cut.  For the dictionary this needs InReach.
LEMMA WriteToSound ==
  ASSUME d \in Seq(Byte), Len(d) <= MaxInputSize,
         NEW at \in 0..(Len(d)-1), NEW b, RefersTo(d, b, at)
  PROVE  writeTo(b, at) \in Phrase /\ Piece(d, writeTo(b, at), at, at + b.length)
<1> DEFINE ph == writeTo(b, at)
           offset == at + b.bType.DictLen - b.address - 1
<1>1. /\ maxLength \in Nat /\ b.length \in Int /\ 1 <= b.length /\ b.length <= maxLength
      /\ at \in Nat /\ Len(d) \in Nat /\ at + b.length <= Len(d)
      /\ b.bType.maxAddress \in Nat /\ b.bType.DictLen \in Nat /\ dictLen \in Nat
      /\ b.bType \in BackrefTypes
  <2>1. b.bType \in BackrefTypes /\ b.length \in 1..maxLength /\ at + b.length <= Len(d)
    BY Zenon DEF RefersTo
  <2>2. maxLength \in Nat
    BY TypeFacts, Zenon
  <2>3. b.bType.maxAddress \in Nat /\ b.bType.DictLen \in Nat
    BY <2>1, TypeFacts, Zenon
  <2>4. dictLen \in Nat
    BY DictFacts, Zenon
  <2>5. b.length \in Int /\ 1 <= b.length /\ b.length <= maxLength
    BY <2>1, <2>2
  <2> QED
    BY <2>1, <2>2, <2>3, <2>4, <2>5
<1>2. (b.length - 1) % maxLength = b.length - 1
  <2>1. b.length - 1 \in Nat /\ b.length - 1 < maxLength
    BY <1>1
  <2> QED
    BY <1>1, <2>1, ModSmall, Zenon
<1>3. ph.symbol \in {SymbolShort, SymbolDynamic} /\ ph.length = b.length - 1
  BY <1>1, <1>2, TypeFacts, Zenon DEF writeTo
<1>4. ph.symbol \in Byte /\ ph.length \in Nat
  BY <1>1, <1>3 DEF SymbolShort, SymbolDynamic, Byte
<1>5. ASSUME offset \in Nat, offset < b.bType.maxAddress PROVE ph.address = offset
  BY <1>1, <1>5, ModSmall, Zenon DEF writeTo
<1>6. at \in Nat /\ at < at + b.length /\ at + b.length <= Len(d)
  BY <1>1
<1>7. ASSUME NEW a \in 0..(at-1), b.address = a + b.bType.DictLen,
             at - a <= b.bType.maxAddress, Occurs(d, at, b.length, d, a)
      PROVE  StandsFor(d, ph, at, at + b.length)
  <2>1. offset = at - a - 1 /\ offset \in Nat /\ offset < b.bType.maxAddress
    <3>1. offset = at - a - 1
      BY <1>1, <1>7, SMTT(30)
    <3>2. at - a - 1 \in Nat /\ at - a - 1 < b.bType.maxAddress
      BY <1>1, <1>7
    <3> QED
      BY <3>1, <3>2, Zenon
  <2>2. ph.address = at - a - 1
    BY <1>5, <2>1, Zenon
  <2>3. ph.address + 1 = at - a /\ ph.address + 1 <= at
    BY <1>1, <2>2
  <2>4. ASSUME NEW k \in at..((at + b.length) - 1)
        PROVE  At(d, k) = At(d, k - (ph.address + 1))
    <3>1. k - at \in 0..(b.length - 1)
      BY <1>1
    <3>2. k \in Int /\ at \in Int /\ a \in Int
      BY <1>1
    <3>3. k - (ph.address + 1) = k - (at - a)
      BY <2>3, Zenon
    <3>4. a + (k - at) = k - (at - a) /\ at + (k - at) = k
      BY <3>2
    <3>5. At(d, a + (k - at)) = At(d, at + (k - at))
      BY <1>7, <3>1, Zenon DEF Occurs
    <3> QED
      BY <3>3, <3>4, <3>5, Zenon
  <2>5. ph.length + 1 = (at + b.length) - at
    BY <1>1, <1>3
  <2>6. \A k \in at..((at + b.length) - 1) : At(d, k) = At(d, k - (ph.address + 1))
    BY <2>4, Zenon
  <2>7. CopyOf(d, ph, at, at + b.length)
    BY <1>3, <2>3, <2>5, <2>6, Zenon DEF CopyOf
  <2> QED
    BY <1>6, <2>7, Zenon DEF StandsFor
<1>8. ASSUME InReach(at + 1), b.bType = NewDynamicBackrefType, b.address \in 0..(dictLen-1),
             Occurs(d, at, b.length, dictData, b.address)
      PROVE  StandsFor(d, ph, at, at + b.length)
  <2>1. /\ b.bType.DictLen = dictLen /\ b.bType.maxAddress = 2^DynAddrBits
        /\ ph.symbol = SymbolDynamic
    BY <1>8 DEF NewDynamicBackrefType, newBackRefType, writeTo
  <2>2. offset \in Nat /\ offset < b.bType.maxAddress
    <3>2. offset = at + dictLen - b.address - 1
      BY <2>1, Zenon
    <3>4. (at + 1) + dictLen <= b.bType.maxAddress + 1
      BY <1>8, <2>1, Zenon DEF InReach
    <3>5. b.address \in Int /\ 0 <= b.address /\ b.address <= dictLen - 1
      BY <1>1, <1>8
    <3>6. at + dictLen - b.address - 1 \in Nat
      BY <1>1, <3>5, SMTT(30)
    <3>7. at + dictLen - b.address - 1 < b.bType.maxAddress
      <4> DEFINE B == b.address
                 M == b.bType.maxAddress
      <4>1. M \in Int /\ dictLen \in Int /\ at \in Int /\ B \in Int
        BY <1>1, <2>1, <3>5
      <4> HIDE DEF B, M
      <4>2. 0 <= B /\ (at + 1) + dictLen <= M + 1
        BY <3>4, <3>5, Zenon DEF B, M
      <4>3. at + dictLen <= M
        BY <4>1, <4>2
      <4>4. at + dictLen - B - 1 < M
        BY <4>1, <4>2, <4>3
      <4> QED
        BY <4>4, Zenon DEF B, M
    <3> QED
      BY <3>2, <3>6, <3>7, Zenon
  <2>3. ph.address = offset
    BY <1>5, <2>1, <2>2, Zenon
  <2>4. ph.address + 1 = at + (dictLen - b.address)
    BY <1>1, <1>8, <2>1, <2>3
  <2>5. ph.length + 1 = (at + b.length) - at /\ (at + b.length) - at = b.length
    BY <1>1, <1>3, SMTT(30)
  <2> HIDE DEF ph
  <2>6. DictCopyOf(d, ph, at, at + b.length)
    BY <1>8, <2>1, <2>4, <2>5, Zenon DEF DictCopyOf
  <2> QED
    BY <1>6, <2>6, Zenon DEF StandsFor
<1>9. ph \in Phrase
  <2>1. offset \in Int /\ b.bType.maxAddress \in Nat \ {0}
    BY <1>1, TypeFacts, SMTT(60) DEF RefersTo
  <2> HIDE DEF offset
  <2>2. offset % b.bType.maxAddress \in Nat
    BY <2>1
  <2> QED
    BY <1>4, <2>2, Zenon DEF writeTo, Phrase, offset
<1>10. ASSUME InReach(at + 1) PROVE StandsFor(d, ph, at, at + b.length)
  BY <1>7, <1>8, <1>10, Zenon DEF RefersTo
<1>11. Fits(ph)
  <2>1. /\ ~ canEncodeSymbol(ph.symbol) /\ TypeOf(ph.symbol) = b.bType
    <3>1. ph.symbol = b.bType.Delimiter
      BY Zenon DEF writeTo
    <3>2. b.bType \in {NewShortBackrefType, NewDynamicBackrefType}
      BY <1>1, Zenon DEF BackrefTypes
    <3> QED
      BY <3>1, <3>2
      DEF canEncodeSymbol, TypeOf, NewShortBackrefType, NewDynamicBackrefType, newBackRefType,
          SymbolShort, SymbolDynamic
  <2>2. ph.length < maxLength
    BY <1>1, <1>3
  <2>3. offset \in Int /\ b.bType.maxAddress \in Nat \ {0}
    BY <1>1, TypeFacts DEF RefersTo
  <2>4. ph.address < b.bType.maxAddress
    <3>1. ph.address = offset % b.bType.maxAddress
      BY Zenon DEF writeTo
    <3> HIDE DEF offset
    <3> QED
      BY <2>3, <3>1
  <2> HIDE DEF ph
  <2> QED
    BY <2>1, <2>2, <2>4, Zenon DEF Fits
<1> HIDE DEF ph
<1>12. ph \in Phrase /\ Piece(d, ph, at, at + b.length)
  BY <1>6, <1>9, <1>10, <1>11, Zenon DEF Piece
<1> QED
  BY <1>12, Zenon DEF ph

\* A byte that is not reserved, written as it is, stands for itself.
LEMMA LiteralSound ==
  ASSUME d \in Seq(Byte), NEW at \in 0..(Len(d)-1), canEncodeSymbol(At(d, at))
  PROVE  Literal(At(d, at)) \in Phrase /\ Piece(d, Literal(At(d, at)), at, at + 1)
<1>1. At(d, at) \in Byte
  BY DEF At
<1>2. at \in Nat /\ at < at + 1 /\ at + 1 <= Len(d)
  OBVIOUS
<1>3. Fits(Literal(At(d, at)))
  BY <1>1, Zenon DEF Fits, Literal
<1> QED
  BY <1>1, <1>2, <1>3, Zenon DEF Literal, Phrase, Piece, StandsFor, LiteralOf

\* The reference written for a run refers to equal bytes, each to the one before.
LEMMA RunRefSound ==
  ASSUME d \in Seq(Byte), NEW at \in 1..(Len(d)-1), NEW count \in 1..maxLength,
         at + count <= Len(d), \A k \in 0..count : At(d, (at - 1) + k) = At(d, at - 1)
  PROVE  RefersTo(d, RunRef(at, count), at) /\ RunRef(at, count).length = count
<1> DEFINE b == RunRef(at, count)
<1>1. /\ b.bType \in BackrefTypes /\ b.length = count
      /\ b.address = (at - 1) + b.bType.DictLen
  <2>1. maxLength \in Nat /\ dictLen \in Nat
    BY TypeFacts, DictFacts, Zenon
  <2>2. at - 1 = (at - 1) + 0 /\ dictLen + (at - 1) = (at - 1) + dictLen
    BY <2>1
  <2> QED
    BY <2>1, <2>2, ZenonT(60)
    DEF RunRef, backref, BackrefTypes, NewShortBackrefType, NewDynamicBackrefType, newBackRefType
<1>2. Occurs(d, at, count, d, at - 1)
  <2>1. count \in Nat /\ at \in Nat /\ Len(d) \in Nat
    BY TypeFacts
  <2>2. (at - 1) + count <= Len(d)
    BY <2>1
  <2>3. ASSUME NEW k \in 0..(count-1) PROVE At(d, (at - 1) + k) = At(d, at + k)
    <3>1. k \in 0..count /\ k + 1 \in 0..count /\ (at - 1) + (k + 1) = at + k
      BY <2>1
    <3> QED
      BY <3>1, Zenon
  <2> QED
    BY <2>2, <2>3, Zenon DEF Occurs
<1>3. /\ at - 1 \in 0..(at-1) /\ at - (at - 1) = 1 /\ b.bType.maxAddress \in Nat \ {0}
      /\ b.bType.DictLen \in Nat
  BY <1>1, TypeFacts
<1> HIDE DEF b
<1>4. at - (at - 1) <= b.bType.maxAddress /\ b.address \in Int
  <2>1. 1 <= b.bType.maxAddress
    BY <1>3
  <2>2. (at - 1) + b.bType.DictLen \in Int
    BY <1>3
  <2> QED
    BY <1>1, <1>3, <2>1, <2>2, Zenon
<1>5. RefersTo(d, b, at)
  BY <1>1, <1>2, <1>3, <1>4, Zenon DEF RefersTo
<1> QED
  BY <1>1, <1>5, Zenon DEF b

\* So does the reference to a reserved symbol in the dictionary.
LEMMA ReservedRefSound ==
  ASSUME d \in Seq(Byte), NEW at \in 0..(Len(d)-1), NEW idx \in 0..(dictLen-1),
         IsReservedIdx(At(d, at), idx)
  PROVE  RefersTo(d, backref(NewDynamicBackrefType, [address |-> idx, length |-> 1]), at)
<1>1. At(dictData, idx) = At(d, at)
  BY Zenon DEF IsReservedIdx
<1>2. dictLen \in Nat /\ dictLen = Len(dictData) /\ maxLength \in Nat \ {0}
  BY DictFacts, TypeFacts, Zenon DEF dictLen
<1>3. Occurs(d, at, 1, dictData, idx)
  <2>1. idx + 1 <= Len(dictData) /\ idx + 0 = idx /\ at + 0 = at /\ 0..(1-1) = {0}
    BY <1>2
  <2> QED
    BY <1>1, <2>1, Zenon DEF Occurs
<1>4. 1 \in 1..maxLength /\ at + 1 <= Len(d) /\ idx \in Int
  BY <1>2
<1> QED
  BY <1>3, <1>4, Zenon DEF RefersTo, backref, BackrefTypes

-----------------------------------------------------------------------------
(* The circular buffer. *)

\* Every slot of buffer c is empty or holds what a search would find.
BufferOK(data, c) ==
  /\ c \in [k : Slots, keys : [Slots -> Int], bestBackref : [Slots -> Backref]]
  /\ \A j \in Slots : c.keys[j] # -1 =>
       /\ c.keys[j] \in 0..(Len(data)-1)
       /\ c.bestBackref[j] \in BestAt(data, c.keys[j])

\* bestBackref answers from the buffer what a search would, and leaves the buffer sound.
LEMMA BestBackrefSound ==
  ASSUME d \in Seq(Byte), NEW c, BufferOK(d, c), NEW at \in 0..(Len(d)-1),
         NEW r \in bestBackref(c, at)
  PROVE  r.ref \in BestAt(d, at) /\ BufferOK(d, r.cb)
<1>1. CASE \E j \in Slots : c.keys[j] = at
  <2>1. PICK j \in Slots : c.keys[j] = at /\ r = [ref |-> c.bestBackref[j], cb |-> c]
    BY <1>1, Zenon DEF bestBackref
  <2>2. at # -1
    OBVIOUS
  <2>3. c.bestBackref[j] \in BestAt(d, at)
    BY <2>1, <2>2, Zenon DEF BufferOK
  <2> QED
    BY <2>1, <2>3, Zenon
<1>2. CASE ~ \E j \in Slots : c.keys[j] = at
  <2>1. PICK b \in BestAt(d, at) : r = [ref |-> b, cb |-> push(c, b, at)]
    BY <1>2, Zenon DEF bestBackref
  <2>2. b \in Backref
    BY <2>1, BestSound, Zenon
  <2>3. BufferOK(d, push(c, b, at))
    <3>1. /\ c.k \in Slots /\ c.keys \in [Slots -> Int]
          /\ c.bestBackref \in [Slots -> Backref] /\ at \in Int
      BY DEF BufferOK
    <3>2. (c.k + 1) % 3 \in Slots
      BY <3>1 DEF Slots
    <3>3. push(c, b, at) \in [k : Slots, keys : [Slots -> Int], bestBackref : [Slots -> Backref]]
      BY <2>2, <3>1, <3>2, Zenon DEF push
    <3>4. ASSUME NEW j \in Slots, push(c, b, at).keys[j] # -1
          PROVE  /\ push(c, b, at).keys[j] \in 0..(Len(d)-1)
                 /\ push(c, b, at).bestBackref[j] \in BestAt(d, push(c, b, at).keys[j])
      <4>1. CASE j = c.k
        BY <3>1, <4>1, Zenon DEF push
      <4>2. CASE j # c.k
        <5>1. push(c, b, at).keys[j] = c.keys[j] /\ push(c, b, at).bestBackref[j] = c.bestBackref[j]
          BY <3>1, <4>2, Zenon DEF push
        <5> QED
          BY <3>4, <5>1, Zenon DEF BufferOK
      <4> QED
        BY <4>1, <4>2, Zenon
    <3> QED
      BY <3>3, <3>4, Zenon DEF BufferOK
  <2> QED
    BY <2>1, <2>3, Zenon
<1> QED
  BY <1>1, <1>2, Zenon

\* So does a look-ahead, whether or not the code looks.
LEMMA LookAheadSound ==
  ASSUME d \in Seq(Byte), NEW c, BufferOK(d, c), NEW at, NEW looks \in BOOLEAN,
         looks => at \in 0..(Len(d)-1), NEW r \in lookAhead(c, at, looks)
  PROVE  BufferOK(d, r.cb)
<1>1. CASE looks
  BY <1>1, BestBackrefSound, Zenon DEF lookAhead
<1>2. CASE ~ looks
  BY <1>2 DEF lookAhead
<1> QED
  BY <1>1, <1>2, Zenon

-----------------------------------------------------------------------------
(* The phrases written so far. *)

\* The phrases ss are for consecutive pieces of data[begin:end), cut at st.
Chain(data, ss, st, begin, end) ==
  /\ ss \in Seq(Phrase) /\ st \in Seq(Nat)
  /\ Len(st) = Len(ss) + 1
  /\ st[1] = begin /\ st[Len(st)] = end
  /\ \A n \in DOMAIN ss : Piece(data, ss[n], st[n], st[n+1])

\* If the dictionary is in reach, the phrases of a chain stand for their pieces.
LEMMA ChainStands ==
  ASSUME NEW data \in Seq(Byte), NEW ss, NEW st, NEW b, NEW x, Chain(data, ss, st, b, x),
         InReach(Len(data)), NEW n \in DOMAIN ss
  PROVE  StandsFor(data, ss[n], st[n], st[n+1])
<1>1. /\ Piece(data, ss[n], st[n], st[n+1]) /\ st \in Seq(Nat) /\ ss \in Seq(Phrase)
      /\ Len(st) = Len(ss) + 1
  BY Zenon DEF Chain
<1>2. n + 1 \in DOMAIN st
  BY <1>1
<1>3. st[n] \in Nat /\ st[n+1] \in Nat /\ st[n] < st[n+1] /\ st[n+1] <= Len(data) /\ Len(data) \in Nat
  BY <1>1, <1>2 DEF Piece
<1>4. dictLen \in Nat /\ 2^DynAddrBits \in Nat
  BY DictFacts, TypeFacts, Zenon DEF NewDynamicBackrefType, newBackRefType, BackrefTypes
<1>5. InReach(st[n] + 1)
  BY <1>3, <1>4 DEF InReach
<1> QED
  BY <1>1, <1>5, Zenon DEF Piece

\* A phrase for the next piece extends the chain of phrases.
LEMMA ChainAppend ==
  ASSUME NEW data, NEW ss, NEW st, NEW begin, NEW x,
         Chain(data, ss, st, begin, x),
         NEW p \in Phrase, NEW y \in Nat, Piece(data, p, x, y)
  PROVE  Chain(data, Append(ss, p), Append(st, y), begin, y)
<1> DEFINE ss2 == Append(ss, p)
           st2 == Append(st, y)
<1>1. ss \in Seq(Phrase) /\ st \in Seq(Nat) /\ Len(st) = Len(ss) + 1 /\ st[1] = begin /\ st[Len(st)] = x
  BY Zenon DEF Chain
<1>2. ss2 \in Seq(Phrase) /\ st2 \in Seq(Nat)
  BY <1>1
<1>3. Len(ss2) = Len(ss) + 1 /\ Len(st2) = Len(st) + 1
  BY <1>1
<1>4. st2[1] = begin /\ st2[Len(st2)] = y /\ Len(st2) = Len(ss2) + 1
  BY <1>1, <1>3
<1>5. ASSUME NEW n \in DOMAIN ss2 PROVE Piece(data, ss2[n], st2[n], st2[n+1])
  <2>1. CASE n = Len(ss) + 1
    <3>1. ss2[n] = p /\ st2[n] = x /\ st2[n+1] = y
      BY <1>1, <2>1
    <3> QED
      BY <3>1, Zenon
  <2>2. CASE n # Len(ss) + 1
    <3>1. n \in DOMAIN ss
      BY <1>1, <1>3, <2>2
    <3>2. ss2[n] = ss[n] /\ st2[n] = st[n] /\ st2[n+1] = st[n+1]
      BY <1>1, <3>1
    <3>3. Piece(data, ss[n], st[n], st[n+1])
      BY <3>1, Zenon DEF Chain
    <3> QED
      BY <3>2, <3>3, Zenon
  <2> QED
    BY <2>1, <2>2, Zenon
<1> QED
  BY <1>2, <1>4, <1>5, Zenon DEF Chain

\* A longer input leaves what the phrases stand for as it is.
LEMMA StandsForExtended ==
  ASSUME NEW data \in Seq(Byte), NEW more \in Seq(Byte), NEW ph \in Phrase,
         NEW s \in Nat, NEW e \in Nat, StandsFor(data, ph, s, e)
  PROVE  StandsFor(data \o more, ph, s, e)
<1> DEFINE both == data \o more
<1>1. Len(data) \in Nat /\ Len(both) = Len(data) + Len(more) /\ Len(more) \in Nat
  OBVIOUS
<1>2. s < e /\ e <= Len(data) /\ e <= Len(both)
  BY <1>1 DEF StandsFor
<1>3. \A k \in Int : 0 <= k /\ k < e => At(both, k) = At(data, k)
  <2> SUFFICES ASSUME NEW k \in Int, 0 <= k, k < e PROVE At(both, k) = At(data, k)
    BY Zenon
  <2>1. k + 1 \in 1..Len(data)
    BY <1>1, <1>2
  <2> QED
    BY <2>1 DEF At
<1> HIDE DEF both
<1>4. ASSUME LiteralOf(data, ph, s, e) PROVE LiteralOf(both, ph, s, e)
  BY <1>2, <1>3, <1>4 DEF LiteralOf
<1>5. ASSUME CopyOf(data, ph, s, e) PROVE CopyOf(both, ph, s, e)
  <2>1. ph.address \in Nat
    BY Zenon DEF Phrase
  <2>2. ASSUME NEW k \in s..(e-1)
        PROVE  At(both, k) = At(both, k - (ph.address + 1))
    <3>1. k \in Int /\ 0 <= k /\ k < e
      OBVIOUS
    <3>2. ph.address + 1 <= s
      BY <1>5, Zenon DEF CopyOf
    <3>3. k - (ph.address + 1) \in Int /\ 0 <= k - (ph.address + 1) /\ k - (ph.address + 1) < e
      BY <2>1, <3>1, <3>2
    <3>4. At(data, k) = At(data, k - (ph.address + 1))
      BY <1>5, Zenon DEF CopyOf
    <3> QED
      BY <1>3, <3>1, <3>3, <3>4, Zenon
  <2> QED
    BY <1>5, <2>2, Zenon DEF CopyOf
<1>6. ASSUME DictCopyOf(data, ph, s, e) PROVE DictCopyOf(both, ph, s, e)
  <2>1. PICK a \in 0..(dictLen-1) :
          ph.address + 1 = s + (dictLen - a) /\ Occurs(data, s, e - s, dictData, a)
    BY <1>6, Zenon DEF DictCopyOf
  <2>2. ASSUME NEW k \in 0..((e - s) - 1) PROVE At(dictData, a + k) = At(both, s + k)
    <3>1. s + k \in Int /\ 0 <= s + k /\ s + k < e
      OBVIOUS
    <3>2. At(dictData, a + k) = At(data, s + k)
      BY <2>1, Zenon DEF Occurs
    <3> QED
      BY <1>3, <3>1, <3>2, Zenon
  <2>3. Occurs(both, s, e - s, dictData, a)
    BY <2>1, <2>2, Zenon DEF Occurs
  <2> QED
    BY <1>6, <2>1, <2>3, Zenon DEF DictCopyOf
<1> QED
  BY <1>2, <1>4, <1>5, <1>6, Zenon DEF StandsFor, both

\* So the phrases of a chain are for the same pieces of a longer input.
LEMMA ChainExtended ==
  ASSUME NEW data \in Seq(Byte), NEW more \in Seq(Byte), NEW ss, NEW st, NEW begin, NEW end,
         Chain(data, ss, st, begin, end)
  PROVE  Chain(data \o more, ss, st, begin, end)
<1>1. ASSUME NEW n \in DOMAIN ss PROVE Piece(data \o more, ss[n], st[n], st[n+1])
  <2>1. /\ ss[n] \in Phrase /\ st[n] \in Nat /\ st[n+1] \in Nat
        /\ Piece(data, ss[n], st[n], st[n+1])
    BY SMTT(60) DEF Chain
  <2>2. st[n+1] <= Len(data \o more)
    BY <2>1 DEF Piece
  <2> QED
    BY <2>1, <2>2, StandsForExtended, Zenon DEF Piece
<1> QED
  BY <1>1, Zenon DEF Chain

-----------------------------------------------------------------------------
(* The writer's part of the invariant, and the steps of write. *)

\* Before the first iteration there is no phrase, and the circular buffer is empty.
LEMMA FreshWriter ==
  ASSUME NEW data \in Seq(Byte), NEW begin \in Nat
  PROVE  Chain(data, <<>>, <<begin>>, begin, begin) /\ BufferOK(data, newCircularBuffer)
<1>1. NoBackref \in Backref
  BY DEF NoBackref, backref, Backref, BackrefTypes
<1>2. BufferOK(data, newCircularBuffer)
  BY <1>1 DEF BufferOK, newCircularBuffer, Slots
<1>3. Chain(data, <<>>, <<begin>>, begin, begin)
  BY DEF Chain
<1> QED
  BY <1>2, <1>3, Zenon

\* The phrases are for the input from index begin on, up to i.
WriterInv(begin) ==
  /\ d \in Seq(Byte) /\ Len(d) <= MaxInputSize
  /\ i \in 0..Len(d)
  /\ Chain(d, stream, starts, begin, i)
  /\ BufferOK(d, cb)

\* An iteration that writes one phrase for the next n bytes preserves WriterInv.
LEMMA EmitSound ==
  ASSUME NEW begin, WriterInv(begin), Iteration, NEW p \in Phrase, NEW n \in Nat, Emit(p, n),
         Piece(d, p, i, i + n), BufferOK(d, cb')
  PROVE  WriterInv(begin)'
<1>1. i + n \in Nat /\ i + n <= Len(d)
  BY DEF WriterInv, Piece
<1>2. Chain(d, stream', starts', begin, i')
  BY <1>1, ChainAppend, Zenon DEF WriterInv, Emit
<1>3. i' \in 0..Len(d) /\ d' = d
  BY <1>1 DEF Emit, Iteration, WriterInv
<1> QED
  BY <1>2, <1>3, Zenon DEF WriterInv

\* So does one that writes two phrases for the next n + m bytes.
LEMMA EmitTwoSound ==
  ASSUME NEW begin, WriterInv(begin), Iteration, NEW p \in Phrase, NEW q \in Phrase, NEW n \in Nat, NEW m \in Nat,
         EmitTwo(p, n, q, m), BufferOK(d, cb'),
         Piece(d, p, i, i + n), Piece(d, q, i + n, i + n + m)
  PROVE  WriterInv(begin)'
<1>1. i + n \in Nat /\ i + n + m \in Nat /\ i + n + m <= Len(d)
  BY DEF WriterInv, Piece
<1>2. stream \in Seq(Phrase) /\ starts \in Seq(Nat)
  BY Zenon DEF WriterInv, Chain
<1>3. /\ stream \o <<p, q>> = Append(Append(stream, p), q)
      /\ starts \o <<i + n, i + n + m>> = Append(Append(starts, i + n), i + n + m)
  <2>1. stream \o <<p, q>> = Append(Append(stream, p), q)
    BY <1>2
  <2>2. starts \o <<i + n, i + n + m>> = Append(Append(starts, i + n), i + n + m)
    BY <1>1, <1>2, SMTT(30)
  <2> QED
    BY <2>1, <2>2, Zenon
<1>4. Chain(d, Append(stream, p), Append(starts, i + n), begin, i + n)
  BY <1>1, ChainAppend, Zenon DEF WriterInv
<1>5. Chain(d, Append(Append(stream, p), q), Append(Append(starts, i + n), i + n + m), begin, i + n + m)
  BY <1>1, <1>4, ChainAppend, Zenon
<1>6. Chain(d, stream', starts', begin, i')
  BY <1>3, <1>5, Zenon DEF EmitTwo
<1>7. i' \in 0..Len(d) /\ d' = d
  BY <1>1 DEF EmitTwo, Iteration, WriterInv
<1> QED
  BY <1>6, <1>7, Zenon DEF WriterInv

\* The two ways of writing a long run of one byte preserve WriterInv.
LEMMA RunSteps ==
  ASSUME NEW begin, WriterInv(begin), NEW count \in 1..maxLength,
         WriteRunContinued(count) \/ WriteRun(count)
  PROVE  WriterInv(begin)'
<1>1. /\ Iteration /\ i \in 0..(Len(d)-1) /\ cb' = cb /\ count >= 2
      /\ i + count <= Len(d) /\ \A k \in 0..(count-1) : At(d, i + k) = At(d, i)
      /\ d \in Seq(Byte) /\ Len(d) <= MaxInputSize /\ Len(d) \in Nat
  <2>1. Iteration /\ Count(count) /\ count >= MinRepeatingBytes /\ cb' = cb
    BY Zenon DEF WriteRunContinued, WriteRun, LongRun
  <2>2. count \in Nat /\ count >= 2
    BY <2>1, RunAssumption, TypeFacts
  <2> QED
    BY <2>1, <2>2 DEF WriterInv, Count, Iteration
<1>2. count \in Nat /\ i \in Nat /\ maxLength \in Nat
  BY <1>1, TypeFacts
<1>3. BufferOK(d, cb')
  BY <1>1, Zenon DEF WriterInv
<1>4. CASE WriteRunContinued(count)
  <2>1. i > 0 /\ At(d, i - 1) = At(d, i)
    BY <1>4, Zenon DEF WriteRunContinued
  <2>2. i \in 1..(Len(d)-1)
    BY <1>1, <2>1
  <2>3. ASSUME NEW k \in 0..count PROVE At(d, (i - 1) + k) = At(d, i - 1)
    <3>1. CASE k = 0
      BY <1>2, <3>1
    <3>2. CASE k # 0
      <4>1. k - 1 \in 0..(count-1) /\ i + (k - 1) = (i - 1) + k
        BY <1>2, <3>2
      <4> QED
        BY <1>1, <2>1, <4>1, Zenon
    <3> QED
      BY <3>1, <3>2, Zenon
  <2>4. RefersTo(d, RunRef(i, count), i) /\ RunRef(i, count).length = count
    BY <1>1, <2>2, <2>3, RunRefSound, Zenon
  <2>5. /\ writeTo(RunRef(i, count), i) \in Phrase
        /\ Piece(d, writeTo(RunRef(i, count), i), i, i + count)
    BY <1>1, <2>4, WriteToSound, Zenon
  <2>6. Emit(writeTo(RunRef(i, count), i), count)
    BY <1>4, Zenon DEF WriteRunContinued
  <2> QED
    BY <1>1, <1>2, <1>3, <2>5, <2>6, EmitSound, Zenon
<1>5. CASE WriteRun(count)
  <2>1. PICK p \in FirstOfRun :
          EmitTwo(p, 1, writeTo(RunRef(i + 1, count - 1), i + 1), count - 1)
    BY <1>5, Zenon DEF WriteRun
  <2>2. p \in Phrase /\ Piece(d, p, i, i + 1)
    <3>1. CASE canEncodeSymbol(At(d, i))
      BY <1>1, <2>1, <3>1, LiteralSound, Zenon DEF FirstOfRun
    <3>2. CASE ~ canEncodeSymbol(At(d, i))
      <4>1. PICK idx \in 0..(dictLen-1) :
              /\ IsReservedIdx(At(d, i), idx)
              /\ p = writeTo(backref(NewDynamicBackrefType, [address |-> idx, length |-> 1]), i)
        BY <2>1, <3>2, Zenon DEF FirstOfRun
      <4> DEFINE b == backref(NewDynamicBackrefType, [address |-> idx, length |-> 1])
      <4>2. RefersTo(d, b, i)
        BY <1>1, <4>1, ReservedRefSound, Zenon
      <4>3. b.length = 1
        BY Zenon DEF backref
      <4> HIDE DEF b
      <4>4. writeTo(b, i) \in Phrase /\ Piece(d, writeTo(b, i), i, i + 1)
        BY <1>1, <4>2, <4>3, WriteToSound, Zenon
      <4> QED
        BY <4>1, <4>4, Zenon DEF b
    <3> QED
      BY <3>1, <3>2, Zenon
  <2>3. i + 1 \in 1..(Len(d)-1) /\ count - 1 \in 1..maxLength /\ (i + 1) + (count - 1) <= Len(d)
    BY <1>1, <1>2
  <2>4. ASSUME NEW k \in 0..(count-1) PROVE At(d, ((i + 1) - 1) + k) = At(d, (i + 1) - 1)
    <3>1. (i + 1) - 1 = i
      BY <1>2
    <3> QED
      BY <1>1, <3>1, Zenon
  <2>5. /\ RefersTo(d, RunRef(i + 1, count - 1), i + 1)
        /\ RunRef(i + 1, count - 1).length = count - 1
    BY <1>1, <2>3, <2>4, RunRefSound, Zenon
  <2>6. i + 1 \in 0..(Len(d)-1)
    BY <2>3
  <2>7. /\ writeTo(RunRef(i + 1, count - 1), i + 1) \in Phrase
        /\ Piece(d, writeTo(RunRef(i + 1, count - 1), i + 1), i + 1, (i + 1) + (count - 1))
    BY <1>1, <2>5, <2>6, WriteToSound, Zenon
  <2>8. count - 1 \in Nat /\ 1 \in Nat
    BY <1>1, <1>2
  <2> QED
    BY <1>1, <1>3, <2>1, <2>2, <2>7, <2>8, EmitTwoSound, ZenonT(60)
<1> QED
  BY <1>4, <1>5, Zenon

\* What bestBackref returns can be written, unless its length is -1.
LEMMA BestWritten ==
  ASSUME NEW begin, WriterInv(begin), NEW at \in 0..(Len(d)-1), NEW b \in BestAt(d, at), b.length # -1
  PROVE  /\ b.length \in Nat
         /\ writeTo(b, at) \in Phrase
         /\ Piece(d, writeTo(b, at), at, at + b.length)
<1>1. d \in Seq(Byte) /\ Len(d) <= MaxInputSize
  BY Zenon DEF WriterInv
<1>2. RefersTo(d, b, at)
  BY <1>1, BestSound, Zenon
<1>3. b.length \in Nat
  BY <1>2, TypeFacts, SMTT(60) DEF RefersTo
<1> QED
  BY <1>1, <1>2, <1>3, WriteToSound, Zenon

\* What every iteration that searches starts from: the type of the writer's
\* state, and what bestBackref and the two look-aheads leave in the buffer.
LEMMA SearchFacts ==
  ASSUME NEW begin, WriterInv(begin), Iteration
  PROVE  /\ d \in Seq(Byte) /\ Len(d) \in Nat /\ i \in 0..(Len(d)-1)
         /\ \A best \in bestBackref(cb, i) : best.ref \in BestAt(d, i) /\ BufferOK(d, best.cb)
         /\ \A c : BufferOK(d, c) => \A r \in lookAhead1(c) : BufferOK(d, r.cb)
         /\ \A c : BufferOK(d, c) => \A r \in lookAhead2(c) : BufferOK(d, r.cb)
<1>1. d \in Seq(Byte) /\ Len(d) \in Nat /\ i \in 0..(Len(d)-1) /\ BufferOK(d, cb)
  BY DEF WriterInv, Iteration
<1>2. \A best \in bestBackref(cb, i) : best.ref \in BestAt(d, i) /\ BufferOK(d, best.cb)
  BY <1>1, BestBackrefSound, Zenon
<1>3. ASSUME NEW c, BufferOK(d, c), NEW r \in lookAhead1(c) PROVE BufferOK(d, r.cb)
  <2> DEFINE looks == i + 1 < Len(d)
  <2>1. looks => i + 1 \in 0..(Len(d)-1)
    BY <1>1
  <2>2. looks \in BOOLEAN
    BY <1>1
  <2>3. r \in lookAhead(c, i + 1, looks)
    BY <1>3, Zenon DEF lookAhead1
  <2> HIDE DEF looks
  <2> QED
    BY <1>1, <1>3, <2>1, <2>2, <2>3, LookAheadSound, Zenon
<1>4. ASSUME NEW c, BufferOK(d, c), NEW r \in lookAhead2(c) PROVE BufferOK(d, r.cb)
  <2> DEFINE looks == i + 2 < Len(d) /\ canEncodeSymbol(At(d, i + 1))
  <2>1. looks => i + 2 \in 0..(Len(d)-1)
    BY <1>1
  <2>2. looks \in BOOLEAN
    BY Zenon DEF canEncodeSymbol
  <2>3. r \in lookAhead(c, i + 2, looks)
    BY <1>4, Zenon DEF lookAhead2
  <2> HIDE DEF looks
  <2> QED
    BY <1>1, <1>4, <2>1, <2>2, <2>3, LookAheadSound, Zenon
<1> QED
  BY <1>1, <1>2, <1>3, <1>4, Zenon

\* A step that writes the best reference: at a reserved byte, or when no
\* look-ahead is better.
LEMMA BestStep ==
  ASSUME NEW begin, WriterInv(begin), Iteration, NEW b \in BestAt(d, i), b.length # -1,
         Emit(writeTo(b, i), b.length), BufferOK(d, cb')
  PROVE  WriterInv(begin)'
<1>1. d \in Seq(Byte) /\ Len(d) \in Nat /\ Len(d) <= MaxInputSize /\ i \in 0..(Len(d)-1)
  BY DEF WriterInv, Iteration
<1>2. /\ b.length \in Nat
      /\ writeTo(b, i) \in Phrase
      /\ Piece(d, writeTo(b, i), i, i + b.length)
  BY <1>1, BestWritten, Zenon
<1> QED
  BY <1>2, EmitSound, Zenon

\* A step that writes the next byte as a literal.
LEMMA LiteralStep ==
  ASSUME NEW begin, WriterInv(begin), Iteration, canEncodeSymbol(At(d, i)), BufferOK(d, cb'),
         Emit(Literal(At(d, i)), 1)
  PROVE  WriterInv(begin)'
<1>1. d \in Seq(Byte) /\ Len(d) \in Nat /\ i \in 0..(Len(d)-1)
  BY DEF WriterInv, Iteration
<1> QED
  BY <1>1, LiteralSound, EmitSound, Zenon

\* Two literals are written because the reference two bytes ahead is the best:
\* there are two bytes to write, and the second is not a reserved one.
LEMMA LookedTwoAhead ==
  ASSUME NEW begin, WriterInv(begin), WriteLiteralsBetterAt2
  PROVE  /\ i + 2 < Len(d) /\ canEncodeSymbol(At(d, i + 1))
         /\ BufferOK(d, cb')
<1>1. Iteration
  BY Zenon DEF WriteLiteralsBetterAt2, NoLongRun
<1>2. d \in Seq(Byte) /\ Len(d) \in Nat /\ i \in 0..(Len(d)-1)
  BY <1>1, SearchFacts, Zenon
<1>3. PICK best \in bestBackref(cb, i) : \E next \in lookAhead1(best.cb) :
      \E third \in lookAhead2(next.cb) :
        /\ savings(best.ref) >= 0
        /\ savings(next.ref) <= savings(best.ref) + 1
        /\ savings(third.ref) > savings(best.ref) + 2
        /\ cb' = third.cb
  BY Zenon DEF WriteLiteralsBetterAt2
<1>4. PICK next \in lookAhead1(best.cb) : \E third \in lookAhead2(next.cb) :
        savings(third.ref) > savings(best.ref) + 2 /\ cb' = third.cb
  BY <1>3, Zenon
<1>5. BufferOK(d, cb')
  BY <1>1, <1>4, SearchFacts
<1>6. i + 2 < Len(d) /\ canEncodeSymbol(At(d, i + 1))
  \* else there is no third reference: its savings are MinInt
  <2> SUFFICES ASSUME ~ (i + 2 < Len(d) /\ canEncodeSymbol(At(d, i + 1))) PROVE FALSE
    OBVIOUS
  <2>1. PICK third \in lookAhead2(next.cb) : savings(third.ref) > savings(best.ref) + 2
    BY <1>4
  <2>2. third.ref = backref(NewDynamicBackrefType, NoMatch)
    BY <2>1 DEF lookAhead2, lookAhead
  <2>3. savings(third.ref) = MinInt
    BY <2>2 DEF backref, NoMatch, savings
  <2>4. best.ref \in Backref
    <3>1. best.ref \in BestAt(d, i)
      BY <1>1, SearchFacts
    <3> QED
      BY <1>2, <3>1, BestSound
  <2>5. best.ref.length \in Int /\ best.ref.bType.NbBitsBackRef \in Nat
    BY <2>4, TypeFacts DEF Backref
  <2>6. savings(best.ref) \in Int
    BY <2>5 DEF savings, MinInt
  <2>7. savings(best.ref) >= 0
    BY <1>3
  <2> QED
    BY <2>1, <2>3, <2>6, <2>7 DEF MinInt
<1> QED
  BY <1>5, <1>6, Zenon

\* The step that writes two literals preserves WriterInv.
LEMMA TwoLiteralsStep ==
  ASSUME NEW begin, WriterInv(begin), WriteLiteralsBetterAt2
  PROVE  WriterInv(begin)'
<1>1. Iteration
  BY DEF WriteLiteralsBetterAt2, NoLongRun
<1>2. d \in Seq(Byte) /\ Len(d) \in Nat /\ i \in 0..(Len(d)-1)
  BY <1>1, SearchFacts
<1>3. i + 2 < Len(d) /\ canEncodeSymbol(At(d, i + 1)) /\ BufferOK(d, cb')
  BY LookedTwoAhead
<1>4. i + 1 \in 0..(Len(d)-1) /\ 1 \in Nat
  BY <1>2, <1>3
<1>5. canEncodeSymbol(At(d, i)) /\ EmitTwo(Literal(At(d, i)), 1, Literal(At(d, i + 1)), 1)
  BY DEF WriteLiteralsBetterAt2
<1>6. /\ Literal(At(d, i)) \in Phrase /\ Literal(At(d, i + 1)) \in Phrase
      /\ Piece(d, Literal(At(d, i)), i, i + 1)
      /\ Piece(d, Literal(At(d, i + 1)), i + 1, i + 1 + 1)
  BY <1>2, <1>3, <1>4, <1>5, LiteralSound
<1> QED
  BY <1>1, <1>3, <1>4, <1>5, <1>6, EmitTwoSound, SMTT(60)

\* Every iteration of write that searches for a reference preserves WriterInv.
LEMMA SearchSteps ==
  ASSUME NEW begin, WriterInv(begin),
         \/ WriteReserved \/ WriteLiteral \/ WriteLiteralBetterAt1
         \/ WriteLiteralsBetterAt2 \/ WriteBackref
  PROVE  WriterInv(begin)'
<1>1. Iteration
  BY Zenon DEF WriteReserved, WriteLiteral, WriteLiteralBetterAt1, WriteLiteralsBetterAt2,
         WriteBackref, NoLongRun
<1>2. CASE WriteReserved
  <2>1. PICK best \in bestBackref(cb, i) :
          Emit(writeTo(best.ref, i), best.ref.length) /\ cb' = best.cb
    BY <1>2 DEF WriteReserved
  <2>2. best.ref \in BestAt(d, i) /\ BufferOK(d, cb')
    BY <1>1, <2>1, SearchFacts
  <2>3. d \in Seq(Byte) /\ i \in 0..(Len(d)-1)
    BY <1>1, SearchFacts, SMTT(60)
  <2>4. best.ref.length # -1
    BY <1>2, <2>2, <2>3, BestSound DEF WriteReserved
  <2> QED
    BY <1>1, <2>1, <2>2, <2>4, BestStep
<1>3. CASE WriteLiteral
  <2>1. canEncodeSymbol(At(d, i)) /\ Emit(Literal(At(d, i)), 1)
    BY <1>3 DEF WriteLiteral
  <2>2. \E best \in bestBackref(cb, i) : cb' = best.cb
    BY <1>3 DEF WriteLiteral
  <2>3. BufferOK(d, cb')
    BY <1>1, <2>2, SearchFacts, SMTT(60)
  <2> QED
    BY <1>1, <2>1, <2>3, LiteralStep
<1>4. CASE WriteLiteralBetterAt1
  <2>1. canEncodeSymbol(At(d, i)) /\ Emit(Literal(At(d, i)), 1)
    BY <1>4 DEF WriteLiteralBetterAt1
  <2>2. \E best \in bestBackref(cb, i) : \E next \in lookAhead1(best.cb) : cb' = next.cb
    BY <1>4 DEF WriteLiteralBetterAt1
  <2>3. BufferOK(d, cb')
    BY <1>1, <2>2, SearchFacts
  <2> QED
    BY <1>1, <2>1, <2>3, LiteralStep
<1>5. CASE WriteLiteralsBetterAt2
  BY <1>5, TwoLiteralsStep
<1>6. CASE WriteBackref
  <2>1. PICK best \in bestBackref(cb, i) :
          /\ savings(best.ref) >= 0
          /\ Emit(writeTo(best.ref, i), best.ref.length)
          /\ \E next \in lookAhead1(best.cb) : \E third \in lookAhead2(next.cb) : cb' = third.cb
    BY <1>6 DEF WriteBackref
  <2>2. best.ref \in BestAt(d, i) /\ BufferOK(d, cb')
    BY <1>1, <2>1, SearchFacts, SMTT(60)
  <2>3. best.ref.length # -1
    BY <2>1 DEF savings, MinInt
  <2> QED
    BY <1>1, <2>1, <2>2, <2>3, BestStep, SMTT(30)
<1> QED
  BY <1>2, <1>3, <1>4, <1>5, <1>6
=============================================================================
