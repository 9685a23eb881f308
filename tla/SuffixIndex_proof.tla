-------------------------- MODULE SuffixIndex_proof --------------------------
(***************************************************************************)
(* LookupLongest keeps the contract by which Lzss uses it, for every text, *)
(* every pattern and every array that is the suffix array of the text.     *)
(***************************************************************************)
EXTENDS SuffixIndex, WriteLoop_proof

-----------------------------------------------------------------------------
(* sort.Search. *)

\* f is false below t, and true from t on.
Turns(f, n, t) == \A j \in 0..(n-1) : f[j] <=> t <= j

\* The recursion of Search, and what it comes to when f turns at t.
Bisect(b, f, p) ==
  LET lo == p[1]
      hi == p[2]
      h == (lo + hi) \div 2
  IN  IF lo >= hi THEN lo ELSE IF f[h] THEN b[<<lo, h>>] ELSE b[<<h + 1, hi>>]

Bisects(b, n, f) == b = [p \in (0..n) \X (0..n) |-> Bisect(b, f, p)]

Clamp(t, lo, hi) == IF lo >= hi \/ t <= lo THEN lo ELSE IF t >= hi THEN hi ELSE t

\* b is right on the two halves of [lo, hi).
RightBelow(b, n, t, lo, hi) ==
  LET h == (lo + hi) \div 2
  IN  /\ lo \in 0..n /\ hi \in 0..n
      /\ lo < hi => b[<<lo, h>>] = Clamp(t, lo, h) /\ b[<<h + 1, hi>>] = Clamp(t, h + 1, hi)

TurnsWithin(f, n, t) == n \in Nat /\ t \in 0..n /\ Turns(f, n, t)

\* The middle of a range that is not empty.
LEMMA HalfWay ==
  ASSUME NEW lo \in Nat, NEW hi \in Nat, lo < hi
  PROVE  LET h == (lo + hi) \div 2 IN h \in Nat /\ lo <= h /\ h < hi
  OBVIOUS

\* One step of the recursion, when f turns at t.
LEMMA BisectClamps ==
  ASSUME NEW n, NEW f, NEW t, NEW b, NEW lo, NEW hi,
         TurnsWithin(f, n, t), RightBelow(b, n, t, lo, hi)
  PROVE  Bisect(b, f, <<lo, hi>>) = Clamp(t, lo, hi)
<1>0. n \in Nat /\ t \in 0..n /\ lo \in 0..n /\ hi \in 0..n
  BY Zenon DEF TurnsWithin, RightBelow
<1>1. CASE lo >= hi
  BY <1>0, <1>1, Zenon DEF Clamp, Bisect
<1>2. CASE lo < hi
  <2>0. PICK h : h = (lo + hi) \div 2
    BY Zenon
  <2>1. h \in Nat /\ lo <= h /\ h < hi
    BY <1>0, <1>2, <2>0, HalfWay
  <2>2. /\ b[<<lo, h>>] = Clamp(t, lo, h)
        /\ b[<<h + 1, hi>>] = Clamp(t, h + 1, hi)
    BY <1>2, <2>0, Zenon DEF RightBelow
  <2>3. Bisect(b, f, <<lo, hi>>) = IF f[h] THEN b[<<lo, h>>] ELSE b[<<h + 1, hi>>]
    BY <1>0, <1>2, <2>0 DEF Bisect
  <2>4. h \in 0..(n-1)
    BY <1>0, <2>1
  <2>5. f[h] <=> t <= h
    BY <2>4, Zenon DEF Turns, TurnsWithin
  <2>6. CASE f[h]
    BY <1>0, <1>2, <2>1, <2>2, <2>3, <2>5, <2>6 DEF Clamp
  <2>7. CASE ~ f[h]
    BY <1>0, <1>2, <2>1, <2>2, <2>3, <2>5, <2>7 DEF Clamp
  <2> QED
    BY <2>6, <2>7, Zenon
<1> QED
  BY <1>0, <1>1, <1>2

\* A function that satisfies the recursion.
LEMMA BisectExists ==
  ASSUME NEW n \in Nat, NEW f, NEW t \in 0..n, Turns(f, n, t)
  PROVE  \E b : Bisects(b, n, f)
<1> DEFINE D == (0..n) \X (0..n)
<1>0. PICK b : b = [p \in D |-> Clamp(t, p[1], p[2])]
  BY Zenon
<1>1. \A x, y \in 0..n : b[<<x, y>>] = Clamp(t, x, y)
  BY <1>0, Zenon
<1>2. ASSUME NEW lo \in 0..n, NEW hi \in 0..n
      PROVE  Bisect(b, f, <<lo, hi>>) = Clamp(t, lo, hi)
  <2>0. PICK h : h = (lo + hi) \div 2
    BY Zenon
  <2>1. lo < hi => h \in Nat /\ lo <= h /\ h < hi
    BY <2>0, HalfWay
  <2>2. lo < hi => h \in 0..n /\ h + 1 \in 0..n
    BY <2>1
  <2>3. lo < hi => b[<<lo, h>>] = Clamp(t, lo, h) /\ b[<<h + 1, hi>>] = Clamp(t, h + 1, hi)
    BY <1>1, <2>2, Zenon
  <2>4. RightBelow(b, n, t, lo, hi)
    BY <2>0, <2>3, Zenon DEF RightBelow
  <2>5. TurnsWithin(f, n, t)
    BY Zenon DEF TurnsWithin
  <2> QED
    BY <2>4, <2>5, BisectClamps
<1>3. ASSUME NEW p \in D PROVE Clamp(t, p[1], p[2]) = Bisect(b, f, p)
  <2>1. p[1] \in 0..n /\ p[2] \in 0..n /\ p = <<p[1], p[2]>>
    OBVIOUS
  <2>2. Bisect(b, f, <<p[1], p[2]>>) = Clamp(t, p[1], p[2])
    BY <1>2, <2>1, Zenon
  <2> QED
    BY <2>1, <2>2, Zenon
<1>4. [p \in D |-> Clamp(t, p[1], p[2])] = [p \in D |-> Bisect(b, f, p)]
  BY <1>3, Zenon
<1> QED
  BY <1>0, <1>4, Zenon DEF Bisects

\* Every such function finds the place where f turns.
LEMMA BisectFinds ==
  ASSUME NEW n \in Nat, NEW f, NEW t \in 0..n, Turns(f, n, t), NEW b,
         Bisects(b, n, f)
  PROVE  b[<<0, n>>] = t
<1> DEFINE P == {m \in Nat : \A lo, hi \in 0..n : hi - lo <= m => b[<<lo, hi>>] = Clamp(t, lo, hi)}
<1>1. ASSUME NEW lo \in 0..n, NEW hi \in 0..n
      PROVE  b[<<lo, hi>>] = Bisect(b, f, <<lo, hi>>)
  <2>1. <<lo, hi>> \in (0..n) \X (0..n)
    BY Zenon
  <2> QED
    BY <2>1, Zenon DEF Bisects
<1>2. 0 \in P
  <2> SUFFICES ASSUME NEW lo \in 0..n, NEW hi \in 0..n, hi - lo <= 0
               PROVE  Bisect(b, f, <<lo, hi>>) = Clamp(t, lo, hi)
    BY <1>1, ZenonT(60)
  <2> QED
    BY DEF Bisect, Clamp
<1>3. ASSUME NEW m \in 1..n, m - 1 \in P PROVE m \in P
  <2> SUFFICES ASSUME NEW lo \in 0..n, NEW hi \in 0..n, hi - lo <= m
               PROVE  Bisect(b, f, <<lo, hi>>) = Clamp(t, lo, hi)
    BY <1>1
  <2>1. PICK h : h = (lo + hi) \div 2
    BY Zenon
  <2>2. \A x, y \in 0..n : y - x <= m - 1 => b[<<x, y>>] = Clamp(t, x, y)
    BY <1>3, Zenon
  <2>3. lo < hi => h \in 0..n /\ h + 1 \in 0..n /\ h - lo <= m - 1 /\ hi - (h + 1) <= m - 1
    <3>1. lo < hi => h \in Nat /\ lo <= h /\ h < hi
      BY <2>1, HalfWay
    <3> QED
      BY <3>1
  <2>4. lo < hi => b[<<lo, h>>] = Clamp(t, lo, h) /\ b[<<h + 1, hi>>] = Clamp(t, h + 1, hi)
    BY <2>2, <2>3, Zenon
  <2>5. RightBelow(b, n, t, lo, hi)
    BY <2>1, <2>4, Zenon DEF RightBelow
  <2>6. TurnsWithin(f, n, t)
    BY Zenon DEF TurnsWithin
  <2> QED
    BY <2>5, <2>6, BisectClamps
<1>4. \A m \in 0..n : m \in P
  <2> HIDE DEF P
  <2> QED
    BY <1>2, <1>3, UpTo, Zenon
<1>5. n \in P
  <2> HIDE DEF P
  <2> QED
    BY <1>4
<1>6. b[<<0, n>>] = Clamp(t, 0, n)
  BY <1>5
<1> QED
  BY <1>6 DEF Clamp

\* sort.Search finds the place where f turns.
LEMMA SearchFinds ==
  ASSUME NEW n \in Nat, NEW f, NEW t \in 0..n, Turns(f, n, t)
  PROVE  Search(n, f) = t
<1> DEFINE bis == CHOOSE b : Bisects(b, n, f)
<1>1. Bisects(bis, n, f)
  BY BisectExists, Zenon
<1>2. Search(n, f) = bis[<<0, n>>]
  BY Zenon DEF Search, Bisects, Bisect
<1> HIDE DEF bis
<1> QED
  BY <1>1, <1>2, BisectFinds, Zenon

\* f turns somewhere, if it stays true once it is.
LEMMA TurnsSomewhere ==
  ASSUME NEW n \in Nat, NEW f, \A j, k \in 0..(n-1) : j <= k /\ f[j] => f[k]
  PROVE  \E t \in 0..n : Turns(f, n, t)
<1> DEFINE T == {k \in 0..n : k = n \/ f[k]}
<1>1. n \in T /\ T \in SUBSET Nat
  OBVIOUS
<1>2. PICK t \in T : \A u \in T : t <= u
  <2> HIDE DEF T
  <2> QED
    BY <1>1, LeastExists, Zenon
<1>3. t \in 0..n /\ \A k \in 0..n : (k = n \/ f[k]) => t <= k
  BY <1>2, Zenon
<1>4. ASSUME NEW j \in 0..(n-1), t <= j PROVE f[j]
  <2>1. t \in 0..(n-1) /\ f[t]
    BY <1>2, <1>3, <1>4
  <2> QED
    BY <1>4, <2>1, Zenon
<1> QED
  BY <1>3, <1>4 DEF Turns

-----------------------------------------------------------------------------
(* The order of the suffixes. *)

\* u and v begin with the same k bytes.
Agree(u, v, k) == k <= Len(u) /\ k <= Len(v) /\ \A j \in 1..k : u[j] = v[j]

\* u comes before v, and they differ behind k bytes.
DifferAt(u, v, k) ==
  Agree(u, v, k) /\ k < Len(v) /\ (k < Len(u) => u[k + 1] < v[k + 1])

\* Sequences with the same first bytes.
LEMMA AgreeMeans ==
  ASSUME NEW u \in Seq(Byte), NEW v \in Seq(Byte), NEW k \in Nat, k <= Len(u), k <= Len(v)
  PROVE  SubSeq(u, 1, k) = SubSeq(v, 1, k) <=> Agree(u, v, k)
<1> DEFINE a == SubSeq(u, 1, k)
           b == SubSeq(v, 1, k)
<1>1. a \in Seq(Byte) /\ Len(a) = k /\ \A j \in 1..k : a[j] = u[j]
  BY PrefixFacts, Zenon
<1>2. b \in Seq(Byte) /\ Len(b) = k /\ \A j \in 1..k : b[j] = v[j]
  BY PrefixFacts, Zenon
<1> HIDE DEF a, b
<1>3. a = b <=> \A j \in 1..k : a[j] = b[j]
  BY <1>1, <1>2
<1>4. a = b <=> \A j \in 1..k : u[j] = v[j]
  BY <1>1, <1>2, <1>3, ZenonT(60)
<1> QED
  BY <1>4, Zenon DEF Agree, a, b

\* bytes.Compare, by the first place where the two differ.
LEMMA LessMeans ==
  ASSUME NEW u \in Seq(Byte), NEW v \in Seq(Byte)
  PROVE  Less(u, v) <=> \E k \in Nat : DifferAt(u, v, k)
<1>1. Len(u) \in Nat /\ Len(v) \in Nat
  BY LenNat, Zenon
<1>2. ASSUME NEW k \in 0..Len(u), k < Len(v)
      PROVE  SubSeq(u, 1, k) = SubSeq(v, 1, k) <=> Agree(u, v, k)
  BY <1>1, <1>2, AgreeMeans
<1>3. Less(u, v) => \E k \in Nat : DifferAt(u, v, k)
  BY <1>1, <1>2 DEF Less, DifferAt
<1>4. ASSUME NEW k \in Nat, DifferAt(u, v, k) PROVE Less(u, v)
  <2>1. k \in 0..Len(u) /\ k < Len(v)
    BY <1>1, <1>4 DEF DifferAt, Agree
  <2> QED
    BY <1>2, <1>4, <2>1, ZenonT(60) DEF Less, DifferAt
<1> QED
  BY <1>3, <1>4, Zenon

\* bytes.HasPrefix, byte by byte.
LEMMA PrefixMeans ==
  ASSUME NEW s \in Seq(Byte), NEW u \in Seq(Byte)
  PROVE  HasPrefix(u, s) <=> Agree(s, u, Len(s))
<1>1. Len(s) \in Nat /\ Len(u) \in Nat
  BY LenNat, Zenon
<1>2. Len(s) <= Len(u) => (SubSeq(s, 1, Len(s)) = SubSeq(u, 1, Len(s)) <=> Agree(s, u, Len(s)))
  BY <1>1, AgreeMeans
<1>3. SubSeq(s, 1, Len(s)) = s
  OBVIOUS
<1> QED
  BY <1>2, <1>3, ZenonT(60) DEF HasPrefix, Agree

\* Bytes can be compared.
LEMMA BytesAreNumbers ==
  ASSUME NEW u \in Seq(Byte)
  PROVE  \A j \in 1..Len(u) : u[j] \in Int
<1>1. \A j \in 1..Len(u) : u[j] \in Byte
  OBVIOUS
<1>2. \A b \in Byte : b \in Int
  BY DEF Byte
<1> QED
  BY <1>1, <1>2, Zenon

\* The order is transitive.
LEMMA LessTransitive ==
  ASSUME NEW u \in Seq(Byte), NEW v \in Seq(Byte), NEW w \in Seq(Byte), Less(u, v), Less(v, w)
  PROVE  Less(u, w)
<1>1. PICK k \in Nat : DifferAt(u, v, k)
  BY LessMeans, Zenon
<1>2. PICK m \in Nat : DifferAt(v, w, m)
  BY LessMeans, Zenon
<1>3. Len(u) \in Nat /\ Len(v) \in Nat /\ Len(w) \in Nat
  BY LenNat, Zenon
<1>4. /\ \A j \in 1..Len(u) : u[j] \in Int
      /\ \A j \in 1..Len(v) : v[j] \in Int
      /\ \A j \in 1..Len(w) : w[j] \in Int
  BY BytesAreNumbers, Zenon
<1>5. CASE k < m
  <2>1. DifferAt(u, w, k)
    BY <1>1, <1>2, <1>3, <1>4, <1>5 DEF DifferAt, Agree
  <2> QED
    BY <2>1, LessMeans, Zenon
<1>6. CASE k = m
  <2>1. DifferAt(u, w, k)
    BY <1>1, <1>2, <1>3, <1>4, <1>6, SMTT(60) DEF DifferAt, Agree
  <2> QED
    BY <2>1, LessMeans, Zenon
<1>7. CASE k > m
  <2>1. DifferAt(u, w, m)
    BY <1>1, <1>2, <1>3, <1>4, <1>7 DEF DifferAt, Agree
  <2> QED
    BY <2>1, LessMeans, ZenonT(60)
<1> QED
  BY <1>5, <1>6, <1>7

\* What starts with s does not come before it.
LEMMA PrefixNotLess ==
  ASSUME NEW s \in Seq(Byte), NEW u \in Seq(Byte), HasPrefix(u, s)
  PROVE  ~ Less(u, s)
<1>1. Agree(s, u, Len(s))
  BY PrefixMeans, Zenon
<1>2. SUFFICES ASSUME NEW k \in Nat, DifferAt(u, s, k) PROVE FALSE
  BY LessMeans, Zenon
<1>3. Len(u) \in Nat /\ Len(s) \in Nat /\ \A j \in 1..Len(u) : u[j] \in Int
  BY LenNat, BytesAreNumbers, Zenon
<1> QED
  BY <1>1, <1>2, <1>3 DEF DifferAt, Agree

\* What comes before a sequence that starts with s, but not before s, starts with s.
LEMMA BetweenPrefix ==
  ASSUME NEW s \in Seq(Byte), NEW u \in Seq(Byte), NEW v \in Seq(Byte),
         ~ Less(u, s), Less(u, v), HasPrefix(v, s)
  PROVE  HasPrefix(u, s)
<1>1. Agree(s, v, Len(s))
  BY PrefixMeans, Zenon
<1>2. PICK k \in Nat : DifferAt(u, v, k)
  BY LessMeans, Zenon
<1>3. Len(u) \in Nat /\ Len(s) \in Nat /\ Len(v) \in Nat
  BY LenNat, Zenon
<1>4. CASE k < Len(s)
  <2>1. DifferAt(u, s, k)
    BY <1>1, <1>2, <1>3, <1>4 DEF DifferAt, Agree
  <2> QED
    BY <2>1, LessMeans, ZenonT(60)
<1>5. CASE k >= Len(s)
  <2>1. Agree(s, u, Len(s))
    BY <1>1, <1>2, <1>3, <1>5 DEF DifferAt, Agree
  <2> QED
    BY <2>1, PrefixMeans, ZenonT(60)
<1> QED
  BY <1>3, <1>4, <1>5

\* A suffix array lists the suffixes in increasing order, also those far apart.
LEMMA Sorted ==
  ASSUME NEW text \in Seq(Byte), NEW arr \in SuffixArrays(text)
  PROVE  \A j, k \in 1..Len(text) : j < k => Less(Suffix(text, arr[j]), Suffix(text, arr[k]))
<1> DEFINE N == Len(text)
           S(j) == Suffix(text, arr[j])
           P == {m \in Nat : \A j \in 1..N : j + m + 1 <= N => Less(S(j), S(j + m + 1))}
<1>1. N \in Nat /\ Len(arr) = N /\ arr \in [1..N -> 0..(N-1)]
      /\ \A r \in 1..(N-1) : Less(S(r), S(r + 1))
  BY LenNat, Zenon DEF SuffixArrays, IsSuffixArray
<1>2. \A j \in 1..N : S(j) \in Seq(Byte)
  <2> SUFFICES ASSUME NEW j \in 1..N PROVE S(j) \in Seq(Byte)
    BY Zenon
  <2> DEFINE a == arr[j]
  <2>1. a \in 0..(N-1)
    BY <1>1, Zenon
  <2> HIDE DEF a
  <2>2. a \in Nat /\ N - a \in Nat /\ a + (N - a) = N
    BY <1>1, <2>1
  <2>3. SubSeq(text, a + 1, a + (N - a)) \in Seq(Byte)
    BY <2>2, SliceFacts
  <2> QED
    BY <2>2, <2>3, ZenonT(60) DEF Suffix, a
<1> HIDE DEF N, S
<1>3. 0 \in P
  BY <1>1
<1>4. ASSUME NEW m \in 1..N, m - 1 \in P PROVE m \in P
  <2> SUFFICES ASSUME NEW j \in 1..N, j + m + 1 <= N PROVE Less(S(j), S(j + m + 1))
    OBVIOUS
  <2>1. /\ j + m \in 1..N /\ j + m \in 1..(N-1) /\ j + m + 1 \in 1..N /\ (j + m) + 1 = j + m + 1
        /\ j + (m - 1) + 1 = j + m
    BY <1>1
  <2>2. Less(S(j), S(j + m))
    <3>1. j + (m - 1) + 1 <= N
      BY <1>1
    <3>2. Less(S(j), S(j + (m - 1) + 1))
      BY <1>4, <3>1, ZenonT(60)
    <3> QED
      BY <2>1, <3>2, ZenonT(60)
  <2>3. Less(S(j + m), S(j + m + 1))
    BY <1>1, <2>1, ZenonT(60)
  <2> QED
    BY <1>2, <2>1, <2>2, <2>3, LessTransitive, Zenon
<1>5. \A m \in 0..N : m \in P
  <2> HIDE DEF P
  <2> QED
    BY <1>1, <1>3, <1>4, UpTo, ZenonT(60)
<1>6. ASSUME NEW j \in 1..N, NEW k \in 1..N, j < k PROVE Less(S(j), S(k))
  <2>1. k - j - 1 \in 0..N /\ j + (k - j - 1) + 1 = k /\ k <= N
    BY <1>1, <1>6
  <2>2. k - j - 1 \in P
    BY <1>5, <2>1, ZenonT(60)
  <2> QED
    BY <2>1, <2>2, ZenonT(60)
<1> QED
  BY <1>6, Zenon DEF N, S

-----------------------------------------------------------------------------
(* The two lookups. *)

\* The index is built.
Built == data \in Seq(Byte) /\ sa \in SuffixArrays(data)

\* The ranks of a suffix array.
LEMMA RankFacts ==
  ASSUME Built
  PROVE  /\ Len(data) \in Nat /\ Len(sa) = Len(data)
         /\ \A k \in 0..(Len(data)-1) : At(sa, k) \in 0..(Len(data)-1) /\ SuffixAt(k) \in Seq(Byte)
         /\ \A j, k \in 0..(Len(data)-1) : j < k => Less(SuffixAt(j), SuffixAt(k))
         /\ \A a \in 0..(Len(data)-1) : \E k \in 0..(Len(data)-1) : At(sa, k) = a
<1> DEFINE N == Len(data)
<1>1. /\ data \in Seq(Byte) /\ N \in Nat /\ Len(sa) = N /\ sa \in [1..N -> 0..(N-1)]
      /\ {sa[r] : r \in 1..Len(sa)} = 0..(N-1)
  BY LenNat, ZenonT(60) DEF Built, SuffixArrays, IsSuffixArray
<1>2. ASSUME NEW k \in 0..(N-1)
      PROVE  k + 1 \in 1..N /\ At(sa, k) \in 0..(N-1) /\ SuffixAt(k) \in Seq(Byte)
  <2> DEFINE a == At(sa, k)
  <2>1. k + 1 \in 1..N
    BY <1>1
  <2>2. a \in 0..(N-1)
    BY <1>1, <2>1, Zenon DEF At
  <2> HIDE DEF a
  <2>3. a \in Nat /\ N - a \in Nat /\ a + (N - a) = N
    BY <1>1, <2>2
  <2>4. SubSeq(data, a + 1, a + (N - a)) \in Seq(Byte)
    BY <1>1, <2>3, SliceFacts
  <2> QED
    BY <2>1, <2>2, <2>3, <2>4, ZenonT(60) DEF Suffix, SuffixAt, a
<1>3. ASSUME NEW j \in 0..(N-1), NEW k \in 0..(N-1), j < k
      PROVE  Less(SuffixAt(j), SuffixAt(k))
  <2>1. j + 1 \in 1..N /\ k + 1 \in 1..N /\ j + 1 < k + 1
    BY <1>2, <1>3
  <2> QED
    BY <2>1, Sorted, Zenon DEF Built, SuffixAt, At
<1>4. ASSUME NEW a \in 0..(N-1)
      PROVE  \E k \in 0..(N-1) : At(sa, k) = a
  <2>1. PICK r \in 1..N : sa[r] = a
    BY <1>1, Zenon
  <2>2. r - 1 \in 0..(N-1) /\ (r - 1) + 1 = r
    BY <1>1
  <2> QED
    BY <2>1, <2>2, Zenon DEF At
<1> QED
  BY <1>1, <1>2, <1>3, <1>4, ZenonT(60)

\* The suffixes that start with s stand one behind the other from the first one on
\* that does not come before s.
LEMMA RunOfPrefix ==
  ASSUME Built, NEW s \in Seq(Byte), NEW j \in 0..(Len(data)-1), NEW k \in 0..(Len(data)-1),
         j <= k, ~ Less(SuffixAt(j), s), HasPrefix(SuffixAt(k), s)
  PROVE  HasPrefix(SuffixAt(j), s)
<1>1. Len(data) \in Nat /\ SuffixAt(j) \in Seq(Byte) /\ SuffixAt(k) \in Seq(Byte)
  BY RankFacts, Zenon
<1>2. CASE j = k
  BY <1>2, Zenon
<1>3. CASE j < k
  <2>1. Less(SuffixAt(j), SuffixAt(k))
    BY <1>3, RankFacts, ZenonT(60)
  <2> QED
    BY <1>1, <2>1, BetweenPrefix, ZenonT(60)
<1> QED
  BY <1>1, <1>2, <1>3

\* The search for the first suffix of rank in [from, from + n) that does not come
\* before s.
LEMMA FirstNotLess ==
  ASSUME Built, NEW s \in Seq(Byte), NEW from \in Nat, NEW n \in Nat, from + n <= Len(data),
         NEW f, \A k \in 0..(n-1) : f[k] <=> ~ Less(SuffixAt(from + k), s)
  PROVE  /\ Search(n, f) \in 0..n
         /\ \A k \in from..(from+n-1) : ~ Less(SuffixAt(k), s) <=> from + Search(n, f) <= k
<1>0. Len(data) \in Nat
  BY RankFacts, ZenonT(60)
<1>1. ASSUME NEW j \in 0..(n-1), NEW k \in 0..(n-1), j <= k, f[j] PROVE f[k]
  <2>1. from + j \in 0..(Len(data)-1) /\ from + k \in 0..(Len(data)-1)
    BY <1>0
  <2>2. ~ Less(SuffixAt(from + j), s)
    BY <1>1, Zenon
  <2>3. CASE j = k
    BY <1>1, <2>3, ZenonT(60)
  <2>4. CASE j < k
    <3>1. from + j < from + k
      BY <2>4
    <3>2. /\ Less(SuffixAt(from + j), SuffixAt(from + k))
          /\ SuffixAt(from + j) \in Seq(Byte) /\ SuffixAt(from + k) \in Seq(Byte)
      BY <2>1, <3>1, RankFacts, ZenonT(60)
    <3>3. ~ Less(SuffixAt(from + k), s)
      BY <2>2, <3>2, LessTransitive, ZenonT(60)
    <3> QED
      BY <3>3, Zenon
  <2> QED
    BY <1>1, <2>3, <2>4
<1>2. PICK t \in 0..n : Turns(f, n, t)
  BY <1>1, TurnsSomewhere, Zenon
<1>3. Search(n, f) = t
  BY <1>2, SearchFinds, Zenon
<1>4. ASSUME NEW k \in from..(from+n-1)
      PROVE  ~ Less(SuffixAt(k), s) <=> from + t <= k
  <2>1. k - from \in 0..(n-1) /\ from + (k - from) = k
    OBVIOUS
  <2>2. f[k - from] <=> ~ Less(SuffixAt(k), s)
    BY <2>1, Zenon
  <2>3. f[k - from] <=> t <= k - from
    BY <1>2, <2>1, ZenonT(60) DEF Turns
  <2> QED
    BY <2>1, <2>2, <2>3
<1> QED
  BY <1>3, <1>4, ZenonT(60)

\* lookupLongest finds a suffix that starts with s in the range, if there is one
\* between the ranks, and leaves out no rank of a suffix that starts with s.
LEMMA LookupFinds ==
  ASSUME Built, NEW s \in Seq(Byte), NEW from \in 0..Len(data), NEW to \in from..Len(data)
  PROVE  LET found == lookupLongest(s, from, to)
         IN  /\ found.offset # -1 =>
                  /\ \E k \in from..(to-1) :
                       InRange(k) /\ HasPrefix(SuffixAt(k), s) /\ found.offset = At(sa, k)
                  /\ found.rStart \in from..to
                  /\ \A k \in from..(to-1) : HasPrefix(SuffixAt(k), s) => found.rStart <= k
             /\ found.offset = -1 =>
                  \A k \in from..(to-1) : ~ (InRange(k) /\ HasPrefix(SuffixAt(k), s))
<1> DEFINE n == to - from
           f == [k \in 0..(n-1) |-> ~ Less(SuffixAt(from + k), s)]
           first == from + Search(n, f)
           run == {k \in first..(to-1) : \A j \in first..k : HasPrefix(SuffixAt(j), s)}
           valid == {k \in run : InRange(k)}
           found == lookupLongest(s, from, to)
<1>1. /\ Len(data) \in Nat /\ from \in Nat /\ n \in Nat /\ from + n = to /\ to <= Len(data)
      /\ \A k \in from..(to-1) : k \in 0..(Len(data)-1)
  <2>1. Len(data) \in Nat
    BY RankFacts, Zenon
  <2> QED
    BY <2>1
<1>2. found = IF first = to \/ ~ HasPrefix(SuffixAt(first), s)
              THEN [rStart |-> from, offset |-> -1]
              ELSE [rStart |-> first,
                    offset |-> IF valid = {} THEN -1
                               ELSE At(sa, CHOOSE k \in valid : \A j \in valid : k <= j)]
  BY Zenon DEF lookupLongest
<1>3. /\ Search(n, f) \in 0..n
      /\ \A k \in from..(from+n-1) : ~ Less(SuffixAt(k), s) <=> first <= k
  <2>1. \A k \in 0..(n-1) : f[k] <=> ~ Less(SuffixAt(from + k), s)
    BY Zenon
  <2> HIDE DEF f
  <2> QED
    BY <1>1, <2>1, FirstNotLess
<1> HIDE DEF found, f, n
<1>4. first \in from..to
  BY <1>1, <1>3
<1> HIDE DEF first
<1>5. ASSUME NEW k \in from..(to-1), HasPrefix(SuffixAt(k), s)
      PROVE  first <= k /\ \A j \in first..k : HasPrefix(SuffixAt(j), s)
  <2>1. k \in 0..(Len(data)-1) /\ SuffixAt(k) \in Seq(Byte)
    BY <1>1, RankFacts, ZenonT(60)
  <2>2. first <= k
    <3>1. ~ Less(SuffixAt(k), s)
      BY <1>5, <2>1, PrefixNotLess, ZenonT(60)
    <3>2. k \in from..(from+n-1)
      BY <1>1
    <3> QED
      BY <1>3, <3>1, <3>2, ZenonT(60) DEF first
  <2>3. ASSUME NEW j \in first..k PROVE HasPrefix(SuffixAt(j), s)
    <3>1. j \in from..(from+n-1) /\ j \in 0..(Len(data)-1) /\ first <= j /\ j <= k
      BY <1>1, <1>4, <2>3
    <3>2. ~ Less(SuffixAt(j), s)
      BY <1>3, <3>1, ZenonT(60) DEF first
    <3> QED
      BY <1>5, <2>1, <3>1, <3>2, RunOfPrefix, ZenonT(60)
  <2> QED
    BY <2>2, <2>3, Zenon
<1>6. CASE first = to \/ ~ HasPrefix(SuffixAt(first), s)
  <2>1. found.offset = -1
    BY <1>2, <1>6, Zenon
  <2>2. ASSUME NEW k \in from..(to-1), HasPrefix(SuffixAt(k), s) PROVE FALSE
    <3>1. first <= k /\ \A j \in first..k : HasPrefix(SuffixAt(j), s)
      BY <1>5, <2>2, Zenon
    <3> QED
      BY <1>1, <1>4, <1>6, <3>1, SMTT(60)
  <2> QED
    BY <2>1, <2>2, Zenon DEF found
<1>7. CASE ~ (first = to \/ ~ HasPrefix(SuffixAt(first), s))
  <2>1. /\ found.rStart = first
        /\ found.offset = IF valid = {} THEN -1
                          ELSE At(sa, CHOOSE k \in valid : \A j \in valid : k <= j)
    BY <1>2, <1>7, Zenon
  <2>2. \A k \in from..(to-1) : HasPrefix(SuffixAt(k), s) /\ InRange(k) => k \in valid
    BY <1>4, <1>5
  <2>3. \A k \in valid : k \in from..(to-1) /\ HasPrefix(SuffixAt(k), s) /\ InRange(k)
    BY <1>1, <1>4
  <2> HIDE DEF valid
  <2>4. CASE valid = {}
    BY <2>1, <2>2, <2>4, ZenonT(60) DEF found
  <2>5. CASE valid # {}
    <3> DEFINE least == CHOOSE k \in valid : \A j \in valid : k <= j
    <3>1. valid \in SUBSET Nat
      BY <1>1, <2>3
    <3>2. \E k \in valid : \A j \in valid : k <= j
      BY <2>5, <3>1, LeastExists, Zenon
    <3>3. least \in valid
      BY <3>2, Zenon
    <3>4. found.offset = At(sa, least)
      BY <2>1, <2>5, Zenon
    <3> HIDE DEF least
    <3>5. least \in from..(to-1) /\ HasPrefix(SuffixAt(least), s) /\ InRange(least)
      BY <2>3, <3>3, ZenonT(60)
    <3>6. \A k \in from..(to-1) : HasPrefix(SuffixAt(k), s) => found.rStart <= k
      BY <1>5, <2>1, ZenonT(60)
    <3>7. At(sa, least) # -1
      <4>1. least \in 0..(Len(data)-1)
        BY <1>1, <3>5, ZenonT(60)
      <4>2. At(sa, least) \in 0..(Len(data)-1)
        BY <4>1, RankFacts, ZenonT(60)
      <4> QED
        BY <4>2
    <3> QED
      BY <1>4, <2>1, <3>4, <3>5, <3>6, <3>7, ZenonT(60) DEF found
  <2> QED
    BY <2>4, <2>5, Zenon
<1> QED
  BY <1>6, <1>7, ZenonT(60)

\* lookupLongestInitial finds the ranks of all suffixes that start with s.
LEMMA InitialFinds ==
  ASSUME Built, NEW s \in Seq(Byte)
  PROVE  LET ranks == lookupLongestInitial(s)
         IN  \/ /\ ranks = <<-1, -1>>
                /\ \A k \in 0..(Len(data)-1) : ~ HasPrefix(SuffixAt(k), s)
             \/ /\ ranks[1] \in 0..Len(data) /\ ranks[2] \in ranks[1]..Len(data)
                /\ \A k \in 0..(Len(data)-1) :
                     HasPrefix(SuffixAt(k), s) <=> k \in ranks[1]..(ranks[2]-1)
<1> DEFINE N == Len(data)
           f == [k \in 0..(N-1) |-> ~ Less(SuffixAt(k), s)]
           first == Search(N, f)
           g == [k \in 0..(N-first-1) |-> ~ HasPrefix(SuffixAt(first + k), s)]
           size == Search(N - first, g)
           ranks == lookupLongestInitial(s)
<1>1. N \in Nat /\ Len(sa) = N
  BY RankFacts, Zenon
<1>2. ranks = IF first = N \/ ~ HasPrefix(SuffixAt(first), s) THEN <<-1, -1>>
              ELSE <<first, first + size>>
  BY <1>1, Zenon DEF lookupLongestInitial
<1>3. first \in 0..N /\ \A k \in 0..(N-1) : ~ Less(SuffixAt(k), s) <=> first <= k
  <2>1. \A k \in 0..(N-1) : f[k] <=> ~ Less(SuffixAt(0 + k), s)
    <3>1. \A k \in 0..(N-1) : 0 + k = k
      OBVIOUS
    <3> QED
      BY <3>1, Zenon
  <2> HIDE DEF f
  <2>2. 0 \in Nat /\ 0 + N <= Len(data)
    BY <1>1
  <2>3. /\ Search(N, f) \in 0..N
        /\ \A k \in 0..(0+N-1) : ~ Less(SuffixAt(k), s) <=> 0 + Search(N, f) <= k
    BY <1>1, <2>1, <2>2, FirstNotLess, ZenonT(60)
  <2> QED
    BY <1>1, <2>3
<1> HIDE DEF f, first, ranks
<1>4. ASSUME NEW j \in 0..(N-1), NEW k \in 0..(N-1), first <= j, j <= k, HasPrefix(SuffixAt(k), s)
      PROVE  HasPrefix(SuffixAt(j), s)
  BY <1>3, <1>4, RunOfPrefix, ZenonT(60)
<1>5. ASSUME NEW k \in 0..(N-1), HasPrefix(SuffixAt(k), s) PROVE first <= k
  <2>1. SuffixAt(k) \in Seq(Byte)
    BY RankFacts, Zenon
  <2>2. ~ Less(SuffixAt(k), s)
    BY <1>5, <2>1, PrefixNotLess, ZenonT(60)
  <2> QED
    BY <1>3, <2>2, Zenon
<1>6. CASE first = N \/ ~ HasPrefix(SuffixAt(first), s)
  <2>1. ranks = <<-1, -1>>
    BY <1>2, <1>6, Zenon
  <2>2. ASSUME NEW k \in 0..(N-1), HasPrefix(SuffixAt(k), s) PROVE FALSE
    <3>1. first <= k
      BY <1>5, <2>2, ZenonT(60)
    <3>2. first \in 0..(N-1)
      BY <1>1, <1>3, <3>1
    <3>3. HasPrefix(SuffixAt(first), s)
      BY <1>4, <2>2, <3>1, <3>2
    <3> QED
      BY <1>1, <1>6, <3>2, <3>3
  <2> QED
    BY <2>1, <2>2, ZenonT(60) DEF ranks
<1>7. CASE ~ (first = N \/ ~ HasPrefix(SuffixAt(first), s))
  <2>1. ranks[1] = first /\ ranks[2] = first + size
    BY <1>2, <1>7, ZenonT(60)
  <2>2. N - first \in Nat
    BY <1>1, <1>3
  <2>3. \A k \in 0..(N-first-1) : g[k] <=> ~ HasPrefix(SuffixAt(first + k), s)
    BY Zenon
  <2> HIDE DEF g
  <2>4. ASSUME NEW j \in 0..(N-first-1), NEW k \in 0..(N-first-1), j <= k, g[j] PROVE g[k]
    <3>1. first + j \in 0..(N-1) /\ first + k \in 0..(N-1) /\ first <= first + j /\ first + j <= first + k
      BY <1>1, <1>3, <2>4
    <3> QED
      BY <1>4, <2>3, <2>4, <3>1, ZenonT(60)
  <2>5. PICK t \in 0..(N-first) : Turns(g, N - first, t)
    BY <2>2, <2>4, TurnsSomewhere, ZenonT(60)
  <2>6. size = t
    BY <2>2, <2>5, SearchFinds, ZenonT(60)
  <2>7. ranks[1] = first /\ ranks[2] = first + t
    BY <2>1, <2>6, Zenon
  <2>8. ASSUME NEW k \in 0..(N-1)
        PROVE  HasPrefix(SuffixAt(k), s) <=> k \in first..(first+t-1)
    <3>1. CASE first <= k
      <4>1. k - first \in 0..(N-first-1) /\ first + (k - first) = k
        BY <1>1, <1>3, <3>1
      <4>2. g[k - first] <=> ~ HasPrefix(SuffixAt(k), s)
        BY <2>3, <4>1, ZenonT(60)
      <4>3. g[k - first] <=> t <= k - first
        BY <2>5, <4>1, ZenonT(60) DEF Turns
      <4> QED
        BY <1>1, <1>3, <2>5, <3>1, <4>2, <4>3
    <3>2. CASE k < first
      BY <1>1, <1>3, <1>5, <3>2
    <3> QED
      BY <1>1, <1>3, <3>1, <3>2
  <2>9. /\ ranks[1] \in 0..N /\ ranks[2] \in ranks[1]..N
        /\ \A k \in 0..(N-1) : HasPrefix(SuffixAt(k), s) <=> k \in ranks[1]..(ranks[2]-1)
    <3>1. first \in 0..N /\ first + t \in first..N
      BY <1>1, <1>3, <2>5
    <3> QED
      BY <2>7, <2>8, <3>1
  <2> QED
    BY <2>9, Zenon DEF ranks
<1> QED
  BY <1>6, <1>7, Zenon

\* What starts with the first m bytes of s starts with fewer of them, too.
LEMMA ShorterPrefix ==
  ASSUME NEW s \in Seq(Byte), NEW m \in 0..Len(s), NEW n \in 0..m, NEW u \in Seq(Byte),
         HasPrefix(u, SubSeq(s, 1, m))
  PROVE  HasPrefix(u, SubSeq(s, 1, n))
<1> DEFINE p == SubSeq(s, 1, m)
           q == SubSeq(s, 1, n)
<1>0. Len(s) \in Nat /\ Len(u) \in Nat
  BY LenNat, Zenon
<1>1. p \in Seq(Byte) /\ Len(p) = m /\ \A j \in 1..m : p[j] = s[j]
  BY <1>0, PrefixFacts
<1>2. q \in Seq(Byte) /\ Len(q) = n /\ \A j \in 1..n : q[j] = s[j]
  BY <1>0, PrefixFacts
<1> HIDE DEF p, q
<1>3. Agree(p, u, m)
  BY <1>1, PrefixMeans, Zenon DEF p
<1>4. Agree(q, u, n)
  BY <1>0, <1>1, <1>2, <1>3 DEF Agree
<1> QED
  BY <1>2, <1>4, PrefixMeans, ZenonT(60) DEF q

\* A match is a suffix that starts with the first m bytes of the pattern.
LEMMA MatchMeans ==
  ASSUME NEW s \in Seq(Byte), NEW m \in 0..Len(s), NEW text \in Seq(Byte),
         NEW a \in 0..(Len(text)-1)
  PROVE  Occurs(s, 0, m, text, a) <=> HasPrefix(Suffix(text, a), SubSeq(s, 1, m))
<1> DEFINE p == SubSeq(s, 1, m)
           u == Suffix(text, a)
           n == Len(text) - a
<1>0. Len(s) \in Nat /\ Len(text) \in Nat /\ n \in Nat /\ a + n = Len(text)
  BY LenNat
<1>1. p \in Seq(Byte) /\ Len(p) = m /\ \A j \in 1..m : p[j] = s[j]
  BY <1>0, PrefixFacts
<1>2. u \in Seq(Byte) /\ Len(u) = n /\ \A j \in 1..n : u[j] = text[a + j]
  <2>1. u = SubSeq(text, a + 1, a + n)
    BY <1>0, Zenon DEF Suffix
  <2> HIDE DEF u, n
  <2> QED
    BY <1>0, <2>1, SliceFacts
<1> HIDE DEF p, u, n
<1>3. HasPrefix(u, p) <=> m <= n /\ \A j \in 1..m : s[j] = text[a + j]
  <2>1. HasPrefix(u, p) <=> Agree(p, u, m)
    BY <1>1, <1>2, PrefixMeans, ZenonT(60)
  <2>2. Agree(p, u, m) <=> m <= n /\ \A j \in 1..m : p[j] = u[j]
    BY <1>1, <1>2 DEF Agree
  <2>3. m <= n => \A j \in 1..m : p[j] = s[j] /\ u[j] = text[a + j]
    BY <1>0, <1>1, <1>2
  <2> QED
    BY <2>1, <2>2, <2>3, ZenonT(60)
<1>4. Occurs(s, 0, m, text, a) <=> m <= n /\ \A j \in 1..m : s[j] = text[a + j]
  <2>1. a + m <= Len(text) <=> m <= n
    BY <1>0
  <2>2. ASSUME \A k \in 0..(m-1) : At(text, a + k) = At(s, 0 + k), NEW j \in 1..m
        PROVE  s[j] = text[a + j]
    <3>1. j - 1 \in 0..(m-1) /\ a + (j - 1) + 1 = a + j /\ 0 + (j - 1) + 1 = j
      OBVIOUS
    <3> QED
      BY <2>2, <3>1, Zenon DEF At
  <2>3. ASSUME \A j \in 1..m : s[j] = text[a + j], NEW k \in 0..(m-1)
        PROVE  At(text, a + k) = At(s, 0 + k)
    <3>1. k + 1 \in 1..m /\ a + k + 1 = a + (k + 1) /\ 0 + k + 1 = k + 1
      OBVIOUS
    <3> QED
      BY <2>3, <3>1 DEF At
  <2> QED
    BY <2>1, <2>2, <2>3, Zenon DEF Occurs
<1> QED
  BY <1>3, <1>4, Zenon DEF p, u

-----------------------------------------------------------------------------
(* The invariant of LookupLongest. *)

\* Every match in the range that is longer than those already found has its rank
\* between sStart and sEnd.
RanksInv ==
  /\ sStart <= sEnd
  /\ \A k \in 0..(Len(data)-1), m \in low..query.maxEnd :
       InRange(k) /\ HasPrefix(SuffixAt(k), SubSeq(query.s, 1, m)) => k \in sStart..(sEnd-1)

IndexInv ==
  /\ IndexTypeOK /\ query \in Queries(data)
  /\ at # "new" => sa \in SuffixArrays(data)
  /\ at \in {"new", "initial"} => index = -1 /\ length = -1
  /\ at = "search" =>
       /\ length \in query.minEnd..query.maxEnd /\ low \in {length, length + 1}
       /\ high <= query.maxEnd
       /\ RanksInv
  /\ SearchSound /\ ReturnsLongest

\* The arguments of LookupLongest.
LEMMA QueryFacts ==
  ASSUME query \in Queries(data), data \in Seq(Byte)
  PROVE  /\ query.s \in Seq(Byte) /\ Len(query.s) \in Nat /\ Len(data) \in Nat
         /\ query.minEnd \in Nat \ {0} /\ query.maxEnd \in Nat
         /\ query.minEnd <= query.maxEnd /\ query.maxEnd <= Len(query.s)
         /\ query.rangeStart \in 0..Len(data) /\ query.rangeEnd \in 0..Len(data)
<1>1. /\ query.s \in Patterns /\ query.minEnd \in 1..MaxEnd /\ query.maxEnd \in 1..MaxEnd
      /\ query.minEnd <= query.maxEnd /\ query.maxEnd <= Len(query.s)
      /\ query.rangeStart \in 0..Len(data) /\ query.rangeEnd \in 0..Len(data)
  BY Zenon DEF Queries
<1>2. query.s \in Seq(Byte)
  BY <1>1, TextsAssumption, ZenonT(60)
<1>3. Len(query.s) \in Nat /\ Len(data) \in Nat
  BY <1>2, LenNat, ZenonT(60)
<1> QED
  BY <1>1, <1>2, <1>3, TextsAssumption

AllMatches ==
  Matches(query.s, 0, data, query.minEnd, query.maxEnd, query.rangeStart, query.rangeEnd)

\* The suffix of rank k starts in the range and with m bytes of the pattern.
MatchAt(k, m) == InRange(k) /\ HasPrefix(SuffixAt(k), SubSeq(query.s, 1, m))

\* Matches and ranks.
LEMMA MatchOfRank ==
  ASSUME Built, query \in Queries(data), NEW k \in 0..(Len(data)-1),
         NEW m \in query.minEnd..query.maxEnd, MatchAt(k, m)
  PROVE  [address |-> At(sa, k), length |-> m] \in AllMatches
<1>1. data \in Seq(Byte) /\ query.s \in Seq(Byte) /\ m \in 0..Len(query.s)
  BY QueryFacts DEF Built
<1>2. At(sa, k) \in 0..(Len(data)-1)
  BY RankFacts, ZenonT(60)
<1>3. Occurs(query.s, 0, m, data, At(sa, k))
  BY <1>1, <1>2, MatchMeans, ZenonT(60) DEF MatchAt, SuffixAt
<1>4. At(sa, k) \in query.rangeStart..(query.rangeEnd-1)
  BY <1>1, <1>2, QueryFacts DEF MatchAt, InRange
<1> QED
  BY <1>3, <1>4, ZenonT(60) DEF AllMatches, Matches

\* Every match has a rank.
LEMMA RankOfMatch ==
  ASSUME Built, query \in Queries(data), NEW x \in AllMatches
  PROVE  /\ x.length \in query.minEnd..query.maxEnd
         /\ \E k \in 0..(Len(data)-1) : At(sa, k) = x.address /\ MatchAt(k, x.length)
<1>1. /\ x.address \in query.rangeStart..(query.rangeEnd-1)
      /\ x.length \in query.minEnd..query.maxEnd
      /\ Occurs(query.s, 0, x.length, data, x.address)
  BY Zenon DEF AllMatches, Matches
<1>2. /\ data \in Seq(Byte) /\ query.s \in Seq(Byte) /\ x.length \in 0..Len(query.s)
      /\ x.address \in 0..(Len(data)-1)
  BY <1>1, QueryFacts, SMTT(60) DEF Built
<1>3. PICK k \in 0..(Len(data)-1) : At(sa, k) = x.address
  BY <1>2, RankFacts, ZenonT(60)
<1>4. HasPrefix(SuffixAt(k), SubSeq(query.s, 1, x.length))
  BY <1>1, <1>2, <1>3, MatchMeans, ZenonT(60) DEF SuffixAt
<1>5. InRange(k)
  BY <1>1, <1>2, <1>3, QueryFacts, SMTT(60) DEF InRange
<1> QED
  BY <1>1, <1>3, <1>4, <1>5, ZenonT(60) DEF MatchAt

\* With m bytes of the pattern, a suffix starts with fewer of them.
LEMMA ShorterMatch ==
  ASSUME Built, query \in Queries(data), NEW k \in 0..(Len(data)-1),
         NEW m \in query.minEnd..query.maxEnd, NEW n \in query.minEnd..m, MatchAt(k, m)
  PROVE  MatchAt(k, n)
<1>1. query.s \in Seq(Byte) /\ m \in 0..Len(query.s) /\ n \in 0..m
  BY QueryFacts, SMTT(60) DEF Built
<1>2. SuffixAt(k) \in Seq(Byte)
  BY RankFacts, Zenon
<1> QED
  BY <1>1, <1>2, ShorterPrefix, ZenonT(60) DEF MatchAt

-----------------------------------------------------------------------------
(* The steps of LookupLongest. *)

\* New hands the search a suffix array.
LEMMA NewStep ==
  ASSUME IndexInv, New
  PROVE  IndexInv'
<1>1. /\ at = "new" /\ at' = "initial" /\ sa' \in SuffixArrays(data) /\ data' = data
      /\ query' = query /\ UNCHANGED <<sStart, sEnd, low, high, index, length>>
  BY Zenon DEF New, searchVars, resultVars
<1>2. sa' \in [1..Len(data) -> 0..(Len(data)-1)]
  BY <1>1, Zenon DEF SuffixArrays
<1>3. IndexTypeOK'
  BY <1>1, <1>2, ZenonT(60) DEF IndexInv, IndexTypeOK
<1>4. query' \in Queries(data') /\ sa' \in SuffixArrays(data') /\ index' = -1 /\ length' = -1
  BY <1>1, ZenonT(60) DEF IndexInv
<1>5. SearchSound' /\ ReturnsLongest'
  BY <1>1, ZenonT(60) DEF SearchSound, ReturnsLongest
<1> QED
  BY <1>1, <1>3, <1>4, <1>5, ZenonT(60) DEF IndexInv

\* When low and high have crossed, the length found is the longest.
LEMMA ReturnStep ==
  ASSUME IndexInv, Return
  PROVE  IndexInv'
<1>1. /\ at = "search" /\ low > high /\ at' = "returned"
      /\ UNCHANGED <<data, sa, query, sStart, sEnd, low, high, index, length>>
  BY Zenon DEF Return, searchVars, resultVars
<1> DEFINE x == [address |-> index, length |-> length]
<1>2. /\ x \in AllMatches /\ \A m \in AllMatches : m.length <= high
  BY <1>1, ZenonT(60) DEF IndexInv, SearchSound, AllMatches
<1>3. Built /\ query \in Queries(data)
  BY <1>1, TextsAssumption, ZenonT(60) DEF IndexInv, IndexTypeOK, Built
<1>4. /\ length \in query.minEnd..query.maxEnd /\ low \in {length, length + 1} /\ high \in Nat
      /\ query.minEnd \in Nat /\ query.maxEnd \in Nat
  BY <1>1, <1>3, QueryFacts, ZenonT(60) DEF IndexInv, IndexTypeOK, Built
<1>5. high = length
  <2>1. x.length = length
    BY Zenon
  <2> HIDE DEF x
  <2>2. length <= high
    BY <1>2, <2>1, ZenonT(60)
  <2> QED
    BY <1>1, <1>4, <2>2
<1>6. x \in LookupLongest(query.s, 0, data, query.minEnd, query.maxEnd,
                          query.rangeStart, query.rangeEnd)
  <2>1. \A o \in AllMatches : o.length <= x.length
    BY <1>2, <1>5, ZenonT(60)
  <2> HIDE DEF x
  <2> QED
    BY <1>2, <2>1, ZenonT(60) DEF LookupLongest, AllMatches
<1>7. ReturnsLongest' /\ SearchSound'
  BY <1>1, <1>6, ZenonT(60) DEF ReturnsLongest, SearchSound
<1>8. IndexTypeOK'
  BY <1>1, ZenonT(60) DEF IndexInv, IndexTypeOK
<1>9. query' \in Queries(data') /\ sa' \in SuffixArrays(data')
  BY <1>1, ZenonT(60) DEF IndexInv
<1> QED
  BY <1>1, <1>7, <1>8, <1>9, ZenonT(60) DEF IndexInv

\* The search at minEnd finds every rank of a match.
LEMMA InitialStep ==
  ASSUME IndexInv, Initial
  PROVE  IndexInv'
<1> DEFINE N == Len(data)
           p == SubSeq(query.s, 1, query.minEnd)
           ranks == lookupLongestInitial(p)
           valid == {k \in ranks[1]..(ranks[2]-1) : k >= 0 /\ InRange(k)}
           least == CHOOSE k \in valid : \A j \in valid : k <= j
<1>1. /\ at = "initial" /\ data' = data /\ sa' = sa /\ query' = query
      /\ IF valid = {}
         THEN at' = "returned" /\ UNCHANGED <<sStart, sEnd, low, high, index, length>>
         ELSE /\ at' = "search" /\ index' = At(sa, least) /\ length' = query.minEnd
              /\ sStart' = ranks[1] /\ sEnd' = ranks[2]
              /\ low' = query.minEnd /\ high' = query.maxEnd
  BY Zenon DEF Initial, searchVars, resultVars
<1>2. Built /\ query \in Queries(data) /\ index = -1 /\ length = -1 /\ IndexTypeOK
  BY <1>1, TextsAssumption, ZenonT(60) DEF IndexInv, IndexTypeOK, Built
<1>3. /\ query.s \in Seq(Byte) /\ Len(query.s) \in Nat /\ N \in Nat
      /\ query.minEnd \in Nat \ {0} /\ query.maxEnd \in Nat
      /\ query.minEnd <= query.maxEnd /\ query.maxEnd <= Len(query.s)
  BY <1>2, QueryFacts, ZenonT(60) DEF Built
<1>4. p \in Seq(Byte)
  BY <1>3, PrefixFacts
<1> HIDE DEF p
<1>5. \/ /\ ranks = <<-1, -1>>
         /\ \A k \in 0..(N-1) : ~ HasPrefix(SuffixAt(k), p)
      \/ /\ ranks[1] \in 0..N /\ ranks[2] \in ranks[1]..N
         /\ \A k \in 0..(N-1) : HasPrefix(SuffixAt(k), p) <=> k \in ranks[1]..(ranks[2]-1)
  BY <1>2, <1>4, InitialFinds, Zenon
<1> HIDE DEF ranks
<1>6. \A k \in 0..(N-1) : MatchAt(k, query.minEnd) <=> HasPrefix(SuffixAt(k), p) /\ InRange(k)
  BY Zenon DEF MatchAt, p
<1>7. \A k : k \in valid <=> k \in 0..(N-1) /\ MatchAt(k, query.minEnd)
  <2>1. CASE ranks = <<-1, -1>> /\ \A k \in 0..(N-1) : ~ HasPrefix(SuffixAt(k), p)
    BY <1>3, <1>6, <2>1
  <2>2. CASE /\ ranks[1] \in 0..N /\ ranks[2] \in ranks[1]..N
             /\ \A k \in 0..(N-1) : HasPrefix(SuffixAt(k), p) <=> k \in ranks[1]..(ranks[2]-1)
    BY <1>3, <1>6, <2>2
  <2> QED
    BY <1>5, <2>1, <2>2, ZenonT(60)
<1> HIDE DEF valid
<1>8. query' \in Queries(data') /\ sa' \in SuffixArrays(data')
  BY <1>1, <1>2, ZenonT(60) DEF Built
<1>9. CASE valid = {}
  <2>1. at' = "returned" /\ UNCHANGED <<sStart, sEnd, low, high, index, length>>
    BY <1>1, <1>9, ZenonT(60)
  <2>2. AllMatches = {}
    <3> SUFFICES ASSUME NEW x \in AllMatches PROVE FALSE
      BY Zenon
    <3>1. x.length \in query.minEnd..query.maxEnd
      BY <1>2, RankOfMatch, ZenonT(60)
    <3>2. PICK k \in 0..(N-1) : MatchAt(k, x.length)
      BY <1>2, RankOfMatch, ZenonT(60)
    <3>3. query.minEnd \in query.minEnd..x.length
      BY <1>3, <3>1
    <3>4. MatchAt(k, query.minEnd)
      BY <1>2, <3>1, <3>2, <3>3, ShorterMatch, ZenonT(60)
    <3> QED
      BY <1>7, <1>9, <3>4, ZenonT(60)
  <2>3. ReturnsLongest'
    <3>1. [address |-> index, length |-> length] = NoMatch
      BY <1>2, ZenonT(60) DEF NoMatch
    <3>2. NoMatch \in LookupLongest(query.s, 0, data, query.minEnd, query.maxEnd,
                                    query.rangeStart, query.rangeEnd)
      BY <2>2, Zenon DEF LookupLongest, AllMatches
    <3> QED
      BY <1>1, <2>1, <3>1, <3>2, ZenonT(60) DEF ReturnsLongest
  <2>4. IndexTypeOK'
    BY <1>1, <1>2, <2>1, ZenonT(60) DEF IndexTypeOK
  <2>5. SearchSound'
    BY <2>1, Zenon DEF SearchSound
  <2> QED
    BY <1>8, <2>1, <2>3, <2>4, <2>5, ZenonT(60) DEF IndexInv
<1>10. CASE valid # {}
  <2>1. /\ at' = "search" /\ index' = At(sa, least) /\ length' = query.minEnd
        /\ sStart' = ranks[1] /\ sEnd' = ranks[2]
        /\ low' = query.minEnd /\ high' = query.maxEnd
    BY <1>1, <1>10, ZenonT(60)
  <2>2. least \in valid
    <3>1. valid \in SUBSET Nat
      BY <1>3, <1>7
    <3>2. \E k \in valid : \A j \in valid : k <= j
      BY <1>10, <3>1, LeastExists, Zenon
    <3> QED
      BY <3>2, ZenonT(60)
  <2> HIDE DEF least
  <2>3. least \in 0..(N-1) /\ MatchAt(least, query.minEnd)
    BY <1>7, <2>2, Zenon
  <2>4. /\ ranks[1] \in 0..N /\ ranks[2] \in ranks[1]..N
        /\ \A k \in 0..(N-1) : HasPrefix(SuffixAt(k), p) <=> k \in ranks[1]..(ranks[2]-1)
    <3>1. HasPrefix(SuffixAt(least), p)
      BY <1>6, <2>3, ZenonT(60)
    <3> QED
      BY <1>5, <2>3, <3>1, ZenonT(60)
  <2>5. query.minEnd \in query.minEnd..query.maxEnd
    BY <1>3, SMTT(60)
  <2>6. [address |-> index', length |-> length'] \in AllMatches
    BY <1>2, <2>1, <2>3, <2>5, MatchOfRank, ZenonT(60)
  <2>7. \A x \in AllMatches : x.length <= high'
    BY <1>2, <1>3, <2>1, RankOfMatch, SMTT(60)
  <2>8. SearchSound' /\ ReturnsLongest'
    BY <1>1, <2>1, <2>6, <2>7, ZenonT(60) DEF SearchSound, ReturnsLongest, AllMatches
  <2>9. At(sa, least) \in 0..(N-1)
    BY <1>2, <2>3, RankFacts, ZenonT(60)
  <2>10. IndexTypeOK'
    <3>1. sStart' \in 0..N /\ sEnd' \in 0..N /\ low' \in Nat /\ high' \in Nat /\ length' \in Int
      BY <1>3, <2>1, <2>4
    <3>2. index' \in -1..(N-1)
      BY <1>3, <2>1, <2>9
    <3> QED
      BY <1>1, <1>2, <2>1, <3>1, <3>2, ZenonT(60) DEF IndexTypeOK
  <2>11. RanksInv'
    <3>1. ASSUME NEW k \in 0..(N-1), NEW m \in query.minEnd..query.maxEnd,
                 InRange(k), HasPrefix(SuffixAt(k), SubSeq(query.s, 1, m))
          PROVE  k \in ranks[1]..(ranks[2]-1)
      <4>1. query.minEnd \in query.minEnd..m
        BY <1>3
      <4>2. MatchAt(k, query.minEnd)
        BY <1>2, <3>1, <4>1, ShorterMatch, ZenonT(60) DEF MatchAt
      <4> QED
        BY <1>6, <2>4, <4>2, ZenonT(60)
    <3>2. ranks[1] <= ranks[2]
      BY <1>3, <2>4
    <3> QED
      BY <1>1, <2>1, <3>1, <3>2, ZenonT(60) DEF RanksInv, InRange, SuffixAt
  <2> QED
    BY <1>1, <1>3, <1>8, <2>1, <2>5, <2>8, <2>10, <2>11, SMTT(60) DEF IndexInv
<1> QED
  BY <1>9, <1>10, ZenonT(60)

\* A probe rules out no match that is longer than the one it leaves.
LEMMA ProbeStep ==
  ASSUME IndexInv, Probe
  PROVE  IndexInv'
<1> DEFINE N == Len(data)
           p == SubSeq(query.s, 1, mid)
           found == lookupLongest(p, sStart, sEnd)
<1>1. /\ at = "search" /\ low <= high
      /\ IF found.offset # -1
         THEN /\ sStart' = found.rStart /\ index' = found.offset /\ length' = mid
              /\ low' = mid + 1 /\ high' = high
         ELSE /\ high' = mid - 1 /\ sStart' = sStart /\ low' = low
              /\ index' = index /\ length' = length
      /\ data' = data /\ sa' = sa /\ query' = query /\ at' = at /\ sEnd' = sEnd
  BY Zenon DEF Probe, resultVars
<1>2. Built /\ query \in Queries(data) /\ IndexTypeOK
  BY <1>1, TextsAssumption, ZenonT(60) DEF IndexInv, IndexTypeOK, Built
<1>3. /\ query.s \in Seq(Byte) /\ Len(query.s) \in Nat /\ N \in Nat
      /\ query.minEnd \in Nat \ {0} /\ query.maxEnd \in Nat
      /\ query.minEnd <= query.maxEnd /\ query.maxEnd <= Len(query.s)
  BY <1>2, QueryFacts, ZenonT(60) DEF Built
<1>4. /\ length \in query.minEnd..query.maxEnd /\ low \in {length, length + 1}
      /\ high <= query.maxEnd /\ RanksInv
      /\ [address |-> index, length |-> length] \in AllMatches
      /\ \A x \in AllMatches : x.length <= high
  BY <1>1, ZenonT(60) DEF IndexInv, SearchSound, AllMatches
<1>5. /\ low \in Nat /\ high \in Nat /\ sStart \in 0..N /\ sEnd \in 0..N /\ index \in -1..(N-1)
  BY <1>2, ZenonT(60) DEF IndexTypeOK
<1>6. mid \in low..high /\ mid \in query.minEnd..query.maxEnd /\ mid \in Nat \ {0}
  <2>1. mid \in low..high
    BY <1>1, <1>5 DEF mid
  <2> QED
    BY <1>3, <1>4, <1>5, <2>1, SMTT(60)
<1>7. p \in Seq(Byte)
  <2>1. mid \in Nat /\ mid <= Len(query.s)
    BY <1>3, <1>6
  <2> QED
    BY <1>3, <2>1, PrefixFacts, ZenonT(60)
<1> HIDE DEF p
<1>8. sStart \in 0..N /\ sEnd \in sStart..N
  BY <1>3, <1>4, <1>5 DEF RanksInv
<1>9. /\ found.offset # -1 =>
           /\ \E k \in sStart..(sEnd-1) :
                InRange(k) /\ HasPrefix(SuffixAt(k), p) /\ found.offset = At(sa, k)
           /\ found.rStart \in sStart..sEnd
           /\ \A k \in sStart..(sEnd-1) : HasPrefix(SuffixAt(k), p) => found.rStart <= k
      /\ found.offset = -1 =>
           \A k \in sStart..(sEnd-1) : ~ (InRange(k) /\ HasPrefix(SuffixAt(k), p))
  BY <1>2, <1>7, <1>8, LookupFinds, ZenonT(60)
<1> HIDE DEF found
<1>10. \A k \in 0..(N-1) : MatchAt(k, mid) <=> InRange(k) /\ HasPrefix(SuffixAt(k), p)
  BY Zenon DEF MatchAt, p
<1>11. ASSUME NEW k \in 0..(N-1), NEW m \in mid..query.maxEnd, MatchAt(k, m)
       PROVE  k \in sStart..(sEnd-1) /\ MatchAt(k, mid)
  <2>1. m \in low..query.maxEnd /\ m \in query.minEnd..query.maxEnd /\ mid \in query.minEnd..m
    BY <1>3, <1>5, <1>6
  <2>2. k \in sStart..(sEnd-1)
    BY <1>4, <1>11, <2>1, ZenonT(60) DEF RanksInv, MatchAt
  <2>3. MatchAt(k, mid)
    BY <1>2, <1>11, <2>1, ShorterMatch, ZenonT(60)
  <2> QED
    BY <2>2, <2>3, ZenonT(60)
<1>12. query' \in Queries(data') /\ sa' \in SuffixArrays(data')
  BY <1>1, <1>2, ZenonT(60) DEF Built
<1>13. CASE found.offset # -1
  <2>1. /\ sStart' = found.rStart /\ index' = found.offset /\ length' = mid
        /\ low' = mid + 1 /\ high' = high
    BY <1>1, <1>13, ZenonT(60)
  <2>2. PICK k \in sStart..(sEnd-1) :
          InRange(k) /\ HasPrefix(SuffixAt(k), p) /\ found.offset = At(sa, k)
    BY <1>9, <1>13, ZenonT(60)
  <2>3. k \in 0..(N-1)
    BY <1>3, <1>8
  <2>4. [address |-> index', length |-> length'] \in AllMatches
    <3>1. MatchAt(k, mid)
      BY <1>10, <2>2, <2>3, ZenonT(60)
    <3> QED
      BY <1>2, <1>6, <2>1, <2>2, <2>3, <3>1, MatchOfRank, ZenonT(60)
  <2>5. SearchSound' /\ ReturnsLongest'
    BY <1>1, <1>4, <2>1, <2>4, ZenonT(60) DEF SearchSound, ReturnsLongest, AllMatches
  <2>6. found.rStart \in sStart..sEnd /\ At(sa, k) \in 0..(N-1)
    BY <1>2, <1>9, <1>13, <2>3, RankFacts, ZenonT(60)
  <2>7. IndexTypeOK'
    BY <1>1, <1>2, <1>3, <1>5, <1>6, <1>8, <2>1, <2>2, <2>6, SMTT(60) DEF IndexTypeOK
  <2>8. RanksInv'
    <3>1. ASSUME NEW j \in 0..(N-1), NEW m \in (mid+1)..query.maxEnd,
                 InRange(j), HasPrefix(SuffixAt(j), SubSeq(query.s, 1, m))
          PROVE  j \in found.rStart..(sEnd-1)
      <4>1. m \in mid..query.maxEnd
        BY <1>3, <1>6
      <4>2. j \in sStart..(sEnd-1) /\ MatchAt(j, mid)
        BY <1>11, <3>1, <4>1, ZenonT(60) DEF MatchAt
      <4>3. found.rStart <= j
        BY <1>9, <1>10, <1>13, <4>2, ZenonT(60)
      <4> QED
        BY <1>8, <2>6, <4>2, <4>3
    <3>2. found.rStart <= sEnd
      BY <1>8, <2>6
    <3> QED
      BY <1>1, <2>1, <3>1, <3>2, Zenon DEF RanksInv, InRange, SuffixAt
  <2> QED
    BY <1>1, <1>4, <1>6, <1>12, <2>1, <2>5, <2>7, <2>8, ZenonT(60) DEF IndexInv
<1>14. CASE found.offset = -1
  <2>1. /\ high' = mid - 1 /\ sStart' = sStart /\ low' = low
        /\ index' = index /\ length' = length
    BY <1>1, <1>14, ZenonT(60)
  <2>2. ASSUME NEW x \in AllMatches PROVE x.length <= mid - 1
    <3>1. x.length \in query.minEnd..query.maxEnd
      BY <1>2, RankOfMatch, Zenon
    <3>2. PICK k \in 0..(N-1) : MatchAt(k, x.length)
      BY <1>2, RankOfMatch, ZenonT(60)
    <3>3. ASSUME x.length >= mid PROVE FALSE
      <4>1. x.length \in mid..query.maxEnd
        BY <1>3, <1>6, <3>1, <3>3
      <4>2. k \in sStart..(sEnd-1) /\ MatchAt(k, mid)
        BY <1>11, <3>2, <4>1, ZenonT(60)
      <4> QED
        BY <1>9, <1>10, <1>14, <4>2, ZenonT(60)
    <3> QED
      BY <1>3, <1>6, <3>1, <3>3
  <2>3. SearchSound' /\ ReturnsLongest'
    BY <1>1, <1>4, <2>1, <2>2, ZenonT(60) DEF SearchSound, ReturnsLongest, AllMatches
  <2>4. mid - 1 \in Nat /\ mid - 1 <= query.maxEnd
    BY <1>3, <1>6
  <2>5. IndexTypeOK'
    BY <1>1, <1>2, <2>1, <2>4, ZenonT(60) DEF IndexTypeOK
  <2>6. RanksInv'
    BY <1>1, <1>4, <2>1, ZenonT(60) DEF RanksInv, InRange, SuffixAt
  <2> QED
    BY <1>1, <1>4, <1>12, <2>1, <2>3, <2>4, <2>5, <2>6, ZenonT(60) DEF IndexInv
<1> QED
  BY <1>13, <1>14, ZenonT(60)

-----------------------------------------------------------------------------
(* The invariants of LookupLongest. *)

\* Before New, nothing is searched.
LEMMA IndexInvInit ==
  ASSUME Init
  PROVE  IndexInv
<1>1. /\ data \in Texts /\ sa = [r \in 1..Len(data) |-> 0]
      /\ query \in Queries(data) /\ at = "new"
      /\ sStart = 0 /\ sEnd = 0 /\ low = 0 /\ high = 0 /\ index = -1 /\ length = -1
  BY Zenon DEF Init
<1>2. Len(data) \in Nat
  BY <1>1, LenNat, TextsAssumption, ZenonT(60)
<1>3. sa \in [1..Len(data) -> 0..(Len(data)-1)]
  BY <1>1, <1>2
<1>4. IndexTypeOK
  BY <1>1, <1>2, <1>3 DEF IndexTypeOK
<1> QED
  BY <1>1, <1>4, ZenonT(60) DEF IndexInv, SearchSound, ReturnsLongest

\* Every step of LookupLongest keeps the invariant.
LEMMA IndexInvNext ==
  ASSUME IndexInv, [Next]_vars
  PROVE  IndexInv'
<1>1. CASE UNCHANGED vars
  <2>1. UNCHANGED <<data, sa, query, at, sStart, sEnd, low, high, index, length>>
    BY <1>1, Zenon DEF vars, searchVars, resultVars
  <2>2. IndexTypeOK' /\ SearchSound' /\ ReturnsLongest'
    BY <2>1, ZenonT(60) DEF IndexInv, IndexTypeOK, SearchSound, ReturnsLongest
  <2>3. at = "search" => RanksInv'
    BY <2>1, ZenonT(60) DEF IndexInv, RanksInv, InRange, SuffixAt
  <2> QED
    BY <2>1, <2>2, <2>3, ZenonT(60) DEF IndexInv
<1> QED
  BY <1>1, NewStep, InitialStep, ProbeStep, ReturnStep, ZenonT(60) DEF Next

\* The inductive invariant: the ranks and the lengths that are left hold every
\* match that is longer than the one found.
THEOREM IndexInvariant == Spec => []IndexInv
<1> QED
  BY IndexInvInit, IndexInvNext, PTL DEF Spec

\* suffixarray.go:95-117: the ranks and the lengths of the search stay in range.
THEOREM IndexTyped == Spec => []IndexTypeOK
<1>1. IndexInv => IndexTypeOK
  BY ZenonT(60) DEF IndexInv
<1> QED
  BY <1>1, IndexInvariant, PTL

\* suffixarray.go:98-115: a match that the search rules out is not a longer one.
THEOREM SearchIsSound == Spec => []SearchSound
<1>1. IndexInv => SearchSound
  BY ZenonT(60) DEF IndexInv
<1> QED
  BY <1>1, IndexInvariant, PTL

\* suffixarray.go:75-117: LookupLongest returns a longest match in the range, or
\* none if there is none, for every text, every pattern and every range.
THEOREM LookupIsLongest == Spec => []ReturnsLongest
<1>1. IndexInv => ReturnsLongest
  BY Zenon DEF IndexInv
<1> QED
  BY <1>1, IndexInvariant, PTL
=============================================================================
