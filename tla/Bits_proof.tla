----------------------------- MODULE Bits_proof -----------------------------
(***************************************************************************)
(* Lemmas about the bits of a file: where the bits of each phrase are,     *)
(* that the phrases are read back from them, and what they mean.           *)
(***************************************************************************)
EXTENDS Bits, WriteLoop_proof

Bit == {0, 1}

\* No field of a file is wider.
MaxWidth == 16 + LengthBits + ShortAddrBits + DynAddrBits

\* The digit of v that a power of two picks is a bit.
LEMMA DigitIsBit ==
  ASSUME NEW v \in Nat, NEW m \in 0..MaxWidth
  PROVE  (v \div 2^m) % 2 \in Bit
<1> DEFINE p == 2^m
<1>1. p \in Nat \ {0}
  BY PowerAssumption, ZenonT(60) DEF MaxWidth
<1> HIDE DEF p
<1>2. v \div p \in Int
  BY <1>1
<1>3. (v \div p) % 2 \in Bit
  BY <1>2 DEF Bit
<1> QED
  BY <1>3, ZenonT(60) DEF p

\* WriteBits writes as many bits as it is told.
LEMMA NumBitsFacts ==
  ASSUME NEW v \in Nat, NEW n \in 0..MaxWidth
  PROVE  NumBits(v, n) \in Seq(Bit) /\ Len(NumBits(v, n)) = n
<1>1. n \in Nat /\ MaxWidth \in Nat
  BY BitsAssumption DEF MaxWidth
<1>2. ASSUME NEW k \in 1..n PROVE (v \div 2^(n-k)) % 2 \in Bit
  <2>1. n - k \in 0..MaxWidth
    BY <1>1
  <2> QED
    BY <2>1, DigitIsBit, ZenonT(60)
<1>3. NumBits(v, n) = [k \in 1..n |-> (v \div 2^(n-k)) % 2]
  BY ZenonT(60) DEF NumBits
<1> QED
  BY <1>1, <1>2, <1>3

\* A byte takes eight bits.
LEMMA BytesBitsFacts ==
  ASSUME NEW bytes \in Seq(Byte)
  PROVE  BytesBits(bytes) \in Seq(Bit) /\ Len(BytesBits(bytes)) = 8 * Len(bytes)
<1>1. \A q \in 1..Len(bytes) : bytes[q] \in Byte
  OBVIOUS
<1>2. Byte \subseteq Nat /\ 8 * Len(bytes) \in Nat
  BY DEF Byte
<1>3. ASSUME NEW k \in 1..(8 * Len(bytes))
      PROVE  (bytes[(k + 7) \div 8] \div 2^((8 - k) % 8)) % 2 \in Bit
  <2>1. (k + 7) \div 8 \in 1..Len(bytes)
    OBVIOUS
  <2>2. (8 - k) % 8 \in 0..MaxWidth
    BY BitsAssumption DEF MaxWidth
  <2> QED
    BY <1>1, <1>2, <2>1, <2>2, DigitIsBit, ZenonT(60)
<1> QED
  BY <1>2, <1>3 DEF BytesBits

\* Header.WriteTo writes three bytes.
LEMMA HeaderBitsFacts ==
  ASSUME NEW bypass \in BOOLEAN
  PROVE  HeaderBits(bypass) \in Seq(Bit) /\ Len(HeaderBits(bypass)) = 24
<1>1. 16 \in 0..MaxWidth /\ 8 \in 0..MaxWidth
  BY BitsAssumption DEF MaxWidth
<1>2. Version \in Nat /\ ind(bypass) \in Nat
  BY ZenonT(60) DEF Version, ind
<1>3. /\ NumBits(Version, 16) \in Seq(Bit) /\ Len(NumBits(Version, 16)) = 16
      /\ NumBits(ind(bypass), 8) \in Seq(Bit) /\ Len(NumBits(ind(bypass), 8)) = 8
  BY <1>1, <1>2, NumBitsFacts, ZenonT(60)
<1> DEFINE v == NumBits(Version, 16)
           f == NumBits(ind(bypass), 8)
<1> HIDE DEF v, f
<1>4. v \in Seq(Bit) /\ f \in Seq(Bit)
  BY <1>3, ZenonT(60) DEF v, f
<1>5. Len(v) = 16 /\ Len(f) = 8
  BY <1>3, ZenonT(60) DEF v, f
<1>6. v \o f \in Seq(Bit) /\ Len(v \o f) = Len(v) + Len(f)
  BY <1>4, ConcatFacts, ZenonT(60)
<1>7. v \o f \in Seq(Bit) /\ Len(v \o f) = 24
  BY <1>5, <1>6
<1> QED
  BY <1>7, ZenonT(60) DEF HeaderBits, v, f

-----------------------------------------------------------------------------
(* The phrases of a stream. *)

\* A phrase takes eight bits, or those of its reference type.
LEMMA PhraseBitsFacts ==
  ASSUME NEW ph \in Phrase
  PROVE  /\ PhraseBits(ph) \in Seq(Bit)
         /\ Len(PhraseBits(ph)) = IF canEncodeSymbol(ph.symbol) THEN 8
                                  ELSE TypeOf(ph.symbol).NbBitsBackRef
<1> DEFINE w == TypeOf(ph.symbol).NbBitsAddress
<1>1. 8 \in 0..MaxWidth /\ LengthBits \in 0..MaxWidth /\ w \in 0..MaxWidth
  BY BitsAssumption
  DEF MaxWidth, TypeOf, NewShortBackrefType, NewDynamicBackrefType, newBackRefType
<1>2. ph.symbol \in Nat /\ ph.length \in Nat /\ ph.address \in Nat
  BY DEF Phrase, Byte
<1>3. TypeOf(ph.symbol).NbBitsBackRef = 8 + w + LengthBits
  BY ZenonT(60) DEF TypeOf, NewShortBackrefType, NewDynamicBackrefType, newBackRefType
<1> HIDE DEF w
<1>4. /\ NumBits(ph.symbol, 8) \in Seq(Bit) /\ Len(NumBits(ph.symbol, 8)) = 8
      /\ NumBits(ph.length, LengthBits) \in Seq(Bit)
      /\ Len(NumBits(ph.length, LengthBits)) = LengthBits
      /\ NumBits(ph.address, w) \in Seq(Bit) /\ Len(NumBits(ph.address, w)) = w
  BY <1>1, <1>2, NumBitsFacts, ZenonT(60)
<1>5. MaxWidth \in Nat
  BY BitsAssumption DEF MaxWidth
<1>6. CASE canEncodeSymbol(ph.symbol)
  BY <1>4, <1>6, ZenonT(60) DEF PhraseBits
<1>7. CASE ~ canEncodeSymbol(ph.symbol)
  <2> DEFINE s == NumBits(ph.symbol, 8)
             l == NumBits(ph.length, LengthBits)
             a == NumBits(ph.address, w)
  <2> HIDE DEF s, l, a
  <2>1. PhraseBits(ph) = (s \o l) \o a
    BY <1>7, ZenonT(60) DEF PhraseBits, w, s, l, a
  <2>2. s \in Seq(Bit) /\ l \in Seq(Bit) /\ a \in Seq(Bit)
    BY <1>4, ZenonT(60) DEF s, l, a
  <2>3. s \o l \in Seq(Bit) /\ Len(s \o l) = Len(s) + Len(l)
    BY <2>2, ConcatFacts, ZenonT(60)
  <2>4. (s \o l) \o a \in Seq(Bit) /\ Len((s \o l) \o a) = Len(s \o l) + Len(a)
    BY <2>2, <2>3, ConcatFacts, ZenonT(60)
  <2>5. Len(PhraseBits(ph)) = 8 + w + LengthBits
    <3>1. Len(s) = 8 /\ Len(l) = LengthBits /\ Len(a) = w
      BY <1>4, ZenonT(60) DEF s, l, a
    <3> QED
      BY <1>1, <1>5, <2>1, <2>3, <2>4, <3>1
  <2> QED
    BY <1>3, <1>7, <2>1, <2>4, <2>5, ZenonT(60)
<1> QED
  BY <1>6, <1>7, ZenonT(60)

\* StreamBits puts the bits of the phrases one behind the other.
LEMMA StreamBitsRec ==
  ASSUME NEW phrases \in Seq(Phrase)
  PROVE  \E f \in [0..Len(phrases) -> Seq(Bit)] :
           /\ f[0] = <<>>
           /\ \A n \in 1..Len(phrases) : f[n] = f[n - 1] \o PhraseBits(phrases[n])
           /\ StreamBits(phrases) = f[Len(phrases)]
<1> DEFINE N == Len(phrases)
           g == [p \in Seq(Bit) \X (1..N) |-> p[1] \o PhraseBits(phrases[p[2]])]
           rec(f) == f = [n \in 0..N |-> IF n = 0 THEN <<>> ELSE f[n - 1] \o PhraseBits(phrases[n])]
           bits == CHOOSE f : rec(f)
<1>1. N \in Nat /\ <<>> \in Seq(Bit)
  OBVIOUS
<1>2. ASSUME NEW s \in Seq(Bit), NEW n \in 1..N
      PROVE  s \o PhraseBits(phrases[n]) \in Seq(Bit)
  <2>1. PhraseBits(phrases[n]) \in Seq(Bit)
    BY PhraseBitsFacts
  <2> QED
    BY <2>1, ConcatFacts, ZenonT(60)
<1>3. g \in [Seq(Bit) \X (1..N) -> Seq(Bit)]
  BY <1>2, ZenonT(60)
<1>4. \A s \in Seq(Bit), n \in 1..N : g[<<s, n>>] = s \o PhraseBits(phrases[n])
  BY ZenonT(60)
<1>5. StreamBits(phrases) = bits[N]
  BY ZenonT(60) DEF StreamBits
<1> HIDE DEF g, N
<1>6. PICK f \in [0..N -> Seq(Bit)] : f[0] = <<>> /\ \A n \in 1..N : f[n] = g[<<f[n-1], n>>]
  <2> DEFINE S == Seq(Bit)
             a == <<>>
  <2>1. a \in S /\ g \in [S \X (1..N) -> S] /\ N \in Nat
    BY <1>1, <1>3, ZenonT(60)
  <2> HIDE DEF S, a
  <2>2. \E f \in [0..N -> S] : Iterates(f, g, a, N)
    BY <2>1, IterateExists, ZenonT(60)
  <2> QED
    BY <2>2, ZenonT(60) DEF S, a, Iterates
<1>7. ASSUME NEW n \in 1..N PROVE f[n] = f[n-1] \o PhraseBits(phrases[n])
  <2>1. n - 1 \in 0..N
    BY <1>1
  <2>2. f[n-1] \in Seq(Bit)
    BY <2>1, ZenonT(60)
  <2> QED
    BY <1>4, <1>6, <2>2, ZenonT(60)
<1>8. rec(f)
  <2> SUFFICES ASSUME NEW n \in 0..N, n # 0
               PROVE  f[n] = f[n - 1] \o PhraseBits(phrases[n])
    BY <1>6, ZenonT(60)
  <2>1. n \in 1..N
    BY <1>1
  <2> QED
    BY <1>7, <2>1, ZenonT(60)
<1>9. rec(bits)
  BY <1>8, ZenonT(60)
<1> HIDE DEF bits
<1>10. bits[0] = <<>> /\ \A n \in 1..N : bits[n] = bits[n-1] \o PhraseBits(phrases[n])
  <2>1. 0 \in 0..N /\ \A n \in 1..N : n \in 0..N /\ n # 0
    BY <1>1
  <2> QED
    BY <1>9, <2>1, ZenonT(60)
<1> DEFINE P == {m \in 0..N : bits[m] \in Seq(Bit)}
<1>11. \A n \in 0..N : n \in P
  <2>1. ASSUME NEW n \in 1..N, bits[n-1] \in Seq(Bit) PROVE bits[n] \in Seq(Bit)
    BY <1>2, <1>10, <2>1, ZenonT(60)
  <2> QED
    <3>0. 0 \in 0..N
      BY <1>1
    <3>1. 0 \in P
      BY <1>1, <1>10, <3>0, ZenonT(60)
    <3>2. \A n \in 1..N : n - 1 \in P => n \in P
      BY <1>1, <2>1
    <3> HIDE DEF P
    <3> QED
      BY <1>1, <3>1, <3>2, UpTo, ZenonT(60)
<1>12. bits \in [0..N -> Seq(Bit)]
  BY <1>9, <1>11, ZenonT(60)
<1> QED
  BY <1>5, <1>10, <1>12, ZenonT(60) DEF N

\* The bits of phrases are bits.
LEMMA StreamBitsFacts ==
  ASSUME NEW phrases \in Seq(Phrase)
  PROVE  StreamBits(phrases) \in Seq(Bit)
<1>1. Len(phrases) \in 0..Len(phrases)
  OBVIOUS
<1> QED
  BY <1>1, StreamBitsRec, ZenonT(60)

\* There are none when there are no phrases.
LEMMA StreamBitsNone == StreamBits(<<>>) = <<>>
<1> DEFINE none == <<>>
<1>1. none \in Seq(Phrase) /\ Len(none) = 0
  OBVIOUS
<1> HIDE DEF none
<1>2. StreamBits(none) = <<>>
  BY <1>1, StreamBitsRec, ZenonT(60)
<1> QED
  BY <1>2, ZenonT(60) DEF none

-----------------------------------------------------------------------------
(* Numbers. *)

\* A quotient is what is left when the remainder is taken off.
LEMMA DivUnique ==
  ASSUME NEW v \in Nat, NEW p \in Nat \ {0}, NEW q \in Nat, NEW r \in Nat, r < p, v = p * q + r
  PROVE  v \div p = q
  BY SMT

\* Quotient and remainder of a division.
LEMMA DivFacts ==
  ASSUME NEW v \in Nat, NEW p \in Nat \ {0}
  PROVE  v \div p \in Nat /\ v % p \in Nat /\ v % p < p /\ v = p * (v \div p) + (v % p)
  BY SMT

\* Half of a quotient.
LEMMA DivTwice ==
  ASSUME NEW v \in Nat, NEW p \in Nat \ {0}
  PROVE  v \div (2 * p) = (v \div p) \div 2
<1> DEFINE q == v \div p
           r == v % p
           a == q \div 2
           b == q % 2
<1>1. q \in Nat /\ r \in Nat /\ r < p /\ v = p * q + r
  BY DivFacts, ZenonT(60)
<1> HIDE DEF q, r
<1>2. a \in Nat /\ b \in {0, 1} /\ q = 2 * a + b
  BY <1>1
<1> HIDE DEF a, b
<1> DEFINE m == 2 * p
           x == m * a
           y == p * b
<1>3. m \in Nat \ {0} /\ x \in Nat /\ y \in {0, p} /\ p * q = x + y
  BY <1>2
<1>4. y + r \in Nat /\ y + r < m
  BY <1>1, <1>3
<1>5. v = m * a + (y + r)
  <2>1. v = (x + y) + r
    BY <1>1, <1>3, ZenonT(60)
  <2> HIDE DEF x, y
  <2>2. v = x + (y + r)
    BY <1>1, <1>3, <2>1
  <2> QED
    BY <2>2, ZenonT(60) DEF x
<1> HIDE DEF m, y
<1>6. v \div m = a
  BY <1>2, <1>3, <1>4, <1>5, DivUnique, ZenonT(60)
<1> QED
  BY <1>6, ZenonT(60) DEF m, a, q

\* BitsNum doubles, and adds the next bit.
LEMMA BitsNumRec ==
  ASSUME NEW bits \in Seq(Bit)
  PROVE  \E num \in [0..Len(bits) -> Nat] :
           /\ num[0] = 0
           /\ \A k \in 1..Len(bits) : num[k] = 2 * num[k-1] + bits[k]
           /\ BitsNum(bits) = num[Len(bits)]
<1> DEFINE N == Len(bits)
           g == [p \in Nat \X (1..N) |-> 2 * p[1] + bits[p[2]]]
           rec(f) == f = [k \in 0..N |-> IF k = 0 THEN 0 ELSE 2 * f[k - 1] + bits[k]]
           num == CHOOSE f : rec(f)
<1>1. N \in Nat /\ \A k \in 1..N : bits[k] \in Nat
  BY DEF Bit
<1>2. BitsNum(bits) = num[N]
  BY ZenonT(60) DEF BitsNum
<1>3. g \in [Nat \X (1..N) -> Nat]
  BY <1>1
<1>4. \A v \in Nat, k \in 1..N : g[<<v, k>>] = 2 * v + bits[k]
  BY ZenonT(60)
<1> HIDE DEF g, N
<1>5. PICK f \in [0..N -> Nat] : Iterates(f, g, 0, N)
  BY <1>1, <1>3, IterateExists, ZenonT(60)
<1>6. ASSUME NEW k \in 1..N PROVE f[k] = 2 * f[k-1] + bits[k]
  <2>1. k - 1 \in 0..N
    BY <1>1
  <2>2. f[k-1] \in Nat
    BY <2>1, ZenonT(60)
  <2> QED
    BY <1>4, <1>5, <2>2, ZenonT(60) DEF Iterates
<1>7. rec(f)
  <2> SUFFICES ASSUME NEW k \in 0..N, k # 0 PROVE f[k] = 2 * f[k - 1] + bits[k]
    BY <1>5, ZenonT(60) DEF Iterates
  <2>1. k \in 1..N
    BY <1>1
  <2> QED
    BY <1>6, <2>1, ZenonT(60)
<1>8. rec(num)
  BY <1>7, ZenonT(60)
<1> HIDE DEF num
<1>9. num[0] = 0 /\ \A k \in 1..N : num[k] = 2 * num[k-1] + bits[k]
  <2>1. 0 \in 0..N /\ \A k \in 1..N : k \in 0..N /\ k # 0
    BY <1>1
  <2> QED
    BY <1>8, <2>1, ZenonT(60)
<1> DEFINE P == {k \in 0..N : num[k] \in Nat}
<1>10. \A k \in 0..N : k \in P
  <2>1. 0 \in P
    BY <1>1, <1>9
  <2>2. ASSUME NEW k \in 1..N, k - 1 \in P PROVE k \in P
    <3>1. num[k-1] \in Nat /\ bits[k] \in Nat /\ num[k] = 2 * num[k-1] + bits[k]
      BY <1>1, <1>9, <2>2, ZenonT(60)
    <3>2. num[k] \in Nat
      BY <3>1
    <3>3. k \in 0..N
      BY <1>1
    <3> QED
      BY <3>2, <3>3, ZenonT(60)
  <2> HIDE DEF P
  <2> QED
    BY <1>1, <2>1, <2>2, UpTo, ZenonT(60)
<1>11. num \in [0..N -> Nat]
  BY <1>8, <1>10, ZenonT(60)
<1> QED
  BY <1>2, <1>9, <1>11, ZenonT(60) DEF N

\* A number that fits its field is read back from it.
LEMMA NumBack ==
  ASSUME NEW n \in 0..MaxWidth, NEW v \in Nat, v < 2^n
  PROVE  BitsNum(NumBits(v, n)) = v
<1> DEFINE bits == NumBits(v, n)
           pow(k) == 2^(n - k)
<1>1. n \in Nat /\ MaxWidth \in Nat
  BY BitsAssumption DEF MaxWidth
<1>2. bits \in Seq(Bit) /\ Len(bits) = n
  BY NumBitsFacts, ZenonT(60)
<1>3. \A k \in 1..n : bits[k] = (v \div pow(k)) % 2
  BY ZenonT(60) DEF NumBits
<1>4. \A k \in 0..n : pow(k) \in Nat \ {0}
  <2>1. \A k \in 0..n : n - k \in 0..MaxWidth
    BY <1>1
  <2> QED
    BY <2>1, PowerAssumption, ZenonT(60) DEF MaxWidth
<1>5. \A k \in 1..n : pow(k - 1) = 2 * pow(k)
  <2> SUFFICES ASSUME NEW k \in 1..n PROVE 2^(n - (k - 1)) = 2 * 2^(n - k)
    BY ZenonT(60)
  <2>1. n - k \in 0..MaxWidth /\ n - (k - 1) = (n - k) + 1
    BY <1>1
  <2> QED
    BY <2>1, PowerAssumption, ZenonT(60) DEF MaxWidth
<1>6. pow(0) = 2^n /\ pow(n) = 1
  <2>1. n - 0 = n /\ n - n = 0
    BY <1>1
  <2> QED
    BY <2>1, PowerAssumption, ZenonT(60)
<1> HIDE DEF bits, pow
<1>7. PICK num \in [0..n -> Nat] :
        /\ num[0] = 0
        /\ \A k \in 1..n : num[k] = 2 * num[k-1] + bits[k]
        /\ BitsNum(bits) = num[n]
  BY <1>2, BitsNumRec, ZenonT(60)
<1> DEFINE P == {k \in 0..n : num[k] = v \div pow(k)}
<1>8. \A k \in 0..n : k \in P
  <2>1. 0 \in P
    <3>1. v \div pow(0) = 0
      <4>1. pow(0) \in Nat \ {0} /\ v < pow(0)
        BY <1>1, <1>4, <1>6
      <4>2. v = pow(0) * 0 + v
        BY <4>1
      <4> QED
        BY <4>1, <4>2, DivUnique, ZenonT(60)
    <3> QED
      BY <1>1, <1>7, <3>1
  <2>2. ASSUME NEW k \in 1..n, k - 1 \in P PROVE k \in P
    <3> DEFINE p == pow(k)
    <3>1. p \in Nat \ {0} /\ pow(k - 1) = 2 * p
      BY <1>1, <1>4, <1>5
    <3>2. num[k-1] = v \div (2 * p) /\ num[k] = 2 * num[k-1] + ((v \div p) % 2)
      BY <1>3, <1>7, <2>2, <3>1, ZenonT(60)
    <3>3. v \div (2 * p) = (v \div p) \div 2
      BY <3>1, DivTwice, ZenonT(60)
    <3>4. v \div p \in Nat
      BY <3>1, DivFacts, ZenonT(60)
    <3> DEFINE q == v \div p
    <3>5. num[k] = 2 * (q \div 2) + (q % 2)
      BY <3>2, <3>3, ZenonT(60)
    <3>6. q \in Nat
      BY <3>4, ZenonT(60)
    <3> HIDE DEF p, q
    <3>7. num[k] = q
      BY <3>5, <3>6
    <3> QED
      BY <1>1, <3>7 DEF p, q
  <2> HIDE DEF P
  <2> QED
    BY <1>1, <2>1, <2>2, UpTo, ZenonT(60)
<1>9. num[n] = v \div 1
  BY <1>1, <1>6, <1>8
<1> QED
  BY <1>7, <1>9 DEF bits

-----------------------------------------------------------------------------
(* Whole bytes. *)

\* The bit writer keeps less than a byte back.
LEMMA WholeFacts ==
  ASSUME NEW bits \in Seq(Bit)
  PROVE  /\ WholeBytes(bits) \in Seq(Bit) /\ Rest(bits) \in Seq(Bit)
         /\ Len(WholeBytes(bits)) = 8 * (Len(bits) \div 8)
         /\ Len(Rest(bits)) = Len(bits) % 8
<1> DEFINE w == 8 * (Len(bits) \div 8)
           r == Len(bits) % 8
<1>1. w \in Nat /\ r \in Nat /\ w + r = Len(bits) /\ Len(bits) \in Nat
  OBVIOUS
<1>2. WholeBytes(bits) = SubSeq(bits, 1, w) /\ Rest(bits) = SubSeq(bits, w + 1, Len(bits))
  BY ZenonT(60) DEF WholeBytes, Rest, NbWhole
<1> HIDE DEF w, r
<1>3. SubSeq(bits, 1, w) \in Seq(Bit) /\ Len(SubSeq(bits, 1, w)) = w
  BY <1>1, PrefixFacts
<1>4. SubSeq(bits, w + 1, Len(bits)) \in Seq(Bit) /\ Len(SubSeq(bits, w + 1, Len(bits))) = r
  BY <1>1, SliceFacts
<1> QED
  BY <1>2, <1>3, <1>4, ZenonT(60) DEF w, r

\* Align fills the last byte up.
LEMMA AlignedFacts ==
  ASSUME NEW bits \in Seq(Bit)
  PROVE  /\ Aligned(bits) \in Seq(Bit) /\ AlignSkips(bits) \in 0..7
         /\ Len(Aligned(bits)) = Len(bits) + AlignSkips(bits)
         /\ Len(Aligned(bits)) = 8 * ((Len(bits) + 7) \div 8)
<1> DEFINE n == AlignSkips(bits)
           pad == [k \in 1..n |-> 0]
<1>1. Len(bits) \in Nat
  OBVIOUS
<1>2. n \in 0..7 /\ Len(bits) + n = 8 * ((Len(bits) + 7) \div 8)
  BY <1>1 DEF AlignSkips
<1>3. pad \in Seq(Bit) /\ Len(pad) = n
  <2> HIDE DEF n
  <2>1. n \in Nat
    BY <1>2
  <2> QED
    BY <2>1 DEF Bit
<1>4. Aligned(bits) = bits \o pad
  BY ZenonT(60) DEF Aligned
<1> HIDE DEF n, pad
<1>5. bits \o pad \in Seq(Bit) /\ Len(bits \o pad) = Len(bits) + Len(pad)
  BY <1>3, ConcatFacts, ZenonT(60)
<1> QED
  BY <1>2, <1>3, <1>4, <1>5, ZenonT(60) DEF n

-----------------------------------------------------------------------------
(* Where the bits of a phrase are. *)

\* The bits of the n-th phrase stand behind the first off[n-1] bits.
PlacedAt(phrases, bits, off) ==
  /\ off \in [0..Len(phrases) -> Nat] /\ off[0] = 0 /\ off[Len(phrases)] = Len(bits)
  /\ \A n \in 1..Len(phrases) :
       /\ off[n] = off[n-1] + Len(PhraseBits(phrases[n])) /\ off[n] <= Len(bits)
       /\ \A k \in 1..Len(PhraseBits(phrases[n])) : bits[off[n-1] + k] = PhraseBits(phrases[n])[k]

\* The bits of a stream have the bits of its phrases at such places.
LEMMA StreamBitsPlaced ==
  ASSUME NEW phrases \in Seq(Phrase)
  PROVE  \E off : PlacedAt(phrases, StreamBits(phrases), off)
<1> DEFINE N == Len(phrases)
           w(n) == PhraseBits(phrases[n])
<1>1. PICK f \in [0..N -> Seq(Bit)] :
        /\ f[0] = <<>>
        /\ \A n \in 1..N : f[n] = f[n - 1] \o w(n)
        /\ StreamBits(phrases) = f[N]
  BY StreamBitsRec, ZenonT(60)
<1>2. N \in Nat /\ \A n \in 1..N : n - 1 \in 0..N /\ n \in 0..N
  OBVIOUS
<1>3. \A n \in 1..N : w(n) \in Seq(Bit)
  BY PhraseBitsFacts
<1> HIDE DEF N, w
<1>4. ASSUME NEW n \in 1..N
      PROVE  /\ Len(f[n]) = Len(f[n-1]) + Len(w(n)) /\ Len(f[n-1]) \in Nat /\ Len(w(n)) \in Nat
             /\ \A k \in 1..Len(f[n-1]) : f[n][k] = f[n-1][k]
             /\ \A k \in 1..Len(w(n)) : f[n][Len(f[n-1]) + k] = w(n)[k]
  <2> DEFINE s == f[n-1]
             t == w(n)
  <2>1. s \in Seq(Bit) /\ t \in Seq(Bit) /\ f[n] = s \o t
    BY <1>1, <1>2, <1>3, ZenonT(60)
  <2> HIDE DEF s, t
  <2>2. /\ Len(s \o t) = Len(s) + Len(t)
        /\ \A k \in 1..Len(s) : (s \o t)[k] = s[k]
        /\ \A k \in 1..Len(t) : (s \o t)[Len(s) + k] = t[k]
    BY <2>1, ConcatFacts
  <2>3. Len(s) \in Nat /\ Len(t) \in Nat
    BY <2>1, LenNat, ZenonT(60)
  <2> QED
    BY <2>1, <2>2, <2>3, ZenonT(60) DEF s, t
<1>5. ASSUME NEW n \in 0..N
      PROVE  \A m \in 0..N : n <= m =>
               Len(f[n]) <= Len(f[m]) /\ \A k \in 1..Len(f[n]) : f[m][k] = f[n][k]
  <2> DEFINE P == {m \in 0..N : n <= m =>
                     Len(f[n]) <= Len(f[m]) /\ \A k \in 1..Len(f[n]) : f[m][k] = f[n][k]}
  <2>1. n \in Nat /\ \A m \in 0..N : Len(f[m]) \in Nat
    BY <1>1, <1>2, LenNat
  <2>2. ASSUME NEW m \in 0..N, m = n PROVE m \in P
    BY <2>1, <2>2
  <2>3. 0 \in P
    <3>1. 0 \in 0..N
      BY <1>2
    <3>2. CASE n = 0
      BY <2>2, <3>1, <3>2, ZenonT(60)
    <3>3. CASE n # 0
      BY <2>1, <3>1, <3>3
    <3> QED
      BY <3>2, <3>3, ZenonT(60)
  <2>4. ASSUME NEW m \in 1..N, m - 1 \in P PROVE m \in P
    <3>1. m \in 0..N /\ m - 1 \in 0..N
      BY <1>2, ZenonT(60)
    <3>2. CASE m = n
      BY <2>2, <3>1, <3>2, ZenonT(60)
    <3>3. CASE m < n
      BY <2>1, <3>1, <3>3
    <3>4. CASE n < m
      <4>1. n <= m - 1
        BY <1>2, <2>1, <3>4
      <4>2. Len(f[n]) <= Len(f[m-1]) /\ \A k \in 1..Len(f[n]) : f[m-1][k] = f[n][k]
        BY <2>4, <4>1, ZenonT(60)
      <4>3. \A k \in 1..Len(f[n]) : k \in 1..Len(f[m-1])
        BY <2>1, <3>1, <4>2
      <4>4. \A k \in 1..Len(f[n]) : f[m][k] = f[n][k]
        BY <1>4, <4>2, <4>3, ZenonT(60)
      <4>5. Len(f[n]) <= Len(f[m])
        BY <1>4, <2>1, <3>1, <4>2
      <4> QED
        BY <3>1, <4>4, <4>5, ZenonT(60)
    <3>5. m = n \/ m < n \/ n < m
      BY <1>2, <2>1
    <3> QED
      BY <3>2, <3>3, <3>4, <3>5, ZenonT(60)
  <2>5. \A m \in 0..N : m \in P
    <3> HIDE DEF P
    <3> QED
      BY <1>2, <2>3, <2>4, UpTo, ZenonT(60)
  <2> QED
    BY <2>5, ZenonT(60)
<1> DEFINE off == [n \in 0..N |-> Len(f[n])]
           bits == f[N]
<1>6. off \in [0..N -> Nat] /\ off[0] = 0 /\ off[N] = Len(bits)
  <2>1. \A n \in 0..N : Len(f[n]) \in Nat
    BY <1>1, LenNat, ZenonT(60)
  <2>2. Len(f[0]) = 0 /\ 0 \in 0..N /\ N \in 0..N
    BY <1>1, <1>2
  <2> QED
    BY <2>1, <2>2, ZenonT(60)
<1>7. ASSUME NEW n \in 1..N
      PROVE  /\ off[n] = off[n-1] + Len(w(n)) /\ off[n] <= Len(bits)
             /\ \A k \in 1..Len(w(n)) : bits[off[n-1] + k] = w(n)[k]
  <2>1. off[n] = Len(f[n]) /\ off[n-1] = Len(f[n-1])
    BY <1>2, ZenonT(60)
  <2>2. n \in 0..N /\ N \in 0..N /\ n <= N
    BY <1>2
  <2>3. Len(f[n]) <= Len(bits) /\ \A k \in 1..Len(f[n]) : bits[k] = f[n][k]
    BY <1>5, <2>2, ZenonT(60)
  <2>4. \A k \in 1..Len(w(n)) : Len(f[n-1]) + k \in 1..Len(f[n])
    BY <1>4
  <2> QED
    BY <1>4, <2>1, <2>3, <2>4
<1>8. PlacedAt(phrases, bits, off)
  BY <1>6, <1>7, ZenonT(60) DEF PlacedAt, N, w
<1> QED
  BY <1>1, <1>8, ZenonT(60)

-----------------------------------------------------------------------------
(* The phrases that are read from bits. *)

\* A piece of s that has the elements of t is t.
LEMMA SliceIs ==
  ASSUME NEW S, NEW s \in Seq(S), NEW t \in Seq(S), NEW m \in Nat, NEW n \in Nat,
         n = Len(t), m + n <= Len(s), \A k \in 1..n : s[m + k] = t[k]
  PROVE  SubSeq(s, m + 1, m + n) = t
<1> DEFINE u == SubSeq(s, m + 1, m + n)
<1>1. u \in Seq(S) /\ Len(u) = n /\ \A k \in 1..n : u[k] = s[m + k]
  BY SliceFacts
<1>2. \A k \in 1..n : u[k] = t[k]
  BY <1>1, ZenonT(60)
<1> HIDE DEF u
<1>3. u = t
  BY <1>1, <1>2
<1> QED
  BY <1>3, ZenonT(60) DEF u

\* A number is read from the bits that hold it.
LEMMA FieldIs ==
  ASSUME NEW bits \in Seq(Bit), NEW n \in 0..MaxWidth, NEW v \in Nat, v < 2^n,
         NEW p \in Nat, p + n <= Len(bits), \A k \in 1..n : bits[p + k] = NumBits(v, n)[k]
  PROVE  Field(bits, p, n) = v
<1> DEFINE t == NumBits(v, n)
<1>1. n \in Nat /\ t \in Seq(Bit) /\ Len(t) = n
  BY NumBitsFacts, BitsAssumption DEF MaxWidth
<1>2. BitsNum(t) = v
  BY NumBack, ZenonT(60)
<1> HIDE DEF t
<1>3. \A k \in 1..n : bits[p + k] = t[k]
  BY ZenonT(60) DEF t
<1>4. SubSeq(bits, p + 1, p + n) = t
  BY <1>1, <1>3, SliceIs, ZenonT(60)
<1> QED
  BY <1>2, <1>4, ZenonT(60) DEF Field

\* What one round of the loop adds, and where it goes on.
ReadAt(bits, read, p) ==
  LET symbol == Field(bits, p, 8)
      size == TypeOf(symbol).NbBitsBackRef
  IN  IF p + 8 > Len(bits) THEN <<>>
      ELSE IF canEncodeSymbol(symbol) THEN <<Literal(symbol)>> \o read[p + 8]
      ELSE IF p + size > Len(bits) THEN <<EndsInRef>>
      ELSE <<[symbol  |-> symbol,
              length  |-> Field(bits, p + 8, LengthBits),
              address |-> Field(bits, p + 8 + LengthBits, TypeOf(symbol).NbBitsAddress)]>>
           \o read[p + size]

\* It goes on behind p.
LEMMA ReadAhead ==
  ASSUME NEW bits \in Seq(Bit), NEW p \in 0..Len(bits), NEW f, NEW h,
         \A q \in (p+1)..Len(bits) : f[q] = h[q]
  PROVE  ReadAt(bits, f, p) = ReadAt(bits, h, p)
<1> DEFINE symbol == Field(bits, p, 8)
           size == TypeOf(symbol).NbBitsBackRef
<1>1. Len(bits) \in Nat /\ p \in Nat
  OBVIOUS
<1>2. size \in Nat /\ size > 0
  BY BitsAssumption DEF TypeOf, NewShortBackrefType, NewDynamicBackrefType, newBackRefType
<1> HIDE DEF symbol, size
<1>3. ASSUME ~ (p + 8 > Len(bits)) PROVE f[p + 8] = h[p + 8]
  <2>1. p + 8 \in (p+1)..Len(bits)
    BY <1>1, <1>3
  <2> QED
    BY <2>1, ZenonT(60)
<1>4. ASSUME ~ (p + size > Len(bits)) PROVE f[p + size] = h[p + size]
  <2>1. p + size \in (p+1)..Len(bits)
    BY <1>1, <1>2, <1>4
  <2> QED
    BY <2>1, ZenonT(60)
<1> QED
  BY <1>3, <1>4, ZenonT(60) DEF ReadAt, symbol, size

\* ReadPhrases is the loop from the start of the bits.
LEMMA ReadPhrasesRec ==
  ASSUME NEW bits \in Seq(Bit)
  PROVE  \E read : /\ \A p \in 0..Len(bits) : read[p] = ReadAt(bits, read, p)
                   /\ ReadPhrases(bits) = read[0]
<1> DEFINE L == Len(bits)
           rec(f) == f = [p \in 0..L |-> ReadAt(bits, f, p)]
           read == CHOOSE f : rec(f)
           from(f, m) == \A p \in (L-m)..L : f[p] = ReadAt(bits, f, p)
           P == {m \in 0..L : \E f : from(f, m)}
<1>1. L \in Nat
  OBVIOUS
<1>2. ReadPhrases(bits) = read[0]
  BY ZenonT(60) DEF ReadPhrases, ReadAt
<1>3. \A p \in 0..L : \A f, h :
        (\A q \in (p+1)..L : f[q] = h[q]) => ReadAt(bits, f, p) = ReadAt(bits, h, p)
  BY ReadAhead, ZenonT(60)
<1> HIDE DEF L
<1>4. ASSUME NEW m \in 0..L, NEW f, \A p \in (L-m+1)..L : f[p] = ReadAt(bits, f, p)
      PROVE  m \in P
  <2> DEFINE o == L - m
             h == [p \in o..L |-> IF p = o THEN ReadAt(bits, f, p) ELSE f[p]]
  <2>1. o \in 0..L /\ \A p \in o..L : p \in 0..L /\ p \in Int
    BY <1>1
  <2>2. \A q \in (o+1)..L : q \in o..L /\ q # o
    BY <1>1, <2>1
  <2>3. \A q \in (o+1)..L : h[q] = f[q]
    BY <2>2, ZenonT(60)
  <2>4. ASSUME NEW p \in o..L PROVE h[p] = ReadAt(bits, h, p)
    <3>1. \A q \in (p+1)..L : q \in (o+1)..L
      BY <1>1, <2>1
    <3>2. \A q \in (p+1)..L : f[q] = h[q]
      BY <2>3, <3>1, ZenonT(60)
    <3>3. ReadAt(bits, f, p) = ReadAt(bits, h, p)
      BY <1>3, <2>1, <3>2, ZenonT(60)
    <3>4. h[p] = ReadAt(bits, f, p)
      <4>1. CASE p = o
        BY <4>1, ZenonT(60)
      <4>2. CASE p # o
        <5>1. p \in (o+1)..L
          BY <1>1, <2>1, <4>2
        <5> QED
          BY <1>4, <2>3, <5>1, ZenonT(60)
      <4> QED
        BY <4>1, <4>2, ZenonT(60)
    <3> QED
      BY <3>3, <3>4, ZenonT(60)
  <2> HIDE DEF h
  <2>5. from(h, m)
    BY <2>4, ZenonT(60)
  <2> QED
    BY <2>5, ZenonT(60)
<1>5. 0 \in P
  <2>1. 0 \in 0..L /\ L - 0 + 1 > L
    BY <1>1
  <2>2. \A p \in (L-0+1)..L : FALSE
    BY <1>1
  <2> QED
    BY <1>4, <2>1, <2>2, ZenonT(60)
<1>6. ASSUME NEW m \in 1..L, m - 1 \in P PROVE m \in P
  <2>1. m \in 0..L /\ L - (m - 1) = L - m + 1
    BY <1>1
  <2>2. PICK f : from(f, m - 1)
    BY <1>6, ZenonT(60)
  <2>3. \A p \in (L-m+1)..L : f[p] = ReadAt(bits, f, p)
    BY <2>1, <2>2, ZenonT(60)
  <2> HIDE DEF P
  <2> QED
    BY <1>4, <2>1, <2>3, ZenonT(60)
<1>7. \A m \in 0..L : m \in P
  <2> HIDE DEF P
  <2> QED
    BY <1>1, <1>5, <1>6, UpTo, ZenonT(60)
<1>8. PICK f : \A p \in 0..L : f[p] = ReadAt(bits, f, p)
  <2>1. L \in 0..L /\ L - L = 0
    BY <1>1
  <2>2. \E f : from(f, L)
    BY <1>7, <2>1, ZenonT(60)
  <2> QED
    BY <2>1, <2>2, ZenonT(60)
<1>9. \E g : rec(g)
  <2> DEFINE g == [p \in 0..L |-> f[p]]
  <2>1. ASSUME NEW p \in 0..L PROVE f[p] = ReadAt(bits, g, p)
    <3>1. \A q \in (p+1)..L : q \in 0..L
      BY <1>1
    <3>2. \A q \in (p+1)..L : f[q] = g[q]
      BY <3>1, ZenonT(60)
    <3> QED
      BY <1>3, <1>8, <3>2, ZenonT(60)
  <2>2. g = [p \in 0..L |-> ReadAt(bits, g, p)]
    BY <2>1, ZenonT(60)
  <2> QED
    BY <2>2, ZenonT(60)
<1>10. rec(read)
  BY <1>9, ZenonT(60)
<1> HIDE DEF read
<1>11. \A p \in 0..L : read[p] = ReadAt(bits, read, p)
  BY <1>10, ZenonT(60)
<1> QED
  BY <1>2, <1>11, ZenonT(60) DEF L

\* A byte is a number of eight bits.
LEMMA ByteWidth == 2^8 = 256 /\ 2^16 > 1 /\ 2^16 \in Nat
<1> DEFINE B == 16 + LengthBits + ShortAddrBits + DynAddrBits
<1>1. B \in Nat /\ 16 <= B
  BY BitsAssumption
<1> HIDE DEF B
<1>2. \A n \in 0..B : 2^n \in Nat \ {0} /\ 2^(n+1) = 2 * 2^n
  BY PowerAssumption, ZenonT(60) DEF B
<1> DEFINE pow(n) == 2^n
<1>3. \A n \in 0..16 : pow(n) \in Nat \ {0} /\ pow(n+1) = 2 * pow(n)
  BY <1>1, <1>2
<1>4. pow(0) = 1
  BY PowerAssumption, ZenonT(60)
<1> HIDE DEF pow
<1>5. pow(1) = 2 /\ pow(2) = 4 /\ pow(3) = 8 /\ pow(4) = 16
  <2>1. pow(0+1) = 2 * pow(0) /\ pow(1+1) = 2 * pow(1) /\ pow(2+1) = 2 * pow(2) /\ pow(3+1) = 2 * pow(3)
    BY <1>3
  <2> QED
    BY <1>4, <2>1
<1>6. pow(5) = 32 /\ pow(6) = 64 /\ pow(7) = 128 /\ pow(8) = 256
  <2>1. pow(4+1) = 2 * pow(4) /\ pow(5+1) = 2 * pow(5) /\ pow(6+1) = 2 * pow(6) /\ pow(7+1) = 2 * pow(7)
    BY <1>3
  <2> QED
    BY <1>5, <2>1
<1>7. pow(16) > 1 /\ pow(16) \in Nat
  <2>1. pow(15+1) = 2 * pow(15) /\ pow(15) \in Nat \ {0}
    BY <1>3
  <2> QED
    BY <2>1
<1> QED
  BY <1>6, <1>7, ZenonT(60) DEF pow

\* Three sequences, one behind the other.
LEMMA ThreeParts ==
  ASSUME NEW S, NEW a \in Seq(S), NEW b \in Seq(S), NEW c \in Seq(S)
  PROVE  /\ a \o b \o c \in Seq(S) /\ Len(a \o b \o c) = Len(a) + Len(b) + Len(c)
         /\ \A k \in 1..Len(a) : (a \o b \o c)[k] = a[k]
         /\ \A k \in 1..Len(b) : (a \o b \o c)[Len(a) + k] = b[k]
         /\ \A k \in 1..Len(c) : (a \o b \o c)[Len(a) + Len(b) + k] = c[k]
<1> DEFINE x == Len(a)
           y == Len(b)
           z == Len(c)
           ab == a \o b
<1>0. x \in Nat /\ y \in Nat /\ z \in Nat /\ x = Len(a) /\ y = Len(b) /\ z = Len(c)
  BY LenNat, ZenonT(60)
<1> HIDE DEF x, y, z
<1>1. /\ ab \in Seq(S) /\ Len(ab) = x + y
      /\ \A k \in 1..x : ab[k] = a[k]
      /\ \A k \in 1..y : ab[x + k] = b[k]
  BY <1>0, ConcatFacts
<1> HIDE DEF ab
<1>2. /\ ab \o c \in Seq(S) /\ Len(ab \o c) = x + y + z
      /\ \A k \in 1..(x + y) : (ab \o c)[k] = ab[k]
      /\ \A k \in 1..z : (ab \o c)[x + y + k] = c[k]
  <2>0. ab \in Seq(S)
    BY <1>1, ZenonT(60)
  <2>1. /\ ab \o c \in Seq(S) /\ Len(ab \o c) = Len(ab) + Len(c)
        /\ \A k \in 1..Len(ab) : (ab \o c)[k] = ab[k]
        /\ \A k \in 1..Len(c) : (ab \o c)[Len(ab) + k] = c[k]
    BY <2>0, ConcatFacts
  <2> QED
    BY <1>0, <1>1, <2>1, ZenonT(60)
<1> DEFINE abc == ab \o c
<1> HIDE DEF abc
<1>3. \A k \in 1..x : k \in 1..(x + y)
  BY <1>0
<1>4. \A k \in 1..y : x + k \in 1..(x + y)
  BY <1>0
<1>5. /\ abc \in Seq(S) /\ Len(abc) = x + y + z
      /\ \A k \in 1..x : abc[k] = a[k]
      /\ \A k \in 1..y : abc[x + k] = b[k]
      /\ \A k \in 1..z : abc[x + y + k] = c[k]
  BY <1>1, <1>2, <1>3, <1>4, ZenonT(60) DEF abc
<1> QED
  BY <1>5, ZenonT(60) DEF abc, ab, x, y, z

\* The n bits behind the first p are those of a phrase.
Carries(bits, p, ph, n) ==
  /\ n \in Nat /\ n = Len(PhraseBits(ph)) /\ p \in Nat /\ p + n <= Len(bits)
  /\ \A k \in 1..n : bits[p + k] = PhraseBits(ph)[k]

\* Where the bits of a phrase stand, the loop reads this phrase and goes on behind it.
LEMMA ReadOne ==
  ASSUME NEW bits \in Seq(Bit), NEW ph \in Phrase, Fits(ph), NEW p, NEW n,
         Carries(bits, p, ph, n), NEW read
  PROVE  ReadAt(bits, read, p) = <<ph>> \o read[p + n]
<1> DEFINE t == TypeOf(ph.symbol)
           w == t.NbBitsAddress
           sym == NumBits(ph.symbol, 8)
           len == NumBits(ph.length, LengthBits)
           adr == NumBits(ph.address, w)
<1>1. /\ 8 \in 0..MaxWidth /\ LengthBits \in 0..MaxWidth /\ w \in 0..MaxWidth
      /\ LengthBits \in Nat /\ w \in Nat
      /\ t.NbBitsBackRef = 8 + w + LengthBits /\ t.maxAddress = 2^w
  BY BitsAssumption
  DEF MaxWidth, TypeOf, NewShortBackrefType, NewDynamicBackrefType, newBackRefType
<1>2. ph.symbol \in Nat /\ ph.length \in Nat /\ ph.address \in Nat /\ ph.symbol < 256
  <2>1. ph.symbol \in Byte /\ ph.length \in Nat /\ ph.address \in Nat
    BY ZenonT(60) DEF Phrase
  <2>2. \A b \in Byte : b \in Nat /\ b < 256
    BY DEF Byte
  <2> QED
    BY <2>1, <2>2, ZenonT(60)
<1>3. /\ sym \in Seq(Bit) /\ Len(sym) = 8
      /\ len \in Seq(Bit) /\ Len(len) = LengthBits
      /\ adr \in Seq(Bit) /\ Len(adr) = w
  BY <1>1, <1>2, NumBitsFacts, ZenonT(60)
<1>4. Len(bits) \in Nat /\ n \in Nat /\ p \in Nat /\ p + n <= Len(bits)
  BY LenNat, ZenonT(60) DEF Carries
<1> HIDE DEF w, t, len, adr
<1>5. ASSUME 8 <= n, \A k \in 1..8 : bits[p + k] = sym[k]
      PROVE  Field(bits, p, 8) = ph.symbol /\ ~ (p + 8 > Len(bits))
  <2>1. p + 8 <= Len(bits)
    BY <1>4, <1>5, SMTT(60)
  <2>2. ph.symbol < 2^8
    BY <1>2, ByteWidth
  <2>3. Field(bits, p, 8) = ph.symbol
    <3>1. 8 \in 0..MaxWidth /\ ph.symbol \in Nat /\ p \in Nat
      BY <1>1, <1>2, <1>4, ZenonT(60)
    <3> QED
      BY <1>5, <2>1, <2>2, <3>1, FieldIs, ZenonT(60)
  <2> QED
    BY <1>4, <2>1, <2>3
<1> HIDE DEF sym
<1>6. CASE canEncodeSymbol(ph.symbol)
  <2>1. PhraseBits(ph) = sym
    BY <1>6, ZenonT(60) DEF PhraseBits, sym
  <2>2. n = 8 /\ Field(bits, p, 8) = ph.symbol /\ ~ (p + 8 > Len(bits))
    <3>1. n = 8
      BY <1>3, <2>1, ZenonT(60) DEF Carries
    <3>2. \A k \in 1..8 : bits[p + k] = sym[k]
      BY <2>1, <3>1, ZenonT(60) DEF Carries
    <3> QED
      BY <1>5, <3>1, <3>2
  <2>3. ph = Literal(ph.symbol)
    BY <1>6, ZenonT(60) DEF Fits
  <2> QED
    BY <1>6, <2>2, <2>3, ZenonT(60) DEF ReadAt
<1>7. CASE ~ canEncodeSymbol(ph.symbol)
  <2> DEFINE all == sym \o len \o adr
  <2>1. PhraseBits(ph) = all
    BY <1>7, ZenonT(60) DEF PhraseBits, sym, len, adr, w, t
  <2>2. ph.length < 2^LengthBits /\ ph.address < 2^w
    BY <1>1, <1>7, ZenonT(60) DEF Fits, maxLength, t
  <2>3. /\ Len(all) = 8 + LengthBits + w
        /\ \A k \in 1..8 : all[k] = sym[k]
        /\ \A k \in 1..LengthBits : all[8 + k] = len[k]
        /\ \A k \in 1..w : all[8 + LengthBits + k] = adr[k]
    <3>1. /\ Len(all) = Len(sym) + Len(len) + Len(adr)
          /\ \A k \in 1..Len(sym) : all[k] = sym[k]
          /\ \A k \in 1..Len(len) : all[Len(sym) + k] = len[k]
          /\ \A k \in 1..Len(adr) : all[Len(sym) + Len(len) + k] = adr[k]
      <4>1. sym \in Seq(Bit) /\ len \in Seq(Bit) /\ adr \in Seq(Bit)
        BY <1>3, ZenonT(60)
      <4> QED
        BY <4>1, ThreeParts, SMTT(60)
    <3> QED
      BY <1>3, <3>1, ZenonT(60)
  <2> HIDE DEF all
  <2>4. n = 8 + LengthBits + w /\ \A k \in 1..n : bits[p + k] = all[k]
    BY <2>1, <2>3, ZenonT(60) DEF Carries
  <2>5. Field(bits, p, 8) = ph.symbol /\ ~ (p + 8 > Len(bits))
    <3>1. 8 <= n /\ \A k \in 1..8 : k \in 1..n
      BY <1>1, <2>4
    <3> QED
      BY <1>5, <2>3, <2>4, <3>1, ZenonT(60)
  <2>6. Field(bits, p + 8, LengthBits) = ph.length
    <3>1. p + 8 \in Nat /\ (p + 8) + LengthBits <= Len(bits)
      BY <1>1, <1>4, <2>4
    <3>2. \A k \in 1..LengthBits : 8 + k \in 1..n /\ (p + 8) + k = p + (8 + k)
      BY <1>1, <1>4, <2>4
    <3>3. \A k \in 1..LengthBits : bits[(p + 8) + k] = NumBits(ph.length, LengthBits)[k]
      BY <2>3, <2>4, <3>2 DEF len
    <3> QED
      BY <1>1, <1>2, <2>2, <3>1, <3>3, FieldIs
  <2>7. Field(bits, p + 8 + LengthBits, w) = ph.address
    <3> DEFINE q == p + 8 + LengthBits
    <3>1. q \in Nat /\ q + w <= Len(bits)
      BY <1>1, <1>4, <2>4
    <3>2. \A k \in 1..w : 8 + LengthBits + k \in 1..n /\ q + k = p + (8 + LengthBits + k)
      BY <1>1, <1>4, <2>4
    <3>3. \A k \in 1..w : bits[q + k] = NumBits(ph.address, w)[k]
      BY <2>3, <2>4, <3>2, ZenonT(60) DEF adr
    <3> HIDE DEF q
    <3>4. Field(bits, q, w) = ph.address
      BY <1>1, <1>2, <2>2, <3>1, <3>3, FieldIs, ZenonT(60)
    <3> QED
      BY <3>4, ZenonT(60) DEF q
  <2>8. t.NbBitsBackRef = n /\ ~ (p + n > Len(bits))
    BY <1>1, <1>4, <2>4
  <2>9. [symbol |-> ph.symbol, length |-> ph.length, address |-> ph.address] = ph
    BY ZenonT(60) DEF Phrase
  <2> QED
    BY <1>7, <2>5, <2>6, <2>7, <2>8, <2>9, ZenonT(60) DEF ReadAt, t, w
<1> QED
  BY <1>6, <1>7, ZenonT(60)

\* What was written is read again: with less than a byte behind the bits of ss,
\* ReadPhrases finds ss and no more.
LEMMA ReadBack ==
  ASSUME NEW ss \in Seq(Phrase), \A n \in DOMAIN ss : Fits(ss[n]),
         NEW pad \in Seq(Bit), Len(pad) < 8
  PROVE  ReadPhrases(StreamBits(ss) \o pad) = ss
<1> DEFINE N == Len(ss)
           sb == StreamBits(ss)
           bits == sb \o pad
<1>1. N \in Nat /\ sb \in Seq(Bit) /\ Len(sb) \in Nat /\ Len(pad) \in Nat
  BY StreamBitsFacts, LenNat, ZenonT(60)
<1>2. PICK off : PlacedAt(ss, sb, off)
  BY StreamBitsPlaced, ZenonT(60)
<1> HIDE DEF sb
<1>3. /\ bits \in Seq(Bit) /\ Len(bits) = Len(sb) + Len(pad)
      /\ \A k \in 1..Len(sb) : bits[k] = sb[k]
  BY <1>1, ConcatFacts, ZenonT(60)
<1> HIDE DEF bits
<1>4. PICK read : /\ \A p \in 0..Len(bits) : read[p] = ReadAt(bits, read, p)
                  /\ ReadPhrases(bits) = read[0]
  BY <1>3, ReadPhrasesRec, ZenonT(60)
<1>5. off \in [0..N -> Nat] /\ off[0] = 0 /\ off[N] = Len(sb)
  BY <1>2, ZenonT(60) DEF PlacedAt
<1>6. ASSUME NEW n \in 1..N
      PROVE  read[off[n-1]] = <<ss[n]>> \o read[off[n]]
  <2> DEFINE z == Len(PhraseBits(ss[n]))
             p == off[n-1]
  <2>1. ss[n] \in Phrase /\ Fits(ss[n])
    BY <1>1
  <2>2. z \in Nat
    BY <2>1, PhraseBitsFacts, LenNat, ZenonT(60)
  <2>3. n - 1 \in 0..N
    BY <1>1
  <2>4. p \in Nat /\ off[n] = p + z /\ off[n] <= Len(sb) /\ \A k \in 1..z : sb[p + k] = PhraseBits(ss[n])[k]
    BY <1>2, <1>5, <2>3, ZenonT(60) DEF PlacedAt
  <2> HIDE DEF z, p
  <2>5. \A k \in 1..z : p + k \in 1..Len(sb)
    BY <1>1, <2>2, <2>4
  <2>6. p + z <= Len(bits) /\ p \in 0..Len(bits)
    BY <1>1, <1>3, <2>2, <2>4
  <2>7. Carries(bits, p, ss[n], z)
    BY <1>3, <2>2, <2>4, <2>5, <2>6, ZenonT(60) DEF Carries, z
  <2>8. ReadAt(bits, read, p) = <<ss[n]>> \o read[p + z]
    BY <1>3, <2>1, <2>7, ReadOne
  <2> QED
    BY <1>4, <2>4, <2>6, <2>8, ZenonT(60) DEF p
<1>7. read[off[N]] = <<>>
  <2>1. off[N] \in 0..Len(bits) /\ off[N] + 8 > Len(bits)
    BY <1>1, <1>3, <1>5
  <2> QED
    BY <1>4, <2>1, ZenonT(60) DEF ReadAt
<1> DEFINE P == {m \in 0..N : read[off[N-m]] = SubSeq(ss, N-m+1, N)}
<1>8. 0 \in P
  <2>1. N - 0 = N /\ 0 \in 0..N
    BY <1>1
  <2>2. SubSeq(ss, N + 1, N) = <<>>
    BY <1>1
  <2> QED
    BY <1>7, <2>1, <2>2, ZenonT(60)
<1>9. ASSUME NEW m \in 1..N, m - 1 \in P PROVE m \in P
  <2> DEFINE n == N - m + 1
  <2>1. n \in 1..N /\ N - (m - 1) = n /\ n - 1 = N - m /\ m \in 0..N
    BY <1>1
  <2> HIDE DEF n
  <2>2. read[off[n]] = SubSeq(ss, n + 1, N)
    BY <1>9, <2>1, ZenonT(60)
  <2>3. <<ss[n]>> \o SubSeq(ss, n + 1, N) = SubSeq(ss, n, N)
    <3> DEFINE h == SubSeq(ss, n + 1, N)
               g == SubSeq(ss, n, N)
               hh == <<ss[n]>> \o h
    <3>0. n + (N - n) = N /\ N - n \in Nat /\ n \in Nat /\ n - 1 \in Nat /\ N - n + 1 \in Nat
          /\ (n - 1) + 1 = n /\ (n - 1) + (N - n + 1) = N /\ <<ss[n]>> \in Seq(Phrase)
      BY <1>1, <2>1, SMTT(60)
    <3>1. h \in Seq(Phrase) /\ Len(h) = N - n /\ \A k \in 1..(N - n) : h[k] = ss[n + k]
      <4> DEFINE r == N - n
      <4>1. r \in Nat /\ n \in Nat /\ n + r = Len(ss) /\ n + r <= Len(ss)
        BY <1>1, <3>0
      <4> HIDE DEF r, N
      <4>2. LET x == SubSeq(ss, n + 1, n + r)
            IN  x \in Seq(Phrase) /\ Len(x) = r /\ \A k \in 1..r : x[k] = ss[n + k]
        BY <4>1, SliceFacts
      <4> QED
        BY <4>1, <4>2, ZenonT(60) DEF r, N
    <3>2. /\ g \in Seq(Phrase) /\ Len(g) = N - n + 1
          /\ \A k \in 1..(N - n + 1) : g[k] = ss[(n - 1) + k]
      <4> DEFINE r == N - n + 1
                 m1 == n - 1
      <4>1. r \in Nat /\ m1 \in Nat /\ m1 + r = Len(ss) /\ m1 + r <= Len(ss) /\ m1 + 1 = n
        BY <1>1, <3>0
      <4> HIDE DEF r, N, m1
      <4>2. LET x == SubSeq(ss, m1 + 1, m1 + r)
            IN  x \in Seq(Phrase) /\ Len(x) = r /\ \A k \in 1..r : x[k] = ss[m1 + k]
        BY <4>1, SliceFacts
      <4> QED
        BY <4>1, <4>2, ZenonT(60) DEF r, N, m1
    <3> HIDE DEF h, g
    <3>3. /\ hh \in Seq(Phrase) /\ Len(hh) = 1 + (N - n) /\ hh[1] = ss[n]
          /\ \A k \in 1..(N - n) : hh[1 + k] = h[k]
      BY <3>0, <3>1, ConcatFacts
    <3> HIDE DEF hh
    <3>4. ASSUME NEW k \in 1..(N - n + 1) PROVE hh[k] = g[k]
      <4>1. CASE k = 1
        BY <3>0, <3>2, <3>3, <4>1, ZenonT(60)
      <4>2. CASE k # 1
        <5>1. k - 1 \in 1..(N - n) /\ 1 + (k - 1) = k /\ (n - 1) + k = n + (k - 1)
          BY <3>0, <4>2
        <5> QED
          BY <3>1, <3>2, <3>3, <5>1
      <4> QED
        BY <4>1, <4>2, ZenonT(60)
    <3>5. hh = g
      BY <3>0, <3>2, <3>3, <3>4
    <3> QED
      BY <3>5, ZenonT(60) DEF hh, h, g
  <2>4. read[off[n-1]] = SubSeq(ss, n, N)
    BY <1>6, <2>1, <2>2, <2>3, ZenonT(60)
  <2> QED
    BY <2>1, <2>4, ZenonT(60) DEF n
<1>10. \A m \in 0..N : m \in P
  <2> HIDE DEF P
  <2> QED
    BY <1>1, <1>8, <1>9, UpTo, ZenonT(60)
<1>11. read[0] = SubSeq(ss, 1, N)
  <2>1. N \in 0..N /\ N - N = 0
    BY <1>1
  <2>2. N \in P
    BY <1>10, <2>1, ZenonT(60)
  <2>3. read[off[N - N]] = SubSeq(ss, N - N + 1, N)
    BY <2>2, ZenonT(60)
  <2> QED
    BY <1>5, <2>1, <2>3
<1>12. SubSeq(ss, 1, N) = ss
  OBVIOUS
<1> QED
  BY <1>4, <1>11, <1>12, ZenonT(60) DEF bits, sb

\* The bits of phrases and of more phrases behind them.
LEMMA StreamBitsConcat ==
  ASSUME NEW ss \in Seq(Phrase), NEW tt \in Seq(Phrase)
  PROVE  StreamBits(ss \o tt) = StreamBits(ss) \o StreamBits(tt)
<1> DEFINE uu == ss \o tt
           M == Len(ss)
           N == Len(tt)
           w(ph) == PhraseBits(ph)
<1>1. /\ M \in Nat /\ N \in Nat /\ uu \in Seq(Phrase) /\ Len(uu) = M + N
      /\ \A k \in 1..M : uu[k] = ss[k]
      /\ \A k \in 1..N : uu[M + k] = tt[k]
  BY ConcatFacts, LenNat
<1>2. PICK f \in [0..M -> Seq(Bit)] :
        f[0] = <<>> /\ (\A n \in 1..M : f[n] = f[n-1] \o w(ss[n])) /\ StreamBits(ss) = f[M]
  BY StreamBitsRec, ZenonT(60)
<1>3. PICK g \in [0..N -> Seq(Bit)] :
        g[0] = <<>> /\ (\A n \in 1..N : g[n] = g[n-1] \o w(tt[n])) /\ StreamBits(tt) = g[N]
  BY StreamBitsRec, ZenonT(60)
<1> HIDE DEF uu, M, N
<1>4. PICK h \in [0..Len(uu) -> Seq(Bit)] :
        /\ h[0] = <<>> /\ (\A n \in 1..Len(uu) : h[n] = h[n-1] \o w(uu[n]))
        /\ StreamBits(uu) = h[Len(uu)]
  BY <1>1, StreamBitsRec, ZenonT(60)
<1>5. \A n \in 1..N : w(tt[n]) \in Seq(Bit)
  BY PhraseBitsFacts DEF N
<1> HIDE DEF w
<1> DEFINE P == {n \in 0..M : h[n] = f[n]}
           Q == {n \in 0..N : h[M + n] = f[M] \o g[n]}
<1>6. 0 \in P
  BY <1>1, <1>2, <1>4
<1>7. ASSUME NEW n \in 1..M, n - 1 \in P PROVE n \in P
  <2>1. n \in 1..Len(uu) /\ n \in 0..M
    BY <1>1
  <2> QED
    BY <1>1, <1>2, <1>4, <1>7, <2>1, ZenonT(60)
<1>8. \A n \in 0..M : n \in P
  <2> HIDE DEF P
  <2> QED
    BY <1>1, <1>6, <1>7, UpTo, ZenonT(60)
<1>9. f[M] \in Seq(Bit) /\ \A n \in 0..N : g[n] \in Seq(Bit)
  BY <1>1, <1>2, <1>3
<1>10. 0 \in Q
  <2>1. M + 0 = M /\ M \in 0..M /\ 0 \in 0..N
    BY <1>1
  <2>2. f[M] \o <<>> = f[M]
    BY <1>9
  <2> QED
    BY <1>3, <1>8, <2>1, <2>2, ZenonT(60)
<1>11. ASSUME NEW n \in 1..N, n - 1 \in Q PROVE n \in Q
  <2>1. M + n \in 1..Len(uu) /\ n \in 0..N /\ (M + n) - 1 = M + (n - 1) /\ n - 1 \in 0..N
    BY <1>1
  <2>2. h[M + n] = h[M + (n - 1)] \o w(tt[n])
    BY <1>1, <1>4, <2>1, ZenonT(60)
  <2>3. h[M + (n - 1)] = f[M] \o g[n - 1]
    BY <1>11, ZenonT(60)
  <2>4. g[n] = g[n - 1] \o w(tt[n])
    BY <1>3, ZenonT(60)
  <2> DEFINE x == f[M]
             y == g[n - 1]
             z == w(tt[n])
  <2>5. x \in Seq(Bit) /\ y \in Seq(Bit) /\ z \in Seq(Bit)
    BY <1>5, <1>9, <2>1, ZenonT(60)
  <2> HIDE DEF x, y, z
  <2>6. (x \o y) \o z = x \o (y \o z)
    BY <2>5, SMTT(60)
  <2> QED
    BY <2>1, <2>2, <2>3, <2>4, <2>6, ZenonT(60) DEF x, y, z
<1>12. \A n \in 0..N : n \in Q
  <2> HIDE DEF Q
  <2> QED
    BY <1>1, <1>10, <1>11, UpTo, ZenonT(60)
<1>13. h[M + N] = f[M] \o g[N]
  <2>1. N \in 0..N
    BY <1>1
  <2>2. N \in Q
    BY <1>12, <2>1, ZenonT(60)
  <2> QED
    BY <2>2, ZenonT(60)
<1> QED
  BY <1>1, <1>2, <1>3, <1>4, <1>13, ZenonT(60) DEF uu

-----------------------------------------------------------------------------
(* What phrases mean. *)

\* The texts c on the way from text to n bytes more.
Copying(c, text, address, n) ==
  /\ c[0] = text
  /\ \A k \in 1..n : c[k] = Append(c[k-1], At(c[k-1], Len(c[k-1]) - address))

\* CopyBytes takes one byte after the other.
LEMMA CopyBytesRec ==
  ASSUME NEW text, NEW address, NEW n \in Nat
  PROVE  \E c : Copying(c, text, address, n) /\ CopyBytes(text, address, n) = c[n]
<1> DEFINE step(t) == Append(t, At(t, Len(t) - address))
           body(f, k) == IF k = 0 THEN text ELSE step(f[k-1])
           rec(f, m) == f = [k \in 0..m |-> body(f, k)]
           copied == CHOOSE f : rec(f, n)
           P == {m \in 0..n : \E f : rec(f, m)}
<1>1. CopyBytes(text, address, n) = copied[n]
  BY ZenonT(60) DEF CopyBytes
<1> HIDE DEF step
<1>2. 0 \in P
  <2> DEFINE f == [k \in 0..0 |-> text]
  <2>1. \A k \in 0..0 : k = 0
    OBVIOUS
  <2>2. f = [k \in 0..0 |-> body(f, k)]
    BY <2>1, ZenonT(60)
  <2>3. 0 \in 0..n
    OBVIOUS
  <2> HIDE DEF f, body
  <2>4. rec(f, 0)
    BY <2>2, ZenonT(60)
  <2> QED
    BY <2>3, <2>4, ZenonT(60)
<1>3. ASSUME NEW m \in 1..n, m - 1 \in P PROVE m \in P
  <2>1. PICK f : rec(f, m - 1)
    BY <1>3, ZenonT(60)
  <2> DEFINE h == [k \in 0..m |-> IF k = m THEN step(f[m-1]) ELSE f[k]]
  <2>2. \A k \in 0..(m-1) : f[k] = body(f, k)
    BY <2>1, ZenonT(60)
  <2>3. m \in Nat /\ m # 0
    OBVIOUS
  <2>4. ASSUME NEW k \in 0..m PROVE h[k] = body(h, k)
    <3>1. CASE k = m
      <4>1. m - 1 \in 0..m /\ m - 1 # m
        BY <2>3
      <4>2. h[m-1] = f[m-1]
        BY <4>1, ZenonT(60)
      <4> QED
        BY <2>3, <3>1, <4>2, ZenonT(60)
    <3>2. CASE k # m
      <4>1. k \in 0..(m-1) /\ (k # 0 => k - 1 \in 0..m /\ k - 1 # m)
        BY <2>3, <3>2
      <4>2. h[k] = f[k] /\ (k # 0 => h[k-1] = f[k-1])
        BY <3>2, <4>1, ZenonT(60)
      <4> QED
        BY <2>2, <4>1, <4>2, ZenonT(60)
    <3> QED
      BY <3>1, <3>2, ZenonT(60)
  <2>5. h = [k \in 0..m |-> body(h, k)]
    BY <2>4, ZenonT(60)
  <2>6. m \in 0..n
    OBVIOUS
  <2> HIDE DEF h
  <2> QED
    BY <2>5, <2>6, ZenonT(60)
<1>4. n \in P
  <2>1. \A m \in 0..n : m \in P
    <3> HIDE DEF P
    <3> QED
      BY <1>2, <1>3, UpTo, ZenonT(60)
  <2> QED
    BY <2>1
<1>5. \E f : rec(f, n)
  BY <1>4, ZenonT(60)
<1>6. rec(copied, n)
  BY <1>5, ZenonT(60)
<1> HIDE DEF copied
<1>7. \A k \in 0..n : copied[k] = body(copied, k)
  BY <1>6, ZenonT(60)
<1>8. copied[0] = text /\ \A k \in 1..n : copied[k] = step(copied[k-1])
  BY <1>7
<1> QED
  BY <1>1, <1>8, ZenonT(60) DEF step, Copying

\* The meaning of the first n phrases is that of the first n-1 and what the n-th adds.
LEMMA MeaningRec ==
  ASSUME NEW phrases, Len(phrases) \in Nat
  PROVE  /\ MeaningOf(phrases, 0) = dictData
         /\ \A n \in 1..Len(phrases) :
              MeaningOf(phrases, n) = AddPhrase(MeaningOf(phrases, n-1), phrases[n])
<1> DEFINE N == Len(phrases)
           body(f, k) == IF k = 0 THEN dictData ELSE AddPhrase(f[k-1], phrases[k])
           rec(f, m) == f = [k \in 0..m |-> body(f, k)]
           text == CHOOSE f : rec(f, N)
           P == {m \in 0..N : \E f : rec(f, m)}
<1>1. \A n : MeaningOf(phrases, n) = text[n]
  BY ZenonT(60) DEF MeaningOf
<1>0. N \in Nat
  BY ZenonT(60)
<1> HIDE DEF N
<1>2. 0 \in P
  <2> DEFINE f == [k \in 0..0 |-> dictData]
  <2>1. \A k \in 0..0 : k = 0
    OBVIOUS
  <2>2. f = [k \in 0..0 |-> body(f, k)]
    BY <2>1, ZenonT(60)
  <2>3. 0 \in 0..N
    BY <1>0
  <2> HIDE DEF f, body
  <2>4. rec(f, 0)
    BY <2>2, ZenonT(60)
  <2> QED
    BY <2>3, <2>4, ZenonT(60)
<1>3. ASSUME NEW m \in 1..N, m - 1 \in P PROVE m \in P
  <2>1. PICK f : rec(f, m - 1)
    BY <1>3, ZenonT(60)
  <2> DEFINE h == [k \in 0..m |-> IF k = m THEN AddPhrase(f[m-1], phrases[m]) ELSE f[k]]
  <2>2. \A k \in 0..(m-1) : f[k] = body(f, k)
    BY <2>1, ZenonT(60)
  <2>3. m \in Nat /\ m # 0
    BY <1>0
  <2>4. ASSUME NEW k \in 0..m PROVE h[k] = body(h, k)
    <3>1. CASE k = m
      <4>1. m - 1 \in 0..m /\ m - 1 # m
        BY <2>3
      <4>2. h[m-1] = f[m-1]
        BY <4>1, ZenonT(60)
      <4> QED
        BY <2>3, <3>1, <4>2, ZenonT(60)
    <3>2. CASE k # m
      <4>1. k \in 0..(m-1) /\ (k # 0 => k - 1 \in 0..m /\ k - 1 # m)
        BY <2>3, <3>2
      <4>2. h[k] = f[k] /\ (k # 0 => h[k-1] = f[k-1])
        BY <3>2, <4>1, ZenonT(60)
      <4> QED
        BY <2>2, <4>1, <4>2, ZenonT(60)
    <3> QED
      BY <3>1, <3>2, ZenonT(60)
  <2>5. h = [k \in 0..m |-> body(h, k)]
    BY <2>4, ZenonT(60)
  <2>6. m \in 0..N
    BY <1>0
  <2> HIDE DEF h
  <2> QED
    BY <2>5, <2>6, ZenonT(60)
<1>4. N \in P
  <2>1. \A m \in 0..N : m \in P
    <3> HIDE DEF P
    <3> QED
      BY <1>0, <1>2, <1>3, UpTo, ZenonT(60)
  <2>2. N \in 0..N
    BY <1>0
  <2> QED
    BY <2>1, <2>2, ZenonT(60)
<1>5. \E f : rec(f, N)
  BY <1>4, ZenonT(60)
<1>6. rec(text, N)
  BY <1>5, ZenonT(60)
<1> HIDE DEF text
<1>7. \A k \in 0..N : text[k] = body(text, k)
  BY <1>6, ZenonT(60)
<1>8. text[0] = dictData /\ \A k \in 1..N : text[k] = AddPhrase(text[k-1], phrases[k])
  BY <1>0, <1>7
<1> QED
  BY <1>1, <1>8, ZenonT(60) DEF N

\* The dictionary and the first e bytes of data.
Text(data, e) == dictData \o SubSeq(data, 1, e)

\* What Text holds: the dictionary, and behind it the data.
LEMMA TextFacts ==
  ASSUME NEW data \in Seq(Byte), NEW e \in 0..Len(data)
  PROVE  /\ Text(data, e) \in Seq(Byte) /\ Len(Text(data, e)) = dictLen + e
         /\ \A k \in 0..(dictLen-1) : At(Text(data, e), k) = At(dictData, k)
         /\ \A k \in 0..(e-1) : At(Text(data, e), dictLen + k) = At(data, k)
<1> DEFINE t == SubSeq(data, 1, e)
           dd == dictData
<1>1. e \in Nat /\ e <= Len(data) /\ dictLen \in Nat
  BY DictFacts
<1>2. t \in Seq(Byte) /\ Len(t) = e /\ \A k \in 1..e : t[k] = data[k]
  BY <1>1, PrefixFacts, ZenonT(60)
<1>3. dd \in Seq(Byte) /\ Len(dd) = dictLen
  BY DictFacts, ZenonT(60) DEF dictLen
<1> HIDE DEF t, dd
<1>4. /\ dd \o t \in Seq(Byte) /\ Len(dd \o t) = Len(dd) + Len(t)
      /\ \A k \in 1..Len(dd) : (dd \o t)[k] = dd[k]
      /\ \A k \in 1..Len(t) : (dd \o t)[Len(dd) + k] = t[k]
  <2>1. dd \in Seq(Byte) /\ t \in Seq(Byte)
    BY <1>2, <1>3, ZenonT(60)
  <2> QED
    BY <2>1, ConcatFacts
<1>5. Text(data, e) = dd \o t
  BY ZenonT(60) DEF Text, dd, t
<1>6. ASSUME NEW k \in 0..(dictLen-1) PROVE At(Text(data, e), k) = At(dd, k)
  <2>1. k + 1 \in 1..dictLen
    BY <1>1
  <2> QED
    BY <1>3, <1>4, <1>5, <2>1, ZenonT(60) DEF At
<1>7. ASSUME NEW k \in 0..(e-1) PROVE At(Text(data, e), dictLen + k) = At(data, k)
  <2>1. k + 1 \in 1..e /\ (dictLen + k) + 1 = dictLen + (k + 1)
    BY <1>1
  <2> QED
    BY <1>2, <1>3, <1>4, <1>5, <2>1, ZenonT(60) DEF At
<1> QED
  BY <1>2, <1>3, <1>4, <1>5, <1>6, <1>7, ZenonT(60) DEF dd

\* One more byte of the data.
LEMMA TextAppend ==
  ASSUME NEW data \in Seq(Byte), NEW e \in 0..(Len(data)-1)
  PROVE  Append(Text(data, e), At(data, e)) = Text(data, e + 1)
<1> DEFINE s == Text(data, e)
           t == Text(data, e + 1)
           u == Append(s, At(data, e))
<1>1. e \in Nat /\ dictLen \in Nat /\ e \in 0..Len(data) /\ e + 1 \in 0..Len(data)
  BY DictFacts
<1>2. /\ s \in Seq(Byte) /\ Len(s) = dictLen + e
      /\ \A k \in 0..(dictLen-1) : At(s, k) = At(dictData, k)
      /\ \A k \in 0..(e-1) : At(s, dictLen + k) = At(data, k)
  BY <1>1, TextFacts, ZenonT(60)
<1>3. /\ t \in Seq(Byte) /\ Len(t) = dictLen + (e + 1)
      /\ \A k \in 0..(dictLen-1) : At(t, k) = At(dictData, k)
      /\ \A k \in 0..((e+1)-1) : At(t, dictLen + k) = At(data, k)
  BY <1>1, TextFacts, ZenonT(60)
<1>4. At(data, e) \in Byte
  BY <1>1 DEF At
<1> HIDE DEF s, t
<1>5. /\ u \in Seq(Byte) /\ Len(u) = dictLen + e + 1
      /\ u[dictLen + e + 1] = At(data, e)
      /\ \A k \in 1..(dictLen + e) : u[k] = s[k]
  BY <1>1, <1>2, <1>4
<1> HIDE DEF u
<1>6. ASSUME NEW k \in 1..(dictLen + e + 1) PROVE u[k] = t[k]
  <2>1. CASE k = dictLen + e + 1
    <3>1. t[k] = At(t, dictLen + e) /\ e \in 0..((e+1)-1)
      BY <1>1, <2>1 DEF At
    <3> QED
      BY <1>3, <1>5, <2>1, <3>1, ZenonT(60)
  <2>2. CASE k <= dictLen
    <3>1. k - 1 \in 0..(dictLen-1) /\ (k - 1) + 1 = k /\ k \in 1..(dictLen + e)
      BY <1>1, <2>2
    <3>2. t[k] = At(t, k - 1) /\ s[k] = At(s, k - 1)
      BY <3>1, ZenonT(60) DEF At
    <3> QED
      BY <1>2, <1>3, <1>5, <3>1, <3>2, ZenonT(60)
  <2>3. CASE k > dictLen /\ k # dictLen + e + 1
    <3> DEFINE j == k - 1 - dictLen
    <3>1. j \in 0..(e-1) /\ j \in 0..((e+1)-1) /\ (dictLen + j) + 1 = k /\ k \in 1..(dictLen + e)
      BY <1>1, <2>3
    <3>2. t[k] = At(t, dictLen + j) /\ s[k] = At(s, dictLen + j)
      BY <3>1, ZenonT(60) DEF At
    <3> HIDE DEF j
    <3> QED
      BY <1>2, <1>3, <1>5, <3>1, <3>2, ZenonT(60)
  <2>4. k <= dictLen \/ k > dictLen
    BY <1>1
  <2> QED
    BY <2>1, <2>2, <2>3, <2>4, ZenonT(60)
<1>7. dictLen + (e + 1) = dictLen + e + 1
  BY <1>1
<1>8. u = t
  BY <1>3, <1>5, <1>6, <1>7
<1> QED
  BY <1>8, ZenonT(60) DEF u, s, t

\* A phrase that stands for data[s:e) is taken by Decompress behind s bytes.
LEMMA AdmittedSound ==
  ASSUME NEW data \in Seq(Byte), NEW ph \in Phrase, NEW s, NEW e \in Nat,
         StandsFor(data, ph, s, e)
  PROVE  Admitted(ph, s)
<1>1. s \in Nat /\ s < e /\ dictLen \in Nat
  BY DictFacts, ZenonT(60) DEF StandsFor
<1>2. ph.length \in Nat /\ ph.address \in Nat
  BY ZenonT(60) DEF Phrase
<1>3. PICK a, n : a = ph.address + 1 /\ n = ph.length
  BY ZenonT(60)
<1>4. a \in Nat /\ n \in Nat
  BY <1>2, <1>3
<1>5. CASE LiteralOf(data, ph, s, e)
  <2>1. ph.symbol # SymbolShort /\ ph.symbol # SymbolDynamic
    BY <1>5, ZenonT(60) DEF LiteralOf, canEncodeSymbol
  <2> QED
    BY <2>1, ZenonT(60) DEF Admitted
<1>6. CASE CopyOf(data, ph, s, e)
  <2>1. a <= s
    BY <1>3, <1>6, ZenonT(60) DEF CopyOf
  <2>2. ~ (a > s)
    BY <1>1, <1>4, <2>1
  <2> QED
    BY <1>3, <2>1, <2>2, ZenonT(60) DEF Admitted
<1>7. CASE DictCopyOf(data, ph, s, e)
  <2>1. PICK o \in 0..(dictLen-1) :
          a = s + (dictLen - o) /\ Occurs(data, s, e - s, dictData, o)
    BY <1>3, <1>7, ZenonT(60) DEF DictCopyOf
  <2>2. n + 1 = e - s /\ ph.symbol = SymbolDynamic
    BY <1>3, <1>7, ZenonT(60) DEF DictCopyOf
  <2>3. o + (e - s) <= dictLen
    BY <2>1, ZenonT(60) DEF Occurs, dictLen
  <2>4. dictLen - (a - s) >= 0 /\ dictLen - (a - s) + n + 1 <= dictLen
    BY <1>1, <1>4, <2>1, <2>2, <2>3
  <2>5. ph.symbol # SymbolShort
    BY <2>2 DEF SymbolDynamic, SymbolShort
  <2>6. /\ dictLen - (ph.address + 1 - s) >= 0
        /\ dictLen - (ph.address + 1 - s) + ph.length + 1 <= dictLen
    BY <1>1, <1>2, <1>3, <2>4
  <2> QED
    BY <2>5, <2>6, ZenonT(60) DEF Admitted
<1> QED
  BY <1>5, <1>6, <1>7, ZenonT(60) DEF StandsFor

\* A phrase that stands for data[s:e) adds these bytes to the s bytes before them,
\* and does not lead to before the dictionary.
LEMMA AddPhraseSound ==
  ASSUME NEW data \in Seq(Byte), NEW ph \in Phrase, NEW s, NEW e \in Nat,
         StandsFor(data, ph, s, e)
  PROVE  /\ s \in 0..Len(data) /\ e \in 0..Len(data)
         /\ AddPhrase(Text(data, s), ph) = Text(data, e)
         /\ ~ canEncodeSymbol(ph.symbol) => ph.address + 1 <= Len(Text(data, s))
<1>1. s \in Nat /\ s < e /\ e <= Len(data) /\ Len(data) \in Nat /\ dictLen \in Nat
  BY LenNat, DictFacts, ZenonT(60) DEF StandsFor
<1>2. ph.length \in Nat /\ ph.address \in Nat
  BY ZenonT(60) DEF Phrase
<1>3. CASE LiteralOf(data, ph, s, e)
  <2>1. canEncodeSymbol(ph.symbol) /\ e = s + 1 /\ ph.symbol = At(data, s)
    BY <1>3, ZenonT(60) DEF LiteralOf
  <2>2. s \in 0..(Len(data)-1) /\ s \in 0..Len(data) /\ e \in 0..Len(data)
    BY <1>1, <2>1
  <2>3. Append(Text(data, s), ph.symbol) = Text(data, e)
    BY <2>1, <2>2, TextAppend, ZenonT(60)
  <2> QED
    BY <2>1, <2>2, <2>3, ZenonT(60) DEF AddPhrase
<1>4. CASE CopyOf(data, ph, s, e) \/ DictCopyOf(data, ph, s, e)
  <2> DEFINE a == ph.address + 1
             n == ph.length + 1
  <2>1. /\ ~ canEncodeSymbol(ph.symbol) /\ n = e - s /\ a \in Nat /\ n \in Nat /\ e \in Int
    <3>1. ph.symbol \in {SymbolShort, SymbolDynamic} /\ n = e - s
      BY <1>4, ZenonT(60) DEF CopyOf, DictCopyOf
    <3>2. ~ canEncodeSymbol(ph.symbol)
      BY <3>1, ZenonT(60) DEF canEncodeSymbol
    <3> QED
      BY <1>2, <3>1, <3>2
  <2> HIDE DEF a, n
  <2>2. a <= dictLen + s
    <3>1. CASE CopyOf(data, ph, s, e)
      BY <1>1, <2>1, <3>1 DEF CopyOf, a
    <3>2. CASE DictCopyOf(data, ph, s, e)
      <4>1. PICK o \in 0..(dictLen-1) : a = s + (dictLen - o)
        BY <3>2, ZenonT(60) DEF DictCopyOf, a
      <4> QED
        BY <1>1, <2>1, <4>1
    <3> QED
      BY <1>4, <3>1, <3>2, ZenonT(60)
  <2>3. ASSUME NEW k \in s..(e-1)
        PROVE  At(Text(data, k), (dictLen + k) - a) = At(data, k)
    <3>1. k \in 0..Len(data) /\ k \in Nat /\ s <= k /\ k <= e - 1
      BY <1>1, <2>1
    <3>2. /\ \A j \in 0..(dictLen-1) : At(Text(data, k), j) = At(dictData, j)
          /\ \A j \in 0..(k-1) : At(Text(data, k), dictLen + j) = At(data, j)
      BY <3>1, TextFacts, ZenonT(60)
    <3>3. CASE CopyOf(data, ph, s, e)
      <4>1. a <= s /\ At(data, k) = At(data, k - a) /\ a > 0
        BY <1>2, <3>3 DEF CopyOf, a
      <4>2. k - a \in 0..(k-1) /\ (dictLen + k) - a = dictLen + (k - a)
        BY <1>1, <2>1, <3>1, <4>1
      <4> QED
        BY <3>2, <4>1, <4>2, ZenonT(60)
    <3>4. CASE DictCopyOf(data, ph, s, e)
      <4>1. PICK o \in 0..(dictLen-1) :
              a = s + (dictLen - o) /\ Occurs(data, s, e - s, dictData, o)
        BY <3>4, ZenonT(60) DEF DictCopyOf, a
      <4>2. /\ o + (e - s) <= dictLen
            /\ \A j \in 0..((e-s)-1) : At(dictData, o + j) = At(data, s + j)
        BY <4>1, ZenonT(60) DEF Occurs, dictLen
      <4>3. /\ k - s \in 0..((e-s)-1) /\ s + (k - s) = k /\ (dictLen + k) - a = o + (k - s)
            /\ o + (k - s) \in 0..(dictLen-1)
        BY <1>1, <2>1, <3>1, <4>1, <4>2
      <4> QED
        BY <3>2, <4>2, <4>3, ZenonT(60)
    <3> QED
      BY <1>4, <3>3, <3>4, ZenonT(60)
  <2>4. PICK c : Copying(c, Text(data, s), a, n) /\ CopyBytes(Text(data, s), a, n) = c[n]
    <3>1. n \in Nat
      BY <2>1, ZenonT(60)
    <3> QED
      BY <3>1, CopyBytesRec, ZenonT(60)
  <2> DEFINE P == {k \in 0..n : c[k] = Text(data, s + k)}
  <2>5. 0 \in P
    BY <1>1, <2>1, <2>4 DEF Copying
  <2>6. ASSUME NEW k \in 1..n, k - 1 \in P PROVE k \in P
    <3> DEFINE j == s + (k - 1)
    <3>1. /\ j \in s..(e-1) /\ j \in 0..(Len(data)-1) /\ j \in 0..Len(data)
          /\ j + 1 = s + k /\ k \in 0..n
      BY <1>1, <2>1
    <3>2. c[k-1] = Text(data, j)
      BY <2>6, ZenonT(60)
    <3> HIDE DEF j
    <3>3. Len(Text(data, j)) = dictLen + j
      BY <3>1, TextFacts, ZenonT(60)
    <3>4. At(Text(data, j), Len(Text(data, j)) - a) = At(data, j)
      BY <2>3, <3>1, <3>3, ZenonT(60)
    <3>5. c[k] = Append(Text(data, j), At(data, j))
      BY <2>4, <3>2, <3>4, ZenonT(60) DEF Copying
    <3>6. c[k] = Text(data, j + 1)
      BY <3>1, <3>5, TextAppend, ZenonT(60)
    <3> QED
      BY <3>1, <3>6, ZenonT(60)
  <2>7. \A k \in 0..n : k \in P
    <3> HIDE DEF P
    <3> QED
      BY <2>1, <2>5, <2>6, UpTo, ZenonT(60)
  <2>8. c[n] = Text(data, e)
    <3>1. n \in 0..n /\ s + n = e
      BY <1>1, <2>1
    <3>2. n \in P
      BY <2>7, <3>1, ZenonT(60)
    <3> QED
      BY <3>1, <3>2, ZenonT(60)
  <2>9. AddPhrase(Text(data, s), ph) = Text(data, e)
    BY <2>1, <2>4, <2>8, ZenonT(60) DEF AddPhrase, a, n
  <2>10. s \in 0..Len(data) /\ e \in 0..Len(data) /\ Len(Text(data, s)) = dictLen + s
    BY <1>1, <2>1, TextFacts
  <2> QED
    BY <2>2, <2>9, <2>10, ZenonT(60) DEF a
<1> QED
  BY <1>3, <1>4, ZenonT(60) DEF StandsFor

\* The phrases ss stand for data, piece after piece, cut at st.
MadeOf(data, ss, st) ==
  /\ ss \in Seq(Phrase) /\ st \in Seq(Nat) /\ Len(st) = Len(ss) + 1
  /\ st[1] = 0 /\ st[Len(ss) + 1] = Len(data)
  /\ \A n \in 1..Len(ss) : StandsFor(data, ss[n], st[n], st[n+1])

\* Then they are accepted, and mean data.
LEMMA MeaningSound ==
  ASSUME NEW data \in Seq(Byte), NEW ss, NEW st, MadeOf(data, ss, st)
  PROVE  HasMeaning(ss) /\ Accepted(ss) /\ Output(Meaning(ss)) = data
<1> DEFINE N == Len(ss)
           P == {n \in 0..N : MeaningOf(ss, n) = Text(data, st[n+1])}
<1>1. /\ ss \in Seq(Phrase) /\ N \in Nat /\ st[1] = 0 /\ st[N+1] = Len(data)
      /\ \A n \in 1..N : StandsFor(data, ss[n], st[n], st[n+1])
  BY LenNat, ZenonT(60) DEF MadeOf
<1>2. /\ MeaningOf(ss, 0) = dictData
      /\ \A n \in 1..N : MeaningOf(ss, n) = AddPhrase(MeaningOf(ss, n-1), ss[n])
  BY <1>1, MeaningRec, ZenonT(60)
<1>3. \A n \in 1..N :
        /\ AddPhrase(Text(data, st[n]), ss[n]) = Text(data, st[n+1])
        /\ ~ canEncodeSymbol(ss[n].symbol) => ss[n].address + 1 <= Len(Text(data, st[n]))
  <2>1. ASSUME NEW n \in 1..N PROVE ss[n] \in Phrase /\ st[n+1] \in Nat
    BY <1>1, SMTT(60) DEF MadeOf
  <2> QED
    BY <1>1, <2>1, AddPhraseSound, ZenonT(60)
<1>4. \A n \in DOMAIN ss : n \in 1..N
  BY <1>1
<1> HIDE DEF N
<1>5. 0 \in P
  <2>1. 0 \in 0..N /\ 0 + 1 = 1
    BY <1>1
  <2>2. Text(data, 0) = dictData
    <3>1. SubSeq(data, 1, 0) = <<>>
      OBVIOUS
    <3>2. dictData \in Seq(Byte)
      BY DictFacts, ZenonT(60)
    <3>3. dictData \o <<>> = dictData
      BY <3>2
    <3> QED
      BY <3>1, <3>3, ZenonT(60) DEF Text
  <2> QED
    BY <1>1, <1>2, <2>1, <2>2, ZenonT(60)
<1>6. ASSUME NEW n \in 1..N, n - 1 \in P PROVE n \in P
  <2>1. n \in 0..N /\ (n - 1) + 1 = n
    BY <1>1
  <2>2. MeaningOf(ss, n - 1) = Text(data, st[n])
    BY <1>6, <2>1, ZenonT(60)
  <2> QED
    BY <1>2, <1>3, <2>1, <2>2, ZenonT(60)
<1>7. \A n \in 0..N : n \in P
  <2> HIDE DEF P
  <2> QED
    BY <1>1, <1>5, <1>6, UpTo, ZenonT(60)
<1>8. \A n \in 0..N : MeaningOf(ss, n) = Text(data, st[n+1])
  BY <1>7, ZenonT(60)
<1>9. HasMeaning(ss)
  <2>1. ASSUME NEW n \in 1..N PROVE MeaningOf(ss, n - 1) = Text(data, st[n])
    <3>1. n - 1 \in 0..N /\ (n - 1) + 1 = n
      BY <1>1
    <3> QED
      BY <1>8, <3>1, ZenonT(60)
  <2> QED
    BY <1>3, <1>4, <2>1, ZenonT(60) DEF HasMeaning
<1>10. Accepted(ss)
  <2>1. ASSUME NEW n \in 1..N PROVE Admitted(ss[n], Len(MeaningOf(ss, n - 1)) - dictLen)
    <3>1. n - 1 \in 0..N /\ (n - 1) + 1 = n
      BY <1>1
    <3>2. MeaningOf(ss, n - 1) = Text(data, st[n])
      BY <1>8, <3>1, ZenonT(60)
    <3>3. ss[n] \in Phrase /\ st[n+1] \in Nat
      BY <1>1, SMTT(60) DEF MadeOf, N
    <3>4. Admitted(ss[n], st[n]) /\ st[n] \in 0..Len(data)
      BY <1>1, <3>3, AdmittedSound, AddPhraseSound, ZenonT(60)
    <3>5. Len(Text(data, st[n])) = dictLen + st[n]
      BY <3>4, TextFacts, ZenonT(60)
    <3>6. \A x \in 0..Len(data) : (dictLen + x) - dictLen = x
      BY DictFacts, LenNat
    <3> QED
      BY <3>2, <3>4, <3>5, <3>6, ZenonT(60)
  <2> QED
    BY <1>4, <2>1, ZenonT(60) DEF Accepted
<1>11. Meaning(ss) = Text(data, Len(data))
  <2>1. N \in 0..N
    BY <1>1
  <2> QED
    BY <1>1, <1>8, <2>1, ZenonT(60) DEF Meaning, N
<1>12. Output(Text(data, Len(data))) = data
  <2> DEFINE t == Text(data, Len(data))
             L == Len(data)
  <2>1. L \in Nat /\ dictLen \in Nat /\ L \in 0..L
    BY LenNat, DictFacts
  <2>2. t \in Seq(Byte) /\ Len(t) = dictLen + L /\ \A k \in 0..(L-1) : At(t, dictLen + k) = At(data, k)
    BY <2>1, TextFacts, ZenonT(60)
  <2> HIDE DEF t
  <2>3. \A k \in 1..L : t[dictLen + k] = data[k]
    <3>1. ASSUME NEW k \in 1..L PROVE t[dictLen + k] = data[k]
      <4>1. k - 1 \in 0..(L-1) /\ (k - 1) + 1 = k /\ (dictLen + (k - 1)) + 1 = dictLen + k
        BY <2>1
      <4>2. At(t, dictLen + (k - 1)) = At(data, k - 1)
        BY <2>2, <4>1, ZenonT(60)
      <4> QED
        BY <4>1, <4>2, ZenonT(60) DEF At
    <3> QED
      BY <3>1, ZenonT(60)
  <2>4. SubSeq(t, dictLen + 1, dictLen + L) = data
    <3>1. dictLen + L <= Len(t)
      BY <2>1, <2>2
    <3> QED
      BY <2>1, <2>2, <2>3, <3>1, SliceIs, ZenonT(60)
  <2> QED
    BY <2>2, <2>4, ZenonT(60) DEF Output, t
<1> QED
  BY <1>9, <1>10, <1>11, <1>12, ZenonT(60)

-----------------------------------------------------------------------------
(* Files. *)

\* A header that was written is read again, and what follows it is what was behind it.
LEMMA HeaderBack ==
  ASSUME NEW bypass \in BOOLEAN, NEW body \in Seq(Bit), NEW file, file = HeaderBits(bypass) \o body
  PROVE  /\ HeaderIsRead(file) /\ Field(file, 0, 16) = Version
         /\ HeaderFlag(file) = ind(bypass)
         /\ SubSeq(file, 8 * HeaderSize + 1, Len(file)) = body
<1> DEFINE h == HeaderBits(bypass)
           flag == ind(bypass)
           ver == NumBits(Version, 16)
           fl == NumBits(flag, 8)
           L == Len(body)
<1>1. 16 \in 0..MaxWidth /\ 8 \in 0..MaxWidth
  BY BitsAssumption, SMTT(60) DEF MaxWidth
<1>2. Version \in Nat /\ Version = 1 /\ flag \in {0, 1}
  BY ZenonT(60) DEF Version, ind
<1>3. h = ver \o fl /\ file = h \o body
  BY ZenonT(60) DEF HeaderBits
<1> HIDE DEF flag
<1>4. ver \in Seq(Bit) /\ Len(ver) = 16 /\ fl \in Seq(Bit) /\ Len(fl) = 8
  <2>1. flag \in Nat
    BY <1>2
  <2> QED
    BY <1>1, <1>2, <2>1, NumBitsFacts, ZenonT(60)
<1> HIDE DEF ver, fl, h, L
<1>5. /\ h \in Seq(Bit) /\ Len(h) = 24
      /\ \A k \in 1..16 : h[k] = ver[k]
      /\ \A k \in 1..8 : h[16 + k] = fl[k]
  <2>1. /\ ver \o fl \in Seq(Bit) /\ Len(ver \o fl) = Len(ver) + Len(fl)
        /\ \A k \in 1..Len(ver) : (ver \o fl)[k] = ver[k]
        /\ \A k \in 1..Len(fl) : (ver \o fl)[Len(ver) + k] = fl[k]
    <3>1. ver \in Seq(Bit) /\ fl \in Seq(Bit)
      BY <1>4, ZenonT(60)
    <3> QED
      BY <3>1, ConcatFacts
  <2>2. Len(ver) + Len(fl) = 24
    BY <1>4
  <2> QED
    BY <1>3, <1>4, <2>1, <2>2, ZenonT(60)
<1>6. L \in Nat /\ L = Len(body)
  BY LenNat, ZenonT(60) DEF L
<1>7. /\ file \in Seq(Bit) /\ Len(file) = 24 + L
      /\ \A k \in 1..24 : file[k] = h[k]
      /\ \A k \in 1..L : file[24 + k] = body[k]
  <2>1. /\ h \o body \in Seq(Bit) /\ Len(h \o body) = Len(h) + Len(body)
        /\ \A k \in 1..Len(h) : (h \o body)[k] = h[k]
        /\ \A k \in 1..Len(body) : (h \o body)[Len(h) + k] = body[k]
    <3>1. h \in Seq(Bit)
      BY <1>5, ZenonT(60)
    <3> QED
      BY <3>1, ConcatFacts
  <2> QED
    BY <1>3, <1>5, <1>6, <2>1, ZenonT(60)
<1>8. Field(file, 0, 16) = Version
  <2>1. 0 + 16 <= Len(file)
    BY <1>6, <1>7
  <2>2. \A k \in 1..16 : file[0 + k] = ver[k]
    <3>1. ASSUME NEW k \in 1..16 PROVE file[0 + k] = ver[k]
      <4>1. k \in 1..24 /\ 0 + k = k
        OBVIOUS
      <4> QED
        BY <1>5, <1>7, <4>1, ZenonT(60)
    <3> QED
      BY <3>1, ZenonT(60)
  <2>3. Version < 2^16 /\ 0 \in Nat
    BY <1>2, ByteWidth, ZenonT(60)
  <2> HIDE DEF Version
  <2>4. \A k \in 1..16 : file[0 + k] = NumBits(Version, 16)[k]
    BY <2>2, ZenonT(60) DEF ver
  <2>5. file \in Seq(Bit) /\ Version \in Nat
    BY <1>2, <1>7, ZenonT(60)
  <2> QED
    BY <1>1, <2>1, <2>3, <2>4, <2>5, FieldIs, ZenonT(60)
<1>9. HeaderFlag(file) = flag
  <2>1. 16 + 8 <= Len(file)
    BY <1>6, <1>7
  <2>2. \A k \in 1..8 : file[16 + k] = NumBits(flag, 8)[k]
    <3>1. ASSUME NEW k \in 1..8 PROVE file[16 + k] = fl[k]
      <4>1. 16 + k \in 1..24
        OBVIOUS
      <4> QED
        BY <1>5, <1>7, <4>1, ZenonT(60)
    <3> QED
      BY <3>1, ZenonT(60) DEF fl
  <2>3. flag < 2^8 /\ 16 \in Nat
    BY <1>2, ByteWidth
  <2>4. file \in Seq(Bit) /\ flag \in Nat
    BY <1>2, <1>7
  <2>5. Field(file, 16, 8) = flag
    BY <1>1, <2>1, <2>2, <2>3, <2>4, FieldIs, ZenonT(60)
  <2> QED
    BY <2>5, ZenonT(60) DEF HeaderFlag
<1>10. SubSeq(file, 24 + 1, 24 + L) = body
  <2>1. 24 \in Nat /\ 24 + L <= Len(file)
    BY <1>6, <1>7
  <2> QED
    BY <1>6, <1>7, <2>1, SliceIs, ZenonT(60)
<1>11. 8 * HeaderSize = 24
  BY DEF HeaderSize
<1>12. HeaderIsRead(file)
  BY <1>2, <1>6, <1>7, <1>9, <1>11 DEF HeaderIsRead
<1> QED
  BY <1>7, <1>8, <1>9, <1>10, <1>11, <1>12, ZenonT(60) DEF flag

\* A chain of phrases for all of a text makes it, if the dictionary is in reach.
LEMMA ChainMadeOf ==
  ASSUME NEW data \in Seq(Byte), NEW ss, NEW st, Chain(data, ss, st, 0, Len(data)),
         InReach(Len(data))
  PROVE  MadeOf(data, ss, st)
<1>1. /\ ss \in Seq(Phrase) /\ st \in Seq(Nat) /\ Len(st) = Len(ss) + 1
      /\ st[1] = 0 /\ st[Len(st)] = Len(data)
  BY ZenonT(60) DEF Chain
<1>2. \A k \in DOMAIN ss : StandsFor(data, ss[k], st[k], st[k+1])
  BY ChainStands, ZenonT(60)
<1>3. DOMAIN ss = 1..Len(ss) /\ st[Len(ss) + 1] = Len(data)
  BY <1>1
<1>4. \A k \in 1..Len(ss) : StandsFor(data, ss[k], st[k], st[k+1])
  BY <1>2, <1>3, ZenonT(60)
<1> QED
  BY <1>1, <1>3, <1>4, ZenonT(60) DEF MadeOf

\* Phrases that stand for data, behind a header and before less than a byte of
\* anything, are a file that decompresses to data.
LEMMA FileDecompresses ==
  ASSUME NEW data \in Seq(Byte), NEW ss, NEW st, MadeOf(data, ss, st),
         \A n \in DOMAIN ss : Fits(ss[n]), NEW pad \in Seq(Bit), Len(pad) < 8
  PROVE  DecompressesTo(HeaderBits(FALSE) \o (StreamBits(ss) \o pad), data)
<1> DEFINE body == StreamBits(ss) \o pad
           file == HeaderBits(FALSE) \o body
<1>1. ss \in Seq(Phrase)
  BY ZenonT(60) DEF MadeOf
<1>2. body \in Seq(Bit)
  BY <1>1, StreamBitsFacts, ConcatFacts, ZenonT(60)
<1>3. ReadPhrases(body) = ss
  BY <1>1, ReadBack, ZenonT(60)
<1>4. Accepted(ss) /\ Output(Meaning(ss)) = data
  BY MeaningSound, ZenonT(60)
<1> HIDE DEF body
<1>5. /\ HeaderIsRead(file) /\ Field(file, 0, 16) = Version
      /\ HeaderFlag(file) = ind(FALSE)
      /\ SubSeq(file, 8 * HeaderSize + 1, Len(file)) = body
  BY <1>2, HeaderBack, ZenonT(60)
<1>6. HeaderFlag(file) = 0 /\ HeaderFlag(file) # 1
  <2>1. ind(FALSE) = 0
    BY ZenonT(60) DEF ind
  <2>2. HeaderFlag(file) = 0
    BY <1>5, <2>1, ZenonT(60)
  <2>3. 0 # 1
    OBVIOUS
  <2> QED
    BY <2>2, <2>3, ZenonT(60)
<1>7. \A n \in DOMAIN ss : ss[n] # EndsInRef
  <2>1. ASSUME NEW n \in DOMAIN ss PROVE ss[n].symbol \in Byte
    <3>1. ss[n] \in Phrase
      BY <1>1
    <3> QED
      BY <3>1, ZenonT(60) DEF Phrase
  <2>2. EndsInRef.symbol \notin Byte
    BY DEF EndsInRef, Byte
  <2> QED
    BY <2>1, <2>2, ZenonT(60)
<1> HIDE DEF file
<1>8. DecompressesTo(file, data)
  BY <1>3, <1>4, <1>5, <1>6, <1>7, ZenonT(60) DEF DecompressesTo
<1> QED
  BY <1>8, ZenonT(60) DEF file, body

\* So do the bytes of data, behind a header that says so.
LEMMA BypassDecompresses ==
  ASSUME NEW data \in Seq(Byte)
  PROVE  DecompressesTo(HeaderBits(TRUE) \o BytesBits(data), data)
<1> DEFINE file == HeaderBits(TRUE) \o BytesBits(data)
<1>1. BytesBits(data) \in Seq(Bit)
  BY BytesBitsFacts, ZenonT(60)
<1>2. /\ HeaderIsRead(file) /\ Field(file, 0, 16) = Version
      /\ HeaderFlag(file) = ind(TRUE)
      /\ SubSeq(file, 8 * HeaderSize + 1, Len(file)) = BytesBits(data)
  BY <1>1, HeaderBack, ZenonT(60)
<1>3. HeaderFlag(file) = 1 /\ HeaderFlag(file) # 0
  <2>1. ind(TRUE) = 1
    BY ZenonT(60) DEF ind
  <2>2. HeaderFlag(file) = 1
    BY <1>2, <2>1, ZenonT(60)
  <2>3. 0 # 1
    OBVIOUS
  <2> QED
    BY <2>2, <2>3, ZenonT(60)
<1> HIDE DEF file
<1>4. DecompressesTo(file, data)
  BY <1>2, <1>3, ZenonT(60) DEF DecompressesTo
<1> QED
  BY <1>4, ZenonT(60) DEF file

-----------------------------------------------------------------------------
(* Sequences that are cut and joined. *)

\* Sequences with the same elements are the same.
LEMMA SameElements ==
  ASSUME NEW S, NEW a \in Seq(S), NEW b \in Seq(S), Len(a) = Len(b),
         \A k \in 1..Len(a) : a[k] = b[k]
  PROVE  a = b
  OBVIOUS

\* A sequence that starts like a and goes on like b is a and b, one behind the other.
LEMMA ConcatIs ==
  ASSUME NEW S, NEW a \in Seq(S), NEW b \in Seq(S), NEW c \in Seq(S),
         Len(c) = Len(a) + Len(b),
         \A k \in 1..Len(a) : c[k] = a[k],
         \A k \in 1..Len(b) : c[Len(a) + k] = b[k]
  PROVE  a \o b = c
<1>1. PICK e : e = a \o b
  BY ZenonT(60)
<1>2. /\ e \in Seq(S) /\ Len(e) = Len(a) + Len(b)
      /\ \A k \in 1..Len(a) : e[k] = a[k]
      /\ \A k \in 1..Len(b) : e[Len(a) + k] = b[k]
  BY <1>1
<1>3. ASSUME NEW k \in 1..Len(e) PROVE e[k] = c[k]
  <2>1. Len(a) \in Nat /\ Len(b) \in Nat
    OBVIOUS
  <2>2. k \in 1..Len(a) \/ (k - Len(a) \in 1..Len(b) /\ Len(a) + (k - Len(a)) = k)
    BY <1>2, <2>1
  <2> QED
    BY <1>2, <2>2
<1>4. e = c
  BY <1>2, <1>3
<1> QED
  BY <1>1, <1>4, ZenonT(60)

\* Two slices, one behind the other, are a slice.
LEMMA SlicesJoin ==
  ASSUME NEW S, NEW s \in Seq(S), NEW e \in 0..Len(s), NEW n \in 0..e, NEW m \in 0..n
  PROVE  SubSeq(s, m + 1, n) \o SubSeq(s, n + 1, e) = SubSeq(s, m + 1, e)
<1>1. PICK p, q : p = n - m /\ q = e - n
  BY ZenonT(60)
<1>2. p \in Nat /\ q \in Nat /\ m \in Nat /\ n = m + p /\ e = n + q /\ e = m + (p + q)
      /\ m + p <= Len(s) /\ n + q <= Len(s) /\ m + (p + q) <= Len(s) /\ n \in Nat /\ p + q \in Nat
  BY <1>1
<1>3. PICK a, b, c : /\ a = SubSeq(s, m + 1, m + p) /\ b = SubSeq(s, n + 1, n + q)
                     /\ c = SubSeq(s, m + 1, m + (p + q))
  BY ZenonT(60)
<1>4. a \in Seq(S) /\ Len(a) = p /\ \A k \in 1..p : a[k] = s[m + k]
  BY <1>2, <1>3, SliceFacts
<1>5. b \in Seq(S) /\ Len(b) = q /\ \A k \in 1..q : b[k] = s[n + k]
  BY <1>2, <1>3, SliceFacts
<1>6. c \in Seq(S) /\ Len(c) = p + q /\ \A k \in 1..(p+q) : c[k] = s[m + k]
  BY <1>2, <1>3, SliceFacts
<1>7. Len(c) = Len(a) + Len(b)
  BY <1>4, <1>5, <1>6, ZenonT(60)
<1>8. ASSUME NEW k \in 1..p PROVE c[k] = a[k]
  <2>1. k \in 1..(p+q)
    BY <1>2
  <2> QED
    BY <1>4, <1>6, <2>1, ZenonT(60)
<1>9. ASSUME NEW k \in 1..q PROVE c[p + k] = b[k]
  <2>1. p + k \in 1..(p+q) /\ m + (p + k) = n + k
    BY <1>2
  <2> QED
    BY <1>5, <1>6, <2>1, ZenonT(60)
<1>10. a \o b = c
  BY <1>4, <1>5, <1>6, <1>7, <1>8, <1>9, ConcatIs, ZenonT(60)
<1> QED
  BY <1>2, <1>3, <1>10, ZenonT(60)

\* A slice stays what it is when the sequence grows behind it.
LEMMA SliceKept ==
  ASSUME NEW S, NEW s \in Seq(S), NEW t \in Seq(S), Len(s) <= Len(t),
         \A k \in 1..Len(s) : t[k] = s[k],
         NEW e \in 0..Len(s), NEW m \in 0..e
  PROVE  SubSeq(t, m + 1, e) = SubSeq(s, m + 1, e)
<1>1. PICK p : p = e - m
  BY ZenonT(60)
<1>2. p \in Nat /\ m \in Nat /\ e = m + p /\ m + p <= Len(s) /\ m + p <= Len(t)
      /\ \A k \in 1..p : m + k \in 1..Len(s)
  BY <1>1
<1>3. PICK a, b : a = SubSeq(s, m + 1, m + p) /\ b = SubSeq(t, m + 1, m + p)
  BY ZenonT(60)
<1>4. a \in Seq(S) /\ Len(a) = p /\ \A k \in 1..p : a[k] = s[m + k]
  BY <1>2, <1>3, SliceFacts
<1>5. b \in Seq(S) /\ Len(b) = p /\ \A k \in 1..p : b[k] = t[m + k]
  BY <1>2, <1>3, SliceFacts
<1>6. \A k \in 1..p : a[k] = b[k]
  BY <1>2, <1>4, <1>5, ZenonT(60)
<1>7. a = b
  BY <1>4, <1>5, <1>6, SameElements, ZenonT(60)
<1> QED
  BY <1>2, <1>3, <1>7, ZenonT(60)

\* Bits can be joined in any order.
LEMMA ConcatAssoc == \A a, b, c \in Seq(Bit) : (a \o b) \o c = a \o (b \o c)
<1> SUFFICES ASSUME NEW a \in Seq(Bit), NEW b \in Seq(Bit), NEW c \in Seq(Bit)
             PROVE  (a \o b) \o c = a \o (b \o c)
  BY ZenonT(60)
<1> QED
  BY SMTT(60)

\* A prefix and the slice behind it.
LEMMA JoinSlices ==
  ASSUME NEW S, NEW s \in Seq(S), NEW e \in 0..Len(s), NEW n \in 0..e
  PROVE  /\ SubSeq(s, 1, n) \in Seq(S) /\ SubSeq(s, n + 1, e) \in Seq(S)
         /\ Len(SubSeq(s, 1, n)) = n /\ Len(SubSeq(s, n + 1, e)) = e - n
         /\ SubSeq(s, 1, n) \o SubSeq(s, n + 1, e) = SubSeq(s, 1, e)
<1>1. n \in Nat /\ n <= Len(s) /\ 0 \in 0..n
  OBVIOUS
<1>2. SubSeq(s, 1, n) \in Seq(S) /\ Len(SubSeq(s, 1, n)) = n
  BY <1>1, PrefixFacts, ZenonT(60)
<1>3. SubSeq(s, n + 1, e) \in Seq(S) /\ Len(SubSeq(s, n + 1, e)) = e - n
  <2>1. PICK m : m = e - n
    BY ZenonT(60)
  <2>2. m \in Nat /\ n + m = e /\ n + m <= Len(s)
    BY <1>1, <2>1
  <2>3. SubSeq(s, n + 1, n + m) \in Seq(S) /\ Len(SubSeq(s, n + 1, n + m)) = m
    BY <1>1, <2>2, SliceFacts
  <2> QED
    BY <2>1, <2>2, <2>3, ZenonT(60)
<1>4. SubSeq(s, 0 + 1, n) \o SubSeq(s, n + 1, e) = SubSeq(s, 0 + 1, e)
  BY <1>1, SlicesJoin, ZenonT(60)
<1>5. 0 + 1 = 1
  OBVIOUS
<1> QED
  BY <1>2, <1>3, <1>4, <1>5, ZenonT(60)

\* The two parts of a sequence make it up.
LEMMA CutAndJoin ==
  ASSUME NEW S, NEW s \in Seq(S), NEW n \in 0..Len(s)
  PROVE  /\ SubSeq(s, 1, n) \in Seq(S) /\ SubSeq(s, n + 1, Len(s)) \in Seq(S)
         /\ Len(SubSeq(s, 1, n)) = n /\ Len(SubSeq(s, n + 1, Len(s))) = Len(s) - n
         /\ SubSeq(s, 1, n) \o SubSeq(s, n + 1, Len(s)) = s
<1> DEFINE e == Len(s)
<1>1. e \in 0..Len(s) /\ n \in 0..e /\ SubSeq(s, 1, e) = s
  OBVIOUS
<1> HIDE DEF e
<1>2. /\ SubSeq(s, 1, n) \in Seq(S) /\ SubSeq(s, n + 1, e) \in Seq(S)
      /\ Len(SubSeq(s, 1, n)) = n /\ Len(SubSeq(s, n + 1, e)) = e - n
      /\ SubSeq(s, 1, n) \o SubSeq(s, n + 1, e) = SubSeq(s, 1, e)
  BY <1>1, JoinSlices, ZenonT(60)
<1> QED
  BY <1>1, <1>2, ZenonT(60) DEF e

\* What is joined to a sequence does not change its prefixes.
LEMMA PrefixOfConcat ==
  ASSUME NEW S, NEW a \in Seq(S), NEW b \in Seq(S), NEW n \in 0..Len(a)
  PROVE  SubSeq(a \o b, 1, n) = SubSeq(a, 1, n)
<1>1. /\ a \o b \in Seq(S) /\ Len(a \o b) = Len(a) + Len(b)
      /\ \A k \in 1..Len(a) : (a \o b)[k] = a[k]
  BY ConcatFacts, ZenonT(60)
<1>2. n \in Nat /\ n <= Len(a) /\ n <= Len(a \o b)
  BY <1>1, LenNat
<1> DEFINE ab == a \o b
           p == SubSeq(ab, 1, n)
           q == SubSeq(a, 1, n)
<1>3. q \in Seq(S) /\ Len(q) = n /\ \A k \in 1..n : q[k] = a[k]
  BY <1>2, PrefixFacts, ZenonT(60)
<1>4. ab \in Seq(S) /\ n <= Len(ab) /\ \A k \in 1..n : ab[k] = a[k]
  BY <1>1, <1>2
<1> HIDE DEF ab
<1>5. p \in Seq(S) /\ Len(p) = n /\ \A k \in 1..n : p[k] = ab[k]
  BY <1>2, <1>4, PrefixFacts, ZenonT(60)
<1> HIDE DEF p, q
<1>6. p = q
  BY <1>3, <1>4, <1>5
<1> QED
  BY <1>6, ZenonT(60) DEF p, q, ab

\* The whole of a sequence is its prefix.
LEMMA PrefixAll ==
  ASSUME NEW S, NEW a \in Seq(S), NEW b \in Seq(S)
  PROVE  SubSeq(a \o b, 1, Len(a)) = a
<1>1. Len(a) \in 0..Len(a) /\ Len(a) \in Nat
  OBVIOUS
<1>2. SubSeq(a \o b, 1, Len(a)) = SubSeq(a, 1, Len(a))
  BY <1>1, PrefixOfConcat, ZenonT(60)
<1>3. SubSeq(a, 1, Len(a)) = a
  OBVIOUS
<1> QED
  BY <1>2, <1>3, ZenonT(60)

\* A prefix of a prefix.
LEMMA PrefixTwice ==
  ASSUME NEW S, NEW s \in Seq(S), NEW n \in 0..Len(s), NEW m \in 0..n
  PROVE  SubSeq(SubSeq(s, 1, n), 1, m) = SubSeq(s, 1, m)
<1> DEFINE a == SubSeq(s, 1, n)
           b == SubSeq(s, n + 1, Len(s))
<1>1. a \in Seq(S) /\ b \in Seq(S) /\ Len(a) = n /\ a \o b = s
  BY CutAndJoin, ZenonT(60)
<1> HIDE DEF a, b
<1>2. SubSeq(a \o b, 1, m) = SubSeq(a, 1, m)
  BY <1>1, PrefixOfConcat, ZenonT(60)
<1> QED
  BY <1>1, <1>2, ZenonT(60) DEF a

-----------------------------------------------------------------------------
(* The bits at the start and at the end of a Write. *)

\* The last byte of file is taken off, and its bits, without the padding, go back
\* through the cache c of the bit writer: no bit is lost.
LEMMA TakeBack ==
  ASSUME NEW file \in Seq(Bit), Len(file) % 8 = 0, 24 <= Len(file), NEW skip \in 0..7,
         NEW c \in Seq(Bit), Len(c) < 8
  PROVE  LET bits == c \o SubSeq(file, Len(file) - 7, Len(file) - skip)
             file1 == SubSeq(file, 1, Len(file) - 8) \o WholeBytes(bits)
         IN  /\ file1 \in Seq(Bit) /\ Len(file1) % 8 = 0 /\ 16 <= Len(file1)
             /\ Rest(bits) \in Seq(Bit) /\ Len(Rest(bits)) < 8
             /\ Len(file1) + Len(Rest(bits)) = (Len(file) - skip) + Len(c)
             /\ skip = 0 => Len(file1) = Len(file) /\ Len(Rest(bits)) = Len(c)
<1> DEFINE L == Len(file)
           head == SubSeq(file, 1, L - 8)
           tail == SubSeq(file, L - 7, L - skip)
           bits == c \o tail
           whole == WholeBytes(bits)
           rest == Rest(bits)
<1>1. L \in Nat /\ L % 8 = 0 /\ 24 <= L /\ Len(c) \in Nat /\ skip \in Nat
  OBVIOUS
<1>2. head \in Seq(Bit) /\ Len(head) = L - 8
  <2>1. L - 8 \in Nat /\ L - 8 <= L
    BY <1>1
  <2> QED
    BY <2>1, PrefixFacts, ZenonT(60)
<1>3. tail \in Seq(Bit) /\ Len(tail) = 8 - skip
  <2>1. /\ L - 8 \in Nat /\ 8 - skip \in Nat /\ (L - 8) + (8 - skip) <= L
        /\ (L - 8) + 1 = L - 7 /\ (L - 8) + (8 - skip) = L - skip
    BY <1>1
  <2> QED
    BY <2>1, SliceFacts, SMTT(60)
<1> HIDE DEF L, head, tail
<1>4. bits \in Seq(Bit) /\ Len(bits) = Len(c) + Len(tail)
  BY <1>3, ConcatFacts, ZenonT(60)
<1> HIDE DEF bits
<1>5. whole \in Seq(Bit) /\ rest \in Seq(Bit)
  BY <1>4, WholeFacts, ZenonT(60)
<1>6. Len(whole) = 8 * (Len(bits) \div 8) /\ Len(rest) = Len(bits) % 8
  BY <1>4, WholeFacts, ZenonT(60)
<1> HIDE DEF whole, rest
<1>7. head \o whole \in Seq(Bit) /\ Len(head \o whole) = Len(head) + Len(whole)
  BY <1>2, <1>5, ConcatFacts, ZenonT(60)
<1> DEFINE B == Len(bits)
           C == Len(c)
           n == Len(head \o whole)
           r == Len(rest)
<1>8. B = C + (8 - skip) /\ n = (L - 8) + 8 * (B \div 8) /\ r = B % 8 /\ C < 8
  BY <1>2, <1>3, <1>4, <1>6, <1>7, ZenonT(60)
<1>9. C \in Nat /\ B \in Nat
  BY <1>1, <1>3, <1>8
<1> HIDE DEF B, C, n, r
<1>10. n % 8 = 0 /\ 16 <= n /\ r < 8 /\ n + r = (L - skip) + C
  BY <1>1, <1>8, <1>9
<1>11. skip = 0 => n = L /\ r = C
  BY <1>1, <1>8, <1>9
<1> QED
  BY <1>5, <1>7, <1>10, <1>11, ZenonT(60) DEF L, B, C, n, r, head, whole, rest, bits, tail

\* When the bit writer holds nothing, the bits that are taken back from the last
\* byte are those before the padding, and nothing else changes.
LEMMA TakeBackBits ==
  ASSUME NEW file \in Seq(Bit), Len(file) % 8 = 0, 24 <= Len(file), NEW skip \in 0..7
  PROVE  LET bits == <<>> \o SubSeq(file, Len(file) - 7, Len(file) - skip)
             file1 == SubSeq(file, 1, Len(file) - 8) \o WholeBytes(bits)
         IN  /\ file1 \o Rest(bits) = SubSeq(file, 1, Len(file) - skip)
             /\ skip = 0 => file1 = file
<1> DEFINE L == Len(file)
           head == SubSeq(file, 1, L - 8)
           tail == SubSeq(file, L - 7, L - skip)
           bits == <<>> \o tail
           whole == WholeBytes(bits)
           rest == Rest(bits)
           all == SubSeq(file, 1, L - skip)
<1>1. /\ L \in Nat /\ 24 <= L /\ L - 8 \in 0..(L - skip) /\ L - skip \in 0..Len(file)
      /\ (L - 8) + 1 = L - 7 /\ (L - skip) - (L - 8) = 8 - skip
  OBVIOUS
<1>2. /\ head \in Seq(Bit) /\ tail \in Seq(Bit) /\ Len(tail) = (L - skip) - (L - 8)
      /\ head \o tail = all
  <2> DEFINE e == L - skip
             n == L - 8
  <2>1. e \in 0..Len(file) /\ n \in 0..e /\ n + 1 = L - 7
    BY <1>1, ZenonT(60)
  <2> HIDE DEF e, n
  <2>2. /\ SubSeq(file, 1, n) \in Seq(Bit) /\ SubSeq(file, n + 1, e) \in Seq(Bit)
        /\ Len(SubSeq(file, n + 1, e)) = e - n
        /\ SubSeq(file, 1, n) \o SubSeq(file, n + 1, e) = SubSeq(file, 1, e)
    BY <2>1, JoinSlices
  <2> QED
    BY <2>1, <2>2, ZenonT(60) DEF e, n
<1>3. Len(tail) = 8 - skip
  BY <1>1, <1>2, ZenonT(60)
<1> HIDE DEF L, head, tail, all
<1>4. bits = tail
  BY <1>2
<1> HIDE DEF bits
<1>5. /\ whole \in Seq(Bit) /\ rest \in Seq(Bit) /\ Len(rest) = Len(tail) % 8
  BY <1>2, <1>4, WholeFacts, ZenonT(60)
<1>6. whole \o rest = tail
  <2>1. NbWhole(tail) \in 0..Len(tail)
    BY <1>2, <1>3, SMTT(60) DEF NbWhole
  <2>2. SubSeq(tail, 1, NbWhole(tail)) \o SubSeq(tail, NbWhole(tail) + 1, Len(tail)) = tail
    BY <1>2, <2>1, CutAndJoin, ZenonT(60)
  <2> QED
    BY <1>4, <2>2, ZenonT(60) DEF WholeBytes, Rest
<1> HIDE DEF whole, rest
<1>7. (head \o whole) \o rest = head \o (whole \o rest)
  <2>1. head \in Seq(Bit) /\ whole \in Seq(Bit) /\ rest \in Seq(Bit)
    BY <1>2, <1>5, ZenonT(60)
  <2> QED
    BY <2>1, ConcatAssoc, ZenonT(60)
<1>8. (head \o whole) \o rest = all
  BY <1>2, <1>6, <1>7, ZenonT(60)
<1>9. ASSUME skip = 0 PROVE head \o whole = file
  <2>1. rest = <<>>
    BY <1>3, <1>5, <1>9, SMTT(60)
  <2>2. all = file
    BY <1>1, <1>9 DEF L, all
  <2>3. head \o whole \in Seq(Bit)
    BY <1>2, <1>5, ConcatFacts, ZenonT(60)
  <2>4. (head \o whole) \o <<>> = head \o whole
    BY <2>3
  <2> QED
    BY <1>8, <2>1, <2>2, <2>4, ZenonT(60)
<1> QED
  BY <1>8, <1>9, ZenonT(60) DEF L, head, tail, bits, whole, rest, all

\* Align puts zeros behind the bits, and nothing before them changes.
LEMMA AlignPrefix ==
  ASSUME NEW out0 \in Seq(Bit), NEW bits \in Seq(Bit)
  PROVE  LET file == out0 \o Aligned(bits)
         IN  /\ file \in Seq(Bit) /\ Len(file) = Len(out0 \o bits) + AlignSkips(bits)
             /\ SubSeq(file, 1, Len(out0 \o bits)) = out0 \o bits
             /\ \A n \in 0..Len(out0 \o bits) : SubSeq(file, 1, n) = SubSeq(out0 \o bits, 1, n)
<1> DEFINE m == AlignSkips(bits)
           pad == [k \in 1..m |-> 0]
           ob == out0 \o bits
<1>1. m \in 0..7
  BY AlignedFacts, ZenonT(60)
<1>2. pad \in Seq(Bit) /\ Len(pad) = m
  <2> HIDE DEF m
  <2>1. m \in Nat
    BY <1>1
  <2> QED
    BY <2>1 DEF Bit
<1>3. Aligned(bits) = bits \o pad
  BY ZenonT(60) DEF Aligned
<1> HIDE DEF m, pad
<1>4. out0 \o Aligned(bits) = ob \o pad
  <2>1. pad \in Seq(Bit)
    BY <1>2, ZenonT(60)
  <2>2. (out0 \o bits) \o pad = out0 \o (bits \o pad)
    BY <2>1, ConcatAssoc, ZenonT(60)
  <2> QED
    BY <1>3, <2>2, ZenonT(60)
<1>5. ob \in Seq(Bit)
  BY ConcatFacts, ZenonT(60)
<1> HIDE DEF ob
<1>6. ob \o pad \in Seq(Bit) /\ Len(ob \o pad) = Len(ob) + Len(pad)
  BY <1>2, <1>5, ConcatFacts, ZenonT(60)
<1>7. SubSeq(ob \o pad, 1, Len(ob)) = ob
  BY <1>2, <1>5, PrefixAll, ZenonT(60)
<1>8. \A n \in 0..Len(ob) : SubSeq(ob \o pad, 1, n) = SubSeq(ob, 1, n)
  BY <1>2, <1>5, PrefixOfConcat, ZenonT(60)
<1> QED
  BY <1>2, <1>4, <1>6, <1>7, <1>8, ZenonT(60) DEF ob, m

\* Bytes that are written one behind the other.
LEMMA BytesBitsConcat ==
  ASSUME NEW a \in Seq(Byte), NEW b \in Seq(Byte)
  PROVE  BytesBits(a \o b) = BytesBits(a) \o BytesBits(b)
<1> DEFINE A == BytesBits(a)
           B == BytesBits(b)
           C == BytesBits(a \o b)
           x == Len(a)
           y == Len(b)
           digit(s, k) == (s[(k + 7) \div 8] \div 2^((8 - k) % 8)) % 2
<1>1. /\ a \o b \in Seq(Byte) /\ Len(a \o b) = x + y
      /\ \A k \in 1..x : (a \o b)[k] = a[k]
      /\ \A k \in 1..y : (a \o b)[x + k] = b[k]
  BY ConcatFacts
<1>2. /\ A \in Seq(Bit) /\ Len(A) = 8 * x
      /\ B \in Seq(Bit) /\ Len(B) = 8 * y
      /\ C \in Seq(Bit) /\ Len(C) = 8 * (x + y)
  <2>1. a \o b \in Seq(Byte) /\ Len(a \o b) = x + y
    BY <1>1, ZenonT(60)
  <2>2. C \in Seq(Bit) /\ Len(C) = 8 * Len(a \o b)
    BY <2>1, BytesBitsFacts, ZenonT(60)
  <2> QED
    BY <2>1, <2>2, BytesBitsFacts, ZenonT(60)
<1>3. /\ \A k \in 1..(8 * x) : A[k] = digit(a, k)
      /\ \A k \in 1..(8 * y) : B[k] = digit(b, k)
  BY ZenonT(60) DEF BytesBits
<1>4. \A k \in 1..(8 * (x + y)) : C[k] = digit(a \o b, k)
  <2>1. C = [k \in 1..(8 * Len(a \o b)) |-> digit(a \o b, k)]
    BY ZenonT(60) DEF BytesBits
  <2>2. Len(a \o b) = x + y
    BY <1>1, ZenonT(60)
  <2>3. C = [k \in 1..(8 * (x + y)) |-> digit(a \o b, k)]
    BY <2>1, <2>2, ZenonT(60)
  <2> QED
    BY <2>3, ZenonT(60)
<1>5. x \in Nat /\ y \in Nat
  BY LenNat, ZenonT(60)
<1> HIDE DEF A, B, C, x, y
<1>6. /\ A \o B \in Seq(Bit) /\ Len(A \o B) = Len(A) + Len(B)
      /\ \A k \in 1..Len(A) : (A \o B)[k] = A[k]
      /\ \A k \in 1..Len(B) : (A \o B)[Len(A) + k] = B[k]
  <2>1. A \in Seq(Bit) /\ B \in Seq(Bit)
    BY <1>2, ZenonT(60)
  <2> QED
    BY <2>1, ConcatFacts
<1>7. ASSUME NEW k \in 1..(8 * (x + y)) PROVE C[k] = (A \o B)[k]
  <2>1. CASE k <= 8 * x
    <3>1. k \in 1..(8 * x) /\ (k + 7) \div 8 \in 1..x
      BY <1>5, <2>1
    <3>2. (a \o b)[(k + 7) \div 8] = a[(k + 7) \div 8]
      BY <1>1, <3>1, ZenonT(60)
    <3>3. digit(a \o b, k) = digit(a, k)
      BY <3>2, ZenonT(60)
    <3>4. (A \o B)[k] = A[k]
      BY <1>2, <1>6, <3>1, ZenonT(60)
    <3> QED
      BY <1>3, <1>4, <3>1, <3>3, <3>4, ZenonT(60)
  <2>2. CASE k > 8 * x
    <3> DEFINE j == k - 8 * x
    <3>1. j \in 1..(8 * y) /\ (j + 7) \div 8 \in 1..y /\ 8 * x + j = k
      BY <1>5, <2>2
    <3>2. (k + 7) \div 8 = x + (j + 7) \div 8 /\ (8 - k) % 8 = (8 - j) % 8
      BY <1>5, <2>2
    <3> HIDE DEF j
    <3>3. (a \o b)[x + (j + 7) \div 8] = b[(j + 7) \div 8]
      BY <1>1, <3>1, ZenonT(60)
    <3>4. digit(a \o b, k) = digit(b, j)
      BY <3>2, <3>3, ZenonT(60)
    <3>5. (A \o B)[8 * x + j] = B[j]
      BY <1>2, <1>6, <3>1, ZenonT(60)
    <3> QED
      BY <1>3, <1>4, <3>1, <3>4, <3>5, ZenonT(60)
  <2>3. k <= 8 * x \/ k > 8 * x
    BY <1>5
  <2> QED
    BY <2>1, <2>2, <2>3, ZenonT(60)
<1>8. Len(A \o B) = 8 * (x + y)
  BY <1>2, <1>5, <1>6, SMTT(60)
<1>9. C = A \o B
  <2> DEFINE D == A \o B
  <2>1. D \in Seq(Bit) /\ Len(D) = Len(C) /\ \A k \in 1..Len(C) : C[k] = D[k]
    BY <1>2, <1>6, <1>7, <1>8, ZenonT(60)
  <2> HIDE DEF D
  <2>2. C = D
    BY <1>2, <2>1
  <2> QED
    BY <2>2, ZenonT(60) DEF D
<1> QED
  BY <1>9, ZenonT(60) DEF A, B, C

-----------------------------------------------------------------------------
(* What phrases mean, one phrase at a time, and what is reported about them. *)

\* Copying nothing.
LEMMA CopyNone ==
  ASSUME NEW text, NEW address
  PROVE  CopyBytes(text, address, 0) = text
<1>1. PICK c : Copying(c, text, address, 0) /\ CopyBytes(text, address, 0) = c[0]
  BY CopyBytesRec, ZenonT(60)
<1> QED
  BY <1>1, ZenonT(60) DEF Copying

\* Copying n bytes is copying one, and then the rest.
LEMMA CopyFirst ==
  ASSUME NEW text, NEW address, NEW n \in Nat, n > 0
  PROVE  CopyBytes(text, address, n)
           = CopyBytes(Append(text, At(text, Len(text) - address)), address, n - 1)
<1>1. PICK c : Copying(c, text, address, n) /\ CopyBytes(text, address, n) = c[n]
  BY CopyBytesRec, ZenonT(60)
<1>2. PICK one : one = Append(text, At(text, Len(text) - address))
  BY ZenonT(60)
<1>3. PICK N : N = n - 1
  BY ZenonT(60)
<1>4. N \in Nat /\ n = N + 1
  BY <1>3
<1>5. PICK e : Copying(e, one, address, N) /\ CopyBytes(one, address, N) = e[N]
  BY <1>4, CopyBytesRec, ZenonT(60)
<1> DEFINE P == {k \in 0..N : e[k] = c[k+1]}
<1>6. 0 \in P
  <2>1. 1 \in 1..n /\ 1 - 1 = 0 /\ 0 + 1 = 1 /\ 0 \in 0..N
    BY <1>4
  <2>2. c[1] = Append(c[0], At(c[0], Len(c[0]) - address)) /\ c[0] = text
    BY <1>1, <2>1, ZenonT(60) DEF Copying
  <2>3. e[0] = one
    BY <1>5, ZenonT(60) DEF Copying
  <2> QED
    BY <1>2, <2>1, <2>2, <2>3, ZenonT(60)
<1>7. ASSUME NEW k \in 1..N, k - 1 \in P PROVE k \in P
  <2>1. k + 1 \in 1..n /\ (k + 1) - 1 = k /\ (k - 1) + 1 = k /\ k \in 0..N
    BY <1>4
  <2>2. e[k-1] = c[k]
    BY <1>7, <2>1, ZenonT(60)
  <2>3. c[k+1] = Append(c[k], At(c[k], Len(c[k]) - address))
    BY <1>1, <2>1, ZenonT(60) DEF Copying
  <2>4. e[k] = Append(e[k-1], At(e[k-1], Len(e[k-1]) - address))
    BY <1>5, ZenonT(60) DEF Copying
  <2>5. e[k] = c[k+1]
    BY <2>2, <2>3, <2>4, ZenonT(60)
  <2> QED
    BY <2>1, <2>5, ZenonT(60)
<1>8. N \in P
  <2>1. \A k \in 0..N : k \in P
    <3> HIDE DEF P
    <3> QED
      BY <1>4, <1>6, <1>7, UpTo, ZenonT(60)
  <2>2. N \in 0..N
    BY <1>4
  <2> QED
    BY <2>1, <2>2, ZenonT(60)
<1>9. e[N] = c[n]
  BY <1>4, <1>8, ZenonT(60)
<1> QED
  BY <1>1, <1>2, <1>3, <1>5, <1>9, ZenonT(60)

\* What copying n bytes from inside the text leaves.
LEMMA CopyAdds ==
  ASSUME NEW text \in Seq(Byte), NEW address \in 1..Len(text), NEW n \in Nat
  PROVE  /\ CopyBytes(text, address, n) \in Seq(Byte)
         /\ Len(CopyBytes(text, address, n)) = Len(text) + n
         /\ \A k \in 1..Len(text) : CopyBytes(text, address, n)[k] = text[k]
<1>1. PICK c : Copying(c, text, address, n) /\ CopyBytes(text, address, n) = c[n]
  BY CopyBytesRec, ZenonT(60)
<1>2. PICK L : L = Len(text)
  BY ZenonT(60)
<1>3. L \in Nat /\ address \in Nat /\ 1 <= address /\ address <= L
  BY <1>2
<1> DEFINE P == {k \in 0..n : c[k] \in Seq(Byte) /\ Len(c[k]) = L + k /\ \A j \in 1..L : c[k][j] = text[j]}
<1>4. 0 \in P
  <2>1. c[0] = text
    BY <1>1, ZenonT(60) DEF Copying
  <2> QED
    BY <1>2, <1>3, <2>1
<1>5. ASSUME NEW k \in 1..n, k - 1 \in P PROVE k \in P
  <2>1. PICK t : t = c[k-1]
    BY ZenonT(60)
  <2>2. t \in Seq(Byte) /\ Len(t) = L + (k - 1) /\ \A j \in 1..L : t[j] = text[j]
    BY <1>5, <2>1, ZenonT(60)
  <2>3. PICK b : b = At(t, Len(t) - address)
    BY ZenonT(60)
  <2>4. c[k] = Append(t, b)
    BY <1>1, <2>1, <2>3, ZenonT(60) DEF Copying
  <2>5. b \in Byte
    <3>1. (Len(t) - address) + 1 \in 1..Len(t)
      BY <1>3, <2>2
    <3> QED
      BY <2>2, <2>3, <3>1 DEF At
  <2>6. Append(t, b) \in Seq(Byte) /\ Len(Append(t, b)) = Len(t) + 1
        /\ \A j \in 1..Len(t) : Append(t, b)[j] = t[j]
    BY <2>2, <2>5
  <2>7. \A j \in 1..L : j \in 1..Len(t)
    BY <1>3, <2>2
  <2>8. Len(c[k]) = L + k /\ k \in 0..n
    BY <1>3, <2>2, <2>4, <2>6
  <2>9. \A j \in 1..L : c[k][j] = text[j]
    BY <2>2, <2>4, <2>6, <2>7, ZenonT(60)
  <2> QED
    BY <2>4, <2>6, <2>8, <2>9, ZenonT(60)
<1>6. n \in P
  <2>1. \A k \in 0..n : k \in P
    <3> HIDE DEF P
    <3> QED
      BY <1>4, <1>5, UpTo, ZenonT(60)
  <2>2. n \in 0..n
    OBVIOUS
  <2> QED
    BY <2>1, <2>2, ZenonT(60)
<1> QED
  BY <1>1, <1>2, <1>6, ZenonT(60)

\* Contents takes one piece after the other.
LEMMA ContentsRec ==
  ASSUME NEW pieces, Len(pieces) \in Nat
  PROVE  \E f : /\ f[0] = <<>>
                /\ \A n \in 1..Len(pieces) : f[n] = f[n-1] \o pieces[n].Content
                /\ Contents(pieces) = f[Len(pieces)]
<1> DEFINE N == Len(pieces)
           body(f, k) == IF k = 0 THEN <<>> ELSE f[k-1] \o pieces[k].Content
           rec(f, m) == f = [k \in 0..m |-> body(f, k)]
           joined == CHOOSE f : rec(f, N)
           P == {m \in 0..N : \E f : rec(f, m)}
<1>1. Contents(pieces) = joined[N]
  BY ZenonT(60) DEF Contents
<1>0. N \in Nat
  BY ZenonT(60)
<1> HIDE DEF N
<1>2. 0 \in P
  <2> DEFINE f == [k \in 0..0 |-> <<>>]
  <2>1. \A k \in 0..0 : k = 0
    OBVIOUS
  <2>2. f = [k \in 0..0 |-> body(f, k)]
    BY <2>1, ZenonT(60)
  <2>3. 0 \in 0..N
    BY <1>0
  <2> HIDE DEF f, body
  <2>4. rec(f, 0)
    BY <2>2, ZenonT(60)
  <2> QED
    BY <2>3, <2>4, ZenonT(60)
<1>3. ASSUME NEW m \in 1..N, m - 1 \in P PROVE m \in P
  <2>1. PICK f : rec(f, m - 1)
    BY <1>3, ZenonT(60)
  <2> DEFINE h == [k \in 0..m |-> IF k = m THEN f[m-1] \o pieces[m].Content ELSE f[k]]
  <2>2. \A k \in 0..(m-1) : f[k] = body(f, k)
    BY <2>1, ZenonT(60)
  <2>3. m \in Nat /\ m # 0
    BY <1>0
  <2>4. ASSUME NEW k \in 0..m PROVE h[k] = body(h, k)
    <3>1. CASE k = m
      <4>1. m - 1 \in 0..m /\ m - 1 # m
        BY <2>3
      <4>2. h[m-1] = f[m-1]
        BY <4>1, ZenonT(60)
      <4> QED
        BY <2>3, <3>1, <4>2, ZenonT(60)
    <3>2. CASE k # m
      <4>1. k \in 0..(m-1) /\ (k # 0 => k - 1 \in 0..m /\ k - 1 # m)
        BY <2>3, <3>2
      <4>2. h[k] = f[k] /\ (k # 0 => h[k-1] = f[k-1])
        BY <3>2, <4>1, ZenonT(60)
      <4> QED
        BY <2>2, <4>1, <4>2, ZenonT(60)
    <3> QED
      BY <3>1, <3>2, ZenonT(60)
  <2>5. h = [k \in 0..m |-> body(h, k)]
    BY <2>4, ZenonT(60)
  <2>6. m \in 0..N
    BY <1>0
  <2> HIDE DEF h
  <2> QED
    BY <2>5, <2>6, ZenonT(60)
<1>4. N \in P
  <2>1. \A m \in 0..N : m \in P
    <3> HIDE DEF P
    <3> QED
      BY <1>0, <1>2, <1>3, UpTo, ZenonT(60)
  <2>2. N \in 0..N
    BY <1>0
  <2> QED
    BY <2>1, <2>2, ZenonT(60)
<1>5. \E f : rec(f, N)
  BY <1>4, ZenonT(60)
<1>6. rec(joined, N)
  BY <1>5, ZenonT(60)
<1> HIDE DEF joined
<1>7. \A k \in 0..N : joined[k] = body(joined, k)
  BY <1>6, ZenonT(60)
<1>8. joined[0] = <<>> /\ \A k \in 1..N : joined[k] = joined[k-1] \o pieces[k].Content
  <2>1. 0 \in 0..N /\ \A k \in 1..N : k \in 0..N /\ k # 0
    BY <1>0
  <2> QED
    BY <1>7, <2>1, ZenonT(60)
<1> QED
  BY <1>1, <1>8, ZenonT(60) DEF N

\* No pieces contain nothing.
LEMMA ContentsNone == Contents(<<>>) = <<>>
<1> DEFINE none == <<>>
<1>1. Len(none) = 0 /\ 0 \in Nat
  BY ZenonT(60)
<1> HIDE DEF none
<1>2. Contents(none) = <<>>
  BY <1>1, ContentsRec, ZenonT(60)
<1> QED
  BY <1>2, ZenonT(60) DEF none

\* One more piece adds what it contains.
LEMMA ContentsAppend ==
  ASSUME NEW S, NEW pieces \in Seq(S), NEW p \in S
  PROVE  Contents(Append(pieces, p)) = Contents(pieces) \o p.Content
<1>1. PICK q : q = Append(pieces, p)
  BY ZenonT(60)
<1>2. PICK N : N = Len(pieces)
  BY ZenonT(60)
<1>3. /\ N \in Nat /\ Len(q) = N + 1 /\ Len(q) \in Nat /\ Len(pieces) \in Nat
      /\ q[N+1] = p /\ \A k \in 1..N : q[k] = pieces[k]
  BY <1>1, <1>2
<1>4. PICK f : /\ f[0] = <<>>
               /\ \A n \in 1..N : f[n] = f[n-1] \o pieces[n].Content
               /\ Contents(pieces) = f[N]
  BY <1>2, <1>3, ContentsRec, ZenonT(60)
<1>5. PICK g : /\ g[0] = <<>>
               /\ \A n \in 1..(N+1) : g[n] = g[n-1] \o q[n].Content
               /\ Contents(q) = g[N+1]
  BY <1>3, ContentsRec, ZenonT(60)
<1> DEFINE P == {n \in 0..N : f[n] = g[n]}
<1>6. 0 \in P
  BY <1>3, <1>4, <1>5
<1>7. ASSUME NEW n \in 1..N, n - 1 \in P PROVE n \in P
  <2>1. n \in 1..(N+1) /\ n \in 0..N
    BY <1>3
  <2>2. f[n] = f[n-1] \o pieces[n].Content /\ g[n] = g[n-1] \o q[n].Content
        /\ q[n] = pieces[n] /\ f[n-1] = g[n-1]
    BY <1>3, <1>4, <1>5, <1>7, <2>1, ZenonT(60)
  <2>3. f[n] = g[n]
    BY <2>2, ZenonT(60)
  <2> QED
    BY <2>1, <2>3, ZenonT(60)
<1>8. N \in P
  <2>1. \A n \in 0..N : n \in P
    <3> HIDE DEF P
    <3> QED
      BY <1>3, <1>6, <1>7, UpTo, ZenonT(60)
  <2>2. N \in 0..N
    BY <1>3
  <2> QED
    BY <2>1, <2>2, ZenonT(60)
<1>9. g[N+1] = g[N] \o p.Content
  <2>1. N + 1 \in 1..(N+1) /\ (N + 1) - 1 = N
    BY <1>3
  <2> QED
    BY <1>3, <1>5, <2>1, ZenonT(60)
<1> QED
  BY <1>1, <1>4, <1>5, <1>8, <1>9, ZenonT(60)

\* One more phrase adds its bits.
LEMMA StreamBitsStep ==
  ASSUME NEW ss \in Seq(Phrase), NEW n \in 0..(Len(ss)-1)
  PROVE  Len(StreamBits(SubSeq(ss, 1, n + 1)))
           = Len(StreamBits(SubSeq(ss, 1, n))) + Len(PhraseBits(ss[n+1]))
<1>1. PICK a : a = SubSeq(ss, 1, n)
  BY ZenonT(60)
<1>2. PICK b : b = SubSeq(ss, 1, n + 1)
  BY ZenonT(60)
<1>3. PICK c : c = <<ss[n+1]>>
  BY ZenonT(60)
<1>4. n \in Nat /\ n + 1 \in Nat /\ n <= Len(ss) /\ n + 1 <= Len(ss) /\ n + 1 \in 1..Len(ss)
  OBVIOUS
<1>5. a \in Seq(Phrase) /\ Len(a) = n /\ \A k \in 1..n : a[k] = ss[k]
  BY <1>1, <1>4, PrefixFacts, ZenonT(60)
<1>6. b \in Seq(Phrase) /\ Len(b) = n + 1 /\ \A k \in 1..(n+1) : b[k] = ss[k]
  BY <1>2, <1>4, PrefixFacts, ZenonT(60)
<1>7. ss[n+1] \in Phrase
  BY <1>4
<1>8. c \in Seq(Phrase) /\ Len(c) = 1 /\ c[1] = ss[n+1]
  BY <1>3, <1>7
<1>9. a \o c = b
  <2>1. Len(b) = Len(a) + Len(c) /\ Len(a) + 1 = n + 1 /\ \A k \in 1..Len(c) : k = 1
    BY <1>4, <1>5, <1>6, <1>8
  <2>2. \A k \in 1..Len(a) : b[k] = a[k]
    BY <1>4, <1>5, <1>6
  <2>3. \A k \in 1..Len(c) : b[Len(a) + k] = c[k]
    BY <1>4, <1>6, <1>8, <2>1
  <2> QED
    BY <1>5, <1>6, <1>8, <2>1, <2>2, <2>3, ConcatIs, ZenonT(60)
<1>10. StreamBits(b) = StreamBits(a) \o StreamBits(c)
  BY <1>5, <1>8, <1>9, StreamBitsConcat, ZenonT(60)
<1>11. StreamBits(c) = PhraseBits(ss[n+1])
  <2>1. PICK f \in [0..Len(c) -> Seq(Bit)] :
           /\ f[0] = <<>>
           /\ \A k \in 1..Len(c) : f[k] = f[k - 1] \o PhraseBits(c[k])
           /\ StreamBits(c) = f[Len(c)]
    BY <1>8, StreamBitsRec, ZenonT(60)
  <2>2. f[1] = <<>> \o PhraseBits(ss[n+1])
    <3>1. 1 \in 1..Len(c) /\ 1 - 1 = 0
      BY <1>8
    <3> QED
      BY <1>8, <2>1, <3>1, ZenonT(60)
  <2>3. PhraseBits(ss[n+1]) \in Seq(Bit)
    BY <1>7, PhraseBitsFacts, ZenonT(60)
  <2>4. <<>> \o PhraseBits(ss[n+1]) = PhraseBits(ss[n+1])
    BY <2>3
  <2> QED
    BY <1>8, <2>1, <2>2, <2>4, ZenonT(60)
<1>12. StreamBits(a) \in Seq(Bit) /\ PhraseBits(ss[n+1]) \in Seq(Bit)
  BY <1>5, <1>7, StreamBitsFacts, PhraseBitsFacts, ZenonT(60)
<1>13. Len(StreamBits(b)) = Len(StreamBits(a)) + Len(PhraseBits(ss[n+1]))
  BY <1>10, <1>11, <1>12, ConcatFacts
<1> QED
  BY <1>1, <1>2, <1>13, ZenonT(60)

-----------------------------------------------------------------------------
(* What CompressedStreamInfo has taken apart. *)

Reported == [Type : Byte, Length : Nat, ReferenceAddress : Nat,
             StartDecompressed : Nat, StartCompressed : Nat, Content : Seq(Byte)]

\* The size of a piece in the compressed stream.
ReportedBits(p) == IF p.Type = 0 THEN 8 * p.Length ELSE TypeOf(p.Type).NbBitsBackRef

\* Where the n-th piece starts, in the output and in the stream, or where they end.
StartOf(pieces, n, from, bits) ==
  IF n \in 1..Len(pieces) THEN <<pieces[n].StartDecompressed, pieces[n].StartCompressed>>
  ELSE <<from, bits>>

\* Each piece starts where the one before it ends.
Contiguous(pieces, from, bits) ==
  /\ StartOf(pieces, 1, from, bits) = <<dictLen, 0>>
  /\ \A n \in 1..Len(pieces) :
       StartOf(pieces, n + 1, from, bits)
         = <<pieces[n].StartDecompressed + pieces[n].Length,
             pieces[n].StartCompressed + ReportedBits(pieces[n])>>

\* The end of what has been reported: the literals from there are still to come.
From(text, lit) == IF lit = -1 THEN Len(text) ELSE lit

\* The pieces make up the text behind the dictionary, as far as from.
ReportedTo(text, from, bits, pieces) ==
  /\ text \in Seq(Byte) /\ from \in dictLen..Len(text)
  /\ bits \in Nat /\ pieces \in Seq(Reported)
  /\ Contents(pieces) = SubSeq(text, dictLen + 1, from)
  /\ Contiguous(pieces, from, bits)

\* The first n phrases of ss have been decoded to text, and reported in pieces but
\* for the literals from lit.
Taken(ss, n, text, lit, bits, pieces) ==
  /\ n \in 0..Len(ss) /\ text = MeaningOf(ss, n) /\ lit \in {-1} \cup Nat
  /\ ReportedTo(text, From(text, lit), bits, pieces)
  /\ bits + 8 * (Len(text) - From(text, lit)) = Len(StreamBits(SubSeq(ss, 1, n)))

\* A piece that starts at the end of the others can be put behind them.
LEMMA ContiguousAppend ==
  ASSUME NEW pieces \in Seq(Reported), NEW from, NEW bits, Contiguous(pieces, from, bits),
         NEW p \in Reported, p.StartDecompressed = from, p.StartCompressed = bits,
         NEW from2, NEW bits2, from2 = from + p.Length, bits2 = bits + ReportedBits(p)
  PROVE  Contiguous(Append(pieces, p), from2, bits2)
<1>1. PICK q, N : q = Append(pieces, p) /\ N = Len(pieces)
  BY ZenonT(60)
<1>2. /\ N \in Nat /\ Len(q) = N + 1 /\ q[N+1] = p /\ \A k \in 1..N : q[k] = pieces[k]
  BY <1>1
<1>3. /\ StartOf(pieces, 1, from, bits) = <<dictLen, 0>>
      /\ \A n \in 1..N :
           StartOf(pieces, n + 1, from, bits)
             = <<pieces[n].StartDecompressed + pieces[n].Length,
                 pieces[n].StartCompressed + ReportedBits(pieces[n])>>
  BY <1>1, ZenonT(60) DEF Contiguous
<1>4. ASSUME NEW n \in 1..(N+1)
      PROVE  StartOf(q, n, from2, bits2) = StartOf(pieces, n, from, bits)
  <2>1. n \in 1..Len(q)
    BY <1>2, ZenonT(60)
  <2>2. StartOf(q, n, from2, bits2) = <<q[n].StartDecompressed, q[n].StartCompressed>>
    BY <2>1, ZenonT(60) DEF StartOf
  <2>3. CASE n \in 1..N
    <3>1. StartOf(pieces, n, from, bits)
            = <<pieces[n].StartDecompressed, pieces[n].StartCompressed>>
      BY <1>1, <2>3, ZenonT(60) DEF StartOf
    <3> QED
      BY <1>2, <2>2, <2>3, <3>1, ZenonT(60)
  <2>4. CASE n = N + 1
    <3>1. N + 1 \notin 1..Len(pieces)
      BY <1>1, <1>2
    <3>2. StartOf(pieces, n, from, bits) = <<from, bits>>
      BY <2>4, <3>1, ZenonT(60) DEF StartOf
    <3> QED
      BY <1>2, <2>2, <2>4, <3>2, ZenonT(60)
  <2> QED
    BY <1>2, <2>3, <2>4
<1>5. StartOf(q, 1, from2, bits2) = <<dictLen, 0>>
  <2>1. 1 \in 1..(N+1)
    BY <1>2
  <2> QED
    BY <1>3, <1>4, <2>1, ZenonT(60)
<1>6. ASSUME NEW n \in 1..(N+1)
      PROVE  StartOf(q, n + 1, from2, bits2)
               = <<q[n].StartDecompressed + q[n].Length, q[n].StartCompressed + ReportedBits(q[n])>>
  <2>1. CASE n \in 1..N
    <3>1. n + 1 \in 1..(N+1)
      BY <1>2, <2>1
    <3>2. StartOf(q, n + 1, from2, bits2) = StartOf(pieces, n + 1, from, bits)
      BY <1>4, <3>1, ZenonT(60)
    <3>3. q[n] = pieces[n]
      BY <1>2, <2>1, ZenonT(60)
    <3> QED
      BY <1>3, <2>1, <3>2, <3>3, ZenonT(60)
  <2>2. CASE n = N + 1
    <3>1. (N + 1) + 1 \notin 1..Len(q)
      BY <1>2
    <3>2. StartOf(q, n + 1, from2, bits2) = <<from2, bits2>>
      BY <2>2, <3>1, ZenonT(60) DEF StartOf
    <3> QED
      BY <1>2, <2>2, <3>2, ZenonT(60)
  <2> QED
    BY <1>2, <2>1, <2>2
<1>7. Contiguous(q, from2, bits2)
  BY <1>2, <1>5, <1>6, ZenonT(60) DEF Contiguous
<1> QED
  BY <1>1, <1>7, ZenonT(60)

\* Nothing is taken at first.
LEMMA TakenNone ==
  ASSUME NEW ss \in Seq(Phrase)
  PROVE  Taken(ss, 0, dictData, -1, 0, <<>>)
<1>1. 0 \in 0..Len(ss) /\ dictData \in Seq(Byte) /\ Len(dictData) = dictLen /\ dictLen \in Nat
  BY LenNat, DictFacts DEF dictLen
<1>2. MeaningOf(ss, 0) = dictData
  BY LenNat, MeaningRec, ZenonT(60)
<1>3. PICK none : none = <<>>
  BY ZenonT(60)
<1>4. none \in Seq(Reported) /\ Len(none) = 0
  BY <1>3
<1>5. From(dictData, -1) = dictLen
  BY <1>1, ZenonT(60) DEF From
<1>6. Contents(none) = SubSeq(dictData, dictLen + 1, dictLen)
  <2>1. SubSeq(dictData, dictLen + 1, dictLen) = <<>>
    BY <1>1
  <2> QED
    BY <1>3, <2>1, ContentsNone, ZenonT(60)
<1>7. Contiguous(none, dictLen, 0)
  BY <1>4 DEF Contiguous, StartOf
<1>8. Len(StreamBits(SubSeq(ss, 1, 0))) = 0
  <2>1. SubSeq(ss, 1, 0) = <<>>
    OBVIOUS
  <2>2. Len(StreamBits(<<>>)) = 0
    BY StreamBitsNone
  <2> QED
    BY <2>1, <2>2, ZenonT(60)
<1>9. 0 + 8 * (Len(dictData) - dictLen) = 0
  BY <1>1
<1>10. -1 \in {-1} \cup Nat /\ dictLen \in dictLen..Len(dictData) /\ 0 \in Nat
  BY <1>1
<1>11. ReportedTo(dictData, dictLen, 0, none)
  <2>1. PICK t : t = dictData
    BY ZenonT(60)
  <2>2. ReportedTo(t, dictLen, 0, none)
    BY <1>1, <1>4, <1>6, <1>7, <1>10, <2>1, ZenonT(60) DEF ReportedTo
  <2> QED
    BY <2>1, <2>2, ZenonT(60)
<1>12. Taken(ss, 0, dictData, -1, 0, none)
  BY <1>1, <1>2, <1>5, <1>8, <1>9, <1>10, <1>11, ZenonT(60) DEF Taken
<1> QED
  BY <1>3, <1>12, ZenonT(60)

\* What there is to know of the text before the next phrase.
LEMMA TakenFacts ==
  ASSUME NEW ss \in Seq(Phrase), NEW n, NEW text, NEW lit, NEW bits, NEW pieces,
         Taken(ss, n, text, lit, bits, pieces)
  PROVE  /\ n \in 0..Len(ss) /\ Len(ss) \in Nat /\ dictLen \in Nat
         /\ text \in Seq(Byte) /\ Len(text) \in Nat /\ text = MeaningOf(ss, n)
         /\ From(text, lit) \in Nat /\ dictLen <= From(text, lit) /\ From(text, lit) <= Len(text)
         /\ bits \in Nat /\ pieces \in Seq(Reported)
         /\ Contents(pieces) = SubSeq(text, dictLen + 1, From(text, lit))
         /\ Contiguous(pieces, From(text, lit), bits)
         /\ bits + 8 * (Len(text) - From(text, lit)) = Len(StreamBits(SubSeq(ss, 1, n)))
<1>1. PICK from : from = From(text, lit)
  BY ZenonT(60)
<1>2. /\ text \in Seq(Byte) /\ from \in dictLen..Len(text)
      /\ bits \in Nat /\ pieces \in Seq(Reported)
      /\ Contents(pieces) = SubSeq(text, dictLen + 1, from)
      /\ Contiguous(pieces, from, bits)
  BY <1>1, ZenonT(60) DEF Taken, ReportedTo
<1>3. dictLen \in Nat /\ Len(ss) \in Nat /\ Len(text) \in Nat
  BY <1>2, LenNat, DictFacts, ZenonT(60)
<1>4. from \in Nat /\ dictLen <= from /\ from <= Len(text)
  BY <1>2, <1>3
<1> QED
  BY <1>1, <1>2, <1>3, <1>4, ZenonT(60) DEF Taken

\* The next phrase.
LEMMA NextPhrase ==
  ASSUME NEW ss \in Seq(Phrase), NEW n \in 0..Len(ss), n < Len(ss)
  PROVE  /\ n \in 0..(Len(ss)-1) /\ n + 1 \in 0..Len(ss)
         /\ ss[n+1] \in Phrase /\ ss[n+1].symbol \in Byte
         /\ ss[n+1].length \in Nat /\ ss[n+1].address \in Nat
         /\ MeaningOf(ss, n + 1) = AddPhrase(MeaningOf(ss, n), ss[n+1])
<1>1. /\ n \in 0..(Len(ss)-1) /\ n + 1 \in 0..Len(ss) /\ n + 1 \in 1..Len(ss)
      /\ (n + 1) - 1 = n /\ Len(ss) \in Nat
  BY LenNat
<1>2. ss[n+1] \in Phrase
  BY <1>1
<1>3. MeaningOf(ss, n + 1) = AddPhrase(MeaningOf(ss, (n + 1) - 1), ss[n+1])
  BY <1>1, MeaningRec, ZenonT(60)
<1>4. ss[n+1].symbol \in Byte /\ ss[n+1].length \in Nat /\ ss[n+1].address \in Nat
  BY <1>2, ZenonT(60) DEF Phrase
<1> QED
  BY <1>1, <1>2, <1>3, <1>4, ZenonT(60)

\* A literal is decoded.
LEMMA TakenLiteral ==
  ASSUME NEW ss \in Seq(Phrase), NEW n, NEW text, NEW lit, NEW bits, NEW pieces,
         Taken(ss, n, text, lit, bits, pieces), n < Len(ss), canEncodeSymbol(ss[n+1].symbol)
  PROVE  Taken(ss, n + 1, Append(text, ss[n+1].symbol), From(text, lit), bits, pieces)
<1>1. PICK from : from = From(text, lit)
  BY ZenonT(60)
<1>2. PICK b, t : b = ss[n+1].symbol /\ t = Append(text, b)
  BY ZenonT(60)
<1>3. /\ n \in 0..Len(ss) /\ Len(ss) \in Nat /\ dictLen \in Nat
      /\ text \in Seq(Byte) /\ Len(text) \in Nat /\ text = MeaningOf(ss, n)
      /\ from \in Nat /\ dictLen <= from /\ from <= Len(text)
      /\ bits \in Nat /\ pieces \in Seq(Reported)
      /\ Contents(pieces) = SubSeq(text, dictLen + 1, from)
      /\ Contiguous(pieces, from, bits)
      /\ bits + 8 * (Len(text) - from) = Len(StreamBits(SubSeq(ss, 1, n)))
  BY <1>1, TakenFacts
<1>4. /\ n \in 0..(Len(ss)-1) /\ n + 1 \in 0..Len(ss)
      /\ ss[n+1] \in Phrase /\ b \in Byte
      /\ MeaningOf(ss, n + 1) = AddPhrase(MeaningOf(ss, n), ss[n+1])
  BY <1>2, <1>3, NextPhrase, ZenonT(60)
<1>5. t \in Seq(Byte) /\ Len(t) = Len(text) + 1 /\ \A k \in 1..Len(text) : t[k] = text[k]
  BY <1>2, <1>3, <1>4, SMTT(60)
<1>6. t = MeaningOf(ss, n + 1)
  BY <1>2, <1>3, <1>4, ZenonT(60) DEF AddPhrase
<1>7. from \in dictLen..Len(t) /\ from \in {-1} \cup Nat
  BY <1>3, <1>5
<1>8. From(t, from) = from
  BY <1>3 DEF From
<1>9. SubSeq(t, dictLen + 1, from) = SubSeq(text, dictLen + 1, from)
  <2>1. from \in 0..Len(text) /\ dictLen \in 0..from /\ Len(text) <= Len(t)
    BY <1>3, <1>5
  <2> QED
    BY <1>3, <1>5, <2>1, SliceKept, ZenonT(60)
<1>10. bits + 8 * (Len(t) - from) = Len(StreamBits(SubSeq(ss, 1, n + 1)))
  <2>1. Len(StreamBits(SubSeq(ss, 1, n + 1)))
          = Len(StreamBits(SubSeq(ss, 1, n))) + Len(PhraseBits(ss[n+1]))
    BY <1>4, StreamBitsStep, ZenonT(60)
  <2>2. Len(PhraseBits(ss[n+1])) = 8
    BY <1>4, PhraseBitsFacts, ZenonT(60)
  <2> QED
    BY <1>3, <1>5, <2>1, <2>2, SMTT(60)
<1>11. ReportedTo(t, from, bits, pieces)
  BY <1>3, <1>5, <1>7, <1>9, ZenonT(60) DEF ReportedTo
<1>12. Taken(ss, n + 1, t, from, bits, pieces)
  BY <1>4, <1>6, <1>7, <1>8, <1>10, <1>11, ZenonT(60) DEF Taken
<1> QED
  BY <1>1, <1>2, <1>12, ZenonT(60)

\* A piece behind the others, whose content is the text from their end on.
LEMMA ReportedMore ==
  ASSUME NEW text, NEW from, NEW bits, NEW pieces, ReportedTo(text, from, bits, pieces),
         NEW type \in Byte, NEW address \in Nat, NEW p,
         p = CompressionPhrase(type, from, Len(text), address, bits, text),
         NEW z \in Nat, z = bits + ReportedBits(p)
  PROVE  ReportedTo(text, Len(text), z, Append(pieces, p))
<1>1. /\ text \in Seq(Byte) /\ from \in dictLen..Len(text)
      /\ bits \in Nat /\ pieces \in Seq(Reported)
      /\ Contents(pieces) = SubSeq(text, dictLen + 1, from)
      /\ Contiguous(pieces, from, bits)
  BY ZenonT(60) DEF ReportedTo
<1>2. dictLen \in Nat /\ Len(text) \in Nat
  BY <1>1, LenNat, DictFacts, ZenonT(60)
<1>3. PICK m, e : m = Len(text) - from /\ e = Len(text)
  BY ZenonT(60)
<1>4. /\ from \in Nat /\ m \in Nat /\ from + m = e /\ from + m <= Len(text)
      /\ e \in 0..Len(text) /\ from \in 0..e /\ dictLen \in 0..from /\ e \in dictLen..Len(text)
  BY <1>1, <1>2, <1>3
<1>5. PICK c : c = SubSeq(text, from + 1, e)
  BY ZenonT(60)
<1>6. c \in Seq(Byte)
  BY <1>1, <1>4, <1>5, SliceFacts, ZenonT(60)
<1>7. p = [Type |-> type, Length |-> m, ReferenceAddress |-> address,
           StartDecompressed |-> from, StartCompressed |-> bits, Content |-> c]
  BY <1>3, <1>5, ZenonT(60) DEF CompressionPhrase
<1>8. /\ p \in Reported /\ p.Length = m /\ p.StartDecompressed = from
      /\ p.StartCompressed = bits /\ p.Content = c
  BY <1>1, <1>4, <1>6, <1>7 DEF Reported
<1>9. Append(pieces, p) \in Seq(Reported)
  BY <1>1, <1>8
<1>10. Contents(Append(pieces, p)) = SubSeq(text, dictLen + 1, e)
  <2>1. Contents(Append(pieces, p)) = Contents(pieces) \o p.Content
    BY <1>1, <1>8, ContentsAppend, ZenonT(60)
  <2>2. SubSeq(text, dictLen + 1, from) \o SubSeq(text, from + 1, e)
          = SubSeq(text, dictLen + 1, e)
    BY <1>1, <1>4, SlicesJoin, ZenonT(60)
  <2> QED
    BY <1>1, <1>5, <1>8, <2>1, <2>2, ZenonT(60)
<1>11. Contiguous(Append(pieces, p), e, z)
  <2>1. e = from + p.Length
    BY <1>4, <1>8, ZenonT(60)
  <2> QED
    BY <1>1, <1>8, <2>1, ContiguousAppend, ZenonT(60)
<1> QED
  BY <1>1, <1>3, <1>4, <1>9, <1>10, <1>11, ZenonT(60) DEF ReportedTo

\* The literals that were still to come are reported (emitLiteralIfNecessary).
LEMMA TakenFlush ==
  ASSUME NEW ss \in Seq(Phrase), NEW n, NEW text, NEW lit, NEW bits, NEW pieces,
         Taken(ss, n, text, lit, bits, pieces), lit # -1
  PROVE  Taken(ss, n, text, -1, bits + (Len(text) - lit) * 8,
               Append(pieces, CompressionPhrase(0, lit, Len(text), lit, bits, text)))
<1>1. PICK p : p = CompressionPhrase(0, lit, Len(text), lit, bits, text)
  BY ZenonT(60)
<1>2. PICK z : z = bits + (Len(text) - lit) * 8
  BY ZenonT(60)
<1>3. From(text, lit) = lit
  BY ZenonT(60) DEF From
<1>4. /\ n \in 0..Len(ss) /\ text = MeaningOf(ss, n) /\ Len(text) \in Nat
      /\ lit \in Nat /\ lit <= Len(text) /\ bits \in Nat
      /\ bits + 8 * (Len(text) - lit) = Len(StreamBits(SubSeq(ss, 1, n)))
  BY <1>3, TakenFacts
<1>5. z \in Nat /\ z = bits + 8 * (Len(text) - lit) /\ z + 8 * (Len(text) - Len(text)) = z
  BY <1>2, <1>4
<1>6. ReportedTo(text, lit, bits, pieces)
  BY <1>3, ZenonT(60) DEF Taken
<1>7. ReportedTo(text, Len(text), z, Append(pieces, p))
  <2>1. p.Type = 0 /\ p.Length = Len(text) - lit
    BY <1>1, ZenonT(60) DEF CompressionPhrase
  <2>2. z = bits + ReportedBits(p)
    BY <1>5, <2>1, ZenonT(60) DEF ReportedBits
  <2>3. 0 \in Byte
    BY DEF Byte
  <2> QED
    BY <1>1, <1>4, <1>5, <1>6, <2>2, <2>3, ReportedMore, ZenonT(60)
<1>8. From(text, -1) = Len(text) /\ -1 \in {-1} \cup Nat
  BY ZenonT(60) DEF From
<1>9. Taken(ss, n, text, -1, z, Append(pieces, p))
  BY <1>4, <1>5, <1>7, <1>8, ZenonT(60) DEF Taken
<1> QED
  BY <1>1, <1>2, <1>9, ZenonT(60)

\* The next phrase is a reference to a byte of the text, and copying gives t.
NextRef(ss, n, text, a, m, t) ==
  /\ n < Len(ss) /\ ~ canEncodeSymbol(ss[n+1].symbol)
  /\ a = ss[n+1].address + 1 /\ a <= Len(text)
  /\ m = ss[n+1].length + 1
  /\ t = CopyBytes(text, a, m)

\* Such a reference is decoded and reported.
LEMMA TakenRef ==
  ASSUME NEW ss \in Seq(Phrase), NEW n, NEW text, NEW bits, NEW pieces,
         Taken(ss, n, text, -1, bits, pieces),
         NEW a, NEW m, NEW t, NextRef(ss, n, text, a, m, t)
  PROVE  Taken(ss, n + 1, t, -1, bits + TypeOf(ss[n+1].symbol).NbBitsBackRef,
               Append(pieces, CompressionPhrase(ss[n+1].symbol, Len(t) - m, Len(t),
                                                Len(t) - m - a, bits, t)))
<1>1. PICK from : from = Len(text)
  BY ZenonT(60)
<1>2. PICK b : b = ss[n+1].symbol
  BY ZenonT(60)
<1>3. From(text, -1) = from
  BY <1>1, ZenonT(60) DEF From
<1>4. /\ n \in 0..Len(ss) /\ dictLen \in Nat
      /\ text \in Seq(Byte) /\ from \in Nat /\ text = MeaningOf(ss, n)
      /\ dictLen <= from /\ bits \in Nat /\ pieces \in Seq(Reported)
      /\ Contents(pieces) = SubSeq(text, dictLen + 1, from)
      /\ Contiguous(pieces, from, bits)
      /\ bits + 8 * (from - from) = Len(StreamBits(SubSeq(ss, 1, n)))
  <2>1. PICK lit : lit = -1
    BY ZenonT(60)
  <2>2. Taken(ss, n, text, lit, bits, pieces) /\ From(text, lit) = from
    BY <1>3, <2>1, ZenonT(60)
  <2>3. /\ n \in 0..Len(ss) /\ Len(ss) \in Nat /\ dictLen \in Nat
        /\ text \in Seq(Byte) /\ Len(text) \in Nat /\ text = MeaningOf(ss, n)
        /\ From(text, lit) \in Nat /\ dictLen <= From(text, lit)
        /\ bits \in Nat /\ pieces \in Seq(Reported)
        /\ Contents(pieces) = SubSeq(text, dictLen + 1, From(text, lit))
        /\ Contiguous(pieces, From(text, lit), bits)
        /\ bits + 8 * (Len(text) - From(text, lit)) = Len(StreamBits(SubSeq(ss, 1, n)))
    BY <2>2, TakenFacts, SMTT(30)
  <2> QED
    BY <1>1, <2>2, <2>3, ZenonT(60)
<1>5. /\ n \in 0..(Len(ss)-1) /\ n + 1 \in 0..Len(ss)
      /\ ss[n+1] \in Phrase /\ b \in Byte
      /\ ss[n+1].length \in Nat /\ ss[n+1].address \in Nat
      /\ MeaningOf(ss, n + 1) = AddPhrase(MeaningOf(ss, n), ss[n+1])
  BY <1>2, <1>4, NextPhrase, ZenonT(60) DEF NextRef
<1>6. m \in Nat /\ a \in Nat /\ a \in 1..Len(text) /\ a <= from
  <2>1. from \in Nat /\ ss[n+1].length \in Nat /\ ss[n+1].address \in Nat
    BY <1>4, <1>5, ZenonT(60)
  <2> QED
    <3>1. PICK x, y : x = ss[n+1].length /\ y = ss[n+1].address
      BY ZenonT(60)
    <3>2. x \in Nat /\ y \in Nat /\ from \in Nat
      BY <2>1, <3>1, ZenonT(60)
    <3>3. a = y + 1 /\ a <= from /\ m = x + 1
      BY <1>1, <3>1, ZenonT(60) DEF NextRef
    <3>4. m \in Nat /\ a \in Nat /\ a \in 1..from
      BY <3>2, <3>3
    <3> QED
      BY <1>1, <3>3, <3>4, ZenonT(60)
<1>7. t \in Seq(Byte) /\ Len(t) = from + m /\ \A k \in 1..Len(text) : t[k] = text[k]
  <2>1. t = CopyBytes(text, a, m)
    BY ZenonT(60) DEF NextRef
  <2> QED
    <3>1. text \in Seq(Byte) /\ a \in 1..Len(text) /\ m \in Nat
      BY <1>4, <1>6, ZenonT(60)
    <3>2. /\ CopyBytes(text, a, m) \in Seq(Byte) /\ Len(CopyBytes(text, a, m)) = Len(text) + m
          /\ \A k \in 1..Len(text) : CopyBytes(text, a, m)[k] = text[k]
      BY <3>1, CopyAdds, ZenonT(60)
    <3> QED
      BY <1>1, <2>1, <3>2, ZenonT(60)
<1>8. t = MeaningOf(ss, n + 1)
  BY <1>4, <1>5, ZenonT(60) DEF AddPhrase, NextRef
<1>9. PICK address : address = Len(t) - m - a
  BY ZenonT(60)
<1>10. /\ Len(t) - m = from /\ address \in Nat /\ from \in dictLen..Len(t)
       /\ Len(t) \in Nat /\ Len(text) <= Len(t) /\ from \in 0..Len(text) /\ dictLen \in 0..from
  <2>1. PICK l, lt : l = Len(t) /\ lt = Len(text)
    BY ZenonT(60)
  <2>2. /\ from = lt /\ from \in Nat /\ dictLen \in Nat /\ dictLen <= from
        /\ m \in Nat /\ a \in Nat /\ a <= from /\ l = from + m /\ address = l - m - a
    BY <1>1, <1>4, <1>6, <1>7, <1>9, <2>1, ZenonT(60)
  <2>3. /\ l - m = from /\ address \in Nat /\ from \in dictLen..l
        /\ l \in Nat /\ lt <= l /\ from \in 0..lt /\ dictLen \in 0..from
    BY <2>2
  <2> QED
    BY <2>1, <2>3, ZenonT(60)
<1>11. SubSeq(t, dictLen + 1, from) = SubSeq(text, dictLen + 1, from)
  BY <1>4, <1>7, <1>10, SliceKept, ZenonT(60)
<1>12. ReportedTo(t, from, bits, pieces)
  BY <1>4, <1>7, <1>10, <1>11, ZenonT(60) DEF ReportedTo
<1>13. b \in {SymbolShort, SymbolDynamic} /\ b # 0
  BY <1>2 DEF NextRef, canEncodeSymbol, SymbolShort, SymbolDynamic
<1>14. PICK w : w = TypeOf(b).NbBitsBackRef
  BY ZenonT(60)
<1>15. w \in Nat
  BY <1>14, TypeFacts, ZenonT(60) DEF TypeOf, BackrefTypes
<1>16. PICK z : z = bits + w
  BY ZenonT(60)
<1>17. z \in Nat /\ z + 8 * (Len(t) - Len(t)) = bits + 8 * (from - from) + w
  BY <1>4, <1>10, <1>15, <1>16
<1>18. PICK p : p = CompressionPhrase(b, from, Len(t), address, bits, t)
  BY ZenonT(60)
<1>19. ReportedTo(t, Len(t), z, Append(pieces, p))
  <2>1. p.Type = b
    BY <1>18, ZenonT(60) DEF CompressionPhrase
  <2>2. z = bits + ReportedBits(p)
    BY <1>13, <1>14, <1>16, <2>1, ZenonT(60) DEF ReportedBits
  <2> QED
    BY <1>5, <1>10, <1>12, <1>17, <1>18, <2>2, ReportedMore, ZenonT(60)
<1>20. z + 8 * (Len(t) - Len(t)) = Len(StreamBits(SubSeq(ss, 1, n + 1)))
  <2>1. Len(StreamBits(SubSeq(ss, 1, n + 1)))
          = Len(StreamBits(SubSeq(ss, 1, n))) + Len(PhraseBits(ss[n+1]))
    BY <1>5, StreamBitsStep, ZenonT(60)
  <2>2. Len(PhraseBits(ss[n+1])) = w
    BY <1>2, <1>5, <1>14, PhraseBitsFacts, ZenonT(60) DEF NextRef
  <2> QED
    BY <1>4, <1>17, <2>1, <2>2, ZenonT(60)
<1>21. From(t, -1) = Len(t) /\ -1 \in {-1} \cup Nat
  BY ZenonT(60) DEF From
<1>22. Taken(ss, n + 1, t, -1, z, Append(pieces, p))
  BY <1>5, <1>8, <1>19, <1>20, <1>21, ZenonT(60) DEF Taken
<1> QED
  BY <1>2, <1>9, <1>10, <1>14, <1>16, <1>18, <1>22, ZenonT(60)

\* All phrases are decoded and all pieces reported.
LEMMA TakenAll ==
  ASSUME NEW ss \in Seq(Phrase), NEW text, NEW bits, NEW pieces,
         Taken(ss, Len(ss), text, -1, bits, pieces)
  PROVE  Contents(pieces) = Output(Meaning(ss)) /\ bits = Len(StreamBits(ss))
<1>1. PICK n, lit : n = Len(ss) /\ lit = -1
  BY ZenonT(60)
<1>2. Taken(ss, n, text, lit, bits, pieces)
  BY <1>1, ZenonT(60)
<1>3. PICK from : from = From(text, lit)
  BY ZenonT(60)
<1>4. /\ text \in Seq(Byte) /\ Len(text) \in Nat /\ text = MeaningOf(ss, n) /\ bits \in Nat
      /\ Contents(pieces) = SubSeq(text, dictLen + 1, from)
      /\ bits + 8 * (Len(text) - from) = Len(StreamBits(SubSeq(ss, 1, n)))
  <2>1. /\ text \in Seq(Byte) /\ Len(text) \in Nat /\ text = MeaningOf(ss, n) /\ bits \in Nat
        /\ Contents(pieces) = SubSeq(text, dictLen + 1, From(text, lit))
        /\ bits + 8 * (Len(text) - From(text, lit)) = Len(StreamBits(SubSeq(ss, 1, n)))
    BY <1>2, TakenFacts, SMTT(60)
  <2> QED
    BY <1>3, <2>1, ZenonT(60)
<1>5. from = Len(text)
  BY <1>1, <1>3, ZenonT(60) DEF From
<1>6. SubSeq(ss, 1, n) = ss
  BY <1>1
<1>7. bits + 8 * (from - from) = Len(StreamBits(ss)) /\ from \in Nat
  BY <1>4, <1>5, <1>6, ZenonT(60)
<1>8. bits = Len(StreamBits(ss))
  BY <1>4, <1>7
<1>9. Contents(pieces) = Output(Meaning(ss))
  BY <1>1, <1>4, <1>5, ZenonT(60) DEF Output, Meaning
<1> QED
  BY <1>8, <1>9, ZenonT(60)

-----------------------------------------------------------------------------
(* Bits that are the code of a text. *)

\* The bits are a header and phrases for consecutive pieces of all of data.
Coded(bits, data) ==
  \E ss, st : /\ Chain(data, ss, st, 0, Len(data))
              /\ bits = HeaderBits(FALSE) \o StreamBits(ss)

\* A chain of phrases goes on where another one ends.
LEMMA ChainJoin ==
  ASSUME NEW data \in Seq(Byte), NEW ss, NEW st, NEW tt, NEW ut, NEW b, NEW x, NEW y,
         Chain(data, ss, st, b, x), Chain(data, tt, ut, x, y)
  PROVE  \E vt : Chain(data, ss \o tt, vt, b, y)
<1> DEFINE M == Len(ss)
           N == Len(tt)
           uu == ss \o tt
           rest == SubSeq(ut, 1 + 1, 1 + N)
           vt == st \o rest
<1>1. /\ ss \in Seq(Phrase) /\ st \in Seq(Nat) /\ Len(st) = M + 1 /\ st[1] = b /\ st[M + 1] = x
      /\ tt \in Seq(Phrase) /\ ut \in Seq(Nat) /\ Len(ut) = N + 1 /\ ut[1] = x /\ ut[N + 1] = y
      /\ M \in Nat /\ N \in Nat
  BY DEF Chain
<1>2. /\ \A n \in 1..M : Piece(data, ss[n], st[n], st[n+1])
      /\ \A n \in 1..N : Piece(data, tt[n], ut[n], ut[n+1])
  <2>1. /\ \A n \in DOMAIN ss : Piece(data, ss[n], st[n], st[n+1])
        /\ \A n \in DOMAIN tt : Piece(data, tt[n], ut[n], ut[n+1])
    BY ZenonT(60) DEF Chain
  <2>2. DOMAIN ss = 1..M /\ DOMAIN tt = 1..N
    BY <1>1
  <2> QED
    BY <2>1, <2>2, ZenonT(60)
<1>3. /\ uu \in Seq(Phrase) /\ Len(uu) = M + N
      /\ \A k \in 1..M : uu[k] = ss[k]
      /\ \A k \in 1..N : uu[M + k] = tt[k]
  <2>1. ss \in Seq(Phrase) /\ tt \in Seq(Phrase)
    BY <1>1, ZenonT(60)
  <2> QED
    BY <2>1, ConcatFacts
<1>4. rest \in Seq(Nat) /\ Len(rest) = N /\ \A k \in 1..N : rest[k] = ut[1 + k]
  <2>1. ut \in Seq(Nat) /\ N \in Nat /\ 1 + N <= Len(ut) /\ 1 \in Nat
    BY <1>1
  <2> HIDE DEF N
  <2> QED
    BY <2>1, SliceFacts, SMTT(60)
<1> HIDE DEF M, N, uu, rest
<1>5. /\ vt \in Seq(Nat) /\ Len(vt) = (M + 1) + N
      /\ \A k \in 1..(M + 1) : vt[k] = st[k]
      /\ \A k \in 1..N : vt[(M + 1) + k] = rest[k]
  <2>1. st \in Seq(Nat) /\ rest \in Seq(Nat)
    BY <1>1, <1>4, ZenonT(60)
  <2>2. /\ vt \in Seq(Nat) /\ Len(vt) = Len(st) + Len(rest)
        /\ \A k \in 1..Len(st) : vt[k] = st[k]
        /\ \A k \in 1..Len(rest) : vt[Len(st) + k] = rest[k]
    BY <2>1, ConcatFacts
  <2> QED
    BY <1>1, <1>4, <2>2, ZenonT(60)
<1> HIDE DEF vt
<1>6. ASSUME NEW k \in 1..(N + 1) PROVE vt[M + k] = ut[k]
  <2>1. CASE k = 1
    <3>1. M + 1 \in 1..(M + 1)
      BY <1>1
    <3> QED
      BY <1>1, <1>5, <2>1, <3>1, ZenonT(60)
  <2>2. CASE k # 1
    <3>1. k - 1 \in 1..N /\ (M + 1) + (k - 1) = M + k /\ 1 + (k - 1) = k
      BY <1>1, <2>2, SMTT(60)
    <3>2. vt[(M + 1) + (k - 1)] = rest[k - 1] /\ rest[k - 1] = ut[1 + (k - 1)]
      BY <1>4, <1>5, <3>1, ZenonT(60)
    <3> QED
      BY <3>1, <3>2, ZenonT(60)
  <2> QED
    BY <2>1, <2>2, ZenonT(60)
<1>7. ASSUME NEW n \in 1..(M + N) PROVE Piece(data, uu[n], vt[n], vt[n+1])
  <2>1. CASE n <= M
    <3>1. n \in 1..M /\ n \in 1..(M + 1) /\ n + 1 \in 1..(M + 1)
      BY <1>1, <2>1, SMTT(60)
    <3>2. uu[n] = ss[n] /\ vt[n] = st[n] /\ vt[n+1] = st[n+1]
      BY <1>3, <1>5, <3>1, ZenonT(60)
    <3> QED
      BY <1>2, <3>1, <3>2, ZenonT(60)
  <2>2. CASE n > M
    <3> DEFINE k == n - M
    <3>1. k \in 1..N /\ k \in 1..(N + 1) /\ k + 1 \in 1..(N + 1) /\ M + k = n /\ M + (k + 1) = n + 1
      BY <1>1, <2>2, SMTT(60)
    <3> HIDE DEF k
    <3>2. uu[M + k] = tt[k] /\ vt[M + k] = ut[k] /\ vt[M + (k + 1)] = ut[k + 1]
      BY <1>3, <1>6, <3>1, ZenonT(60)
    <3>3. Piece(data, tt[k], ut[k], ut[k+1])
      BY <1>2, <3>1, ZenonT(60)
    <3> QED
      BY <3>1, <3>2, <3>3, ZenonT(60)
  <2>3. n <= M \/ n > M
    BY <1>1, SMTT(60)
  <2> QED
    BY <2>1, <2>2, <2>3, ZenonT(60)
<1>8. vt[1] = b /\ vt[Len(vt)] = y /\ Len(vt) = Len(uu) + 1
  <2>1. 1 \in 1..(M + 1) /\ N + 1 \in 1..(N + 1) /\ M + (N + 1) = (M + 1) + N
        /\ (M + 1) + N = (M + N) + 1
    BY <1>1
  <2>2. vt[M + (N + 1)] = ut[N + 1]
    BY <1>6, <2>1, ZenonT(60)
  <2> QED
    BY <1>1, <1>3, <1>5, <2>1, <2>2, ZenonT(60)
<1>9. \A n \in DOMAIN uu : Piece(data, uu[n], vt[n], vt[n+1])
  BY <1>3, <1>7, SMTT(60)
<1>10. Chain(data, uu, vt, b, y)
  BY <1>3, <1>5, <1>8, <1>9, ZenonT(60) DEF Chain
<1> QED
  BY <1>10, ZenonT(60) DEF uu

\* The code of a text is a sequence of bits.
LEMMA CodedBits ==
  ASSUME NEW bits, NEW data, Coded(bits, data)
  PROVE  bits \in Seq(Bit) /\ 24 <= Len(bits)
<1>1. PICK ss, st : Chain(data, ss, st, 0, Len(data)) /\ bits = HeaderBits(FALSE) \o StreamBits(ss)
  BY ZenonT(60) DEF Coded
<1> DEFINE h == HeaderBits(FALSE)
           t == StreamBits(ss)
<1>2. h \in Seq(Bit) /\ Len(h) = 24
  BY HeaderBitsFacts, ZenonT(60)
<1>3. ss \in Seq(Phrase)
  BY <1>1, ZenonT(60) DEF Chain
<1>4. t \in Seq(Bit)
  BY <1>3, StreamBitsFacts, ZenonT(60)
<1>5. bits = h \o t
  BY <1>1, ZenonT(60)
<1> HIDE DEF h, t
<1>6. h \in Seq(Bit) /\ t \in Seq(Bit)
  BY <1>2, <1>4, ZenonT(60)
<1>7. h \o t \in Seq(Bit) /\ Len(h \o t) = Len(h) + Len(t) /\ Len(t) \in Nat
  BY <1>6, ConcatFacts, LenNat, ZenonT(60)
<1> QED
  BY <1>2, <1>5, <1>7, SMTT(60)

\* A header alone is the code of nothing.
LEMMA CodedNone == Coded(HeaderBits(FALSE), <<>>)
<1> DEFINE h == HeaderBits(FALSE)
           none == <<>>
<1>1. h \in Seq(Bit)
  BY HeaderBitsFacts, ZenonT(60)
<1>2. h \o none = h
  <2> HIDE DEF h
  <2> QED
    BY <1>1
<1>3. none \in Seq(Byte) /\ 0 \in Nat /\ Len(none) = 0
  OBVIOUS
<1>4. Chain(none, none, <<0>>, 0, 0)
  BY <1>3, FreshWriter, ZenonT(60)
<1>5. StreamBits(none) = none
  BY StreamBitsNone, ZenonT(60)
<1> HIDE DEF h, none
<1>6. Chain(none, none, <<0>>, 0, Len(none)) /\ h = h \o StreamBits(none)
  BY <1>2, <1>3, <1>4, <1>5, ZenonT(60)
<1> QED
  BY <1>6, ZenonT(60) DEF Coded, h, none

\* The code of a text and phrases for the rest of it.
LEMMA CodedMore ==
  ASSUME NEW data \in Seq(Byte), NEW x \in 0..Len(data), NEW bits,
         Coded(bits, SubSeq(data, 1, x)), NEW tt, NEW ut, Chain(data, tt, ut, x, Len(data))
  PROVE  Coded(bits \o StreamBits(tt), data)
<1> DEFINE a == SubSeq(data, 1, x)
           more == SubSeq(data, x + 1, Len(data))
<1>1. a \in Seq(Byte) /\ more \in Seq(Byte) /\ Len(a) = x /\ a \o more = data
  BY CutAndJoin, ZenonT(60)
<1>2. PICK ss, st : Chain(a, ss, st, 0, Len(a)) /\ bits = HeaderBits(FALSE) \o StreamBits(ss)
  BY ZenonT(60) DEF Coded
<1> HIDE DEF a, more
<1>3. Chain(data, ss, st, 0, x)
  <2>1. Chain(a \o more, ss, st, 0, Len(a))
    BY <1>1, <1>2, ChainExtended, ZenonT(60)
  <2> QED
    BY <1>1, <2>1, ZenonT(60)
<1>4. PICK vt : Chain(data, ss \o tt, vt, 0, Len(data))
  BY <1>3, ChainJoin, ZenonT(60)
<1>5. ss \in Seq(Phrase) /\ tt \in Seq(Phrase)
  BY <1>2, ZenonT(60) DEF Chain
<1> DEFINE h == HeaderBits(FALSE)
           u == StreamBits(ss)
           v == StreamBits(tt)
<1>6. StreamBits(ss \o tt) = u \o v
  BY <1>5, StreamBitsConcat, ZenonT(60)
<1>7. h \in Seq(Bit) /\ u \in Seq(Bit) /\ v \in Seq(Bit)
  BY <1>5, HeaderBitsFacts, StreamBitsFacts, ZenonT(60)
<1>8. bits \o v = (h \o u) \o v
  BY <1>2, ZenonT(60)
<1> HIDE DEF h, u, v
<1>9. (h \o u) \o v = h \o (u \o v)
  BY <1>7, ConcatAssoc, ZenonT(60)
<1>10. bits \o v = h \o StreamBits(ss \o tt)
  BY <1>6, <1>8, <1>9, ZenonT(60)
<1> QED
  BY <1>4, <1>10, ZenonT(60) DEF Coded, h, v

\* A file that starts with the code of a text, followed by less than a byte,
\* decompresses to it if the dictionary is in reach.
LEMMA CodedDecompresses ==
  ASSUME NEW file \in Seq(Bit), NEW n \in 0..Len(file), Len(file) - n < 8,
         NEW data \in Seq(Byte), Coded(SubSeq(file, 1, n), data), InReach(Len(data))
  PROVE  DecompressesTo(file, data)
<1> DEFINE code == SubSeq(file, 1, n)
           pad == SubSeq(file, n + 1, Len(file))
<1>1. /\ code \in Seq(Bit) /\ pad \in Seq(Bit) /\ Len(pad) = Len(file) - n /\ code \o pad = file
  BY CutAndJoin, ZenonT(60)
<1>2. PICK ss, st : Chain(data, ss, st, 0, Len(data)) /\ code = HeaderBits(FALSE) \o StreamBits(ss)
  BY ZenonT(60) DEF Coded
<1> HIDE DEF code, pad
<1> DEFINE h == HeaderBits(FALSE)
           t == StreamBits(ss)
<1>3. ss \in Seq(Phrase)
  BY <1>2, ZenonT(60) DEF Chain
<1>4. \A k \in DOMAIN ss : Fits(ss[k])
  BY <1>2, ZenonT(60) DEF Chain, Piece
<1>5. MadeOf(data, ss, st)
  BY <1>2, ChainMadeOf, ZenonT(60)
<1>6. h \in Seq(Bit) /\ t \in Seq(Bit)
  BY <1>3, HeaderBitsFacts, StreamBitsFacts, ZenonT(60)
<1>7. code = h \o t
  BY <1>2, ZenonT(60)
<1>8. DecompressesTo(h \o (t \o pad), data)
  BY <1>1, <1>4, <1>5, FileDecompresses, ZenonT(60)
<1> HIDE DEF h, t
<1>9. (h \o t) \o pad = h \o (t \o pad)
  <2>1. h \in Seq(Bit) /\ t \in Seq(Bit) /\ pad \in Seq(Bit)
    BY <1>1, <1>6, ZenonT(60)
  <2> QED
    BY <2>1, ConcatAssoc, ZenonT(60)
<1> QED
  BY <1>1, <1>7, <1>8, <1>9, ZenonT(60)

\* The phrases that are read from the code of a text are the ones it was made of.
LEMMA CodedRead ==
  ASSUME NEW bits, NEW data, Coded(bits, data)
  PROVE  LET body == SubSeq(bits, 8 * HeaderSize + 1, Len(bits))
         IN  StreamBits(ReadPhrases(body)) = body
<1>1. PICK ss, st : Chain(data, ss, st, 0, Len(data)) /\ bits = HeaderBits(FALSE) \o StreamBits(ss)
  BY ZenonT(60) DEF Coded
<1> DEFINE t == StreamBits(ss)
           none == <<>>
<1>2. ss \in Seq(Phrase) /\ \A k \in DOMAIN ss : Fits(ss[k])
  BY <1>1, ZenonT(60) DEF Chain, Piece
<1>3. t \in Seq(Bit)
  BY <1>2, StreamBitsFacts, ZenonT(60)
<1>4. SubSeq(bits, 8 * HeaderSize + 1, Len(bits)) = t
  BY <1>1, <1>3, HeaderBack, ZenonT(60)
<1>5. none \in Seq(Bit) /\ Len(none) < 8
  OBVIOUS
<1>6. ReadPhrases(t \o none) = ss
  BY <1>2, <1>5, ReadBack, ZenonT(60)
<1> HIDE DEF t
<1>7. t \o none = t
  BY <1>3
<1> QED
  BY <1>4, <1>6, <1>7, ZenonT(60) DEF t

\* The phrases that are read from a file that starts with the code of a text,
\* followed by less than a byte.
LEMMA CodedPhrases ==
  ASSUME NEW file \in Seq(Bit), NEW n \in 0..Len(file), Len(file) - n < 8,
         NEW data \in Seq(Byte), Coded(SubSeq(file, 1, n), data)
  PROVE  LET body == SubSeq(file, 8 * HeaderSize + 1, Len(file))
             ss == ReadPhrases(body)
         IN  /\ HeaderFlag(file) = 0
             /\ ss \in Seq(Phrase) /\ \E st : Chain(data, ss, st, 0, Len(data))
             /\ Len(StreamBits(ss)) + (Len(file) - n) = Len(body)
<1>1. PICK code, pad : code = SubSeq(file, 1, n) /\ pad = SubSeq(file, n + 1, Len(file))
  BY ZenonT(60)
<1>2. code \in Seq(Bit) /\ pad \in Seq(Bit) /\ Len(pad) = Len(file) - n /\ code \o pad = file
  BY <1>1, CutAndJoin, ZenonT(60)
<1>3. PICK ss, st : Chain(data, ss, st, 0, Len(data)) /\ code = HeaderBits(FALSE) \o StreamBits(ss)
  BY <1>1, ZenonT(60) DEF Coded
<1>4. PICK h, t : h = HeaderBits(FALSE) /\ t = StreamBits(ss)
  BY ZenonT(60)
<1>5. ss \in Seq(Phrase) /\ \A k \in DOMAIN ss : Fits(ss[k])
  BY <1>3, ZenonT(60) DEF Chain, Piece
<1>6. h \in Seq(Bit) /\ t \in Seq(Bit)
  BY <1>4, <1>5, HeaderBitsFacts, StreamBitsFacts, ZenonT(60)
<1>7. PICK body : body = t \o pad
  BY ZenonT(60)
<1>8. body \in Seq(Bit) /\ Len(body) = Len(t) + Len(pad)
  BY <1>2, <1>6, <1>7, ConcatFacts, ZenonT(60)
<1>9. file = h \o body
  <2>1. (h \o t) \o pad = h \o (t \o pad)
    <3>1. h \in Seq(Bit) /\ t \in Seq(Bit) /\ pad \in Seq(Bit)
      BY <1>2, <1>6, ZenonT(60)
    <3> QED
      BY <3>1, ConcatAssoc, ZenonT(60)
  <2> QED
    BY <1>2, <1>3, <1>4, <1>7, <2>1, ZenonT(60)
<1>10. /\ HeaderFlag(file) = ind(FALSE)
       /\ SubSeq(file, 8 * HeaderSize + 1, Len(file)) = body
  BY <1>4, <1>8, <1>9, HeaderBack, ZenonT(60)
<1>11. ReadPhrases(body) = ss
  <2>1. Len(pad) < 8
    BY <1>2, ZenonT(60)
  <2>2. ReadPhrases(StreamBits(ss) \o pad) = ss
    BY <1>2, <1>5, <2>1, ReadBack, ZenonT(60)
  <2> QED
    BY <1>4, <1>7, <2>2, ZenonT(60)
<1>12. HeaderFlag(file) = 0
  BY <1>10, ZenonT(60) DEF ind
<1>13. Len(StreamBits(ss)) + (Len(file) - n) = Len(body)
  BY <1>2, <1>4, <1>8, ZenonT(60)
<1> QED
  BY <1>3, <1>5, <1>10, <1>11, <1>12, <1>13, ZenonT(60)

\* A reference of phrases with a meaning is not out of range.
LEMMA NotOutOfRange ==
  ASSUME NEW ss \in Seq(Phrase), HasMeaning(ss), NEW n, NEW text, NEW lit, NEW bits, NEW pieces,
         Taken(ss, n, text, lit, bits, pieces), n < Len(ss),
         ~ canEncodeSymbol(ss[n+1].symbol), ss[n+1].address + 1 > Len(text)
  PROVE  FALSE
<1>1. n \in 0..Len(ss) /\ text = MeaningOf(ss, n)
  BY ZenonT(60) DEF Taken
<1>2. PICK m : m = n + 1
  BY ZenonT(60)
<1>3. m \in DOMAIN ss /\ m - 1 = n
  BY <1>1, <1>2
<1>4. ss[m].address + 1 <= Len(MeaningOf(ss, m - 1))
  BY <1>2, <1>3, ZenonT(60) DEF HasMeaning
<1>5. ss[m].address + 1 <= Len(text) /\ ss[m].address + 1 > Len(text)
  BY <1>1, <1>2, <1>3, <1>4, ZenonT(60)
<1>6. ss[m] \in Phrase
  BY <1>3
<1>7. ss[m].address \in Nat
  BY <1>6, ZenonT(60) DEF Phrase
<1>8. text \in Seq(Byte)
  BY ZenonT(60) DEF Taken, ReportedTo
<1>9. Len(text) \in Nat
  BY <1>8, LenNat, ZenonT(60)
<1> QED
  BY <1>5, <1>7, <1>9, SMTT(60)

\* The bytes of a text are read from its bits.
LEMMA BytesBack ==
  ASSUME NEW data \in Seq(Byte)
  PROVE  BytesOf(BytesBits(data)) = data
<1>1. PICK bits : bits = BytesBits(data)
  BY ZenonT(60)
<1>2. PICK N : N = Len(data)
  BY ZenonT(60)
<1>3. bits \in Seq(Bit) /\ Len(bits) = 8 * N /\ N \in Nat /\ Len(bits) \div 8 = N
  <2>1. bits \in Seq(Bit) /\ Len(bits) = 8 * Len(data)
    BY <1>1, BytesBitsFacts, ZenonT(60)
  <2>2. N \in Nat
    BY <1>2, LenNat, ZenonT(60)
  <2> QED
    BY <1>2, <2>1, <2>2, SMTT(60)
<1>4. \A j \in 1..(8 * N) : bits[j] = (data[(j + 7) \div 8] \div 2^((8 - j) % 8)) % 2
  BY <1>1, <1>2, ZenonT(60) DEF BytesBits
<1>5. ASSUME NEW k \in 1..N PROVE BitsNum(SubSeq(bits, 8 * k - 7, 8 * k)) = data[k]
  <2>1. PICK p, v : p = 8 * k - 8 /\ v = data[k]
    BY ZenonT(60)
  <2>2. p \in Nat /\ p + 8 <= Len(bits) /\ p + 1 = 8 * k - 7 /\ p + 8 = 8 * k
    BY <1>3, <2>1, SMTT(60)
  <2>3. v \in Nat /\ v < 256
    <3>1. v \in Byte
      BY <1>2, <2>1, SMTT(60)
    <3> QED
      BY <3>1 DEF Byte
  <2>4. v < 2^8 /\ 8 \in 0..MaxWidth
    <3>1. 8 \in 0..MaxWidth
      BY BitsAssumption DEF MaxWidth
    <3> QED
      BY <2>3, <3>1, ByteWidth
  <2>5. ASSUME NEW j \in 1..8 PROVE bits[p + j] = NumBits(v, 8)[j]
    <3>1. /\ p + j \in 1..(8 * N) /\ (p + j + 7) \div 8 = k /\ (8 - (p + j)) % 8 = 8 - j
      <4>1. p = 8 * (k - 1) /\ k \in Nat /\ N \in Nat /\ k <= N /\ k >= 1
        BY <1>3, <2>1, SMTT(60)
      <4> QED
        BY <4>1, SMTT(60)
    <3>2. bits[p + j] = (data[(p + j + 7) \div 8] \div 2^((8 - (p + j)) % 8)) % 2
      BY <1>4, <3>1, ZenonT(60)
    <3>3. bits[p + j] = (v \div 2^(8 - j)) % 2
      BY <2>1, <3>1, <3>2, ZenonT(60)
    <3>4. NumBits(v, 8)[j] = (v \div 2^(8 - j)) % 2
      BY ZenonT(60) DEF NumBits
    <3> QED
      BY <3>3, <3>4, ZenonT(60)
  <2>6. Field(bits, p, 8) = v
    <3>1. bits \in Seq(Bit) /\ p \in Nat /\ p + 8 <= Len(bits) /\ v \in Nat
      BY <1>3, <2>2, <2>3, ZenonT(60)
    <3>2. \A j \in 1..8 : bits[p + j] = NumBits(v, 8)[j]
      BY <2>5, ZenonT(60)
    <3> QED
      BY <2>4, <3>1, <3>2, FieldIs, ZenonT(60)
  <2> QED
    BY <2>1, <2>2, <2>6, ZenonT(60) DEF Field
<1>6. BytesOf(bits) = [k \in 1..N |-> data[k]]
  <2>1. BytesOf(bits) = [k \in 1..(Len(bits) \div 8) |-> BitsNum(SubSeq(bits, 8 * k - 7, 8 * k))]
    BY ZenonT(60) DEF BytesOf
  <2>2. BytesOf(bits) = [k \in 1..N |-> BitsNum(SubSeq(bits, 8 * k - 7, 8 * k))]
    BY <1>3, <2>1, ZenonT(60)
  <2> QED
    BY <1>5, <2>2, ZenonT(60)
<1>7. data = [k \in 1..N |-> data[k]]
  BY <1>2
<1> QED
  BY <1>1, <1>6, <1>7, ZenonT(60)
=============================================================================
