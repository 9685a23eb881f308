--------------------------- MODULE AnyStream_proof ---------------------------
(***************************************************************************)
(* Both decoders, on any sequence of phrases: what they return is what the *)
(* README says the phrases mean.                                           *)
(***************************************************************************)
EXTENDS AnyStream, Bits_proof

\* The first n phrases have a meaning.
Reaches(n) ==
  \A k \in 1..n : ~ canEncodeSymbol(stream[k].symbol) =>
                    stream[k].address + 1 <= Len(MeaningOf(stream, k - 1))

\* Between two phrases the output is the meaning of those that were read.
BetweenPhrases ==
  /\ copy.left = 0
  /\ dictData \o out = MeaningOf(stream, nRead)
  /\ Reaches(nRead)

\* Inside a reference the bytes that are still to be copied lead there.  A short
\* reference that goes further back than the output has not copied any.
InsideRef ==
  /\ copy.left > 0 /\ nRead > 0
  /\ CopyBytes(dictData \o out, copy.address, copy.left) = MeaningOf(stream, nRead)
  /\ copy.symbol # SymbolShort => copy.address <= Len(out)
  /\ copy.address <= Len(out) => Reaches(nRead)

ReadInv ==
  /\ stream \in Seq(Phrase) /\ nRead \in 0..Len(stream) /\ out \in Seq(Byte)
  /\ copy \in [symbol : Byte, address : Nat \ {0}, left : Nat] /\ err \in BOOLEAN
  /\ ~ err => BetweenPhrases \/ InsideRef

InfoInv ==
  /\ Taken(stream, infoRead, infoOut, literalCopyStart, inI, res)
  /\ pc \in {"idle", "decompress"} => literalCopyStart = -1

AnyInv == pc \in {"idle", "decompress", "info", "panic"} /\ ReadInv /\ InfoInv

-----------------------------------------------------------------------------
(* Decompress. *)

\* The dictionary stays in front when the text grows.
LEMMA ConcatAppend ==
  ASSUME NEW S, NEW s \in Seq(S), NEW t \in Seq(S), NEW e \in S
  PROVE  s \o Append(t, e) = Append(s \o t, e)
  OBVIOUS

\* The dictionary and all of the output.
LEMMA TextAll ==
  ASSUME NEW t \in Seq(Byte)
  PROVE  Text(t, Len(t)) = dictData \o t
<1>1. SubSeq(t, 1, Len(t)) = t
  <2>1. PICK u : u = SubSeq(t, 1, Len(t))
    BY ZenonT(60)
  <2>2. Len(t) \in Nat /\ Len(t) <= Len(t)
    OBVIOUS
  <2>3. u \in Seq(Byte) /\ Len(u) = Len(t) /\ \A k \in 1..Len(t) : u[k] = t[k]
    BY <2>1, <2>2, PrefixFacts, ZenonT(60)
  <2>4. u = t
    BY <2>3, SameElements, ZenonT(60)
  <2> QED
    BY <2>1, <2>4, ZenonT(60)
<1> QED
  BY <1>1, ZenonT(60) DEF Text

\* A byte of the output, counted from the end of the text.
LEMMA AtOutput ==
  ASSUME NEW t \in Seq(Byte), NEW a \in 1..Len(t)
  PROVE  /\ dictData \o t \in Seq(Byte) /\ Len(dictData \o t) = dictLen + Len(t)
         /\ At(dictData \o t, Len(dictData \o t) - a) = At(t, Len(t) - a)
         /\ At(t, Len(t) - a) \in Byte
<1>1. PICK u : u = dictData \o t
  BY ZenonT(60)
<1>2. dictLen \in Nat /\ Len(t) \in Nat /\ Len(t) \in 0..Len(t)
  BY LenNat, DictFacts
<1>3. /\ u \in Seq(Byte) /\ Len(u) = dictLen + Len(t)
      /\ \A k \in 0..(Len(t)-1) : At(u, dictLen + k) = At(t, k)
  <2>1. PICK e : e = Len(t)
    BY ZenonT(60)
  <2>2. e \in 0..Len(t)
    BY <1>2, <2>1, ZenonT(60)
  <2>3. /\ Text(t, e) \in Seq(Byte) /\ Len(Text(t, e)) = dictLen + e
        /\ \A k \in 0..(e-1) : At(Text(t, e), dictLen + k) = At(t, k)
    BY <2>2, TextFacts, ZenonT(60)
  <2>4. Text(t, e) = u
    BY <1>1, <2>1, TextAll, ZenonT(60)
  <2> QED
    BY <2>1, <2>3, <2>4, ZenonT(60)
<1>4. PICK k : k = Len(t) - a
  BY ZenonT(60)
<1>5. k \in 0..(Len(t)-1) /\ Len(u) - a = dictLen + k /\ k + 1 \in 1..Len(t)
  BY <1>2, <1>3, <1>4
<1>6. At(t, k) \in Byte
  BY <1>5 DEF At
<1> QED
  BY <1>1, <1>3, <1>4, <1>5, <1>6, ZenonT(60)

\* One more phrase that has a meaning.
LEMMA ReachesMore ==
  ASSUME NEW n \in Nat, Reaches(n),
         ~ canEncodeSymbol(stream[n+1].symbol) =>
           stream[n+1].address + 1 <= Len(MeaningOf(stream, n))
  PROVE  Reaches(n + 1)
<1>1. ASSUME NEW k \in 1..(n+1), ~ canEncodeSymbol(stream[k].symbol)
      PROVE  stream[k].address + 1 <= Len(MeaningOf(stream, k - 1))
  <2>1. CASE k \in 1..n
    BY <1>1, <2>1, ZenonT(60) DEF Reaches
  <2>2. CASE k = n + 1
    <3>1. k - 1 = n
      BY <2>2
    <3> QED
      BY <1>1, <2>2, <3>1, ZenonT(60)
  <2> QED
    BY <2>1, <2>2
<1> QED
  BY <1>1, ZenonT(60) DEF Reaches

\* Nothing has been read.
LEMMA ReadInvFresh ==
  ASSUME stream \in Seq(Phrase), nRead = 0, out = <<>>, copy = NoCopy, err = FALSE
  PROVE  ReadInv
<1>1. MeaningOf(stream, 0) = dictData
  BY LenNat, MeaningRec, ZenonT(60)
<1>2. dictData \o <<>> = dictData
  BY DictFacts
<1>3. Reaches(0)
  BY DEF Reaches
<1>4. 0 \in 0..Len(stream) /\ <<>> \in Seq(Byte)
  BY LenNat
<1>5. NoCopy \in [symbol : Byte, address : Nat \ {0}, left : Nat] /\ NoCopy.left = 0
  BY DEF NoCopy, SymbolShort, Byte
<1>6. BetweenPhrases
  BY <1>1, <1>2, <1>3, <1>5, ZenonT(60) DEF BetweenPhrases
<1> QED
  BY <1>4, <1>5, <1>6, ZenonT(60) DEF ReadInv

\* A step of Decompress before a phrase: where it stands.
LEMMA ReadingFacts ==
  ASSUME ReadInv, Reading
  PROVE  /\ nRead \in Nat /\ nRead < Len(stream) /\ nRead + 1 \in 0..Len(stream)
         /\ stream \in Seq(Phrase) /\ out \in Seq(Byte) /\ ~ err
         /\ copy \in [symbol : Byte, address : Nat \ {0}, left : Nat] /\ copy.left = 0
         /\ phrase = stream[nRead+1] /\ phrase \in Phrase
         /\ phrase.symbol \in Byte /\ phrase.length \in Nat /\ phrase.address \in Nat
         /\ dictData \o out = MeaningOf(stream, nRead) /\ Reaches(nRead)
         /\ MeaningOf(stream, nRead + 1) = AddPhrase(dictData \o out, phrase)
         /\ Len(dictData \o out) = dictLen + Len(out)
<1>1. /\ stream \in Seq(Phrase) /\ nRead \in 0..Len(stream) /\ out \in Seq(Byte)
      /\ copy \in [symbol : Byte, address : Nat \ {0}, left : Nat]
      /\ ~ err /\ copy.left = 0 /\ nRead < Len(stream) /\ (BetweenPhrases \/ InsideRef)
  BY ZenonT(60) DEF ReadInv, Reading
<1>2. ~ InsideRef
  BY <1>1 DEF InsideRef
<1>3. dictData \o out = MeaningOf(stream, nRead) /\ Reaches(nRead)
  BY <1>1, <1>2, ZenonT(60) DEF BetweenPhrases
<1>4. /\ nRead + 1 \in 0..Len(stream)
      /\ stream[nRead+1] \in Phrase /\ stream[nRead+1].symbol \in Byte
      /\ stream[nRead+1].length \in Nat /\ stream[nRead+1].address \in Nat
      /\ MeaningOf(stream, nRead + 1) = AddPhrase(MeaningOf(stream, nRead), stream[nRead+1])
  BY <1>1, NextPhrase, ZenonT(60)
<1>5. nRead \in Nat
  BY <1>1
<1>6. Len(dictData \o out) = dictLen + Len(out)
  BY <1>1, DictFacts, ConcatFacts DEF dictLen
<1> QED
  BY <1>1, <1>3, <1>4, <1>5, <1>6, ZenonT(60) DEF phrase

\* ReadLiteral.
LEMMA ReadLiteralInv ==
  ASSUME ReadInv, ReadLiteral PROVE ReadInv'
<1>1. Reading /\ canEncodeSymbol(phrase.symbol)
      /\ out' = Append(out, phrase.symbol) /\ nRead' = nRead + 1
      /\ stream' = stream /\ copy' = copy /\ err' = err
  BY ZenonT(60) DEF ReadLiteral
<1>2. PICK b, n : b = phrase.symbol /\ n = nRead + 1
  BY ZenonT(60)
<1>3. /\ nRead \in Nat /\ n \in 0..Len(stream) /\ stream \in Seq(Phrase) /\ out \in Seq(Byte)
      /\ ~ err /\ copy \in [symbol : Byte, address : Nat \ {0}, left : Nat] /\ copy.left = 0
      /\ b \in Byte /\ Reaches(nRead)
      /\ MeaningOf(stream, n) = AddPhrase(dictData \o out, phrase)
      /\ phrase = stream[n]
  BY <1>1, <1>2, ReadingFacts, ZenonT(60)
<1>4. MeaningOf(stream, n) = dictData \o Append(out, b)
  <2>1. AddPhrase(dictData \o out, phrase) = Append(dictData \o out, b)
    BY <1>1, <1>2, ZenonT(60) DEF AddPhrase
  <2>2. dictData \o Append(out, b) = Append(dictData \o out, b)
    <3>1. PICK dd : dd = dictData
      BY ZenonT(60)
    <3>2. dd \in Seq(Byte) /\ out \in Seq(Byte) /\ b \in Byte
      BY <1>3, <3>1, DictFacts, ZenonT(60)
    <3>3. dd \o Append(out, b) = Append(dd \o out, b)
      BY <3>2, ConcatAppend
    <3> QED
      BY <3>1, <3>3, ZenonT(60)
  <2> QED
    BY <1>3, <2>1, <2>2, ZenonT(60)
<1>5. Reaches(n)
  <2>1. canEncodeSymbol(stream[nRead+1].symbol)
    BY <1>1, <1>2, <1>3, ZenonT(60)
  <2> QED
    BY <1>2, <1>3, <2>1, ReachesMore, ZenonT(60)
<1>6. Append(out, b) \in Seq(Byte)
  BY <1>3
<1>7. BetweenPhrases'
  <2>1. Reaches(n)'
    BY <1>1, <1>5, ZenonT(60) DEF Reaches
  <2>2. Reaches(nRead)'
    BY <1>1, <1>2, <2>1, ZenonT(60) DEF Reaches
  <2> QED
    BY <1>1, <1>2, <1>3, <1>4, <2>2, ZenonT(60) DEF BetweenPhrases
<1> QED
  BY <1>1, <1>2, <1>3, <1>6, <1>7, ZenonT(60) DEF ReadInv
\* A copy is started, from the output or, by a short reference, from where the output
\* does not reach yet.
LEMMA StartCopyInv ==
  ASSUME ReadInv, Reading, ~ canEncodeSymbol(phrase.symbol), StartCopy,
         phrase.symbol # SymbolShort => refAddress <= Len(out)
  PROVE  ReadInv'
<1>1. /\ copy' = [symbol |-> phrase.symbol, address |-> refAddress, left |-> refLength]
      /\ nRead' = nRead + 1 /\ stream' = stream /\ out' = out /\ err' = err
  BY ZenonT(60) DEF StartCopy
<1>2. PICK n, a, m : n = nRead + 1 /\ a = refAddress /\ m = refLength
  BY ZenonT(60)
<1>3. /\ nRead \in Nat /\ n \in 0..Len(stream) /\ stream \in Seq(Phrase) /\ out \in Seq(Byte)
      /\ ~ err /\ phrase.symbol \in Byte /\ phrase.length \in Nat /\ phrase.address \in Nat
      /\ Reaches(nRead) /\ dictData \o out = MeaningOf(stream, nRead)
      /\ MeaningOf(stream, n) = AddPhrase(dictData \o out, phrase)
      /\ phrase = stream[n] /\ Len(dictData \o out) = dictLen + Len(out)
  BY <1>2, ReadingFacts, ZenonT(60)
<1>4. a \in Nat \ {0} /\ m \in Nat \ {0} /\ a = phrase.address + 1 /\ m = phrase.length + 1
  <2>1. PICK x, y : x = phrase.length /\ y = phrase.address
    BY ZenonT(60)
  <2>2. x \in Nat /\ y \in Nat /\ a = y + 1 /\ m = x + 1
    BY <1>2, <1>3, <2>1, ZenonT(60) DEF refAddress, refLength
  <2>3. y + 1 \in Nat \ {0} /\ x + 1 \in Nat \ {0}
    BY <2>2
  <2> QED
    BY <2>1, <2>2, <2>3, ZenonT(60)
<1>5. CopyBytes(dictData \o out, a, m) = MeaningOf(stream, n)
  BY <1>3, <1>4, ZenonT(60) DEF AddPhrase
<1>6. ASSUME a <= Len(out) PROVE Reaches(n)
  <2>1. stream[nRead+1].address + 1 <= Len(MeaningOf(stream, nRead))
    <3>1. dictLen \in Nat /\ Len(out) \in Nat
      BY <1>3, LenNat, DictFacts, ZenonT(60)
    <3>2. a <= dictLen + Len(out)
      BY <1>4, <1>6, <3>1, SMTT(60)
    <3> QED
      BY <1>2, <1>3, <1>4, <3>2, ZenonT(60)
  <2> QED
    BY <1>2, <1>3, <2>1, ReachesMore, ZenonT(60)
<1>7. /\ copy' \in [symbol : Byte, address : Nat \ {0}, left : Nat]
      /\ copy'.symbol = phrase.symbol /\ copy'.address = a /\ copy'.left = m
  BY <1>1, <1>2, <1>3, <1>4, ZenonT(60)
<1>8. InsideRef'
  <2>1. m > 0 /\ n > 0
    BY <1>2, <1>3, <1>4
  <2>2. ASSUME a <= Len(out) PROVE Reaches(nRead)'
    <3>1. Reaches(n)
      BY <1>6, <2>2, ZenonT(60)
    <3> QED
      BY <1>1, <1>2, <3>1, ZenonT(60) DEF Reaches
  <2>3. phrase.symbol # SymbolShort => a <= Len(out)
    BY <1>2, ZenonT(60)
  <2> QED
    BY <1>1, <1>2, <1>5, <1>7, <2>1, <2>2, <2>3, ZenonT(60) DEF InsideRef
<1> QED
  BY <1>1, <1>2, <1>3, <1>7, <1>8, ZenonT(60) DEF ReadInv

\* CopyByte: a byte is copied, or the reference is refused.
LEMMA CopyByteInv ==
  ASSUME ReadInv, CopyByte PROVE ReadInv'
<1>1. /\ ~ err /\ copy.left > 0 /\ stream' = stream /\ nRead' = nRead
      /\ stream \in Seq(Phrase) /\ nRead \in 0..Len(stream) /\ out \in Seq(Byte)
      /\ copy \in [symbol : Byte, address : Nat \ {0}, left : Nat]
  BY ZenonT(60) DEF CopyByte, ReadInv
<1>2. CASE copy.symbol = SymbolShort /\ copy.address > Len(out)
  <2>1. err' = TRUE /\ out' = out /\ copy' = copy
    BY <1>2, ZenonT(60) DEF CopyByte
  <2> QED
    BY <1>1, <2>1, ZenonT(60) DEF ReadInv
<1>3. CASE ~ (copy.symbol = SymbolShort /\ copy.address > Len(out))
  <2>1. /\ out' = Append(out, At(out, Len(out) - copy.address))
        /\ copy' = [copy EXCEPT !.left = @ - 1] /\ err' = err
    BY <1>3, ZenonT(60) DEF CopyByte
  <2>2. PICK a, m, b, t : a = copy.address /\ m = copy.left - 1 /\ t = dictData \o out
                          /\ b = At(out, Len(out) - copy.address)
    BY ZenonT(60)
  <2>3. a \in Nat \ {0} /\ m \in Nat /\ copy.left \in Nat /\ copy.left = m + 1 /\ Len(out) \in Nat
    BY <1>1, <2>2
  <2>4. /\ nRead > 0 /\ CopyBytes(t, a, copy.left) = MeaningOf(stream, nRead)
        /\ (copy.symbol # SymbolShort => a <= Len(out))
        /\ (a <= Len(out) => Reaches(nRead))
    <3>1. ~ BetweenPhrases
      BY <1>1 DEF BetweenPhrases
    <3>2. InsideRef
      BY <1>1, <3>1, ZenonT(60) DEF ReadInv
    <3> QED
      BY <2>2, <3>2, ZenonT(60) DEF InsideRef
  <2>5. a <= Len(out) /\ a \in 1..Len(out)
    BY <1>3, <2>2, <2>3, <2>4
  <2>6. t \in Seq(Byte) /\ At(t, Len(t) - a) = b /\ b \in Byte
    <3>1. out \in Seq(Byte)
      BY <1>1, ZenonT(60)
    <3> QED
      BY <2>2, <2>5, <3>1, AtOutput, ZenonT(60)
  <2>7. Append(t, b) = dictData \o Append(out, b)
    <3>1. PICK dd : dd = dictData
      BY ZenonT(60)
    <3>2. dd \in Seq(Byte) /\ out \in Seq(Byte) /\ b \in Byte
      BY <1>1, <2>6, <3>1, DictFacts, ZenonT(60)
    <3>3. dd \o Append(out, b) = Append(dd \o out, b)
      BY <3>2, ConcatAppend
    <3> QED
      BY <2>2, <3>1, <3>3, ZenonT(60)
  <2>8. CopyBytes(dictData \o Append(out, b), a, m) = MeaningOf(stream, nRead)
    <3>1. copy.left > 0 /\ copy.left - 1 = m
      BY <1>1, <2>2, ZenonT(60)
    <3>2. CopyBytes(t, a, copy.left) = CopyBytes(Append(t, At(t, Len(t) - a)), a, copy.left - 1)
      <4>1. PICK l : l = copy.left
        BY ZenonT(60)
      <4>2. l \in Nat /\ l > 0
        BY <2>3, <3>1, <4>1, ZenonT(60)
      <4>3. CopyBytes(t, a, l) = CopyBytes(Append(t, At(t, Len(t) - a)), a, l - 1)
        BY <4>2, CopyFirst, ZenonT(60)
      <4> QED
        BY <4>1, <4>3, ZenonT(60)
    <3> QED
      BY <2>4, <2>6, <2>7, <3>1, <3>2, ZenonT(60)
  <2>9. /\ copy' \in [symbol : Byte, address : Nat \ {0}, left : Nat]
        /\ copy'.symbol = copy.symbol /\ copy'.address = a /\ copy'.left = m
    BY <1>1, <2>1, <2>2, <2>3, ZenonT(60)
  <2>10. Append(out, b) \in Seq(Byte) /\ Len(Append(out, b)) = Len(out) + 1
    BY <1>1, <2>6
  <2>11. a <= Len(Append(out, b))
    BY <2>3, <2>5, <2>10
  <2>12. Reaches(nRead)'
    BY <1>1, <2>4, <2>5, ZenonT(60) DEF Reaches
  <2>13. (BetweenPhrases \/ InsideRef)'
    <3>1. CASE m = 0
      <4>1. dictData \o Append(out, b) = MeaningOf(stream, nRead)
        BY <2>8, <3>1, CopyNone, ZenonT(60)
      <4> QED
        BY <1>1, <2>1, <2>2, <2>9, <2>12, <3>1, <4>1, ZenonT(60) DEF BetweenPhrases
    <3>2. CASE m # 0
      <4>1. m > 0
        BY <2>3, <3>2
      <4> QED
        BY <1>1, <2>1, <2>2, <2>4, <2>8, <2>9, <2>11, <2>12, <4>1, ZenonT(60) DEF InsideRef
    <3> QED
      BY <3>1, <3>2, ZenonT(60)
  <2> QED
    BY <1>1, <2>1, <2>2, <2>9, <2>10, <2>13, ZenonT(60) DEF ReadInv
<1> QED
  BY <1>2, <1>3, ZenonT(60)
\* ReadDynamicInDict: the bytes of the dictionary are copied, or the reference is refused.
LEMMA ReadDynamicInDictInv ==
  ASSUME ReadInv, ReadDynamicInDict PROVE ReadInv'
<1>1. Reading /\ phrase.symbol = SymbolDynamic /\ refAddress > Len(out)
      /\ stream' = stream /\ copy' = copy
  BY ZenonT(60) DEF ReadDynamicInDict
<1>2. PICK n, a, m, from : n = nRead + 1 /\ a = refAddress /\ m = refLength /\ from = dictStart
  BY ZenonT(60)
<1>3. /\ nRead \in Nat /\ nRead \in 0..Len(stream) /\ n \in 0..Len(stream)
      /\ stream \in Seq(Phrase) /\ out \in Seq(Byte)
      /\ ~ err /\ copy \in [symbol : Byte, address : Nat \ {0}, left : Nat] /\ copy.left = 0
      /\ phrase \in Phrase /\ phrase.length \in Nat /\ phrase.address \in Nat
      /\ Reaches(nRead) /\ dictData \o out = MeaningOf(stream, nRead)
      /\ MeaningOf(stream, n) = AddPhrase(dictData \o out, phrase)
      /\ phrase = stream[n]
  <2>1. nRead \in 0..Len(stream)
    BY ZenonT(60) DEF ReadInv
  <2> QED
    BY <1>1, <1>2, <2>1, ReadingFacts, ZenonT(60)
<1>4. dictLen \in Nat /\ Len(out) \in Nat
  BY <1>3, LenNat, DictFacts, ZenonT(60)
<1>5. PICK x, y : x = phrase.length /\ y = phrase.address
  BY ZenonT(60)
<1>6. x \in Nat /\ y \in Nat /\ a = y + 1 /\ m = x + 1 /\ from = dictLen - (a - Len(out))
      /\ a > Len(out)
  BY <1>1, <1>2, <1>3, <1>5, ZenonT(60) DEF refAddress, refLength, dictStart
<1>7. CASE from < 0 \/ from > dictLen \/ from + m > dictLen
  <2>1. err' = TRUE /\ nRead' = nRead /\ out' = out
    BY <1>2, <1>7, ZenonT(60) DEF ReadDynamicInDict
  <2> QED
    BY <1>1, <1>3, <2>1, ZenonT(60) DEF ReadInv
<1>8. CASE ~ (from < 0 \/ from > dictLen \/ from + m > dictLen)
  <2>1. PICK c : c = SubSeq(dictData, from + 1, from + m)
    BY ZenonT(60)
  <2>2. out' = out \o c /\ nRead' = n /\ err' = err
    BY <1>2, <1>8, <2>1, ZenonT(60) DEF ReadDynamicInDict
  <2>3. from \in Nat /\ m \in Nat /\ from + m <= Len(dictData) /\ from + m <= dictLen
    BY <1>4, <1>6, <1>8 DEF dictLen
  <2>4. c \in Seq(Byte) /\ Len(c) = m /\ \A k \in 1..m : c[k] = dictData[from + k]
    BY <2>1, <2>3, DictFacts, SliceFacts, SMTT(60)
  <2>5. PICK w : w = out \o c
    BY ZenonT(60)
  <2>6. /\ w \in Seq(Byte) /\ Len(w) = Len(out) + m
        /\ \A k \in 1..Len(out) : w[k] = out[k]
        /\ \A k \in 1..m : w[Len(out) + k] = c[k]
    <3>1. PICK o : o = out
      BY ZenonT(60)
    <3>2. o \in Seq(Byte) /\ c \in Seq(Byte)
      BY <1>3, <2>4, <3>1, ZenonT(60)
    <3>3. /\ o \o c \in Seq(Byte) /\ Len(o \o c) = Len(o) + Len(c)
          /\ \A k \in 1..Len(o) : (o \o c)[k] = o[k]
          /\ \A k \in 1..Len(c) : (o \o c)[Len(o) + k] = c[k]
      BY <3>2, ConcatFacts
    <3> QED
      BY <2>4, <2>5, <3>1, <3>3, ZenonT(60)
  <2>7. PICK s, e : s = Len(out) /\ e = Len(w)
    BY ZenonT(60)
  <2>8. s \in Nat /\ e \in Nat /\ e = s + m /\ s < e /\ e - s = m
    BY <1>4, <1>6, <2>6, <2>7
  <2>9. StandsFor(w, phrase, s, e)
    <3>1. from \in 0..(dictLen-1) /\ y + 1 = s + (dictLen - from) /\ x + 1 = e - s
      BY <1>4, <1>6, <2>3, <2>7, <2>8, SMTT(60)
    <3>2. Occurs(w, s, e - s, dictData, from)
      <4>1. ASSUME NEW k \in 0..(m-1) PROVE At(w, s + k) = At(dictData, from + k)
        <5>1. k + 1 \in 1..m /\ (s + k) + 1 = s + (k + 1) /\ (from + k) + 1 = from + (k + 1)
          BY <2>3, <2>8
        <5>2. w[s + (k + 1)] = c[k + 1] /\ c[k + 1] = dictData[from + (k + 1)]
          BY <2>4, <2>6, <2>7, <5>1, ZenonT(60)
        <5> QED
          BY <5>1, <5>2, ZenonT(60) DEF At
      <4> QED
        BY <2>3, <2>8, <4>1, ZenonT(60) DEF Occurs
    <3>3. DictCopyOf(w, phrase, s, e)
      BY <1>1, <1>5, <3>1, <3>2, ZenonT(60) DEF DictCopyOf
    <3>4. e <= Len(w)
      BY <2>7, <2>8, SMTT(60)
    <3> QED
      BY <2>8, <3>3, <3>4, ZenonT(60) DEF StandsFor
  <2>10. /\ AddPhrase(Text(w, s), phrase) = Text(w, e)
         /\ ~ canEncodeSymbol(phrase.symbol) => phrase.address + 1 <= Len(Text(w, s))
    <3>1. PICK ph : ph = phrase
      BY ZenonT(60)
    <3>2. ph \in Phrase /\ w \in Seq(Byte) /\ e \in Nat /\ StandsFor(w, ph, s, e)
      BY <1>3, <2>6, <2>8, <2>9, <3>1, ZenonT(60)
    <3>3. /\ AddPhrase(Text(w, s), ph) = Text(w, e)
          /\ ~ canEncodeSymbol(ph.symbol) => ph.address + 1 <= Len(Text(w, s))
      BY <3>2, AddPhraseSound, ZenonT(60)
    <3> QED
      BY <3>1, <3>3, ZenonT(60)
  <2>11. Text(w, e) = dictData \o w
    BY <2>6, <2>7, TextAll, ZenonT(60)
  <2>12. Text(w, s) = dictData \o out
    <3>1. PICK u : u = SubSeq(w, 1, s)
      BY ZenonT(60)
    <3>2. u \in Seq(Byte) /\ Len(u) = s /\ \A k \in 1..s : u[k] = w[k]
      <4>1. w \in Seq(Byte) /\ s \in Nat /\ s <= Len(w)
        BY <2>6, <2>7, <2>8
      <4> QED
        BY <3>1, <4>1, PrefixFacts, ZenonT(60)
    <3>3. u = out
      <4>1. \A k \in 1..Len(u) : u[k] = out[k]
        BY <2>6, <2>7, <3>2, ZenonT(60)
      <4>2. u \in Seq(Byte) /\ out \in Seq(Byte) /\ Len(u) = Len(out)
        BY <1>3, <2>7, <3>2, ZenonT(60)
      <4> QED
        BY <4>1, <4>2, SameElements, ZenonT(60)
    <3> QED
      BY <3>1, <3>3, ZenonT(60) DEF Text
  <2>13. MeaningOf(stream, n) = dictData \o w
    BY <1>3, <2>10, <2>11, <2>12, ZenonT(60)
  <2>14. Reaches(n)
    <3>1. ~ canEncodeSymbol(stream[nRead+1].symbol) =>
            stream[nRead+1].address + 1 <= Len(MeaningOf(stream, nRead))
      BY <1>2, <1>3, <2>10, <2>12, ZenonT(60)
    <3> QED
      BY <1>2, <1>3, <3>1, ReachesMore, ZenonT(60)
  <2>15. BetweenPhrases'
    <3>1. Reaches(nRead)'
      BY <1>1, <2>2, <2>14, ZenonT(60) DEF Reaches
    <3> QED
      BY <1>1, <1>3, <2>2, <2>5, <2>13, <3>1, ZenonT(60) DEF BetweenPhrases
  <2> QED
    BY <1>1, <1>3, <2>2, <2>5, <2>6, <2>15, ZenonT(60) DEF ReadInv
<1> QED
  BY <1>7, <1>8, ZenonT(60)

\* Every step of Decompress.
LEMMA ReadStepInv ==
  ASSUME ReadInv, Decompress \/ ReadStep PROVE ReadInv'
<1>1. CASE Decompress
  <2>1. /\ stream' \in Seq(Phrase) /\ nRead' = 0 /\ out' = <<>> /\ copy' = NoCopy /\ err' = FALSE
    BY <1>1, ZenonT(60) DEF Decompress, ReadInv
  <2>2. (stream \in Seq(Phrase) /\ nRead = 0 /\ out = <<>> /\ copy = NoCopy /\ err = FALSE)'
    BY <2>1, ZenonT(60) DEF NoCopy
  <2> QED
    BY <2>2, ReadInvFresh, PTL
<1>2. CASE ReadLiteral
  BY <1>2, ReadLiteralInv, ZenonT(60)
<1>3. CASE ReadShort
  <2>1. Reading /\ ~ canEncodeSymbol(phrase.symbol) /\ StartCopy /\ phrase.symbol = SymbolShort
    BY <1>3, ZenonT(60) DEF ReadShort, canEncodeSymbol
  <2> QED
    BY <2>1, StartCopyInv, ZenonT(60)
<1>4. CASE ReadDynamicInOutput
  <2>1. Reading /\ ~ canEncodeSymbol(phrase.symbol) /\ StartCopy /\ refAddress <= Len(out)
    BY <1>4, ZenonT(60) DEF ReadDynamicInOutput, canEncodeSymbol
  <2> QED
    BY <2>1, StartCopyInv, ZenonT(60)
<1>5. CASE ReadDynamicInDict
  BY <1>5, ReadDynamicInDictInv, ZenonT(60)
<1>6. CASE CopyByte
  BY <1>6, CopyByteInv, ZenonT(60)
<1>7. CASE DecompressReturns
  <2>1. UNCHANGED <<stream, nRead, out, copy, err>>
    BY <1>7, ZenonT(60) DEF DecompressReturns, readVars
  <2> QED
    BY <2>1, ZenonT(60) DEF ReadInv, BetweenPhrases, InsideRef, Reaches
<1> QED
  BY <1>1, <1>2, <1>3, <1>4, <1>5, <1>6, <1>7, ZenonT(60) DEF ReadStep
-----------------------------------------------------------------------------
(* CompressedStreamInfo. *)

\* emitLiteralIfNecessary leaves nothing to report.
LEMMA AfterLiterals ==
  ASSUME stream \in Seq(Phrase), Taken(stream, infoRead, infoOut, literalCopyStart, inI, res)
  PROVE  Taken(stream, infoRead, infoOut, -1, inIAfterLiterals, resAfterLiterals)
<1>1. CASE literalCopyStart = -1
  <2>1. inIAfterLiterals = inI /\ resAfterLiterals = res
    BY <1>1, ZenonT(60) DEF inIAfterLiterals, resAfterLiterals
  <2> QED
    BY <1>1, <2>1, ZenonT(60)
<1>2. CASE literalCopyStart # -1
  <2>1. /\ inIAfterLiterals = inI + (Len(infoOut) - literalCopyStart) * 8
        /\ resAfterLiterals
             = Append(res, CompressionPhrase(0, literalCopyStart, Len(infoOut), literalCopyStart,
                                             inI, infoOut))
    BY <1>2, ZenonT(60) DEF inIAfterLiterals, resAfterLiterals
  <2>2. Taken(stream, infoRead, infoOut, -1, inI + (Len(infoOut) - literalCopyStart) * 8,
              Append(res, CompressionPhrase(0, literalCopyStart, Len(infoOut), literalCopyStart,
                                            inI, infoOut)))
    BY <1>2, TakenFlush, ZenonT(60)
  <2> QED
    BY <2>1, <2>2, ZenonT(60)
<1> QED
  BY <1>1, <1>2, ZenonT(60)

\* Every step of CompressedStreamInfo.
LEMMA InfoStepInv ==
  ASSUME stream \in Seq(Phrase), InfoInv, CompressedStreamInfo \/ InfoStep PROVE InfoInv'
<1>0. Taken(stream, infoRead, infoOut, literalCopyStart, inI, res)
  BY ZenonT(60) DEF InfoInv
<1>1. CASE CompressedStreamInfo
  <2>1. /\ stream' = stream /\ infoRead' = 0 /\ infoOut' = dictData /\ literalCopyStart' = -1
        /\ inI' = 0 /\ res' = <<>>
    BY <1>1, ZenonT(60) DEF CompressedStreamInfo
  <2>2. Taken(stream, 0, dictData, -1, 0, <<>>)
    BY TakenNone, ZenonT(60)
  <2> QED
    BY <2>1, <2>2, ZenonT(60) DEF InfoInv, Taken
<1>2. CASE InfoLiteral
  <2>1. /\ infoRead < Len(stream) /\ canEncodeSymbol(stream[infoRead+1].symbol)
        /\ literalCopyStart' = From(infoOut, literalCopyStart)
        /\ infoOut' = Append(infoOut, stream[infoRead+1].symbol)
        /\ infoRead' = infoRead + 1 /\ pc' = "info" /\ stream' = stream /\ inI' = inI /\ res' = res
    BY <1>2, ZenonT(60) DEF InfoLiteral, InfoReading, infoPhrase, From
  <2>2. Taken(stream, infoRead + 1, Append(infoOut, stream[infoRead+1].symbol),
              From(infoOut, literalCopyStart), inI, res)
    BY <1>0, <2>1, TakenLiteral, ZenonT(60)
  <2> QED
    BY <2>1, <2>2, ZenonT(60) DEF InfoInv, Taken
<1>3. CASE InfoRef
  <2>1. PICK a, m, t : /\ a = infoPhrase.address + 1 /\ m = infoPhrase.length + 1
                       /\ t = CopyBytes(infoOut, a, m)
    BY ZenonT(60)
  <2>2. PICK z, q : z = inIAfterLiterals /\ q = resAfterLiterals
    BY ZenonT(60)
  <2>3. /\ infoRead < Len(stream) /\ ~ canEncodeSymbol(stream[infoRead+1].symbol)
        /\ a <= Len(infoOut) /\ infoOut' = t
        /\ res' = Append(q, CompressionPhrase(stream[infoRead+1].symbol, Len(t) - m, Len(t),
                                              Len(t) - m - a, z, t))
        /\ inI' = z + TypeOf(stream[infoRead+1].symbol).NbBitsBackRef
        /\ literalCopyStart' = -1 /\ infoRead' = infoRead + 1 /\ pc' = "info" /\ stream' = stream
    BY <1>3, <2>1, <2>2, ZenonT(60) DEF InfoRef, InfoReading, infoPhrase
  <2>4. NextRef(stream, infoRead, infoOut, a, m, t)
    BY <2>1, <2>3, ZenonT(60) DEF NextRef, infoPhrase
  <2>5. Taken(stream, infoRead, infoOut, -1, z, q)
    BY <1>0, <2>2, AfterLiterals, ZenonT(60)
  <2>6. Taken(stream, infoRead + 1, t, -1,
              z + TypeOf(stream[infoRead+1].symbol).NbBitsBackRef,
              Append(q, CompressionPhrase(stream[infoRead+1].symbol, Len(t) - m, Len(t),
                                          Len(t) - m - a, z, t)))
    BY <2>4, <2>5, TakenRef, ZenonT(60)
  <2> QED
    BY <2>3, <2>6, ZenonT(60) DEF InfoInv, Taken
<1>4. CASE InfoPanics
  <2>1. /\ pc' = "panic" /\ stream' = stream
        /\ UNCHANGED <<infoRead, infoOut, literalCopyStart, inI, res>>
    BY <1>4, ZenonT(60) DEF InfoPanics, infoVars
  <2>2. pc' \notin {"idle", "decompress"}
    BY <2>1, ZenonT(60)
  <2> QED
    BY <1>0, <2>1, <2>2, ZenonT(60) DEF InfoInv, Taken
<1>5. CASE InfoReturns
  <2>1. /\ res' = resAfterLiterals /\ inI' = inIAfterLiterals /\ literalCopyStart' = -1
        /\ stream' = stream /\ infoRead' = infoRead /\ infoOut' = infoOut
    BY <1>5, ZenonT(60) DEF InfoReturns
  <2>2. Taken(stream, infoRead, infoOut, -1, inIAfterLiterals, resAfterLiterals)
    BY <1>0, AfterLiterals, ZenonT(60)
  <2> QED
    BY <2>1, <2>2, ZenonT(60) DEF InfoInv, Taken
<1> QED
  BY <1>1, <1>2, <1>3, <1>4, <1>5, ZenonT(60) DEF InfoStep

-----------------------------------------------------------------------------
(* Both. *)

\* AnyInv holds at first, and every step keeps it.
LEMMA AnyInvInit == Init => AnyInv
<1> SUFFICES ASSUME Init PROVE AnyInv
  BY ZenonT(60)
<1>1. stream \in Seq(Phrase) /\ pc = "idle" /\ ReadInit /\ InfoInit
  BY StreamsAssumption, ZenonT(60) DEF Init
<1>2. ReadInv
  BY <1>1, ReadInvFresh, ZenonT(60) DEF ReadInit
<1>3. Taken(stream, 0, dictData, -1, 0, <<>>)
  BY <1>1, TakenNone, ZenonT(60)
<1>4. InfoInv
  BY <1>1, <1>3, ZenonT(60) DEF InfoInv, InfoInit
<1> QED
  BY <1>1, <1>2, <1>4, ZenonT(60) DEF AnyInv

\* Every step keeps it.
LEMMA AnyInvNext == AnyInv /\ [Next]_vars => AnyInv'
<1> SUFFICES ASSUME AnyInv, [Next]_vars PROVE AnyInv'
  BY ZenonT(60)
<1>0. pc \in {"idle", "decompress", "info", "panic"} /\ ReadInv /\ InfoInv /\ stream \in Seq(Phrase)
  BY ZenonT(60) DEF AnyInv, ReadInv
<1>1. CASE (Decompress \/ ReadStep) /\ UNCHANGED infoVars
  <2>1. ReadInv'
    BY <1>0, <1>1, ReadStepInv, ZenonT(60)
  <2>2. /\ pc' \in {"idle", "decompress"} /\ pc \in {"idle", "decompress"} /\ stream' = stream
        /\ UNCHANGED <<infoRead, infoOut, literalCopyStart, inI, res>>
    BY <1>1, ZenonT(60) DEF Decompress, ReadStep, ReadLiteral, ReadShort, ReadDynamicInOutput,
                ReadDynamicInDict, CopyByte, DecompressReturns, StartCopy, Reading, infoVars
  <2>3. InfoInv'
    BY <1>0, <2>2, ZenonT(60) DEF InfoInv, Taken
  <2> QED
    BY <2>1, <2>2, <2>3, ZenonT(60) DEF AnyInv
<1>2. CASE (CompressedStreamInfo \/ InfoStep) /\ UNCHANGED readVars
  <2>1. InfoInv'
    BY <1>0, <1>2, InfoStepInv, ZenonT(60)
  <2>2. /\ pc' \in {"idle", "decompress", "info", "panic"} /\ stream' = stream
        /\ UNCHANGED <<nRead, out, copy, err>>
    BY <1>2, ZenonT(60) DEF CompressedStreamInfo, InfoStep, InfoLiteral, InfoRef, InfoPanics, InfoReturns,
                InfoReading, readVars
  <2>3. ReadInv'
    BY <1>0, <2>2, ZenonT(60) DEF ReadInv, BetweenPhrases, InsideRef, Reaches
  <2> QED
    BY <2>1, <2>2, <2>3, ZenonT(60) DEF AnyInv
<1>3. CASE UNCHANGED vars
  <2>1. UNCHANGED <<stream, pc, nRead, out, copy, err, infoRead, infoOut, literalCopyStart, inI, res>>
    BY <1>3, ZenonT(60) DEF vars, readVars, infoVars
  <2>2. ReadInv'
    BY <1>0, <2>1, ZenonT(60) DEF ReadInv, BetweenPhrases, InsideRef, Reaches
  <2>3. InfoInv'
    BY <1>0, <2>1, ZenonT(60) DEF InfoInv, Taken
  <2> QED
    BY <1>0, <2>1, <2>2, <2>3, ZenonT(60) DEF AnyInv
<1> QED
  BY <1>1, <1>2, <1>3, ZenonT(60) DEF Next

\* AnyInv is an invariant: both decoders hold, at every step and for every stream, the
\* meaning of the phrases they have read (decompress.go:44-83, 97-206).
THEOREM AnyInvariant == Spec => []AnyInv
  BY AnyInvInit, AnyInvNext, PTL DEF Spec

\* The types of the variables of both decoders (decompress.go:19-206).
THEOREM AnyTyped == Spec => []AnyTypeOK
<1>1. AnyInv => AnyTypeOK
  <2> SUFFICES ASSUME AnyInv PROVE AnyTypeOK
    BY ZenonT(60)
  <2>1. /\ stream \in Seq(Phrase) /\ nRead \in 0..Len(stream) /\ out \in Seq(Byte)
        /\ copy \in [symbol : Byte, address : Nat \ {0}, left : Nat] /\ err \in BOOLEAN
        /\ pc \in {"idle", "decompress", "info", "panic"}
        /\ Taken(stream, infoRead, infoOut, literalCopyStart, inI, res)
    BY ZenonT(60) DEF AnyInv, ReadInv, InfoInv
  <2>2. PICK from : from = From(infoOut, literalCopyStart)
    BY ZenonT(60)
  <2>3. /\ infoRead \in 0..Len(stream) /\ infoOut \in Seq(Byte) /\ Len(infoOut) \in Nat
        /\ dictLen \in Nat /\ inI \in Nat
        /\ from \in Nat /\ dictLen <= from /\ from <= Len(infoOut)
    BY <2>1, <2>2, TakenFacts, ZenonT(60)
  <2>4. literalCopyStart \in {-1} \cup (dictLen..Len(infoOut))
    <3>1. CASE literalCopyStart = -1
      BY <3>1, ZenonT(60)
    <3>2. CASE literalCopyStart # -1
      <4>1. literalCopyStart = from
        BY <2>2, <3>2, ZenonT(60) DEF From
      <4>2. from \in dictLen..Len(infoOut)
        BY <2>3
      <4> QED
        BY <4>1, <4>2, ZenonT(60)
    <3> QED
      BY <3>1, <3>2, ZenonT(60)
  <2> QED
    BY <2>1, <2>3, <2>4, ZenonT(60) DEF AnyTypeOK
<1> QED
  BY <1>1, AnyInvariant, PTL
\* What is behind the dictionary.
LEMMA OutputOf ==
  ASSUME NEW t \in Seq(Byte)
  PROVE  Output(dictData \o t) = t
<1>1. PICK u, e, c : u = dictData \o t /\ e = Len(t) /\ c = SubSeq(u, dictLen + 1, dictLen + e)
  BY ZenonT(60)
<1>2. dictLen \in Nat /\ e \in Nat /\ e \in 0..Len(t) /\ e = Len(t)
  BY <1>1, LenNat, DictFacts
<1>3. /\ u \in Seq(Byte) /\ Len(u) = dictLen + e
      /\ \A k \in 0..(e-1) : At(u, dictLen + k) = At(t, k)
  <2>1. Text(t, e) = u
    BY <1>1, TextAll, ZenonT(60)
  <2>2. /\ Text(t, e) \in Seq(Byte) /\ Len(Text(t, e)) = dictLen + e
        /\ \A k \in 0..(e-1) : At(Text(t, e), dictLen + k) = At(t, k)
    BY <1>2, TextFacts, ZenonT(60)
  <2> QED
    BY <2>1, <2>2, ZenonT(60)
<1>4. dictLen + e <= Len(u)
  BY <1>2, <1>3
<1>5. c \in Seq(Byte) /\ Len(c) = e /\ \A k \in 1..e : c[k] = u[dictLen + k]
  BY <1>1, <1>2, <1>3, <1>4, SliceFacts, ZenonT(60)
<1>6. ASSUME NEW k \in 1..Len(c) PROVE c[k] = t[k]
  <2>1. PICK j : j = k - 1
    BY ZenonT(60)
  <2>2. j \in 0..(e-1) /\ j + 1 = k /\ (dictLen + j) + 1 = dictLen + k /\ k \in 1..e
    BY <1>2, <1>5, <2>1, SMTT(60)
  <2>3. u[dictLen + k] = t[k]
    BY <1>3, <2>2, ZenonT(60) DEF At
  <2> QED
    BY <1>5, <2>2, <2>3, ZenonT(60)
<1>7. c = t
  BY <1>2, <1>5, <1>6, SameElements, ZenonT(60)
<1> QED
  BY <1>1, <1>3, <1>7, ZenonT(60) DEF Output

\* When Decompress has read everything, its output is the meaning of the stream.
LEMMA ReadAll ==
  ASSUME AnyInv, nRead = Len(stream), copy.left = 0, ~ err
  PROVE  HasMeaning(stream) /\ dictData \o out = Meaning(stream) /\ out = Output(Meaning(stream))
<1>1. BetweenPhrases /\ stream \in Seq(Phrase) /\ out \in Seq(Byte)
  <2>1. ~ InsideRef
    BY DEF InsideRef
  <2> QED
    BY <2>1, ZenonT(60) DEF AnyInv, ReadInv
<1>2. dictData \o out = Meaning(stream) /\ Reaches(Len(stream))
  BY <1>1, ZenonT(60) DEF BetweenPhrases, Meaning
<1>3. HasMeaning(stream)
  <2>1. \A n \in DOMAIN stream : n \in 1..Len(stream)
    BY <1>1
  <2> QED
    BY <1>2, <2>1, ZenonT(60) DEF HasMeaning, Reaches
<1>4. Output(dictData \o out) = out
  BY <1>1, OutputOf, ZenonT(60)
<1> QED
  BY <1>2, <1>3, <1>4, ZenonT(60)

\* Whatever the stream, what Decompress returns without an error is what the README
\* says the stream means, and the stream has a meaning (decompress.go:44-83).
THEOREM DecompressIsRight == Spec => []DecodesMeaning
<1>1. AnyInv => DecodesMeaning
  <2> SUFFICES ASSUME AnyInv, Finished, ~ err
               PROVE  HasMeaning(stream) /\ out = Output(Meaning(stream))
    BY ZenonT(60) DEF DecodesMeaning
  <2>1. nRead = Len(stream) /\ copy.left = 0
    BY ZenonT(60) DEF Finished
  <2> QED
    BY <2>1, ReadAll, ZenonT(60)
<1> QED
  BY <1>1, AnyInvariant, PTL

-----------------------------------------------------------------------------
(* What Decompress refuses. *)

\* The first n phrases are taken.
Takes(n) == \A k \in 1..n : Admitted(stream[k], Len(MeaningOf(stream, k - 1)) - dictLen)

\* What was read so far was to be taken, and what was refused was not.  A short
\* reference is refused late, when its first byte is copied.
RefusalInv ==
  /\ err => ~ Accepted(stream)
  /\ ~ err /\ copy.left = 0 => Takes(nRead)
  /\ ~ err /\ copy.left > 0 /\ copy.address <= Len(out) => Takes(nRead)
  /\ ~ err /\ copy.left > 0 /\ ~ (copy.address <= Len(out)) => ~ Accepted(stream)

\* One more phrase that is taken, or refused.
LEMMA TakesMore ==
  ASSUME stream \in Seq(Phrase), NEW n \in Nat, n < Len(stream), NEW s,
         s = Len(MeaningOf(stream, n)) - dictLen, Takes(n)
  PROVE  /\ Admitted(stream[n+1], s) => Takes(n + 1)
         /\ ~ Admitted(stream[n+1], s) => ~ Accepted(stream)
<1>1. n + 1 \in DOMAIN stream /\ (n + 1) - 1 = n
  BY LenNat
<1>2. ASSUME Admitted(stream[n+1], s) PROVE Takes(n + 1)
  <2>1. ASSUME NEW k \in 1..(n+1)
        PROVE  Admitted(stream[k], Len(MeaningOf(stream, k - 1)) - dictLen)
    <3>1. CASE k \in 1..n
      BY <3>1, ZenonT(60) DEF Takes
    <3>2. CASE k = n + 1
      <4>1. k - 1 = n
        BY <3>2
      <4> QED
        BY <1>2, <3>2, <4>1, ZenonT(60)
    <3> QED
      BY <3>1, <3>2
  <2> QED
    BY <2>1, ZenonT(60) DEF Takes
<1>3. ASSUME Accepted(stream) PROVE Admitted(stream[n+1], s)
  <2>1. Admitted(stream[n+1], Len(MeaningOf(stream, (n + 1) - 1)) - dictLen)
    BY <1>1, <1>3, ZenonT(60) DEF Accepted
  <2> QED
    BY <1>1, <2>1, ZenonT(60)
<1> QED
  BY <1>2, <1>3, ZenonT(60)

\* Before a phrase: what the phrase decides.
LEMMA ReadingDecides ==
  ASSUME ReadInv, RefusalInv, Reading
  PROVE  /\ Admitted(phrase, Len(out)) => Takes(nRead + 1)
         /\ ~ Admitted(phrase, Len(out)) => ~ Accepted(stream)
<1>1. /\ nRead \in Nat /\ nRead < Len(stream) /\ stream \in Seq(Phrase) /\ ~ err
      /\ copy.left = 0 /\ phrase = stream[nRead+1] /\ out \in Seq(Byte)
      /\ dictData \o out = MeaningOf(stream, nRead)
      /\ Len(dictData \o out) = dictLen + Len(out)
  BY ReadingFacts, ZenonT(60)
<1>2. Takes(nRead)
  BY <1>1, ZenonT(60) DEF RefusalInv
<1>3. PICK l, s : l = Len(MeaningOf(stream, nRead)) /\ s = Len(out)
  BY ZenonT(60)
<1>4. l = dictLen + s /\ dictLen \in Nat /\ s \in Nat
  BY <1>1, <1>3, DictFacts, LenNat, ZenonT(60)
<1>5. s = l - dictLen
  BY <1>4
<1>6. s = Len(MeaningOf(stream, nRead)) - dictLen
  BY <1>3, <1>5, ZenonT(60)
<1>7. /\ Admitted(stream[nRead+1], s) => Takes(nRead + 1)
      /\ ~ Admitted(stream[nRead+1], s) => ~ Accepted(stream)
  BY <1>1, <1>2, <1>6, TakesMore, ZenonT(60)
<1> QED
  BY <1>1, <1>3, <1>7, ZenonT(60)

\* A step that leaves the stream alone leaves alone what is taken of it.
LEMMA SameTaken ==
  ASSUME stream' = stream, NEW n
  PROVE  (n = nRead' /\ Takes(n) => Takes(nRead)') /\ (Accepted(stream)' <=> Accepted(stream))
  BY ZenonT(60) DEF Takes, Accepted

\* StartCopy.
LEMMA StartCopyRefusal ==
  ASSUME ReadInv, RefusalInv, Reading, StartCopy, phrase.symbol \in {SymbolShort, SymbolDynamic},
         phrase.symbol # SymbolShort => refAddress <= Len(out)
  PROVE  RefusalInv'
<1>1. /\ copy' = [symbol |-> phrase.symbol, address |-> refAddress, left |-> refLength]
      /\ nRead' = nRead + 1 /\ stream' = stream /\ out' = out /\ err' = err
  BY ZenonT(60) DEF StartCopy
<1>2. /\ out \in Seq(Byte) /\ ~ err /\ phrase.length \in Nat /\ phrase.address \in Nat
  BY ReadingFacts, ZenonT(60)
<1>3. PICK a, s : a = phrase.address + 1 /\ s = Len(out)
  BY ZenonT(60)
<1>4. a \in Nat /\ s \in Nat
  BY <1>2, <1>3, LenNat
<1>5. copy'.address = a /\ copy'.left > 0
  <2>1. phrase.length + 1 > 0
    BY <1>2
  <2> QED
    BY <1>1, <1>3, <2>1, ZenonT(60) DEF refAddress, refLength
<1>6. a <= s => Admitted(phrase, s)
  <2>1. a <= s => ~ (a > s)
    BY <1>4
  <2> QED
    BY <1>3, <2>1, ZenonT(60) DEF Admitted
<1>7. ~ (a <= s) => ~ Admitted(phrase, s)
  BY <1>3, ZenonT(60) DEF Admitted, refAddress
<1>8. /\ Admitted(phrase, s) => Takes(nRead + 1)
      /\ ~ Admitted(phrase, s) => ~ Accepted(stream)
  BY <1>3, ReadingDecides, ZenonT(60)
<1>9. a <= s => Takes(nRead)'
  BY <1>1, <1>6, <1>8, SameTaken, ZenonT(60)
<1>10. ~ (a <= s) => ~ Accepted(stream)'
  BY <1>1, <1>7, <1>8, SameTaken, ZenonT(60)
<1>11. copy'.left # 0
  BY <1>5
<1> QED
  BY <1>1, <1>2, <1>3, <1>5, <1>9, <1>10, <1>11, ZenonT(60) DEF RefusalInv

\* CopyByte.
LEMMA CopyByteRefusal ==
  ASSUME ReadInv, RefusalInv, CopyByte
  PROVE  RefusalInv'
<1>1. /\ ~ err /\ copy.left > 0 /\ stream' = stream /\ nRead' = nRead /\ out \in Seq(Byte)
      /\ copy \in [symbol : Byte, address : Nat \ {0}, left : Nat]
  BY ZenonT(60) DEF CopyByte, ReadInv
<1>2. PICK a, s : a = copy.address /\ s = Len(out)
  BY ZenonT(60)
<1>3. a \in Nat /\ s \in Nat
  BY <1>1, <1>2, LenNat
<1>4. CASE copy.symbol = SymbolShort /\ copy.address > Len(out)
  <2>1. err' = TRUE
    BY <1>4, ZenonT(60) DEF CopyByte
  <2>2. ~ (a <= s)
    BY <1>2, <1>3, <1>4
  <2>3. ~ Accepted(stream)
    BY <1>1, <1>2, <2>2, ZenonT(60) DEF RefusalInv
  <2>4. ~ Accepted(stream)'
    BY <1>1, <2>3, SameTaken, ZenonT(60)
  <2> QED
    BY <2>1, <2>4, ZenonT(60) DEF RefusalInv
<1>5. CASE ~ (copy.symbol = SymbolShort /\ copy.address > Len(out))
  <2>1. /\ out' = Append(out, At(out, Len(out) - copy.address))
        /\ copy' = [copy EXCEPT !.left = @ - 1] /\ err' = err
    BY <1>5, ZenonT(60) DEF CopyByte
  <2>2. copy.symbol # SymbolShort => a <= s
    <3>1. ~ BetweenPhrases
      BY <1>1 DEF BetweenPhrases
    <3>2. InsideRef
      BY <1>1, <3>1, ZenonT(60) DEF ReadInv
    <3> QED
      BY <1>2, <3>2, ZenonT(60) DEF InsideRef
  <2>3. a <= s
    BY <1>2, <1>3, <1>5, <2>2
  <2>4. Takes(nRead)'
    <3>1. Takes(nRead)
      BY <1>1, <1>2, <2>3, ZenonT(60) DEF RefusalInv
    <3> QED
      BY <1>1, <3>1, SameTaken, ZenonT(60)
  <2>5. copy'.address = a
    BY <1>1, <1>2, <2>1, ZenonT(60)
  <2>6. a <= Len(out')
    <3>1. Len(out') = s + 1
      BY <1>1, <1>2, <2>1
    <3> QED
      BY <1>3, <2>3, <3>1
  <2> QED
    BY <1>1, <2>1, <2>4, <2>5, <2>6, ZenonT(60) DEF RefusalInv
<1> QED
  BY <1>4, <1>5, ZenonT(60)

\* ReadDynamicInDict.
LEMMA ReadDynamicInDictRefusal ==
  ASSUME ReadInv, RefusalInv, ReadDynamicInDict
  PROVE  RefusalInv'
<1>1. Reading /\ phrase.symbol = SymbolDynamic /\ refAddress > Len(out)
      /\ stream' = stream /\ copy' = copy /\ copy.left = 0
  BY ZenonT(60) DEF ReadDynamicInDict, Reading
<1>2. /\ out \in Seq(Byte) /\ ~ err /\ phrase.length \in Nat /\ phrase.address \in Nat
  BY <1>1, ReadingFacts, ZenonT(60)
<1>3. PICK x, a, m, s, from : /\ x = phrase.length /\ a = phrase.address + 1 /\ m = x + 1
                              /\ s = Len(out) /\ from = dictLen - (a - s)
  BY ZenonT(60)
<1>4. /\ x \in Nat /\ a \in Nat /\ m \in Nat /\ s \in Nat /\ dictLen \in Nat /\ from \in Int
      /\ from + x + 1 = from + m
  <2>1. x \in Nat /\ s \in Nat /\ dictLen \in Nat
    BY <1>2, <1>3, LenNat, DictFacts, ZenonT(60)
  <2>2. a \in Nat
    BY <1>2, <1>3
  <2>3. m = x + 1 /\ from = dictLen - (a - s)
    BY <1>3, ZenonT(60)
  <2> QED
    BY <2>1, <2>2, <2>3
<1>5. a > s /\ from = dictStart /\ m = refLength
  BY <1>1, <1>3, ZenonT(60) DEF refAddress, refLength, dictStart
<1>6. Admitted(phrase, s) <=> from >= 0 /\ from + m <= dictLen
  <2>1. phrase.symbol # SymbolShort
    BY <1>1 DEF SymbolDynamic, SymbolShort
  <2>2. Admitted(phrase, s) <=> (a > s => from >= 0 /\ from + x + 1 <= dictLen)
    <3>1. Admitted(phrase, s) <=>
            (phrase.address + 1 > s =>
               /\ dictLen - (phrase.address + 1 - s) >= 0
               /\ dictLen - (phrase.address + 1 - s) + phrase.length + 1 <= dictLen)
      BY <1>1, <2>1, ZenonT(60) DEF Admitted
    <3>2. phrase.address + 1 = a /\ phrase.length = x /\ dictLen - (a - s) = from
      BY <1>3, ZenonT(60)
    <3>3. (phrase.address + 1 > s =>
             /\ dictLen - (phrase.address + 1 - s) >= 0
             /\ dictLen - (phrase.address + 1 - s) + phrase.length + 1 <= dictLen)
          <=> (a > s => from >= 0 /\ from + x + 1 <= dictLen)
      BY <1>2, <1>4, <3>2
    <3> QED
      BY <3>1, <3>3, ZenonT(60)
  <2> QED
    BY <1>4, <1>5, <2>2, ZenonT(60)
<1>7. /\ Admitted(phrase, s) => Takes(nRead + 1)
      /\ ~ Admitted(phrase, s) => ~ Accepted(stream)
  BY <1>1, <1>3, ReadingDecides, ZenonT(60)
<1>8. CASE from < 0 \/ from > dictLen \/ from + m > dictLen
  <2>1. err' = TRUE
    BY <1>5, <1>8, ZenonT(60) DEF ReadDynamicInDict
  <2>2. ~ (from >= 0 /\ from + m <= dictLen)
    BY <1>4, <1>8
  <2>3. ~ Accepted(stream)'
    BY <1>1, <1>6, <1>7, <2>2, SameTaken, ZenonT(60)
  <2> QED
    BY <2>1, <2>3, ZenonT(60) DEF RefusalInv
<1>9. CASE ~ (from < 0 \/ from > dictLen \/ from + m > dictLen)
  <2>1. err' = err /\ nRead' = nRead + 1
    BY <1>5, <1>9, ZenonT(60) DEF ReadDynamicInDict
  <2>2. from >= 0 /\ from + m <= dictLen
    BY <1>4, <1>9
  <2>3. Takes(nRead)'
    BY <1>1, <1>6, <1>7, <2>1, <2>2, SameTaken, ZenonT(60)
  <2>4. copy'.left = 0 /\ ~ (0 > 0)
    BY <1>1
  <2> QED
    BY <1>2, <2>1, <2>3, <2>4, ZenonT(60) DEF RefusalInv
<1> QED
  BY <1>8, <1>9, ZenonT(60)

\* Every step keeps the invariant.
LEMMA RefusalInvNext ==
  ASSUME AnyInv, RefusalInv, [Next]_vars
  PROVE  RefusalInv'
<1>1. ReadInv
  BY ZenonT(60) DEF AnyInv
<1>2. CASE UNCHANGED <<stream, nRead, out, copy, err>>
  BY <1>2, ZenonT(60) DEF RefusalInv, Takes
<1>3. CASE Decompress
  <2>1. nRead' = 0 /\ copy' = NoCopy /\ err' = FALSE
    BY <1>3, ZenonT(60) DEF Decompress
  <2>2. Takes(nRead)'
    <3>1. \A k \in 1..nRead' : FALSE
      BY <2>1
    <3> QED
      BY <3>1, ZenonT(60) DEF Takes
  <2>3. copy'.left = 0 /\ ~ (0 > 0)
    BY <2>1 DEF NoCopy
  <2> QED
    BY <2>1, <2>2, <2>3, ZenonT(60) DEF RefusalInv
<1>4. CASE ReadLiteral
  <2>1. Reading /\ canEncodeSymbol(phrase.symbol) /\ nRead' = nRead + 1
        /\ stream' = stream /\ copy' = copy /\ err' = err /\ ~ err /\ copy.left = 0
    BY <1>4, ZenonT(60) DEF ReadLiteral, Reading
  <2>2. Admitted(phrase, Len(out))
    BY <2>1, ZenonT(60) DEF Admitted, canEncodeSymbol
  <2>3. Takes(nRead)'
    BY <1>1, <2>1, <2>2, ReadingDecides, SameTaken, ZenonT(60)
  <2>4. ~ (0 > 0)
    OBVIOUS
  <2> QED
    BY <2>1, <2>3, <2>4, ZenonT(60) DEF RefusalInv
<1>5. CASE ReadShort \/ ReadDynamicInOutput
  <2>1. /\ Reading /\ StartCopy /\ phrase.symbol \in {SymbolShort, SymbolDynamic}
        /\ (phrase.symbol # SymbolShort => refAddress <= Len(out))
    BY <1>5, ZenonT(60) DEF ReadShort, ReadDynamicInOutput
  <2> QED
    BY <1>1, <2>1, StartCopyRefusal, ZenonT(60)
<1>6. CASE ReadDynamicInDict
  BY <1>1, <1>6, ReadDynamicInDictRefusal, ZenonT(60)
<1>7. CASE CopyByte
  BY <1>1, <1>7, CopyByteRefusal, ZenonT(60)
<1>8. \/ UNCHANGED <<stream, nRead, out, copy, err>>
      \/ Decompress \/ ReadLiteral \/ ReadShort \/ ReadDynamicInOutput \/ ReadDynamicInDict
      \/ CopyByte
  <2>1. CASE (Decompress \/ ReadStep) /\ UNCHANGED infoVars
    BY <2>1, ZenonT(60) DEF ReadStep, DecompressReturns, readVars
  <2>2. CASE (CompressedStreamInfo \/ InfoStep) /\ UNCHANGED readVars
    BY <2>2, ZenonT(60) DEF CompressedStreamInfo, InfoStep, InfoLiteral, InfoRef, InfoPanics,
                InfoReturns, InfoReading, readVars
  <2>3. CASE UNCHANGED vars
    BY <2>3, ZenonT(60) DEF vars, readVars
  <2> QED
    BY <2>1, <2>2, <2>3, ZenonT(60) DEF Next
<1> QED
  BY <1>2, <1>3, <1>4, <1>5, <1>6, <1>7, <1>8, ZenonT(60)

\* decompress.go:43-84: Decompress returns an error exactly for the streams with a
\* reference that leads outside of what it may copy from.
THEOREM RefusesRight == Spec => []RefusesExactly
<1>1. Init => RefusalInv
  <2> SUFFICES ASSUME Init PROVE RefusalInv
    BY ZenonT(60)
  <2>1. nRead = 0 /\ copy = NoCopy /\ err = FALSE
    BY ZenonT(60) DEF Init, ReadInit
  <2>2. Takes(0)
    <3>1. \A k \in 1..0 : FALSE
      OBVIOUS
    <3> QED
      BY <3>1, ZenonT(60) DEF Takes
  <2>3. copy.left = 0 /\ ~ (0 > 0)
    BY <2>1 DEF NoCopy
  <2> QED
    BY <2>1, <2>2, <2>3, ZenonT(60) DEF RefusalInv
<1>2. AnyInv /\ RefusalInv /\ [Next]_vars => RefusalInv'
  BY RefusalInvNext, ZenonT(60)
<1>3. AnyInv /\ RefusalInv => RefusesExactly
  <2> SUFFICES ASSUME AnyInv, RefusalInv, Finished, ~ err PROVE Accepted(stream)
    BY ZenonT(60) DEF RefusesExactly, RefusalInv
  <2>1. Takes(Len(stream)) /\ stream \in Seq(Phrase)
    BY ZenonT(60) DEF Finished, RefusalInv, AnyInv, ReadInv
  <2>2. \A n \in DOMAIN stream : n \in 1..Len(stream)
    BY <2>1
  <2> QED
    BY <2>1, <2>2, ZenonT(60) DEF Accepted, Takes
<1> QED
  BY <1>1, <1>2, <1>3, AnyInvariant, PTL DEF Spec

-----------------------------------------------------------------------------
(* The two decoders. *)

\* When CompressedStreamInfo has returned, its pieces are the meaning of the stream and
\* lie one behind the other.
LEMMA InfoAll ==
  ASSUME AnyInv, InfoDone
  PROVE  /\ Contents(res) = Output(Meaning(stream))
         /\ Contiguous(res, Len(infoOut), inI) /\ res \in Seq(Reported)
<1>1. /\ stream \in Seq(Phrase) /\ Taken(stream, infoRead, infoOut, literalCopyStart, inI, res)
      /\ literalCopyStart = -1 /\ infoRead = Len(stream)
  BY ZenonT(60) DEF AnyInv, ReadInv, InfoInv, InfoDone
<1>2. From(infoOut, literalCopyStart) = Len(infoOut)
  BY <1>1, ZenonT(60) DEF From
<1>3. /\ infoOut = MeaningOf(stream, infoRead) /\ res \in Seq(Reported)
      /\ Contents(res) = SubSeq(infoOut, dictLen + 1, Len(infoOut))
      /\ Contiguous(res, Len(infoOut), inI)
  <2>1. PICK from : from = From(infoOut, literalCopyStart)
    BY ZenonT(60)
  <2>2. /\ infoOut = MeaningOf(stream, infoRead) /\ res \in Seq(Reported)
        /\ Contents(res) = SubSeq(infoOut, dictLen + 1, from)
        /\ Contiguous(res, from, inI)
    BY <1>1, <2>1, TakenFacts, ZenonT(60)
  <2> QED
    BY <1>2, <2>1, <2>2, ZenonT(60)
<1> QED
  BY <1>1, <1>3, ZenonT(60) DEF Output, Meaning

\* The two decoders agree: what CompressedStreamInfo reports piece by piece is what
\* Decompress returns, if that accepts the stream (decompress.go:97-206).
THEOREM DecodersAgree == Spec => []InfoAgrees
<1>1. AnyInv => InfoAgrees
  <2> SUFFICES ASSUME AnyInv, InfoDone, nRead = Len(stream), copy.left = 0, ~ err
               PROVE  Contents(res) = out
    BY ZenonT(60) DEF InfoAgrees
  <2>1. out = Output(Meaning(stream))
    BY ReadAll, ZenonT(60)
  <2>2. Contents(res) = Output(Meaning(stream))
    BY InfoAll, ZenonT(60)
  <2> QED
    BY <2>1, <2>2, ZenonT(60)
<1> QED
  BY <1>1, AnyInvariant, PTL

\* Each reported piece starts where the one before it ends, in the output and in the
\* compressed stream, and the last ends where the streams end (decompress.go:119-173).
THEOREM PiecesAreContiguous == Spec => []InfoContiguous
<1>1. AnyInv => InfoContiguous
  <2> SUFFICES ASSUME AnyInv, InfoDone, res # <<>> PROVE InfoContiguous
    BY ZenonT(60) DEF InfoContiguous
  <2>1. PICK N, L : N = Len(res) /\ L = Len(infoOut)
    BY ZenonT(60)
  <2>2. Contiguous(res, L, inI) /\ res \in Seq(Reported)
    BY <2>1, InfoAll, ZenonT(60)
  <2>3. N \in Nat /\ N # 0 /\ DOMAIN res = 1..N /\ 1 \in 1..N
    BY <2>1, <2>2
  <2>4. PICK ends : ends = Append(res, [StartDecompressed |-> L, StartCompressed |-> inI])
    BY ZenonT(60)
  <2>5. /\ \A n \in 1..N : ends[n] = res[n]
        /\ ends[N+1] = [StartDecompressed |-> L, StartCompressed |-> inI]
    BY <2>1, <2>2, <2>4
  <2>6. ASSUME NEW n \in 1..(N+1)
        PROVE  StartOf(res, n, L, inI) = <<ends[n].StartDecompressed, ends[n].StartCompressed>>
    <3>1. CASE n \in 1..N
      <4>1. StartOf(res, n, L, inI) = <<res[n].StartDecompressed, res[n].StartCompressed>>
        BY <2>1, <3>1, ZenonT(60) DEF StartOf
      <4> QED
        BY <2>5, <3>1, <4>1, ZenonT(60)
    <3>2. CASE n = N + 1
      <4>1. N + 1 \notin 1..Len(res)
        BY <2>1, <2>3, SMTT(60)
      <4>2. StartOf(res, n, L, inI) = <<L, inI>>
        BY <3>2, <4>1, ZenonT(60) DEF StartOf
      <4>3. ends[n].StartDecompressed = L /\ ends[n].StartCompressed = inI
        BY <2>5, <3>2, SMTT(60)
      <4> QED
        BY <4>2, <4>3, ZenonT(60)
    <3>3. n \in 1..N \/ n = N + 1
      BY <2>3, SMTT(60)
    <3> QED
      BY <3>1, <3>2, <3>3, ZenonT(60)
  <2>7. res[1].StartCompressed = 0 /\ res[1].StartDecompressed = dictLen
    <3>1. StartOf(res, 1, L, inI) = <<dictLen, 0>>
      BY <2>2, ZenonT(60) DEF Contiguous
    <3>2. StartOf(res, 1, L, inI) = <<res[1].StartDecompressed, res[1].StartCompressed>>
      BY <2>1, <2>3, ZenonT(60) DEF StartOf
    <3> QED
      BY <3>1, <3>2, SMTT(60)
  <2>8. ASSUME NEW n \in 1..N
        PROVE  /\ ends[n+1].StartDecompressed = res[n].StartDecompressed + res[n].Length
               /\ ends[n+1].StartCompressed = res[n].StartCompressed + ReportedBits(res[n])
    <3>1. n + 1 \in 1..(N+1)
      BY <2>3
    <3>2. StartOf(res, n + 1, L, inI)
            = <<ends[n+1].StartDecompressed, ends[n+1].StartCompressed>>
      BY <2>6, <3>1, ZenonT(60)
    <3>3. StartOf(res, n + 1, L, inI)
            = <<res[n].StartDecompressed + res[n].Length,
                res[n].StartCompressed + ReportedBits(res[n])>>
      BY <2>1, <2>2, ZenonT(60) DEF Contiguous
    <3> QED
      BY <3>2, <3>3, SMTT(60)
  <2> QED
    BY <2>1, <2>3, <2>4, <2>7, <2>8, ZenonT(60) DEF InfoContiguous, ReportedBits
<1> QED
  BY <1>1, AnyInvariant, PTL
===============================================================================
