---------------------------- MODULE StreamMeaning ----------------------------
(***************************************************************************)
(* What the README says a sequence of phrases means, and which sequences   *)
(* Decompress accepts: the reference against which the decoders and the    *)
(* bits of a compressor are checked.                                       *)
(***************************************************************************)
EXTENDS Phrases

\* n bytes are copied one by one from address bytes back; a copy may reach the
\* bytes it has itself put out.
CopyBytes(text, address, n) ==
  LET copied[k \in 0..n] ==
        IF k = 0 THEN text
        ELSE LET t == copied[k - 1] IN Append(t, At(t, Len(t) - address))
  IN  copied[n]

\* What a phrase adds to the text before it.
AddPhrase(text, ph) ==
  IF canEncodeSymbol(ph.symbol) THEN Append(text, ph.symbol)
  ELSE CopyBytes(text, ph.address + 1, ph.length + 1)

\* The dictionary, and behind it what the first n phrases decompress to: an offset
\* that leads to before the output leads to the dictionary, counted from its end.
MeaningOf(phrases, n) ==
  LET text[k \in 0..Len(phrases)] ==
        IF k = 0 THEN dictData ELSE AddPhrase(text[k - 1], phrases[k])
  IN  text[n]

Meaning(phrases) == MeaningOf(phrases, Len(phrases))

\* No reference leads to before the start of the dictionary.
HasMeaning(phrases) ==
  \A n \in DOMAIN phrases :
    ~ canEncodeSymbol(phrases[n].symbol) =>
      phrases[n].address + 1 <= Len(MeaningOf(phrases, n - 1))

\* Decompress takes ph when it has put out outSize bytes: a short reference stays
\* inside the output, and a dynamic one that leads to before it stays, with all the
\* bytes it copies, inside the dictionary.
Admitted(ph, outSize) ==
  LET from == dictLen - (ph.address + 1 - outSize)
  IN  /\ ph.symbol = SymbolShort => ph.address + 1 <= outSize
      /\ ph.symbol = SymbolDynamic /\ ph.address + 1 > outSize =>
           from >= 0 /\ from + ph.length + 1 <= dictLen

\* Decompress returns no error for the phrases.
Accepted(phrases) ==
  \A n \in DOMAIN phrases : Admitted(phrases[n], Len(MeaningOf(phrases, n - 1)) - dictLen)

\* What was decompressed, without the dictionary before it.
Output(text) == SubSeq(text, dictLen + 1, Len(text))

\* A piece text[start:end) of the output, as CompressedStreamInfo reports it.
CompressionPhrase(type, start, end, address, bits, text) ==
  [Type |-> type, Length |-> end - start, ReferenceAddress |-> address,
   StartDecompressed |-> start, StartCompressed |-> bits,
   Content |-> SubSeq(text, start + 1, end)]

\* What pieces of the output contain, one behind the other.
Contents(pieces) ==
  LET joined[n \in 0..Len(pieces)] ==
        IF n = 0 THEN <<>> ELSE joined[n - 1] \o pieces[n].Content
  IN  joined[Len(pieces)]
=============================================================================
