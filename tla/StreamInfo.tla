----------------------------- MODULE StreamInfo -----------------------------
(***************************************************************************)
(* CompressedStreamInfo on the phrases of a stream: a second decoder, that *)
(* puts its output behind the dictionary and records every back reference  *)
(* and every sequence of literals as a CompressionPhrase.  A step reads    *)
(* one phrase.                                                             *)
(***************************************************************************)
EXTENDS StreamMeaning

VARIABLES
  infoRead,          \* the number of phrases read
  infoOut,           \* out: the dictionary and what was decompressed
  literalCopyStart,  \* where the current literals start in infoOut, or -1
  inI,               \* the place in the compressed stream, in bits
  res                \* the CompressionPhrases

infoVars == <<infoRead, infoOut, literalCopyStart, inI, res>>

InfoInit ==
  infoRead = 0 /\ infoOut = dictData /\ literalCopyStart = -1 /\ inI = 0 /\ res = <<>>

\* CompressedStreamInfo is called.
CompressedStreamInfo ==
  /\ pc = "idle"
  /\ pc' = "info"
  /\ infoRead' = 0 /\ infoOut' = dictData /\ literalCopyStart' = -1 /\ inI' = 0 /\ res' = <<>>
  /\ UNCHANGED stream

\* Mutants: the literals before a reference are not reported; their bytes are
\* counted as bits.
resWithoutLiterals == res

inICountsBytes ==
  IF literalCopyStart = -1 THEN inI ELSE inI + (Len(infoOut) - literalCopyStart)

\* emitLiteralIfNecessary: what it leaves in res and in inI.
resAfterLiterals ==
  IF literalCopyStart = -1 THEN res
  ELSE Append(res, CompressionPhrase(0, literalCopyStart, Len(infoOut), literalCopyStart,
                                     inI, infoOut))

inIAfterLiterals ==
  IF literalCopyStart = -1 THEN inI ELSE inI + (Len(infoOut) - literalCopyStart) * 8

infoPhrase == stream[infoRead + 1]

InfoReading == pc = "info" /\ infoRead < Len(stream)

\* Mutant: the dictionary is not counted in.
InfoLiteralInOutput ==
  /\ InfoReading /\ canEncodeSymbol(infoPhrase.symbol)
  /\ literalCopyStart' = IF literalCopyStart = -1 THEN Len(infoOut) - dictLen ELSE literalCopyStart
  /\ infoOut' = Append(infoOut, infoPhrase.symbol)
  /\ infoRead' = infoRead + 1
  /\ UNCHANGED <<pc, stream, inI, res>>

InfoLiteral ==
  /\ InfoReading /\ canEncodeSymbol(infoPhrase.symbol)
  /\ literalCopyStart' = IF literalCopyStart = -1 THEN Len(infoOut) ELSE literalCopyStart
  /\ infoOut' = Append(infoOut, infoPhrase.symbol)
  /\ infoRead' = infoRead + 1
  /\ UNCHANGED <<pc, stream, inI, res>>

InfoRef ==
  LET address == infoPhrase.address + 1
      n == infoPhrase.length + 1
      text == CopyBytes(infoOut, address, n)
  IN  /\ InfoReading /\ ~ canEncodeSymbol(infoPhrase.symbol)
      /\ address <= Len(infoOut)
      /\ infoOut' = text
      /\ res' = Append(resAfterLiterals,
                       CompressionPhrase(infoPhrase.symbol, Len(text) - n, Len(text),
                                         Len(text) - n - address, inIAfterLiterals, text))
      /\ inI' = inIAfterLiterals + TypeOf(infoPhrase.symbol).NbBitsBackRef
      /\ literalCopyStart' = -1
      /\ infoRead' = infoRead + 1
      /\ UNCHANGED <<pc, stream>>

\* A reference beyond the start of the dictionary is an index out of range.
InfoPanics ==
  /\ InfoReading /\ ~ canEncodeSymbol(infoPhrase.symbol)
  /\ infoPhrase.address + 1 > Len(infoOut)
  /\ pc' = "panic"
  /\ UNCHANGED <<stream, infoVars>>

InfoReturns ==
  /\ pc = "info" /\ infoRead = Len(stream)
  /\ pc' = "idle"
  /\ res' = resAfterLiterals /\ inI' = inIAfterLiterals /\ literalCopyStart' = -1
  /\ UNCHANGED <<stream, infoRead, infoOut>>

InfoStep == InfoLiteral \/ InfoRef \/ InfoPanics \/ InfoReturns
=============================================================================
