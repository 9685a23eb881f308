---------------------------- MODULE Decompressor ----------------------------
(***************************************************************************)
(* Decompress on the phrases of a stream, with the dictionary that the     *)
(* stream was compressed with.  A step reads a phrase or copies one byte.  *)
(***************************************************************************)
EXTENDS Phrases

VARIABLES
  nRead,   \* the number of phrases read
  out,     \* the output buffer
  copy,    \* the copy in progress: its delimiter, its offset, the bytes left
  err      \* an error was returned

readVars == <<nRead, out, copy, err>>

NoCopy == [symbol |-> SymbolShort, address |-> 1, left |-> 0]

ReadInit == nRead = 0 /\ out = <<>> /\ copy = NoCopy /\ err = FALSE

\* Decompress is called.
Decompress ==
  /\ pc = "idle"
  /\ pc' = "decompress"
  /\ nRead' = 0 /\ out' = <<>> /\ copy' = NoCopy /\ err' = FALSE
  /\ UNCHANGED stream

Reading == pc = "decompress" /\ ~ err /\ copy.left = 0 /\ nRead < Len(stream)

phrase == stream[nRead + 1]

\* Mutant: the length is taken as it is stored.
refLengthAsStored == phrase.length

\* backref.readFrom: both numbers are stored less one.
refLength == phrase.length + 1
refAddress == phrase.address + 1

ReadLiteral ==
  /\ Reading /\ canEncodeSymbol(phrase.symbol)
  /\ out' = Append(out, phrase.symbol)
  /\ nRead' = nRead + 1
  /\ UNCHANGED <<pc, stream, copy, err>>

StartCopy ==
  /\ copy' = [symbol |-> phrase.symbol, address |-> refAddress, left |-> refLength]
  /\ nRead' = nRead + 1
  /\ UNCHANGED <<pc, stream, out, err>>

ReadShort == Reading /\ phrase.symbol = SymbolShort /\ StartCopy

ReadDynamicInOutput ==
  /\ Reading /\ phrase.symbol = SymbolDynamic
  /\ refAddress <= Len(out)
  /\ StartCopy

\* Mutant: the output before the reference is not counted.
dictStartFromEnd == dictLen - refAddress

dictStart == dictLen - (refAddress - Len(out))

\* Mutant: a reference that ends with the dictionary is refused.
ReadDynamicBeforeDictEnd ==
  /\ Reading /\ phrase.symbol = SymbolDynamic
  /\ refAddress > Len(out)
  /\ IF dictStart < 0 \/ dictStart > dictLen \/ dictStart + refLength >= dictLen
     THEN err' = TRUE /\ UNCHANGED <<nRead, out>>
     ELSE /\ out' = out \o SubSeq(dictData, dictStart + 1, dictStart + refLength)
          /\ nRead' = nRead + 1
          /\ UNCHANGED err
  /\ UNCHANGED <<pc, stream, copy>>

\* A reference into the dictionary is copied at once, and must stay inside.
ReadDynamicInDict ==
  /\ Reading /\ phrase.symbol = SymbolDynamic
  /\ refAddress > Len(out)
  /\ IF dictStart < 0 \/ dictStart > dictLen \/ dictStart + refLength > dictLen
     THEN err' = TRUE /\ UNCHANGED <<nRead, out>>
     ELSE /\ out' = out \o SubSeq(dictData, dictStart + 1, dictStart + refLength)
          /\ nRead' = nRead + 1
          /\ UNCHANGED err
  /\ UNCHANGED <<pc, stream, copy>>

\* One byte of a copy from the output; the bytes it adds may be copied in turn.
CopyByte ==
  /\ pc = "decompress" /\ ~ err /\ copy.left > 0
  /\ IF copy.symbol = SymbolShort /\ copy.address > Len(out)
     THEN err' = TRUE /\ UNCHANGED <<out, copy>>
     ELSE /\ out' = Append(out, At(out, Len(out) - copy.address))
          /\ copy' = [copy EXCEPT !.left = @ - 1]
          /\ UNCHANGED err
  /\ UNCHANGED <<pc, stream, nRead>>

\* Mutant: an error does not end the loop.
FinishedAtEnd == nRead = Len(stream) /\ copy.left = 0

Finished == err \/ (nRead = Len(stream) /\ copy.left = 0)

DecompressReturns ==
  /\ pc = "decompress" /\ Finished
  /\ pc' = "idle"
  /\ UNCHANGED <<stream, readVars>>

ReadStep ==
  \/ ReadLiteral \/ ReadShort \/ ReadDynamicInOutput \/ ReadDynamicInDict
  \/ CopyByte \/ DecompressReturns
=============================================================================
