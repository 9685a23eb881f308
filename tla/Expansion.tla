------------------------------ MODULE Expansion ------------------------------
(***************************************************************************)
(* How many bits the phrases of a stream take, against the bytes they      *)
(* stand for.                                                              *)
(***************************************************************************)
EXTENDS RoundTrip

\* A reference takes no more bits than a long run without its first byte.
ASSUME ExpansionAssumption == 8 + LengthBits + DynAddrBits <= 8 * (MinRepeatingBytes - 1)

\* The bits of a phrase that starts with this byte: delimiter, length, address.
NbBits(symbol) ==
  IF canEncodeSymbol(symbol) THEN 8 ELSE 8 + LengthBits + TypeOf(symbol).NbBitsAddress

\* The bits a byte of the input may take.
MaxBits(b) == IF canEncodeSymbol(b) THEN 8 ELSE NbBits(SymbolDynamic)

\* f[1] + ... + f[n]
Total(f, n) ==
  LET sum[k \in 0..n] == IF k = 0 THEN 0 ELSE sum[k - 1] + f[k]
  IN  sum[n]

\* Compression costs nothing but for reserved symbols: a byte of the input takes
\* at most 8 bits of the stream, or a dynamic reference if it is reserved
\* (compress.go:220-257 writes a reference only if it saves bits, or must).
ExpansionBounded ==
  Total([n \in DOMAIN stream |-> NbBits(stream[n].symbol)], Len(stream))
    <= Total([k \in DOMAIN d |-> MaxBits(d[k])], i)
==============================================================================
