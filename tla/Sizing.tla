------------------------------- MODULE Sizing -------------------------------
(***************************************************************************)
(* CompressedSize256k in a goroutine of its own, "state less and           *)
(* thread-safe", while another one uses the same Compressor.  It shares    *)
(* the dictionary and the field noCompression with the other calls; its    *)
(* index, its circular buffer and its bit counter are its own.  So there   *)
(* are two loops of write, that of the session and this one.               *)
(***************************************************************************)
EXTENDS Session

CONSTANTS
  SizedInputs,   \* the arguments of CompressedSize256k
  MaxSizedInput  \* its limit, 256 kB in the code
ASSUME SizingAssumption == SizedInputs \subseteq Seq(Byte) /\ MaxSizedInput \in Nat

VARIABLES
  sd, si, scb, sstream, sstarts,   \* the loop of write that counts bits
  spc,           \* "idle", "write" in the loop, "returned"
  size,          \* what was returned, or 0 with an error
  bypassSeen,    \* history: noCompression when the call read it
  modeBetween,   \* history: noCompression when no call of the session was running
  modes          \* history: the values of modeBetween from the call to its judgement

sizeVars == <<sd, si, scb, sstream, sstarts, spc, size, bypassSeen>>
allVars == <<vars, sizeVars, modeBetween, modes>>

Sizer == INSTANCE WriteLoop WITH
  d <- sd, i <- si, cb <- scb, stream <- sstream, starts <- sstarts, pc <- spc

SizingInit ==
  /\ Init
  /\ sd = <<>> /\ si = 0 /\ scb = newCircularBuffer /\ sstream = <<>> /\ sstarts = <<0>>
  /\ spc = "idle" /\ size = 0 /\ bypassSeen = FALSE
  /\ modeBetween = FALSE /\ modes = {}

\* Mutant: the bits of the last byte are not counted.
bwLenRoundedDown == Len(StreamBits(sstream)) \div 8

\* bitCounterWriter: the phrases are only counted, and the bits fill up a byte.
bwLen == (Len(StreamBits(sstream)) + 7) \div 8

\* Mutant: the loop starts where the next Write would.
SizeCallStartsLate(data) ==
  /\ spc = "idle"
  /\ bypassSeen' = noCompression /\ modes' = {modeBetween}
  /\ sd' = data /\ si' = Len(d) /\ scb' = newCircularBuffer /\ sstream' = <<>> /\ sstarts' = <<0>>
  /\ \/ /\ noCompression
        /\ size' = HeaderSize + Len(data) /\ spc' = "returned"
     \/ /\ ~ noCompression /\ Len(data) > MaxSizedInput
        /\ size' = 0 /\ spc' = "returned"
     \/ /\ ~ noCompression /\ Len(data) <= MaxSizedInput
        /\ size' = HeaderSize /\ spc' = "write"
  /\ UNCHANGED <<vars, modeBetween>>

\* The call, up to the loop, which the bypass and the limit of the input cut short.
\* noCompression is read once and without a lock.
SizeCall(data) ==
  /\ spc = "idle"
  /\ bypassSeen' = noCompression /\ modes' = {modeBetween}
  /\ sd' = data /\ si' = 0 /\ scb' = newCircularBuffer /\ sstream' = <<>> /\ sstarts' = <<0>>
  /\ \/ /\ noCompression
        /\ size' = HeaderSize + Len(data) /\ spc' = "returned"
     \/ /\ ~ noCompression /\ Len(data) > MaxSizedInput
        /\ size' = 0 /\ spc' = "returned"
     \/ /\ ~ noCompression /\ Len(data) <= MaxSizedInput
        /\ size' = HeaderSize /\ spc' = "write"
  /\ UNCHANGED <<vars, modeBetween>>

SizeStep ==
  /\ Sizer!WriteStep /\ UNCHANGED spc
  /\ UNCHANGED <<vars, size, bypassSeen, modeBetween, modes>>

SizeReturns ==
  /\ spc = "write" /\ si = Len(sd)
  /\ size' = HeaderSize + bwLen /\ spc' = "returned"
  /\ UNCHANGED <<vars, sd, si, scb, sstream, sstarts, bypassSeen, modeBetween, modes>>

\* The answer can be judged when the call of the session that was running has ended.
Judged == spc = "returned" /\ pc = "idle"

SizeJudged ==
  /\ Judged /\ spc' = "idle"
  /\ sd' = <<>> /\ si' = 0 /\ scb' = newCircularBuffer /\ sstream' = <<>> /\ sstarts' = <<0>>
  /\ size' = 0 /\ bypassSeen' = FALSE /\ modes' = {}
  /\ UNCHANGED <<vars, modeBetween>>

SessionStep ==
  /\ Next
  /\ modeBetween' = IF pc' = "idle" THEN noCompression' ELSE modeBetween
  /\ modes' = IF spc = "idle" \/ Judged THEN modes ELSE modes \cup {modeBetween'}
  /\ UNCHANGED sizeVars

SizingNext ==
  \/ SessionStep
  \/ \E data \in SizedInputs : SizeCall(data)
  \/ SizeStep \/ SizeReturns \/ SizeJudged

SizingSpec == SizingInit /\ [][SizingNext]_allVars

-----------------------------------------------------------------------------
\* The size is that of a file that Decompress turns into the argument: the loop that
\* only counts bits has written the phrases of a correct file, which starts anew
\* wherever the session stands (compress.go:384-406).
SizeOfAFile ==
  spc = "returned" /\ size > 0 =>
    LET file == IF bypassSeen THEN Bypassed(sd) ELSE HeaderBits(FALSE) \o Aligned(StreamBits(sstream))
    IN  DecompressesTo(file, sd) /\ Len(file) = 8 * size

\* The size is that of the Bytes() of a session that has written the same input, in
\* one call and in the mode that was seen: the two loops, each with choices of its
\* own, put out equally many bits (FuzzCompressedSize, compress_test.go:187), also
\* after a Reset, a Revert that compresses anew or a ConsiderBypassing.
SizeAgrees ==
  spc = "returned" /\ size > 0 /\ Idle /\ ~ tainted
  /\ lastInLen = 0 /\ sd = d /\ bypassSeen = noCompression
    => 8 * size = Len(outBuf)

\* compress.go:382, "thread-safe": the answer is one the call could have given
\* before or after the call of the session that was running.
SizeThreadSafe == Judged => bypassSeen \in modes
=============================================================================
