------------------------------ MODULE WriteLoop ------------------------------
(***************************************************************************)
(* Compressor.write: the loop that turns the input into phrases, one       *)
(* iteration a step, with the circular buffer in which it keeps the last   *)
(* three back references it has computed.  Write appends its argument to   *)
(* the input and runs the loop from the old end of the input.              *)
(***************************************************************************)
EXTENDS Phrases

CONSTANT Chunks       \* the arguments Write is called with
ASSUME ChunksAssumption == Chunks \subseteq Seq(Byte)

VARIABLES
  d,       \* inBuf
  i,       \* the loop variable of write
  cb,      \* the circular buffer
  starts   \* history: where in d each phrase starts, and i last

writeVars == <<d, i, cb, starts>>

Slots == 0..2         \* circularBufferSize = 3

NoBackref == backref(NewShortBackrefType, [address |-> 0, length |-> 0])

newCircularBuffer ==
  [k |-> 0, keys |-> [j \in Slots |-> -1], bestBackref |-> [j \in Slots |-> NoBackref]]

\* Mutant: the place of the next slot is not wrapped.
pushNoWrap(c, b, at) ==
  [k           |-> c.k + 1,
   keys        |-> [c.keys EXCEPT ![c.k] = at],
   bestBackref |-> [c.bestBackref EXCEPT ![c.k] = b]]

push(c, b, at) ==
  [k           |-> (c.k + 1) % 3,
   keys        |-> [c.keys EXCEPT ![c.k] = at],
   bestBackref |-> [c.bestBackref EXCEPT ![c.k] = b]]

\* The back references bestBackref(at) may return, each with the buffer after
\* the call: the one in the first slot with this key, or a computed one.
bestBackref(c, at) ==
  IF \E j \in Slots : c.keys[j] = at
  THEN {[ref |-> c.bestBackref[j], cb |-> c] :
          j \in {s \in Slots : c.keys[s] = at /\ \A t \in 0..(s-1) : c.keys[t] # at}}
  ELSE {[ref |-> b, cb |-> push(c, b, at)] : b \in BestAt(d, at)}

-----------------------------------------------------------------------------
WriteInit ==
  /\ d = <<>>
  /\ stream = <<>>
  /\ i = 0
  /\ cb = newCircularBuffer
  /\ starts = <<0>>

\* Mutant: the circular buffer outlives the call that filled it.
WriteKeepsBuffer(chunk) ==
  /\ pc = "idle"
  /\ Len(d) + Len(chunk) <= MaxInputSize
  /\ pc' = "write"
  /\ d' = d \o chunk
  /\ i' = Len(d)
  /\ UNCHANGED <<stream, starts, cb>>

\* Write(chunk), up to the loop.  (Compressor.tla has the write that is refused
\* because the input would be too large.)
Write(chunk) ==
  /\ pc = "idle"
  /\ Len(d) + Len(chunk) <= MaxInputSize
  /\ pc' = "write"
  /\ d' = d \o chunk
  /\ i' = Len(d)
  /\ cb' = newCircularBuffer
  /\ UNCHANGED <<stream, starts>>

\* What every iteration does: write one phrase for d[i:i+n), or two of them for
\* d[i:i+n) and d[i+n:i+n+m).
Emit(p, n) ==
  /\ stream' = Append(stream, p)
  /\ starts' = Append(starts, i + n)
  /\ i' = i + n

EmitTwo(p, n, q, m) ==
  /\ stream' = stream \o <<p, q>>
  /\ starts' = starts \o <<i + n, i + n + m>>
  /\ i' = i + n + m

\* The number of repetitions of d[i] the loop counts from i on.
Count(count) ==
  /\ i + count <= Len(d)
  /\ \A k \in 0..(count-1) : At(d, i + k) = At(d, i)
  /\ i + count < Len(d) /\ count < maxLength => At(d, i + count) # At(d, i)

Iteration == pc = "write" /\ i < Len(d) /\ UNCHANGED <<pc, d>>

LongRun(count) == Iteration /\ count >= MinRepeatingBytes /\ Count(count)

\* The back reference to the previous byte that stands for a run at index at.
RunRef(at, count) ==
  LET bShort == backref(NewShortBackrefType, [address |-> at - 1, length |-> count])
      bDynamic == backref(NewDynamicBackrefType,
                          [address |-> dictLen + at - 1, length |-> count])
  IN  IF savings(bShort) > savings(bDynamic) THEN bShort ELSE bDynamic

\* A run that continues the byte before it.
WriteRunContinued(count) ==
  /\ LongRun(count)
  /\ i > 0 /\ At(d, i - 1) = At(d, i)
  /\ Emit(writeTo(RunRef(i, count), i), count)
  /\ UNCHANGED cb

\* A run of which the first byte has to be written first: as a literal, or as a
\* reference of length 1 to the place of a reserved symbol in the dictionary.
FirstOfRun ==
  IF canEncodeSymbol(At(d, i)) THEN {Literal(At(d, i))}
  ELSE {writeTo(backref(NewDynamicBackrefType, [address |-> idx, length |-> 1]), i) :
          idx \in {n \in 0..(dictLen-1) : IsReservedIdx(At(d, i), n)}}

WriteRun(count) ==
  /\ LongRun(count)
  /\ ~ (i > 0 /\ At(d, i - 1) = At(d, i))
  /\ \E p \in FirstOfRun :
       EmitTwo(p, 1, writeTo(RunRef(i + 1, count - 1), i + 1), count - 1)
  /\ UNCHANGED cb

-----------------------------------------------------------------------------
(* The iterations at an index where no long run starts. *)

NoLongRun == Iteration /\ \E count \in 1..(MinRepeatingBytes-1) : Count(count)

\* Mutant: the loop goes on without moving if the reference saves nothing.
WriteReservedIfSaves ==
  /\ NoLongRun
  /\ ~ canEncodeSymbol(At(d, i))
  /\ \E best \in bestBackref(cb, i) :
       /\ savings(best.ref) >= 0
       /\ Emit(writeTo(best.ref, i), best.ref.length)
       /\ cb' = best.cb

\* A reserved symbol is never a literal: it is always written by reference.
WriteReserved ==
  /\ NoLongRun
  /\ ~ canEncodeSymbol(At(d, i))
  /\ \E best \in bestBackref(cb, i) :
       /\ Emit(writeTo(best.ref, i), best.ref.length)
       /\ cb' = best.cb

WriteLiteral ==
  /\ NoLongRun
  /\ canEncodeSymbol(At(d, i))
  /\ \E best \in bestBackref(cb, i) :
       /\ savings(best.ref) < 0
       /\ cb' = best.cb
  /\ Emit(Literal(At(d, i)), 1)

\* bestBackref at an index ahead, if the code looks there; else no reference.
lookAhead(c, at, looks) ==
  IF looks THEN bestBackref(c, at)
  ELSE {[ref |-> backref(NewDynamicBackrefType, NoMatch), cb |-> c]}

lookAhead1(c) == lookAhead(c, i + 1, i + 1 < Len(d))
lookAhead2(c) == lookAhead(c, i + 2, i + 2 < Len(d) /\ canEncodeSymbol(At(d, i + 1)))

\* A better back reference starts at i+1: d[i] is written as a literal.
WriteLiteralBetterAt1 ==
  /\ NoLongRun
  /\ canEncodeSymbol(At(d, i))
  /\ \E best \in bestBackref(cb, i) : \E next \in lookAhead1(best.cb) :
       /\ savings(best.ref) >= 0
       /\ savings(next.ref) > savings(best.ref) + 1
       /\ cb' = next.cb
  /\ Emit(Literal(At(d, i)), 1)

\* A better one starts at i+2: d[i] and d[i+1] are written as literals.
WriteLiteralsBetterAt2 ==
  /\ NoLongRun
  /\ canEncodeSymbol(At(d, i))
  /\ \E best \in bestBackref(cb, i) : \E next \in lookAhead1(best.cb) :
     \E third \in lookAhead2(next.cb) :
       /\ savings(best.ref) >= 0
       /\ savings(next.ref) <= savings(best.ref) + 1
       /\ savings(third.ref) > savings(best.ref) + 2
       /\ cb' = third.cb
  /\ EmitTwo(Literal(At(d, i)), 1, Literal(At(d, i + 1)), 1)

WriteBackref ==
  /\ NoLongRun
  /\ canEncodeSymbol(At(d, i))
  /\ \E best \in bestBackref(cb, i) : \E next \in lookAhead1(best.cb) :
     \E third \in lookAhead2(next.cb) :
       /\ savings(best.ref) >= 0
       /\ savings(next.ref) <= savings(best.ref) + 1
       /\ savings(third.ref) <= savings(best.ref) + 2
       /\ cb' = third.cb
       /\ Emit(writeTo(best.ref, i), best.ref.length)

\* The loop ends and Write returns.
WriteReturns ==
  /\ pc = "write"
  /\ i = Len(d)
  /\ pc' = "idle"
  /\ UNCHANGED <<writeVars, stream>>

WriteStep ==
  \/ \E count \in 1..maxLength : WriteRunContinued(count) \/ WriteRun(count)
  \/ WriteReserved
  \/ WriteLiteral
  \/ WriteLiteralBetterAt1
  \/ WriteLiteralsBetterAt2
  \/ WriteBackref
  \/ WriteReturns
=============================================================================
