# A TLA+ model of Consensys/compress

The repository holds one Go package, `lzss`: a compressor with a dictionary, the
decompressor for its format, and an index (a suffix array) with which the
compressor finds repetitions. This directory models it, checks the model with
TLC on small instances, and proves with TLAPS, for every input, dictionary and
width of the fields, what matters most: that what is compressed decompresses to
itself, phrase by phrase and in bits, at any point of any sequence of calls, that
both decoders return what a stream means, whatever the stream, that compression
expands nothing but reserved symbols, and that the search for a repetition finds a
longest one.

## The system

| part | code | state | operations |
|---|---|---|---|
| references and dictionary | `lzss/backref.go`, `lzss/compress.go` 37-88, 428-470 | none | `AugmentDict`, `newBackRefType`, `savings`, `findBackRef` |
| write loop | `compress.go` 138-287 | loop index, circular buffer of three references | one iteration: run, reserved symbol, literal, look-ahead, reference |
| decompressor | `decompress.go` 17-84, `backref.go` 70-86 | output, position | read a literal, a short or a dynamic reference; copy |
| session | `compress.go` 91-129, 289-425 | `outBuf`, cache of the bit writer, `nbSkippedBits`, `inBuf`, record of the last state, `noCompression` | `Write`, `Revert`, `Reset`, `ConsiderBypassing`, `Compress`, `CompressedSize256k` |
| header | `header.go` | none | `WriteTo`, `ReadFrom` |
| stream info | `decompress.go` 86-236 | output, phrases, place in bits | `CompressedStreamInfo`, `ToCSV` |
| suffix array | `internal/suffixarray/suffixarray.go` | text, sorted suffixes | `New`, `LookupLongest` |
| SAIS | `internal/suffixarray/sais.go`, `sais2.go` | `sa` and `tmp`, in place | `text_32` and its passes |

The package is sequential: nothing runs concurrently inside it, and a compressor
is not to be shared, except that `CompressedSize256k` claims to be thread-safe.
What is hard in it is not concurrency but bookkeeping over long sequences of
calls: a format in which lengths and offsets are stored less one in fields of
fixed width; copies that overlap their own output; references to two texts with
one address space; a cache of references in the loop; and above all a `Write`
that continues inside the last byte of the one before, with one level of undo and
a second mode that may be entered and left in between. Below it lies SAIS, which
sorts suffixes in place: text, result, work queues and the work space of the
recursion share one array. `PROJECT.json` lists the hazards at their lines.

## Modules

- `Lzss`: the pure functions. `LookupLongest` is the *set* of longest matches, as
  which of them the code finds depends on the order of suffixes; so `findBackRef`
  and `BestAt` are sets too, and what is shown holds for every choice.
- `Phrases`: a stream as a sequence of phrases (a literal, or a delimiter with its
  two fields); `writeTo` reduces each field to its width.
- `WriteLoop` (one iteration of `write` a step), `Decompressor` (one phrase or one
  copied byte a step), `RoundTrip` (both, and the properties), `Expansion` (the
  size of the stream against that of the input).
- `StreamMeaning`: what the repository's README says phrases mean, and, as the code
  refuses some of what the README gives a meaning to, which phrases `Decompress`
  accepts (`Accepted`). `StreamInfo`: `CompressedStreamInfo`. `AnyStream`: both
  decoders on arbitrary streams.
- `Bits`: header and phrases in bits, the bit writer and reader (external package
  `bitio`, modelled from its use: whole bytes go out, the rest stays in a cache,
  `Align` pads with zeros). `DecompressesTo(file, data)` says what `Decompress` makes of
  a file as a whole: it reads the header, accepts the phrases, and they mean `data`;
  `AnyStream` shows that its loop does just that. `Compressor`: the session, with the
  loop of `WriteLoop` inside. `Session`: its properties. `UndoLog`: what the session
  promises about the input, as an abstract specification.
- `Sizing`: `CompressedSize256k` in a goroutine of its own next to a session, with
  a second instance of `WriteLoop`, which makes choices of its own, and a counter of
  its bits. The session's steps are those of `Compressor`,
  so a sizing may fall between the `Reset` and the `ConsiderBypassing` of a `Revert`.
- `Inspection`: `CompressedStreamInfo` on the `Bytes()` of a session, with the
  header (the error and, for another version, the panic) and both branches; the loop
  is that of `StreamInfo`.
- `Suffixes`: what an array must hold to be the suffix array of a text.
- `Sais`: `New`, `text_32`, `sais_8_32`, `sais_32` and their passes. The state is the
  memory (arrays of integers), a stack of calls whose arguments are slices of these
  arrays, and the loop variables of the induced sorts. A pass is one step, except
  that the induced sorts, which read the queue they write, take one step per entry.
  The code has each pass twice, for bytes and for IDs; they differ only in the type
  of the text and in `length`, so each is written once and named for both. The
  backward iterator over the text, which the code repeats in each pass, is
  `LMSStarts`, by the definition of types that its comment gives.
- `SuffixIndex`: `LookupLongest` as the binary search it is, on any array that
  satisfies `Suffixes` (which `Sais` shows to be what `New` leaves), checked against
  the set in `Lzss`. `Search` is the loop of `sort.Search`, as a recursion over the
  pairs of its bounds.
- `*_proof`: the proofs.
- `MC*`: instances for TLC.

Indexes are those of the Go code, from 0; `At` converts. The variables `failed`,
`tainted`, `reverted`, `lastBytes`, `considered`, `starts`, `allocs`,
`bypassSeen`, `modeBetween` and `modes` are history. The operators marked
*Mutant* are wrong versions of the definition after them; they show that the
property that names them in `PROJECT.json` can fail.

In `Compressor` the iterations of the loop leave `outBuf` alone and the bits of
all phrases go out at the end: between calls this is the same. A client keeps to
the contract in the comments: after a `Write` that failed it only calls `Reset`
or `Compress`. With `"RevertAgain"` among the `Calls` it may revert twice in a
row; a second `Revert` is what the code is to refuse.

## What is checked

| run | checks |
|---|---|
| `round_trip` | the round trip at every byte, soundness of every phrase, the cache of references, the bound on the expansion, and that calls return |
| `any_stream` | the two decoders against the README and each other, on every stream of up to three phrases; `Decompress` refuses exactly those that are not `Accepted` |
| `session` | at the level of bits, after any sequence of calls: `Bytes()` decompresses to the input, `Revert` has what it needs, the padding is counted exactly, bypassing bounds the size; the session refines `UndoLog`; `CompressedStreamInfo` at any point reports the input and ends where the compressor has counted the padding to begin |
| `suffix_index` | `LookupLongest` returns a longest match in its range, and returns |
| `sais` | `sa` is sorted when a call returns, at every level; frequencies that are trusted are those of the text; IDs name LMS-substrings faithfully; the LMS-suffixes are in order before they are expanded; a scan never overwrites what it has yet to read; the texts of all active calls survive; one allocation suffices; the sort returns without a panic |
| `sizing` | a size computed while a session runs is that of a file which `Decompress` turns into the argument, and that of `Bytes()` of a session that has written the same input at once and in the same mode |

Bounds. The widths are scaled down so that everything happens within a few bytes:
references of 10 to 14 bits start and end anywhere in a byte; the length field
overflows at 2 or 4 bytes; a run is long from 2 or 3 bytes on; the short window
is 2 bytes, less than the input. The alphabet has a literal or two and a reserved
symbol; both take the same paths in the code. In `round_trip` chunks of 1, 2 and
5 bytes make inputs of up to 5; all branches of the loop are taken, the look-ahead
by two included. In `session` up to 3 bytes allow several writes, with chunks of
up to 2 bytes (0 included), failures, undo in both modes and a return from bypass
to compression. No counter is bounded otherwise: the state spaces are complete.

In `sais` a byte has 2 bits, and the letters are 0, 1 and 3: the largest byte
wraps to 0 when it is incremented, and 2 has an empty bucket. A word has four
bytes as in the code, so packed codes are of either sign and short LMS-substrings
are compared by code, longer ones by text. `tmp` has 8 entries and not 512, so that
texts of 20 to 40 letters reach what takes thousands of bytes in the code:
recursion three deep, work space in the middle of `sa`, the caller's work space
used again, a bucket array without frequencies, and an allocation at the first
level with deeper levels below it. Four families of such texts are added to all the
texts of up to 7 letters; `MCSais` says what each is for.
In `sizing` the session writes chunks of 1 and 3 bytes up to 3, with and without
reserved symbols, so that some are bypassed; the sized inputs are these chunks, the
empty input and one of 4 bytes, with a limit of 3. The dictionary holds the bytes
`abab`: a match for `ab` has two addresses, so that the session and the loop that
sizes write different phrases for the same input. It also makes the second `Revert` in a row that `session` leaves out, as `UndoLog` does
not allow what then happens (`revert_twice`).

Fairness. The only assumption is that a call that was made goes on until it
returns (`WF` on the steps of the loops); it is a sequential program. The client
need never call. `Sizing` assumes no fairness. In `Sais` the fairness of `Next` is written without
`ENABLED`, as infinitely many steps unless the sort is over, which is the same
because no other state is a deadlock (TLC checks that).

Disagreements between the code and what it says about itself, each with a run
that exhibits it: `far_dictionary`, `failed_write`, `revert_bytes`,
`revert_twice`, `readme_references` and `size_thread` (a size computed during a
`Revert` of a bypassed compressor is that of a mode it has neither before nor
after). The
properties of `session` exclude what follows a `failed_write` by `~ tainted`; the
theorems exclude `far_dictionary` by the condition `InReach` on the present input.
In the code it reads `len(input) + len(dict) <= 2^21 + 1`, whereas both may have
2^22 bytes.

Slips of comments that are not runs:

- the version is written `00 01`, not `0x0100`, and the delimiter of a dynamic
  reference is `0xFF`, not `0xFD` (README of the repository);
- `CompressedSize256k` is not stateless: after `ConsiderBypassing` it returns the
  size of the input and the header (compress.go 382, 386);
- `literalCopyStart` is an index of the dictionary followed by the output, not of
  the decompressed stream (decompress.go 136, 198);
- when `unmap_8_32` is called, the numbers of the LMS-substrings are at the upper
  end of `sa` and their sorted list at the lower one, not the other way round
  (sais.go 720-721);
- `length_8_32` packs the last byte on top, so that A B C is `^0x44_43_42` and it
  is the last byte, not the first, that makes the word negative (sais.go 536-548).

A remark: `sStart == sEnd` in `LookupLongest` (suffixarray.go 70-79) is never
true, as `sEnd` is exclusive; `Initial` covers it with the case of one match.

## What is proved

Everything here holds for every value of the constants, and so for those of the
code. `InReach(Len(d))` says that the address field of a dynamic reference reaches
from the end of the present input over the dictionary; what does not name it holds
without it.

| module | theorem | states |
|---|---|---|
| `RoundTrip_proof` | `RoundTripCorrect`, `RoundTripComplete` | `InReach(Len(d)) => DecodesPrefix`, and `DecodesAll` |
| | `WriterCorrect` | `InReach(Len(d)) => PhrasesSound` |
| | `BufferCoherent`, `RoundTripTyped` | `CacheCoherent`, `TypeOK` |
| | `ExpansionIsBounded` | `ExpansionBounded` |
| `AnyStream_proof` | `DecompressIsRight`, `RefusesRight` | `DecodesMeaning`, `RefusesExactly`, for every stream |
| | `DecodersAgree` | `InfoAgrees`, for every stream |
| | `PiecesAreContiguous`, `AnyTyped` | `InfoContiguous`, `AnyTypeOK` |
| `Session_proof` | `SessionTyped`, `BypassIsBounded` | `SessionTypeOK`, `BypassBounds` |
| | `SessionRefinesUndoLog` | `UndoSpec`: the session implements `UndoLog` |
| `SessionBits_proof` | `BytesAreRight`, `RevertPointIsRight` | `InReach(Len(d)) => BytesDecompress`, and `RevertPoint` |
| | `PaddingIsCounted` | `PaddingCounted` |
| | `InfoIsRight`, `InfoEndsRight` | `InReach(Len(d)) => InfoOfSession`, and `InfoEndsAtPadding` |
| `Sizing_proof` | `SizeIsOfAFile` | `InReach(Len(sd)) => SizeOfAFile` |
| `SuffixIndex_proof` | `IndexTyped`, `SearchIsSound`, `LookupIsLongest` | `IndexTypeOK`, `SearchSound`, `ReturnsLongest` |

Each rests on an inductive invariant, because none of these properties is inductive
by itself:

- `IndInv` (`RoundTrip_proof`) is `TypeOK`, the writer's part `WriterInv` (the
  phrases form a `Chain`: they stand for consecutive pieces of the input; the
  circular buffer holds results of searches in the present input) and the reader's
  part `ReaderInv` (the output is the input up to the last phrase read, less what
  the copy in progress has still to add, and those bytes are equal to the ones that
  far back). `DecodesAll` needs to know what the unread phrases mean, hence the
  chain, and what half a copy will do, hence the last clause. `ExpansionBounded` is
  inductive given `IndInv`.
- `AnyInv` (`AnyStream_proof`) has the same shape for streams that nobody wrote: what
  `Decompress` has put out is the meaning of the phrases it has read, or will be once
  the bytes are copied that are left of the last one; and `CompressedStreamInfo` has
  `Taken` the phrases it has read, that is, what it has put out is their meaning and
  the pieces it has reported, with the literals that it has not reported yet, lie
  without gaps in both streams. A short reference that reaches before the output,
  where the dictionary is, puts out nothing before it is refused, so its copy is
  described without what it copies being there. `RefusalInv` adds that what was read
  so far was to be accepted, and that such a short reference was not; `RefusesExactly`
  follows from both.
- `SessionInv` (`Session_proof`) is `SessionTypes`, `WriterInv` for the loop inside
  a `Write`, and the sizes: of the output against the record of the last state, and
  of a bypassed output against the input. That `Revert` cuts inside the output (the
  last clause of `SessionTypeOK`) needs the first of them, also while a `Write` is in
  progress that has taken back the last byte.
- `BitsInv` (`SessionBits_proof`) adds the bits: without its padding the output is
  `Coded`, a header and the bits of a chain of phrases for the whole input; its part
  up to the record of the last state is the same for the input before the last
  `Write`; and while a `Write` is in progress the output and the cache together are
  the code of the input before it. A `Write` takes the last byte back and goes on
  inside it, so neither `BytesDecompress` nor `RevertPoint` is kept alone.
- `InspectInv` (`SessionBits_proof`) says, while `CompressedStreamInfo` runs, that the
  phrases it takes apart are those of the file (`Opens`: their bits, after the header,
  are all but the padding) and that it has `Taken` those it has read; and when it has
  returned, that it has taken all.
- `SizeInv` (`Sizing_proof`) is `WriterInv` for the loop that sizes, an instance of the
  theorems of `WriteLoop_proof` with its variables for those of the session; and when
  the call has returned, that the size is reckoned from a chain for all of the
  argument. No step of the session can disturb it.
- `IndexInv` (`SuffixIndex_proof`) is `SearchSound` with `RanksInv`: every match in the
  range of at least `low` bytes has its rank in `[sStart, sEnd)`. A probe looks in these
  ranks only, so without it a probe that finds nothing would rule out nothing.

The argument, bottom up: `WriteLoop_proof` shows that what a search returns is a match
within reach of its type, and that there is always one for a reserved symbol; that
`writeTo` loses nothing of such a reference and so each step extends the chain;
`RoundTrip_proof` that reading a phrase of the chain adds the
piece it stands for. It also adds up bits: a phrase for the next n bytes of the input
keeps the bound if it takes no more than the first of them may and 8 for each of the
others (`BoundKept`). A reference that is chosen saves bits; one for a run has the
length that `ExpansionAssumption` asks for; and a short one for a reserved symbol is
only taken if it saves more than a dynamic one, of which there always is one
(`FindDefined`). `Bits_proof` shows that the numbers come back from their bits,
that the bits of phrases that fit their fields are read back as these phrases
(`ReadBack`), whatever padding of less than a byte follows, and that a chain of
phrases has the meaning it was made for; so a coded file decompresses. `AnyStream_proof`
shows that each step of the two loops takes the meaning one phrase further, with
recursive definitions unfolded one step at a time; `SessionBits_proof` applies the same
steps to the phrases of a session's file.
`SuffixIndex_proof` starts from `sort.Search`, which finds the place where a
predicate turns (`SearchFinds`), and the order of suffixes, in which those with a
common prefix are consecutive.

`Lzss` uses `LookupLongest` by the contract that `LookupIsLongest` states, so with
`New` leaving a suffix array (run `sais`) the round trip does not depend on it as an
assumption.

The assumptions: the widths are natural numbers (`BitsAssumption`; `PowerAssumption`
says of their powers of two what the provers' arithmetic does not know), a run is
long from 2 bytes on, the limit of the input is a number, and the dictionary, the
chunks, the texts and the patterns are sequences of bytes. `SessionRefinesUndoLog`
assumes a client that does not revert twice in a row. `ExpansionIsBounded` assumes that
a reference takes no more bits than a long run less its first byte
(`ExpansionAssumption`), as `write` writes such a run by reference without looking at
what that saves; in the code a run is long from 160 bytes on and a reference takes
37 bits.

Model-checked only:

- liveness (`CallsReturn`, `CallReturns`, `DecodersReturn`, `LookupReturns`,
  `SortReturns`): fairness and `ENABLED` are out of the prover's reach;
- `SizeAgrees`: it compares two executions of the loop that may write different
  phrases, of which only the number of bits agrees. That the choice among the longest
  matches never matters for later phrases would take a simulation between the two
  loops; what is proved of the size is `SizeOfAFile`;
- everything about `Sais`. That the array is sorted needs induction over the data of
  every pass. So do the properties that look simpler (`OneAllocation`,
  `TextsUntouched`, `SaisTypeOK`): an entry is written to its slice only because the
  buckets hold the sums of the frequencies, and that the levels of the recursion
  shrink by half needs the characters in these slices to be numbers. The passes are
  folds, which the provers cannot unfold.

## Not modelled

- `ToCSV`: formatting of what `CompressedStreamInfo` returns; it has no state.
- `NewCompressor` refusing a dictionary that is too large, `text_32` and `New`
  refusing a text of over 2^31 bytes: a constructor that fails leaves nothing.
- I/O errors of the bit writer and reader: both work on memory, and the code
  treats such errors as impossible.
- Sharing of the array behind `Bytes()`: in `Compress(c.Bytes())` the header that
  `Reset` writes replaces that of the argument before it is copied, so the flag of a
  bypassed output is lost. A client has to copy first, as with `bytes.Buffer`.
- The array behind the caller's dictionary, to which `AugmentDict` may append: it
  belongs to the caller. The growth of the buffers.
- Races at the level of the memory: the only field that `CompressedSize256k` shares
  with the other calls is one boolean, and a racing read is taken to see its old or
  its new value.
- `at` and `Bytes` of the index only read.
