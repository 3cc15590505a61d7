# asmgen in TLA+

asmgen writes Go assembly (and WebAssembly) from Go programs: a generator calls
a builder per architecture, which lays out the ABI0 frame, appends instruction
lines and renders the text. Nothing in it runs concurrently; what is hard about
it is that its output is machine code nobody type-checks. So the models here
are of two kinds: the generator's own algorithms (frame layout), and the
*emitted code running*, on a processor, an operating system, a stack or a
memory that may be in any state the code can meet.

## 1. The system

| Component | State it keeps | Operations | Interacts with |
|---|---|---|---|
| `abi` | a running byte offset, the slots placed so far | `LayoutArgs`, `Layout`, `Align`, `Struct`/`Slice`/`String`/`Array`, `Slot` | called by every builder; the Go caller and `go vet` rely on the same frame |
| six builders (`amd64`, `arm64`, `riscv64`, `loong64`, `ppc64`, `s390x`) | a signature and the lines appended | `LoadArg`, `StoreRet`, `LoadIndirect`, `StoreIndirect`, `Ret`, `Raw`, labels, branches, array globals | `abi` for offsets, `emit` for text |
| `amd64/feature.go` | none; emits a function | `FeatureProbe`, `VendorProbe` | CPUID, XGETBV, the OS's XCR0, the dispatching caller |
| `fft/amd64/frames.go` | none; emits a function whose frame holds the buffers | `TwoPass`, `ThreePass`, `AddrTable` | the pass kernels it calls through their entry points; the Go runtime, which may move the stack |
| `fft/*` pass kernels | none; emit functions | radix passes, final passes, batched and split passes, untangling, prime factor | caller's arrays and twiddle tables |
| `examples/wasm/*` kernels, `wasm/emit.go` | module text | scans, transforms, a checksum | the host's linear memory |
| raw encoders (`arm64/elem.go`, `ppc64/vsx.go`, ...) | none | `WORD` directives | the Go assembler |
| `internal/gap`, `tools/goasmgap` | tables of encodings | `Matches`, classification of what an assembler accepts | external assemblers |
| `emit` | a list of lines | `Insn`, `Label`, `Raw`, `File.String` | all builders |

What makes each correct:

- **abi**: slots disjoint and aligned, results in words of their own, the frame
  covers them, and the layout is Go's own.
- **builders**: each load yields the Go value of its type (width and
  extension, on both byte orders), each store changes its slot and nothing
  else, nothing is accessed outside the frame.
- **probes**: no illegal instruction on any machine; a yes is safe, a no is
  true, unless the highest leaf is one that JL takes for negative; a result is always written.
- **pass kernels**: every output is the transform of its inputs, multiplied by its own
  twiddle, for any number of points, whatever stays over; nothing else is written.
- **frames**: the passes compose to what a plan would compute by calling the
  kernels itself, wherever the stack stands or moves and whatever the kernels
  clobber.

The hard behaviours: sequences of layout steps that only together expose a
missing round of padding; sub-word extension; the order CPUID, XGETBV and the
feature bits must be asked in; state that changes after it was read (lazily
enabled ZMM state, a stack moved while one of its addresses is saved); in-place
transforms. `PROJECT.json` lists each hazard at its line.

## 2. What is modelled

**`AbiLayout`** is `LayoutArgs` step by step: one action for a scalar, for
opening an aggregate, for each field, for closing it, for the word boundary
before the results, for the end. `Align` is the code's mask arithmetic,
`x+a-1` with the low bits cleared by `a-1`, so its behaviour for `a = 0` is the
code's. **`GoFrame`** is the abstract specification: Go's frame rules stated
without masks, a value at a time, offsets from the frame's start, an array aligned by its
element type even when it has no elements, no word boundary where no results follow.
`AbiLayout` implements it (`FollowsGoRules`) under a refinement mapping that hides the
half-placed aggregate. Two cases where the code does not follow those rules are told
apart, not hidden. An `Arg` does not keep an array's element type, which the models carry
as `elem` for `GoFrame` alone: an empty array of anything wider than a byte is outside
the kinds of the run. And without results the mapping takes the end of the last
argument for Go's (`GoEnd`) and leaves the code's rounded size to finding 1.

**`MoveTables`** holds the mnemonic tables of the six packages and what those
mnemonics mean to the processor. **`AbiCall`** EXTENDS `AbiLayout`: it lays out
a signature, lets a generator emit any sequence of loads and stores on it, then
calls the function on a byte memory with the byte order of the architecture,
the caller's bytes in the argument slots and one object below the frame for indirect
accesses. Its types are those of Go values: a float has 4 or 8 bytes (`GoTypes`).

**`FeatureProbe`** is the emitted probes as instruction lists, executed by a
small amd64: registers as sets of bits, flags, CPUID with a maximum leaf, an
XGETBV that faults where it is not legal, an XCR0 that the OS may extend while
the process runs, then the caller that runs the kernel if the answer is yes.
The processor orders leaves as unsigned numbers (`Below`), JL after CMPL compares signed
ones (`Less`): `DeniedBySign` names the machines on which the two differ.

**`FFTFrames`** is `TwoPass` and `ThreePass` as instruction lists over a word
memory with the stack, `cc` and `ch`. A kernel is entered, may grow the stack
if it is not NOSPLIT (the runtime copies the frame and adjusts only the pointers it
knows), runs its points in any order, and returns with every register and its
argument area clobbered. A point's value is the term "kernel, point, parameters,
inputs", so two results are equal only if they were computed the same way.

**`WasmSimd`** defines the vector instructions the WebAssembly kernels use, a
v128 being a function from its sixteen lanes to bytes. **`WasmScan`** is the seven
kernels that read a buffer (`memchr`, `indexany4`, `isascii`, `json_clean`,
`utf8len`, `popcount`, `matchlen16`): one action for a block, with the early exit
the code takes, on a memory whose bytes around the buffer are arbitrary, and an
i32 additions, popcount's lanes and total included, that wrap at `MaxInt`. Their
references are quantified over the whole buffer, and `CountIsExact` says of popcount what
wrapping leaves true: the count is exact up to `MaxInt` and right modulo 2^32 past it. **`WasmCodec`** is the five kernels that write (`toupper`, hex and base64
both ways) and a host that chains them, in place or into another buffer: a block
is the pipeline of vector instructions of the code, the reference works a byte
at a time. `Chained` says of a program what the decoders ask of their callers, who
validate the input (`hex_decode/main.go:27`, `base64_decode/main.go:45`): what is decoded
is what was encoded, upper-cased or not, and not written over. **`Adler32`** is the checksum's block step in a word that wraps and the
caller that batches and reduces, beside the byte-at-a-time sums.

**`FFTPass`** is the loops of the pass kernels of both processors. The kernels
are one loop with different numbers in it, so a kernel is a descriptor (how
many points a body and a twiddle group have, how many streams a base register
reaches, where the next block lies, whether streams move as they are read) and
the actions are the loop's: the start of a block, a body, the pair and the
single point that fill no group, the lines of a batched row, the step to the
next row and block. The state is the registers: the bases, the twiddle cursor,
the counters. A body stores, for each output point, which inputs it combines and
which table entries multiply it; `Stockham` says the same from the formulas in
the comments, and the table's order from the comment on `skEmit.tw`. `Legal` is
what the comments ask of callers: at least two points, whole groups where a
kernel has no tail, at least one block (the arm64 loops test at their end). `IsPiece` is
how a plan cuts a pass: into strided calls whose points start where a group of the table
does, or a final pass as one run.

What those bodies compute is in six modules more. **`Vectors`** is the vocabulary of
the generated code: an instruction is a record of its operation, destination and
operands, a kernel a sequence of blocks that run while work is left, and `Lane` says
what an operation leaves in each lane. **`FFTButterfly`** writes the amd64 bodies of
every radix (2, 3, 4, 5, 8, 9, 10, 12, 15, 16, 20, 32 and the float32 ones) as the
emitters do, register by register and spill slot by spill slot; **`FFTSplit`** those of the
split layout, 256 and 512 bits wide, with radix 32's first stage left in the output array
or in the frame; **`FFTNeon`** those of arm64 with their groups and tails;
**`FFTMirror`** the untangling of real transforms, which walks an array from both ends
and hands the bins it does not reach to a narrower kernel; **`FFTProduct`** the pointwise
products of amd64, arm64, s390x and riscv64 and the SSE2 stages.

**`FFTProcessor`** runs them, one instruction a step: `Execute` on sixteen or thirty-two registers that hold leftovers at the start, `EndBlock` and `Skip` for the
loop's test and the next block, `AskLength` for RISC-V's choice of vector length, which
is the processor's (any value the vector extension allows). Which program a call runs is its constant
`Program`; **`FFTKernels`** is the one the emitters write, `KernelProgram`. (What is proved
of the products needs no other emitter, and tlapm's time for a step grows with all that is
in scope, so only `FFTProduct` is in the processor's module, and the assumption
`ProgramAssumption` says that the code of a product is what that module writes.) Memory is the caller's arrays and the spill
slots. Arithmetic is exact, in the field of 41761 elements: it has a root of unity of
order 1440, so cosines, sines and the imaginary unit of every radix are elements, and two
expressions that differ as polynomials in the data agree on a sample only by accident.
`PassDue`, `MirrorDue`, `ProductDue` and `StageDue` are the definitions (a sum over the
roots of unity, the split of a real spectrum, a product) a kernel's memory is compared
with when it returns; they share nothing with the code but the layouts of the arrays.

The `MC*` modules give the constants their values. In each model, definitions
marked *Slip* are plausible mistakes; the check swaps each in and expects the
property it belongs to to fail.

## 3. The runs

| Run | Question | Bounds |
|---|---|---|
| `abi_layout` | are all frames of a signature right? | up to 3 arguments and 1 result of 9 kinds: every scalar width, a slice, an array, structs with inner and with trailing padding, an empty array. Three values are enough for every pair of a misaligning predecessor and its successor with a third after the padding |
| `abi_no_results` | does the frame end at the last slot? No: see findings | scalars |
| `abi_empty_struct` | are slots disjoint with `struct{}`? No: see findings | scalars, one struct, one empty struct |
| `abi_call` | do emitted moves do what their types say? | 1 argument, 1 result, 2 lines, 6 architectures, a value with every sign; a structure holds every integer type, so two slots are neighbours of every width |
| `feature_probe` | are the probes right on every machine? | every combination of the CPUID bits read; maximum leaf 1, 6, 7, and two with bit 31 set, which read as negative; six values of XCR0 that between them lack each state component; lazily enabled ZMM or none; vendor strings one character or one word order apart |
| `fft_frames` | do the passes compose? | buffers of 3 points, transforms of 1 to 3, all eight positions of the frame modulo 64, in place and out, stack growth in every kernel but `p0` |
| `fft_frames_growth` | and if `p0` may grow the stack? No: see findings | 2 points |
| `wasm_scan` | do scans give for the buffer what their definition gives, and read nothing else? | buffers of at most 2 blocks; one byte of any value anywhere, or two bytes of interest; bytes outside that would match if read; `MaxInt` = 63 in place of 2^31-1, so that the bound checks meet their limit and popcount of two blocks with more than 63 bits set wraps |
| `wasm_codec` | do the codecs write the encoding, undo each other, and stay inside? | 1 or 2 blocks; every byte value; in place and not; encode, upper-case, decode |
| `adler32` | is the batched sum Adler-32, and does it never wrap? | half the width: modulus 251, word 65536, bytes of four bits, batches of at most 4 blocks (the most that fit, as 347 is of the real ones), 2 calls |
| `fft_pass` | does every kernel store every output of its pass, from the right inputs and twiddles, and return? | every kernel at every radix; lengths that leave every remainder; 1 or 2 blocks (3 where blocks have twiddles or strides of their own); rows of 1, 2, 3 and 7 lines; for radix 9 and above, at most 6 points |
| `fft_kernels` | do the instructions of each body compute the transform, in the registers there are, and touch only their own memory? | 250 calls: every body at every radix, width and layout, both directions, fused or not, with and without twiddles, a lone point, the last block; every remainder of arm64's groups; untangling of no pair to nine; products of none, one and seven elements, vector lengths up to 3; one vector of samples |

The frame's address arithmetic depends on the stack pointer only modulo 64 and
on `max` linearly, so eight offsets and a small `max` reach every case;
`BuffersSafe` is proved for all. The probes read no CPUID bit but those
enumerated. A wrong width or alignment shows with a single neighbour.

A kernel's code has no branch on data, so one vector of samples decides an identity of
polynomials of degree two or three over a field of 41761 elements up to an accident whose
odds are about one in ten thousand for an output, and an error in the code puts several
outputs wrong. Both arms of every choice an emitter makes (direction, fused, first group,
half, layout) occur for every radix that has it.

The scans assume that the limit plus 16 is an i32, so buffers that end within
sixteen bytes of 2^31 are left out (`ScanAssumption` states it; the code's own
bound check wraps there). Two blocks show every interaction of a block with
its successor, the last block included; a kernel carries nothing else from
block to block than its counters, which the proofs cover. In `fft_pass` bodies
are independent of the values, so lengths up to two groups and a tail reach
every transition of the loops.

All these programs are one thread running to its return: the processor executes
the next instruction, so weak fairness of the next step is assumed where
liveness is stated (`Terminates`), and nowhere else. `CHECK_DEADLOCK FALSE` is in every configuration because the programs
end.

## 4. Findings

1. `abi/abi.go:178` rounds the frame to a word before the results even without
   results; the comment at 151 says there is no further rounding.
2. `abi/abi.go:159`: `Struct("e")` has nil `Fields`, so it is laid out as a
   scalar of size 0, and `Align(off, 0)` is 0: the next slot overlaps the first.
   `Array` of length zero makes a non-nil empty list and does not overlap.
3. `fft/amd64/frames.go:124` keeps an address into the frame across a CALL in a
   frame marked NO_LOCAL_POINTERS. It is right as long as the first kernel is
   NOSPLIT; `SplitR32InFrame` is a kernel that is not.

Not a run: `Array` (`abi/abi.go:130`) of no elements drops its element type, so a slot
after `Array("z", Int64, 0)` lies where Go would put it after a `[0]int8`; with such
an array among the kinds `FollowsGoRules` fails. No generator in the repository builds one.

Not a run either, being comments only: `fft/arm64/pass.go:659` says a final split pass has an even
radix, 2 or 4, and an even `l1`, while the code takes 2, 4 and 8 and has a tail for an odd one
(which `fft_kernels` runs); `base64_encode/main.go:220` gives -16 for the
constant the code takes as 244 (-12), and `lastRun`'s comment (`fft/amd64/pass.go:694`)
asks for runs of a multiple of 4 where `LastRun`'s (962) and the code need 2.

## 5. What is proved

TLAPS checks these for every value of the constants.

- **`AbiCall_proofs`, the layout**, under `NoEmptyStruct` (finding 2 says why): for any
  list of scalars and aggregates of sizes 1, 2, 4, 8 the layout keeps its type
  (`TypeCorrect`), `Disjoint`, `Aligned`, `ResultsApart` and `FrameCovers`. None
  of these is inductive: place counts a field's offset from its aggregate, so
  the invariant `IInv` also says that the running offset of an open aggregate is
  a multiple of its alignment, that every size divides that alignment, that all
  slots end at or before `off + fieldOff`, and that `off` is word-aligned when
  results begin. The arithmetic lemmas say that clearing the low bits gives the
  least multiple at or above, and that multiples of powers of two nest.
  `Refinement` (`FollowsGoRules`) shows that each step of place is a pad, a put, the
  start or end of the results, or nothing, in `GoFrame`'s terms. It assumes
  `NarrowEmptyArrays` too, since place cannot tell an empty array of words from one of
  bytes, and says of the frame's size only what holds: it is Go's when there are
  results. It needs `OpenFrame` besides: `GoFrame` starts a frame of its own for an aggregate, so its end and
  alignment must be those of the fields placed so far, counted from the frame's start.
- **`AbiCall_proofs`, the function**, under `NoEmptyStruct`, for every signature of types of Go
  values, every body and all six architectures: `CallTyped` (`CallTypeOK`), `ArgumentsKept`
  (`ArgsIntact`) and `FrameKept` (`AccessesInFrame`). A store knows nothing of the slots, so
  the invariant `CallInv` is about the lines already appended (`GoodLines`): each names a
  slot of the layout with its offset and type, and has the mnemonic its table gives for
  that type; `TablesRight` shows table by table that this is a move of the type's width
  and extension, which with `Disjoint` keeps a line off every slot but its own
  (`LineMisses`). `ResultsKept` (`ResultsReadBack`) and the action property `LoadsRight`
  (`LoadsGoValue`) need that a name finds one slot only. `PlainNames` says why it does: a parameter's name
  is not the flattening of others, and a struct's fields have distinct names. Without it
  a scalar `s_len` beside a struct `s` with a field `len` is found in its place
  (`abi/abi.go:170`). `NameInv` carries it through place.
- **`FeatureProbe_proofs`**: `TypeCorrect`, `Safe` and `AnswersBool` (every return has
  written a result, which no run repeats) for any set of machines and any vendor string. The invariant is a Floyd-style
  annotation: at each instruction, what the registers and flags say of
  the machine, and at the start of each piece which facts earlier pieces have
  established (leaf 7 exists; OSXSAVE; XCR0's components). Lazy enabling only adds
  components, so the facts survive it. `NoIsDeserved` (`NoMeansUnusable`), which
  claims nothing for AVX2 and AVX-512F on a machine whose highest leaf has bit 31 set but
  that the answer is no (`NotLess`, `SignIsClear`: past the jump the sign is clear), adds
  `DenialInv`: a machine that was able at the call still is, and XCR0 as read holds
  every component of the mask. `VendorAnswers` (`VendorExact`) adds `VendorInv`: the
  words compared so far are equal, and three equal words are an equal string.
- **`FFTFrames_proofs`**: for every `max`, every position of the frame within 64
  bytes, every choice of arrays and any two stacks and arrays that lie apart
  (`FramesAssumption`): `FramesTyped` (`TypeOK`), `BuffersSafe` (`BuffersInFrame`),
  `InputUntouched` (`InputKept`), `CallerUntouched` (`CallerFrameIntact`) and
  `NoPassInPlace` (`PassesOutOfPlace`), whichever kernels grow the stack;
  `ResultWhileSteady` and `ResultComposed` (`ResultIsComposition`) unless the first pass
  of `ThreePass` does while x is in the frame, which is finding 3. The invariant `IInv`
  says, line by line, what the last line left in a register (`Loaded`), which value
  each argument slot holds from the line that stores it until the kernel starts
  (`Slots`), and which arrays hold which points: the input, a pass's result until its
  reader has ended, the points done so far (`Data`). All of this follows a move of
  the stack except x's saved address, so `XKept` allows that one word to lag behind;
  the pass that reads through it then reads the old stack, which is apart from the
  new one. Each action has a lemma; `Geometry`, `AreasFar` and `PointsFar` say where
  everything lies and what a write cannot reach.
- **`WasmScan_proofs`**: `Invariance`, `Exact` (`SearchIsExact`) and `ReadsInside`
  (`ReadsOnlyTheBuffer`) for every buffer, memory and `MaxInt`. The invariant `SInv`
  says that no byte before `i` is one the kernel looks for, and that `i` is a
  multiple of sixteen within the limit while blocks are read. `TypeCorrect` (`TypeOK`)
  adds to it what a block can count of runes, and that popcount's lanes are i32s.
  `CountsExact` (`CountIsExact`): the counter holds the cardinality of the set of rune
  heads, or of pairs of a byte and a bit set in it, before `i`; the lemmas say what a
  block adds to that set. popcount's lanes wrap, so what the invariant keeps of
  them is that their sum is that cardinality up to a multiple of 2^32 (`Congruent`,
  `AddCongruent`); with the type of the result and the most bits a buffer can have
  (`TurnsBounded`) that makes the result exact while the count is an i32.
- **`WasmCodec_proofs`**: `Inside` (`StaysInside`) for every program of calls whose
  buffers are as the callers must provide; `CInv` bounds each cursor by the
  blocks done and each store by the next block or the spare room. `TypeCorrect`
  (`TypeOK`) shows that memory stays bytes: lemmas for each lane operation, shuffle and
  widening multiplication, then one for the output of each kernel.
  `OutputWhileDecodable` (`OutputIsReference`) holds for any program while each call is
  passed what its kernel accepts (`Decodable`; nothing is asked of what toupper and the encoders
  read). Two arguments meet in it. One is about a block: `ByteMasks`, `OrApart` and `SextetProducts` say
  what the masks, ors and products of the code do to a byte, and from them `UpperExact`,
  `HexExact`, `UnhexExact`, `EncodeExact` and `DecodeExact` give every lane of every
  kernel's output. The other is about the loop: the property is not inductive,
  since a block's output depends on what memory still holds of the input; `OInv` adds
  that the blocks ahead are as the call found them (`SourceAhead`), although
  base64_decode's stores reach four bytes past their block and, in place, the
  output lies over the input, and that nothing outside the destination changes
  (`OthersKept`). `BlockFalls` says where a block's stores fall. `OutputCorrect` and `RoundTrips`
  (`RoundTrip`) are for programs that are `Chained`, which the configuration's are (an
  assumption TLC evaluates); nothing is assumed of the bytes. `RInv` says that each call
  after the first was passed digits of what the first encoded, which lies
  there untouched: with `OInv` that makes every call `Decodable` (`RImpliesDecodable`), and
  `SextetsRound` and `HexRound` close the circle.
- **`Adler32_proofs`**: with the program's constants, `BatchFits` (the greatest sums after
  each of 347 blocks fit 32 bits) and `BatchIsLongest` (the kernel's `Block` step, given the
  greatest residues and bytes, reaches each of those sums in turn, and its 348th wraps),
  `TypeCorrect` and `NoWrap` (`NeverWraps`) for any
  modulus, word and batch that satisfy the assumption; the invariant `IInv` bounds both
  sums by what `i` blocks of the greatest byte can add. `ChecksumIsAdler` (`IsAdler`): since
  nothing wraps, reducing may be left for later (`ModAdd`, `ModAdd16`), and sixteen steps
  of the checksum are one weighted sum (`AdlerIs`, whose recursion is over 0..16 and so
  needs no induction).

- **`FFTPass_proofs`**: for every kernel at every radix it is emitted for, and every call
  that is `Legal`: `PassTyped` (`TypeOK`), `WritesDue` (`EveryWriteIsDue`), `PassDone`
  (`PassIsComplete`) and, for every way to cut a pass that is an `IsPiece`, `PiecesDone`
  (`PieceOfPass`). What is written is right only while the registers are, so the invariant
  `PassInv` says, line by line, at which point of which block (or line of which row) the
  loop stands: every base is at the block's start plus the points done, the cursor is at
  the table entry of that point's group, the counter holds what is left, and `ch` is the
  blocks, rows and points before. `Shaped` is what the kernels' numbers have in common
  (the bases and the strides past them reach every stream once, `skip` leads from the end
  of a block to the next, the table's groups are the loop's), shown kernel by kernel; the
  rest uses only that. `BodyStep` is the heart: a body whose cursor is right writes the
  next points of its block and moves every stream past them. Each action then has a lemma
  of its own, and `PassOfBlocks` says that the points of all blocks are the Stockham
  formula's.

- **`FFTProcessor_proofs`**: the pointwise products of amd64 (SSE2 and AVX2), arm64, s390x
  and riscv64, for every call that is a `ProductCall` (what their callers must observe:
  whole quads for AVX2, a processor with at least one lane for RISC-V; `ProductAssumption`
  has TLC evaluate that the run's calls are such, and some of each), whatever
  the length, the modulus and, on riscv64, the vector length the processor takes each
  time: `ProductsCorrect` (`OutputIsDefinition`), `ProductsInside` (`AccessesInside`) and
  `ProductsTyped` (`TypeOK`). Of the data the proofs use only that they are integers
  (`GivenProduct`), so nothing depends on the samples chosen. That a kernel is
  right when it returns is far from inductive, so the invariant is the annotation of its
  code (`ProductInvariant`): d elements are done, the streams stand at element d, the
  counter holds what is left, the registers hold the partial products that the
  instructions so far have made of the next elements, and `Memory(c, re, im)` says that the
  real parts of the first re elements and the imaginary parts of the first im are
  stored and all else is as given. It needs both numbers because some tails store the two
  parts with separate instructions, and in place a part is stored over the factor it was
  computed from, after its last use. One lemma per operation and width says what
  an instruction leaves; one per instruction of a block what its registers hold next;
  `Products` that the ways to compute an element (fused or not, in either order, a
  sign flipped instead of a subtraction) are one value. The loops follow:
  `RvvInv` for the strip-mined kernel, `FixedInv` for the others, whose code, lengths and
  steps differ (`FixedKinds`) and whose loops, remainders and counters do not.

Only model-checked: the properties of `FFTKernels` for the transforms, the untangling and the
SSE2 stages (identities between roots of unity of a concrete field, for which TLC
evaluates both sides, of instruction lists that the emitters compute). Out of the prover's reach: liveness (`Terminates`), ENABLED, and
induction over recursive data.

## 6. Not modelled, and the plan

Text rendering (`emit`, labels, `File.String`), the encoders of raw words, the
WebAssembly emitter and verifier, the patches for other repositories and the
benchmark scripts are formatting or I/O. `internal/gap` is tables of masks: a model
would be a copy of them, and a check of the copy says nothing of the original;
`tools/goasmgap` runs assemblers and reports.

The rounding of floating point is out of TLC's reach, and with it the promise that a
kernel's results are those of go-fft's scalar code bit for bit: the order of
operations and the choice of fused ones are in the models, what they round to
is not. Lanes a group computes and never stores are left out, and so are the arrays of an
untangling kernel called with its input as its output.

Order of the work; each module takes its constants with named assumptions and no
RECURSIVE operator, so that it can be proved about:

1. `AbiLayout`, `GoFrame`, `AbiCall`, `FeatureProbe`, `FFTFrames` and their
   proofs (done).
2. `WasmSimd`, `WasmScan`, `WasmCodec`, `Adler32` and their proofs (done).
3. `FFTPass` and its proof (done).
4. `Vectors`, `FFTButterfly`, `FFTSplit`, `FFTNeon`, `FFTMirror`, `FFTProduct`,
   `FFTProcessor`, `FFTKernels` (done).
5. The theorems of section 5: every invariant of the runs has one, those of `FFTKernels`
   for the products (done). The bodies of the transforms are left, an instruction list for
   every radix, layout and width, to be annotated as those of the products are.
