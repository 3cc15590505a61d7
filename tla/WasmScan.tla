------------------------------- MODULE WasmScan -------------------------------
(***************************************************************************)
(* The kernels of examples/wasm that scan a buffer and write nothing:      *)
(* memchr, indexany4, isascii, json_clean, utf8len, popcount and           *)
(* matchlen16.  All but the last walk whole blocks of sixteen bytes; the   *)
(* caller rounds the length down and handles the tail.  Each runs on a     *)
(* memory whose bytes outside its buffer may be anything.                  *)
(***************************************************************************)
EXTENDS WasmSimd

CONSTANTS
  Calls,     \* the calls: [kernel, src, other, len, needles]
  Memories,  \* the memories each kernel may find
  Addresses,
  MaxInt     \* the greatest i32

(***************************************************************************)
(* len is nBlocks, and for matchlen16 its limit; src and other are its     *)
(* ptrA and ptrB.  The buffers lie in memory, and the limit leaves the      *)
(* bound check of matchlen16's chunk loop room to add 16.                  *)
(***************************************************************************)
Searches == {"memchr", "indexany4"}
Verdicts == {"isascii", "json_clean"}
Counts == {"utf8len", "popcount"}
Kernels == Searches \cup Verdicts \cup Counts \cup {"matchlen16"}

Bytes(c) == IF c.kernel = "matchlen16" THEN c.len ELSE 16 * c.len

ASSUME ScanAssumption ==
  /\ MaxInt \in Nat
  /\ \A c \in Calls :
       /\ c.kernel \in Kernels
       /\ c.src \in Nat /\ c.other \in Nat /\ c.len \in Nat
       /\ c.needles \in [1..4 -> Int]
       /\ Bytes(c) + 16 <= MaxInt
       /\ \A k \in 0..(Bytes(c) - 1) :
            c.src + k \in Addresses /\ (c.kernel = "matchlen16" => c.other + k \in Addresses)
  /\ Memories \in [Kernels -> SUBSET [Addresses -> Byte]]

VARIABLES
  call,
  mem,
  pc,       \* "blocks", matchlen16's "bytes", or "returned"
  i,
  matched,
  count,
  acc,      \* popcount's four lanes
  result,
  read      \* the addresses read so far

vars == <<call, mem, pc, i, matched, count, acc, result, read>>

-----------------------------------------------------------------------------
(***************************************************************************)
(* The lanes of a block that a kernel is looking for.                      *)
(***************************************************************************)
memchr(bytes, needles) == Bitmask(Eq(bytes, Splat(needles[1])))

indexany4(bytes, needles) ==
  Bitmask(Or(Or(Or(Eq(bytes, Splat(needles[1])), Eq(bytes, Splat(needles[2]))),
                Eq(bytes, Splat(needles[3]))),
             Eq(bytes, Splat(needles[4]))))

isascii(bytes) == Bitmask(bytes)

\* Slip: control characters found by a signed comparison.
json_cleanSigned(bytes) ==
  Bitmask(Or(Or(Eq(bytes, Splat(34)), Eq(bytes, Splat(92))), LeS(bytes, Splat(31))))
\* A quote, a backslash, or no bit above the low five.
json_clean(bytes) ==
  Bitmask(Or(Or(Eq(bytes, Splat(34)), Eq(bytes, Splat(92))),
             Eq(And(bytes, Splat(224)), Splat(0))))

\* The continuation bytes, 10xxxxxx.
utf8len(bytes) == Bitmask(Eq(And(bytes, Splat(192)), Splat(128)))

\* Slip: one of the two widening sums left out.
popcountOnce(bytes) == ExtaddPairwise(Popcnt(bytes), 4)
popcount(bytes) == ExtaddPairwise(ExtaddPairwise(Popcnt(bytes), 8), 4)

Mask(bytes) ==
  CASE call.kernel = "memchr" -> memchr(bytes, call.needles)
    [] call.kernel = "indexany4" -> indexany4(bytes, call.needles)
    [] call.kernel = "isascii" -> isascii(bytes)
    [] call.kernel = "json_clean" -> json_clean(bytes)
    [] OTHER -> utf8len(bytes)

-----------------------------------------------------------------------------
(***************************************************************************)
(* The block loop.                                                         *)
(***************************************************************************)
Init ==
  /\ call \in Calls
  /\ mem \in Memories[call.kernel]
  /\ pc = "blocks"
  /\ i = 0
  /\ matched = 0
  /\ count = 0
  /\ acc = [q \in 0..3 |-> 0]
  /\ result = 0
  /\ read = {}

I32 == (-(MaxInt + 1))..MaxInt
Wrap == 2 * (MaxInt + 1)

\* i32.add, and i32x4.add in each lane: two's complement.
I32Add(x, y) ==
  IF x + y > MaxInt THEN x + y - Wrap
  ELSE IF x + y < -(MaxInt + 1) THEN x + y + Wrap
  ELSE x + y

Chunk(addr) == {addr + k : k \in Lane}
Block == Load(mem, call.src + 16 * i)

\* Slip: one block too many.
AtBlockUpTo == pc = "blocks" /\ call.kernel # "matchlen16" /\ i <= call.len
AtBlock == pc = "blocks" /\ call.kernel # "matchlen16" /\ i < call.len

Reads(addresses) == read' = read \cup addresses
ReadsBlock == Reads(Chunk(call.src + 16 * i))

Return(v) == pc' = "returned" /\ result' = v

Found ==
  /\ AtBlock /\ call.kernel \in Searches
  /\ ReadsBlock
  /\ Mask(Block) # {}
  /\ Return(16 * i + Ctz(Mask(Block)))
  /\ UNCHANGED <<call, mem, i, matched, count, acc>>

Refused ==
  /\ AtBlock /\ call.kernel \in Verdicts
  /\ ReadsBlock
  /\ Mask(Block) # {}
  /\ Return(0)
  /\ UNCHANGED <<call, mem, i, matched, count, acc>>

NextBlock ==
  /\ AtBlock /\ call.kernel \in Searches \cup Verdicts
  /\ ReadsBlock
  /\ Mask(Block) = {}
  /\ i' = i + 1
  /\ UNCHANGED <<call, mem, pc, matched, count, acc, result>>

CountRunes ==
  /\ AtBlock /\ call.kernel = "utf8len"
  /\ ReadsBlock
  /\ count' = I32Add(I32Add(count, 16), -I32Popcnt(Mask(Block)))
  /\ i' = i + 1
  /\ UNCHANGED <<call, mem, pc, matched, acc, result>>

CountBits ==
  /\ AtBlock /\ call.kernel = "popcount"
  /\ ReadsBlock
  /\ acc' = [q \in 0..3 |-> I32Add(acc[q], popcount(Block)[q])]
  /\ i' = i + 1
  /\ UNCHANGED <<call, mem, pc, matched, count, result>>

Done ==
  /\ pc = "blocks" /\ call.kernel # "matchlen16"
  /\ ~AtBlock
  /\ Return(CASE call.kernel \in Searches -> -1
              [] call.kernel \in Verdicts -> 1
              [] call.kernel = "utf8len" -> count
              [] OTHER -> I32Add(I32Add(I32Add(acc[0], acc[1]), acc[2]), acc[3]))
  /\ UNCHANGED <<call, mem, i, matched, count, acc, read>>

-----------------------------------------------------------------------------
(***************************************************************************)
(* matchlen16: whole chunks while they are equal, then byte by byte.       *)
(***************************************************************************)

\* Slip: the chunk loop entered while any byte is left.
ChunkFitsPartly == i <= call.len
ChunkFits == I32Add(i, 16) <= call.len

ChunksEqual == AllTrue(Eq(Load(mem, call.src + i), Load(mem, call.other + i)))

ReadsChunks == Reads(Chunk(call.src + i) \cup Chunk(call.other + i))

MatchChunk ==
  /\ pc = "blocks" /\ call.kernel = "matchlen16"
  /\ ChunkFits
  /\ ReadsChunks
  /\ ChunksEqual
  /\ matched' = matched + 16
  /\ i' = i + 16
  /\ UNCHANGED <<call, mem, pc, count, acc, result>>

ChunksDone ==
  /\ pc = "blocks" /\ call.kernel = "matchlen16"
  /\ IF ChunkFits THEN ReadsChunks /\ ~ChunksEqual ELSE UNCHANGED read
  /\ pc' = "bytes"
  /\ UNCHANGED <<call, mem, i, matched, count, acc, result>>

SameByte == mem[call.src + matched] = mem[call.other + matched]
ReadsBytes == Reads({call.src + matched, call.other + matched})

MatchByte ==
  /\ pc = "bytes"
  /\ matched < call.len
  /\ ReadsBytes
  /\ SameByte
  /\ matched' = matched + 1
  /\ UNCHANGED <<call, mem, pc, i, count, acc, result>>

BytesDone ==
  /\ pc = "bytes"
  /\ IF matched < call.len THEN ReadsBytes /\ ~SameByte ELSE UNCHANGED read
  /\ Return(matched)
  /\ UNCHANGED <<call, mem, i, matched, count, acc>>

Next ==
  \/ Found \/ Refused \/ NextBlock \/ CountRunes \/ CountBits \/ Done
  \/ MatchChunk \/ ChunksDone \/ MatchByte \/ BytesDone

Spec == Init /\ [][Next]_vars

-----------------------------------------------------------------------------
(***************************************************************************)
(* Correctness: what each kernel says of its whole buffer.                 *)
(***************************************************************************)
Buffer == 0..(Bytes(call) - 1)
At(k) == mem[call.src + k]

\* The bytes a search looks for, and those a verdict forbids.
Wanted(b) ==
  CASE call.kernel = "memchr" -> b = call.needles[1] % 256
    [] call.kernel = "indexany4" -> \E n \in 1..4 : b = call.needles[n] % 256
    [] call.kernel = "isascii" -> b >= 128
    [] call.kernel = "json_clean" -> b < 32 \/ b = 34 \/ b = 92
    [] OTHER -> FALSE

\* Every variable has its type; the loops never pass the end of the buffer.
TypeOK ==
  /\ call \in Calls
  /\ pc \in {"blocks", "bytes", "returned"}
  /\ i \in 0..Bytes(call)
  /\ matched \in 0..Bytes(call)
  /\ count \in 0..Bytes(call)
  /\ acc \in [0..3 -> I32]
  /\ result \in I32
  /\ read \subseteq Addresses

\* A search returns the offset of the first byte of the buffer that it looks
\* for, in whichever block and lane, or -1 (memchr/main.go:32); a verdict is 1
\* exactly when no byte of the buffer is forbidden, bytes above 127 being no
\* control characters (json_clean/main.go:26); and matchlen16 stops at the
\* first difference or at the limit.
SearchIsExact ==
  pc = "returned" =>
    /\ call.kernel \in Searches =>
         \/ /\ result \in Buffer /\ Wanted(At(result))
            /\ \A k \in 0..(result - 1) : ~Wanted(At(k))
         \/ result = -1 /\ \A k \in Buffer : ~Wanted(At(k))
    /\ call.kernel \in Verdicts =>
         result = IF \E k \in Buffer : Wanted(At(k)) THEN 0 ELSE 1
    /\ call.kernel = "matchlen16" =>
         /\ result \in 0..call.len
         /\ \A k \in 0..(result - 1) : At(k) = mem[call.other + k]
         /\ result < call.len => At(result) # mem[call.other + result]

\* utf8len counts the bytes that are no continuation bytes
\* (utf8len/main.go:23), popcount the one bits, of the whole buffer.
\* popcount's lanes and their total are i32 additions (popcount/main.go:102 and
\* 118-128): past the greatest i32 the result is the count less a multiple of
\* 2^32, so with its type the count is still told up to such a multiple.
CountIsExact ==
  pc = "returned" =>
    /\ call.kernel = "utf8len" =>
         result = Cardinality({k \in Buffer : At(k) \notin 128..191})
    /\ call.kernel = "popcount" =>
         LET ones == Cardinality({p \in Buffer \X BitValues : Bit(At(p[1]), p[2]) = 1})
         IN  /\ ones <= MaxInt => result = ones
             /\ \E wraps \in 0..4 : result = ones - wraps * Wrap

\* No kernel reads a byte that is not its caller's, though each loads sixteen
\* at a time.
ReadsOnlyTheBuffer ==
  read \subseteq {call.src + k : k \in Buffer}
                   \cup (IF call.kernel = "matchlen16" THEN {call.other + k : k \in Buffer} ELSE {})

=============================================================================
