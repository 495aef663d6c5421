---------------------------- MODULE SfpuPackets ----------------------------
(***************************************************************************)
(* ref/sfpu_stream.py, ref/gemm_ref.py, ref/gemm_v3_ref.py and             *)
(* ref/m3_packets.py: the descriptors of the two engines, the words of     *)
(* their packets and the packet files the board programs replay.           *)
(*                                                                         *)
(* A word is its four bytes, lowest first; a matrix is a function of its   *)
(* row and its column, counted from 0.                                     *)
(***************************************************************************)
EXTENDS FixedPoint
LOCAL INSTANCE SequencesExt

Word32(v) == [b \in 0 .. 3 |-> (v \div 256 ^ b) % 256]
Signed16(low, high) == LET u == low + 256 * high IN IF u >= 32768 THEN u - 65536 ELSE u

\* The words of the bytes that f gives at 0 .. 4n - 1.
WordsOf(f(_), n) == [w \in 1 .. n |-> [b \in 0 .. 3 |-> f(4 * (w - 1) + b) % 256]]

-----------------------------------------------------------------------------
(* GEMM packets. *)

TileRows == 16
TileColumns == 16
NarrowDepth == 768
WideDepth == 3072
NarrowFlags == "Narrow"
WideFlags == "WideV1"

NarrowDescriptor(d) ==
    d.m \in 1 .. TileRows /\ d.n \in 1 .. TileColumns /\ d.k \in 1 .. NarrowDepth /\ d.flags = NarrowFlags
GemmDescriptor(d) ==
    \/ NarrowDescriptor(d)
    \/ /\ d.flags = WideFlags
       /\ d.m \in 1 .. TileRows /\ d.n \in 1 .. TileColumns /\ d.k \in 1 .. WideDepth

AWordsPerRow(d) == (d.k + 3) \div 4
GemmInputWords(d) == d.m * AWordsPerRow(d) + d.k * (TileColumns \div 4)
GemmOutputWords(d) == d.m * IF d.flags = WideFlags THEN TileColumns ELSE TileColumns \div 2
GemmMacs(d) == d.m * d.n * d.k
GemmCycles(d) == ((d.m + 3) \div 4) * (d.k + 6) + GemmOutputWords(d)

\* gemm_int8_int16, gemm_wide_int32.
Cell(d, a, b, i, j) == SumTo([k \in 1 .. d.k |-> a[i, k - 1] * b[k - 1, j]], d.k)
WideResult(d, a, b) == [i \in 0 .. d.m - 1, j \in 0 .. d.n - 1 |-> Cell(d, a, b, i, j)]
NarrowResult(d, a, b) == [i \in 0 .. d.m - 1, j \in 0 .. d.n - 1 |-> Sat16(Cell(d, a, b, i, j))]

\* pack_input_words: the rows of A word by word, then those of B padded to the tile.
LaneOfA(d, a, row, column) == IF column < d.k THEN a[row, column] ELSE 0
LaneOfB(d, b, inner, column) == IF column < d.n THEN b[inner, column] ELSE 0
PackRowsOfA(d, a) ==
    [w \in 1 .. d.m * AWordsPerRow(d) |->
        LET row == (w - 1) \div AWordsPerRow(d)
            base == 4 * ((w - 1) % AWordsPerRow(d))
        IN  [l \in 0 .. 3 |-> LaneOfA(d, a, row, base + l) % 256]]
PackRowsOfB(d, b) ==
    [w \in 1 .. d.k * (TileColumns \div 4) |->
        LET inner == (w - 1) \div (TileColumns \div 4)
            base == 4 * ((w - 1) % (TileColumns \div 4))
        IN  [l \in 0 .. 3 |-> LaneOfB(d, b, inner, base + l) % 256]]
PackInput(d, a, b) == PackRowsOfA(d, a) \o PackRowsOfB(d, b)

\* pack_input_v3: both matrices padded with zeros, then read as words.
PaddedBytes(d, a, b, i) ==
    LET stride == 4 * AWordsPerRow(d)
        j == i - d.m * stride
    IN  IF j < 0 THEN IF i % stride < d.k THEN a[i \div stride, i % stride] ELSE 0
        ELSE IF j % TileColumns < d.n THEN b[j \div TileColumns, j % TileColumns] ELSE 0
PackInputV3(d, a, b) ==
    LET byte(i) == PaddedBytes(d, a, b, i) IN WordsOf(byte, GemmInputWords(d))

\* pack_output_words, unpack_output_words: two results of 16 bits a word.
LaneOfC(d, c, row, column) == IF column < d.n THEN c[row, column] ELSE 0
NarrowWord(low, high) == <<low % 256, (low \div 256) % 256, high % 256, (high \div 256) % 256>>
PackOutput(d, c) ==
    [w \in 1 .. d.m * (TileColumns \div 2) |->
        LET row == (w - 1) \div (TileColumns \div 2)
            base == 2 * ((w - 1) % (TileColumns \div 2))
            bytes == NarrowWord(LaneOfC(d, c, row, base), LaneOfC(d, c, row, base + 1))
        IN  [l \in 0 .. 3 |-> bytes[l + 1]]]
UnpackOutput(d, words) ==
    [i \in 0 .. d.m - 1, j \in 0 .. d.n - 1 |->
        LET w == words[i * (TileColumns \div 2) + j \div 2 + 1]
        IN  IF j % 2 = 0 THEN Signed16(w[0], w[1]) ELSE Signed16(w[2], w[3])]

\* pack_output_v3: a result a word when the descriptor is wide; outside the
\* accumulators' 27 bits it is refused.
AccumulatorBound == 2 ^ 26
InAccumulator(v) == v \in -AccumulatorBound .. AccumulatorBound - 1
PackOutputV3(d, c) ==
    IF d.flags = NarrowFlags THEN PackOutput(d, c)
    ELSE [w \in 1 .. d.m * TileColumns |->
             Word32(LaneOfC(d, c, (w - 1) \div TileColumns, (w - 1) % TileColumns))]

EvaluatePacked(d, a, b) == <<PackInput(d, a, b), PackOutput(d, NarrowResult(d, a, b))>>

-----------------------------------------------------------------------------
(* SFPU packets. *)

SfpuOps == {"GELU", "LAYERNORM", "SOFTMAX", "AFFINE", "REQUANT8", "AFFINE_GELU", "ADD"}
AffineOps == {"AFFINE", "AFFINE_GELU"}

SfpuDescriptor(d) ==
    /\ d.op \in SfpuOps
    /\ d.length \in 1 .. IF d.op = "SOFTMAX" THEN MaxSoftmax ELSE MaxVector
    /\ CASE d.op \in AffineOps -> d.shift \in 0 .. 31 /\ d.multiplier = 0
         [] d.op = "REQUANT8" -> d.shift \in 0 .. 31 /\ d.multiplier >= 0
         [] OTHER -> d.shift = 0 /\ d.multiplier = 0

Planes(op) == IF op \in AffineOps \cup {"LAYERNORM"} THEN 3 ELSE IF op = "ADD" THEN 2 ELSE 1
SfpuInputWords(d) == Planes(d.op) * d.length

\* What the operators need that a descriptor does not carry.
SfpuResult(d, p, t) ==
    CASE d.op = "GELU" -> GeluInt(t.gelu, p[1])
      [] d.op = "LAYERNORM" -> LayerNormInt(p[1], p[2], p[3], t.epsilon, t.headroom)
      [] d.op = "SOFTMAX" -> SoftmaxInt(t.exp, p[1], p[2], t.prob)
      [] d.op = "AFFINE" -> AffineInt(p[1], p[2], p[3], d.shift)
      [] d.op = "AFFINE_GELU" -> GeluInt(t.gelu, AffineInt(p[1], p[2], p[3], d.shift))
      [] d.op = "REQUANT8" -> RequantizeInt8(p[1], d.multiplier, d.shift)
      [] d.op = "ADD" -> AddInt(p[1], p[2])

\* A score and its validity share a word; other planes follow each other.
ScoreWord(score, valid) ==
    [b \in 0 .. 3 |-> IF b < 2 THEN Word32(score)[b] ELSE IF b = 2 /\ valid THEN 1 ELSE 0]
SfpuInput(d, p) ==
    IF d.op = "SOFTMAX" THEN [i \in 1 .. d.length |-> ScoreWord(p[1][i], p[2][i])]
    ELSE FlattenSeq([q \in 1 .. Planes(d.op) |-> [i \in 1 .. d.length |-> Word32(p[q][i])]])
SfpuOutput(d, p, t) == LET r == SfpuResult(d, p, t) IN [i \in 1 .. d.length |-> Word32(r[i])]

\* What pa_sfpu.sv makes of a score word: its sign is in the low half.
ScoreOf(word) == <<Signed16(word[0], word[1]), word[2] % 2 = 1>>

-----------------------------------------------------------------------------
(* Packet files and chains. *)

\* patch_input: the lanes of a packet that depend on an earlier result.
\* A byte of the second mode is one of the words of A.
PatchInput(mode, count, source, target) ==
    [w \in DOMAIN target |->
        CASE mode = "Words" /\ w <= count -> source[w]
          [] mode = "Bytes" ->
                [b \in 0 .. 3 |->
                    LET i == 4 * (w - 1) + b + 1 IN IF i <= count THEN source[i][0] ELSE target[w][b]]
          [] mode = "Scores" /\ w <= count ->
                [b \in 0 .. 3 |->
                    IF b < 2 THEN source[w][b] ELSE IF b = 2 THEN target[w][b] % 2 ELSE 0]
          [] OTHER -> target[w]]

\* read_packets: a file is a header and packets, each of which says how many
\* words it has.  A file is its magic, its count and the words that are there;
\* a packet's header gives the words of its inputs and of its results.
HeaderWords(magic) == CASE magic = "Chain" -> 16 [] magic = "Sfpu" -> 8 [] magic = "Gemm" -> 7
MaxPacketWords == 100000
Taken(file, i) == HeaderWords(file.magic) + file.packets[i].inputs + file.packets[i].outputs
FileWords(file) == 3 + SumTo([i \in 1 .. Len(file.packets) |-> Taken(file, i)], Len(file.packets))
ReadAccepts(file) ==
    /\ file.magic \in {"Chain", "Sfpu", "Gemm"}
    /\ file.count = Len(file.packets) /\ file.count \in 1 .. MaxPacketWords
    /\ \A i \in DOMAIN file.packets :
           file.packets[i].inputs <= MaxPacketWords /\ file.packets[i].outputs <= MaxPacketWords
    /\ file.present = FileWords(file)
=============================================================================
