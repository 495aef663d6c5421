--------------------------- MODULE NumericChecks ---------------------------
(***************************************************************************)
(* What the numeric reference is relied on for, evaluated over bounded     *)
(* inputs: each assumption is a fact TLC computes, none is a hypothesis of *)
(* a proof.  The ranges are those of the source wherever they fit TLC's    *)
(* integers of 32 bits, and scaled down where a comment says so.  The run  *)
(* of the GEMM engine, whose packets the reference computes, evaluates     *)
(* them and takes its descriptors from here.                               *)
(***************************************************************************)
EXTENDS GemmEngine, SfpuPackets, ModelArena, CausalModel, FiniteSets

-----------------------------------------------------------------------------
(* Arithmetic. *)

SmallInts == -40 .. 40
Denominators == 1 .. 12

(* The shift of the vectorised reference and of the host is the rounding of *)
(* the operators, at every tie and sign (sfpu_ref.rne_div,                  *)
(* gpt2_quantized.rne_shift, m4_offload.rounded_product).                   *)
ASSUME RoundingsAgree ==
    \A n \in SmallInts, s \in 0 .. 4 :
        /\ RneShift(n, s) = RneDiv(n, 2 ^ s) /\ RneDiv(-n, 2 ^ s) = -RneDiv(n, 2 ^ s)
        /\ \A x \in -3 .. 3 : RoundedProduct(n, x, s) = RneShift(n * x, s)

\* Every magnitude near a power of two or a boundary of the range, and a sample between.
Amaxima == 1 .. 600 \cup {700 * i : i \in 1 .. 46} \cup {2 ^ i : i \in 0 .. 15} \cup {32766, 32767, 32768}
Probes(a) == {a, a - 1, a \div 2, 1, 0}

(* m4_offload.py:134, "its proven int8 bound": for a largest magnitude up   *)
(* to 32768 the multiplier fits 31 bits, the requantised values are in      *)
(* -127 .. 127, so the saturation of REQUANT8 is inactive and AFFINE gives  *)
(* the same; the host's own reduction for a fabric packet agrees.           *)
ASSUME BridgesAgree ==
    \A a \in Amaxima :
        /\ RuntimeMultiplier(a) = DynamicMultiplier(a)
        /\ \A r \in Probes(a) : \A x \in {<<a, r>>, <<-r, -a>>} :
              /\ \A i \in 1 .. 2 : DynamicInt8(x)[i] \in -127 .. 127
              /\ BatchedColumn(x) = DynamicInt8(x)

(* A mass of exactly `scale`, on the valid scores only, each entry at most  *)
(* one unit from its share, whatever the scores and the mask: the           *)
(* correction never runs out of entries (sfpu_ref.softmax_int's assertion). *)
(* The table and the mass are scaled down.                                  *)
SmallExp == <<64, 61, 30, 11, 3, 1, 0>>
ScoreSets == [1 .. 3 -> {-70, -3, 0, 5, 64, 90}]
SoftmaxMass(x, valid, scale) ==
    LET p == SoftmaxInt(SmallExp, x, valid, scale)
        some == \E i \in DOMAIN x : valid[i]
        w == IF some THEN Weights(SmallExp, x, valid) ELSE p
    IN  /\ Total(p) = IF some THEN scale ELSE 0
        /\ \A i \in DOMAIN x :
              /\ p[i] >= 0 /\ (~valid[i] => p[i] = 0)
              /\ some => Magnitude(p[i] * Total(w) - w[i] * scale) <= Total(w)
ASSUME SoftmaxKeepsMass ==
    \A x \in ScoreSets, valid \in [1 .. 3 -> BOOLEAN], scale \in {1, 2, 7, 100} : SoftmaxMass(x, valid, scale)

(* A larger valid score never has a smaller probability by more than the    *)
(* one unit of the correction.                                              *)
ASSUME SoftmaxKeepsOrder ==
    \A x \in ScoreSets : \A i, j \in 1 .. 3 :
        LET p == SoftmaxInt(SmallExp, x, [n \in 1 .. 3 |-> TRUE], 100)
        IN  x[i] >= x[j] => p[i] + 1 >= p[j]

(* ScaledGPT2.scores: taking the largest score off first makes the clamp    *)
(* invisible, since what it clamps is beyond the table of the exponential.  *)
WideScores == {-40000, -33000, -4100, -20, 0, 31, 40000}
ASSUME CenteringIsInvisible ==
    \A raw \in [1 .. 3 -> WideScores] :
        LET all == [n \in 1 .. 3 |-> TRUE]
        IN  SoftmaxInt(SmallExp, CenteredScores(raw), all, 100) = SoftmaxInt(SmallExp, raw, all, 100)

(* gelu(x) - gelu(-x) = x, across the end of the table, and AFFINE_GELU     *)
(* stays within 16 bits.                                                    *)
SmallGelu == <<0, 1, 1, 2, 4>>
ASSUME GeluIsOdd ==
    \A x \in -9 .. 9 : GeluOf(SmallGelu, x) - GeluOf(SmallGelu, -x) = x

(* A constant vector normalises to its bias, whatever the gain, and moving  *)
(* every element by the same amount changes nothing.  The root's headroom   *)
(* is scaled down.                                                          *)
NormVectors == [1 .. 3 -> {-4, 0, 3}]
ASSUME NormIsCentred ==
    \A x \in NormVectors, gain \in {-2, 3} :
        LET g == [i \in 1 .. 3 |-> gain]
            b == <<5, -6, 32767>>
            n == LayerNormInt(x, g, b, 90, 16)
        IN  /\ (\A i \in 1 .. 3 : x[i] = x[1]) => n = b
            /\ LayerNormInt([i \in 1 .. 3 |-> x[i] + 7], g, b, 90, 16) = n

(* QuantizedGPT2.norm: a gain that the operator cannot hold is carried by a *)
(* factor, and the result is the one of the whole gain to within a unit and *)
(* the factor's roundings, until either saturates.                          *)
LargeGains == {-32768, -40000, 32767, 32768, 70000}
ASSUME NormCarriesGain ==
    \A x \in [1 .. 2 -> {-1, 2}], g1 \in LargeGains, g2 \in {-3, 50000} :
        LET g == <<g1, g2>>
            f == GainFactor(g)
            core == NormCore(x, g, 900, 2 ^ 18)
            n == ModelNorm(x, g, <<0, 40>>, 900, 2 ^ 18)
        IN  /\ \A i \in 1 .. 2 : RneDiv(g[i], f) \in -32768 .. 32767
            /\ \A i \in 1 .. 2 : LET b == <<0, 40>>[i] IN
                  core[i] + b \in -32000 .. 32000 => Magnitude(n[i] - (core[i] + b)) <= 1 + f

(* affine_metadata: the multipliers of what is admitted fit, one more bit   *)
(* would not, and each is within half a unit of its coefficient.  A width   *)
(* of 6 bits for the 31 of the source.                                      *)
Coefficients == {0, 1, 5, 64, 100, 1000, 4000}
ASSUME AffineMetadataFits ==
    \A cs \in [1 .. 2 -> Coefficients] : AffineAdmits(cs, 6, 6) =>
        LET s == AffineShift(cs, 6, 6)
            m == AffineMultipliers(cs, 6, 6)
        IN  /\ s = 6 \/ ~FitsShift(cs, s + 1, 6, 6)
            /\ \A i \in 1 .. 2 : Magnitude(2 * (m[i] * 2 ^ 6 - cs[i] * 2 ^ s)) <= 2 ^ 6

(* storage_exponent leaves room for the roundings of both addends: under    *)
(* the exponent it chooses, no addition of a residual and a branch clamps.  *)
Residuals == {-32767, -32700, -255, 0, 1, 32699, 32767}
ASSUME ResidualsFit ==
    \A old \in Residuals, oldExp \in 0 .. 2, product \in {-90001, -7, 0, 65535}, bias \in {-300, 0, 299} :
        LET e == StorageExponent(Magnitude(product + bias) + Magnitude(old * 2 ^ oldExp))
        IN  ResidualSum(old, oldExp, product, bias, 1, e)
              = AlignedOld(old, oldExp, e) + ScaledBranch(product, bias, 1, e)

(* quantize_columns uses the whole range of a channel and nothing beyond.   *)
ASSUME StaticUsesRange ==
    \A c \in [1 .. 2 -> {-9, -4, 0, 3, 9}] :
        LET q == StaticInt8(c)
        IN  /\ \A i \in 1 .. 2 : q[i] \in -127 .. 127
            /\ MaxMagnitude(c) > 0 => MaxMagnitude(q) = 127

-----------------------------------------------------------------------------
(* Packets. *)

GemmShapes ==
    {[m |-> m, n |-> n, k |-> k, flags |-> f] :
        m \in {1, 3}, n \in {1, 2, 15, 16}, k \in {1, 3, 4, 6}, f \in {NarrowFlags, WideFlags}}
\* Values that tell positions apart, and the ends of a byte.
MatrixA(d) == [i \in 0 .. d.m - 1, j \in 0 .. d.k - 1 |-> IF i = j THEN -128 ELSE 11 * i + j]
MatrixB(d) == [i \in 0 .. d.k - 1, j \in 0 .. d.n - 1 |-> IF i = j THEN 127 ELSE 7 * i - j]

(* The two packers of a GEMM packet, which the M2 programs and the M3 files *)
(* use, make the same words, as many as the descriptor and the engine say;  *)
(* what the engine packs is what the host unpacks; a wide result is the     *)
(* narrow one where that does not saturate.                                 *)
ASSUME GemmPacketsAgree ==
    \A d \in GemmShapes : GemmDescriptor(d) =>
        LET a == MatrixA(d)
            b == MatrixB(d)
            c == WideResult(d, a, b)
        IN  /\ PackInput(d, a, b) = PackInputV3(d, a, b)
            /\ Len(PackInput(d, a, b)) = GemmInputWords(d) /\ Len(PackOutputV3(d, NarrowResult(d, a, b))) = GemmOutputWords(d)
            /\ UnpackOutput(d, EvaluatePacked(d, a, b)[2]) = NarrowResult(d, a, b)
            /\ \A x \in DOMAIN c : InAccumulator(c[x])

(* No sum of the deepest product leaves the 27 bits of the accumulators.    *)
ASSUME AccumulatorsHold == InAccumulator(WideDepth * 128 * 128) /\ InAccumulator(-(WideDepth * 128 * 127))

(* A score and its validity come back from the word they share, and an SFPU *)
(* packet has the words its descriptor says.                                *)
Tables == [gelu |-> SmallGelu, exp |-> SmallExp, prob |-> 100, epsilon |-> 90, headroom |-> 16]
SfpuCases ==
    {[op |-> op, length |-> 2, shift |-> s, multiplier |-> m] : op \in SfpuOps, s \in {0, 3}, m \in {0, 5}}
PlanesOf(d) ==
    IF d.op = "SOFTMAX" THEN <<<<-32768, 7>>, <<TRUE, FALSE>>>>
    ELSE SubSeq(<<<<-3, 9>>, <<4, 2>>, <<-32768, 1>>>>, 1, Planes(d.op))
ASSUME SfpuPacketsHold ==
    /\ \A v \in {-32768, -1, 0, 32767}, valid \in BOOLEAN : ScoreOf(ScoreWord(v, valid)) = <<v, valid>>
    /\ \A d \in SfpuCases : SfpuDescriptor(d) =>
          /\ Len(SfpuInput(d, PlanesOf(d))) = SfpuInputWords(d)
          /\ \A i \in 1 .. d.length :
                Signed16(SfpuOutput(d, PlanesOf(d), Tables)[i][0], SfpuOutput(d, PlanesOf(d), Tables)[i][1])
                  = SfpuResult(d, PlanesOf(d), Tables)[i]

(* A row of the reference is the packets the host runs for it: REQUANT8     *)
(* with the dynamic multiplier, a wide product, and AFFINE on its sums.     *)
LinearColumns == <<<<3, -128, 5>>, <<127, 0, -7>>>>
AsRow(q) == [i \in {0}, j \in 0 .. 2 |-> q[j + 1]]
AsMatrix(columns) == [i \in 0 .. 2, j \in 0 .. 1 |-> columns[j + 1][i + 1]]
ASSUME LinearIsItsPackets ==
    \A x \in [1 .. 3 -> {-32768, -700, 0, 9, 32767}], multipliers \in {<<300, 7>>, <<0, 2000>>} :
        LET requant ==
                [op |-> "REQUANT8", length |-> 3, shift |-> DynamicShift,
                 multiplier |-> RuntimeMultiplier(MaxMagnitude(x))]
            q == SfpuResult(requant, <<x>>, Tables)
            gemm == [m |-> 1, n |-> 2, k |-> 3, flags |-> WideFlags]
            sums == WideResult(gemm, AsRow(q), AsMatrix(LinearColumns))
            affine == [op |-> "AFFINE", length |-> 2, shift |-> 6, multiplier |-> 0]
            planes == <<<<sums[0, 0], sums[0, 1]>>, multipliers, <<-5, 32767>>>>
        IN  /\ SfpuDescriptor(requant) /\ SfpuDescriptor(affine)
            /\ SfpuResult(affine, planes, Tables) = ModelLinear(x, LinearColumns, multipliers, 6, <<-5, 32767>>)

(* A chain's patch replaces the lanes that depend on the source and leaves  *)
(* weights, masks and padding as the file has them, so patching a packet    *)
(* with the results it was made from changes nothing.                       *)
ChainSource == [i \in 1 .. 6 |-> Word32(3 * i - 10)]
PatchCases == [mode : {"Words", "Bytes", "Scores"}, count : 1 .. 6]
MadeFrom(mode, count) ==
    CASE mode = "Bytes" ->
            [w \in 1 .. 3 |-> [b \in 0 .. 3 |-> IF 4 * (w - 1) + b + 1 <= 6 THEN ChainSource[4 * (w - 1) + b + 1][0] ELSE 0]]
      [] mode = "Scores" -> [w \in 1 .. 7 |-> ScoreWord(3 * w - 10, w % 2 = 0)]
      [] mode = "Words" -> [w \in 1 .. 7 |-> Word32(3 * w - 10)]
ASSUME PatchKeepsTheRest ==
    \A c \in PatchCases : PatchInput(c.mode, c.count, ChainSource, MadeFrom(c.mode, c.count)) = MadeFrom(c.mode, c.count)

(* A packet file is read to its last word or refused: one word missing or   *)
(* one too many is never accepted.                                          *)
PacketFiles ==
    {[magic |-> g, count |-> n, present |-> p, packets |-> s] :
        g \in {"Chain", "Sfpu", "Gemm"}, n \in 0 .. 2, p \in 3 .. 50,
        s \in UNION {[1 .. k -> [inputs : {0, 5}, outputs : {0, 2}]] : k \in 0 .. 2}}
ASSUME FilesReadWhole ==
    \A f \in PacketFiles : ReadAccepts(f) =>
        /\ ~ReadAccepts([f EXCEPT !.present = @ + 1]) /\ ~ReadAccepts([f EXCEPT !.present = @ - 1])
        /\ ~ReadAccepts([f EXCEPT !.packets = Tail(@)])
-----------------------------------------------------------------------------
(* The arena, with the numbers of the source. *)

ModelSizes(specs) == [i \in DOMAIN specs |-> ArrayBytes(specs[i])]
Apart(p, q) == p.at + p.bytes <= q.at \/ q.at + q.bytes <= p.at

(* build_layout places 248 arrays and 15 regions: the arrays lie behind the *)
(* header, on cache lines, without an overlap, inside the model's region;   *)
(* the regions tile the arena of 256 MiB, and each that the fabric writes   *)
(* has an unmapped page on both sides.                                      *)
ASSUME ArenaIsSound ==
    LET specs == ArraySpecs
        sizes == ModelSizes(specs)
        offsets == ArrayOffsets(sizes, ArenaFormat)
        end == ModelEnd(sizes, ArenaFormat)
        regions == Regions(end)
    IN  /\ Len(specs) = 248 /\ Cardinality({specs[i].name : i \in 1 .. 248}) = 248
        /\ offsets[1] >= HeaderBytes
        /\ \A i \in 1 .. 248 :
              offsets[i] % 64 = 0 /\ offsets[i] + sizes[i] <= IF i < 248 THEN offsets[i + 1] ELSE end
        /\ Len(regions) = 15 /\ \A i \in 1 .. 15 : RegionLegal(regions[i])
        /\ regions[1].bytes = end /\ SizeBefore(regions, 16) = ArenaBytes
        /\ \A i \in 1 .. 15 : regions[i].permissions = 3 =>
              regions[i - 1].permissions = 0 /\ regions[i + 1].permissions = 0

(* The two tables of the header hold every array and region, and no two     *)
(* things in the header share a byte.                                       *)
ASSUME HeaderIsSound ==
    LET extents == HeaderExtents(248, 15)
    IN  /\ HeaderHolds(248, 15)
        /\ \A p \in extents : p.at >= 0 /\ p.at + p.bytes <= HeaderBytes
        /\ \A p, q \in extents : p = q \/ Apart(p, q)

(* A manifest that ModelPack admits is one build_layout can place: a pack   *)
(* that fails one of its checks in any array is refused by one or by the    *)
(* other, and neither refuses the accepted pack.                            *)
PackSpecs == LinearArrays("c_attn", 4, 20) \o NormArrays("ln_1")
GoodEntry(a) ==
    [shape |-> a.shape, manifestShape |-> a.shape, dtype |-> a.element, dtypeRight |-> TRUE, inside |-> TRUE,
     digestRight |-> TRUE, contiguous |-> TRUE, finite |-> TRUE, positive |-> TRUE, paddingZero |-> TRUE]
GoodPack == [i \in DOMAIN PackSpecs |-> GoodEntry(PackSpecs[i])]
Broken ==
    {[GoodPack EXCEPT ![i].shape = <<3>>, ![i].manifestShape = <<3>>] : i \in DOMAIN PackSpecs}
    \cup {[GoodPack EXCEPT ![i].manifestShape = <<3>>] : i \in DOMAIN PackSpecs}
    \cup {[GoodPack EXCEPT ![i].digestRight = FALSE] : i \in DOMAIN PackSpecs}
    \cup {[GoodPack EXCEPT ![i].dtype = 4] : i \in DOMAIN PackSpecs}
    \cup {[GoodPack EXCEPT ![1].paddingZero = FALSE], [GoodPack EXCEPT ![2].positive = FALSE],
          [GoodPack EXCEPT ![3].finite = FALSE], [GoodPack EXCEPT ![4].positive = FALSE]}
ASSUME PackIsPlaced ==
    /\ PackAdmits(PackSpecs, GoodPack) /\ ManifestAdmits(PackSpecs, GoodPack)
    /\ \A pack \in Broken : ~PackAdmits(PackSpecs, pack)
    /\ \A pack \in Broken \cup {GoodPack} : PackAdmits(PackSpecs, pack) => ManifestAdmits(PackSpecs, pack)

(* Tiles give back the columns they were made of: column c of the product   *)
(* is lane c % 16 of tile c / 16, which is how the host and the runtime     *)
(* address the weights.                                                     *)
ASSUME TilesKeepColumns ==
    \A n \in {1, 15, 16, 17, 20} :
        LET w == [i \in 0 .. 2, j \in 0 .. n - 1 |-> 20 * i + j + 1]
            t == TileWeights(3, n, w)
        IN  \A i \in 0 .. 2, j \in 0 .. 31 : (j \div 16) <= (n - 1) \div 16 =>
                t[j \div 16, i, j % 16] = IF j < n THEN w[i, j] ELSE 0

(* verify_export accepts the file export_model writes and no other: every   *)
(* byte of the file is under one of its checks, so a byte wrong anywhere,   *)
(* in a gap or behind the last array too, is refused, with the layout of    *)
(* the export or of that file.                                              *)
SmallFormat == [header |-> 2, line |-> 3, page |-> 5, chunk |-> 2]
SmallHead == <<1, 1>>
HeadBytes == [o \in 0 .. 1 |-> SmallHead[o + 1]]
SmallSizes == <<1, 3>>
Payloads == {<<[o \in {0} |-> a], [o \in 0 .. 2 |-> b]>> : a \in 0 .. 1, b \in 0 .. 1}
Files == [0 .. 9 -> 0 .. 1]
ASSUME VerifyIsExact ==
    \A payload \in Payloads :
        LET layout == LayoutOf(SmallSizes, SmallFormat, HeadBytes, payload)
            good == layout.model
        IN  /\ ModelEnd(SmallSizes, SmallFormat) = 10
            /\ VerifyExport(good, layout, SmallSizes, SmallFormat, HeadBytes, payload)
            /\ \A file \in Files :
                  VerifyExport(file, [layout EXCEPT !.model = file], SmallSizes, SmallFormat, HeadBytes, payload)
                    => file = good

-----------------------------------------------------------------------------
(* The model. *)

Vocabulary == {1, 2}
Prompts == UNION {[1 .. n -> Vocabulary] : n \in 2 .. 3}
LayersChecked == 2

(* gpt2_quantized.py:159, "make cached decode differ from complete prefill":*)
(* however a prompt is cut, the rows computed on the cache of the first     *)
(* part are the rows of the whole, and so is the cache they leave; what a   *)
(* row attends to, and shares a scale with, is never later than itself.     *)
ASSUME CachedIsWhole ==
    \A kind \in Kinds, p \in Prompts : \A cut \in 1 .. Len(p) - 1 :
        LET whole == Forward(kind, p, NoCache(LayersChecked), TRUE)
            first == Forward(kind, SubSeq(p, 1, cut), NoCache(LayersChecked), TRUE)
            rest == Forward(kind, SubSeq(p, cut + 1, Len(p)), first.cache, TRUE)
        IN  first.logits \o rest.logits = whole.logits /\ rest.cache = whole.cache

(* generate runs the prompt once and then a token at a time: what it makes  *)
(* is what running the whole text for every token would make.               *)
Generated(kind, prompt, count, argmax(_)) ==
    LET text[n \in 0 .. count] ==
            IF n = 0 THEN prompt
            ELSE Append(text[n - 1], argmax(Forward(kind, text[n - 1], NoCache(1), FALSE).logits[1]))
    IN  SubSeq(text[count], Len(prompt) + 1, Len(prompt) + count)
\* A choice that tells one row from the others.
ChosenToken(row) == IF row = Forward("Quantized", <<2, 1>>, NoCache(1), FALSE).logits[1] THEN 2 ELSE 1
ASSUME GenerateIsPrefill ==
    \A p \in [1 .. 1 -> Vocabulary], count \in 1 .. 3 :
        Generate("Quantized", p, count, 1, ChosenToken) = Generated("Quantized", p, count, ChosenToken)

-----------------------------------------------------------------------------
(* The descriptors of that run: a wide packet of two row groups, the second  *)
(* one short, with a row of A in two words, and a narrow one of one row; one *)
(* descriptor of each kind that is refused.                                  *)
GemmDescriptors ==
    {[m |-> 3, n |-> 2, k |-> 3, flags |-> "Wide"], [m |-> 1, n |-> 2, k |-> 2, flags |-> "Narrow"],
     [m |-> 1, n |-> 1, k |-> 3, flags |-> "Narrow"], [m |-> 1, n |-> 1, k |-> 1, flags |-> "Reserved"]}
=============================================================================
