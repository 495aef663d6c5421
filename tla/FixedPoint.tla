----------------------------- MODULE FixedPoint -----------------------------
(***************************************************************************)
(* ref/sfpu_ref.py and the arithmetic the host programs and the model      *)
(* reference repeat: one rounding, to the nearest integer and ties to even,*)
(* and the operators of the SFPU written with it.  Vectors are sequences   *)
(* of integers; a refused vector is a guard of the operator that takes it. *)
(*                                                                         *)
(* The transcendental tables are data: an operator takes its table, and of *)
(* the formats it takes the scales it depends on, so that small instances  *)
(* of both can be evaluated.                                               *)
(***************************************************************************)
EXTENDS Integers, Sequences
LOCAL INSTANCE FiniteSetsExt

ActScale == 256
GainScale == 4096
ProbScale == 32768
ExpOne == 16777216  \* 2^24: the entry of a difference of zero
MaxVector == 3072
MaxSoftmax == 1024

Magnitude(n) == IF n < 0 THEN -n ELSE n

\* rne_div on a magnitude.
RoundsUp(q, r, d) == 2 * r > d \/ (2 * r = d /\ q % 2 = 1)
RneQuotient(m, d) == (m \div d) + IF RoundsUp(m \div d, m % d, d) THEN 1 ELSE 0
RneDiv(n, d) == IF n < 0 THEN -RneQuotient(-n, d) ELSE RneQuotient(n, d)

\* The vectorised forms of the model reference and of the host: a shift.
RneShift(v, shift) == RneDiv(v, 2 ^ shift)
RoundedProduct(x, multiplier, shift) == RneDiv(x * multiplier, 2 ^ shift)

Clamp(v, low, high) == IF v < low THEN low ELSE IF v > high THEN high ELSE v
Sat16(v) == Clamp(v, -32768, 32767)
Sat8(v) == Clamp(v, -128, 127)

CheckedVector(x, maximum, low, high) ==
    Len(x) \in 1 .. maximum /\ \A i \in DOMAIN x : x[i] \in low .. high
Activations(x) == CheckedVector(x, MaxVector, -32768, 32767)

\* Sum of f[1] .. f[n].
SumTo(f, n) == LET s[k \in 0 .. n] == IF k = 0 THEN 0 ELSE s[k - 1] + f[k] IN s[n]
Total(x) == SumTo(x, Len(x))
MaxMagnitude(x) == Max({Magnitude(x[i]) : i \in DOMAIN x})

-----------------------------------------------------------------------------
(* GELU: a table of the positive half, the identity above it, and for a     *)
(* negative value the positive one less its magnitude.                      *)

GeluPositive(table, m) == IF m < Len(table) THEN table[m + 1] ELSE m
GeluOf(table, raw) ==
    LET m == Magnitude(raw) IN IF raw < 0 THEN GeluPositive(table, m) - m ELSE GeluPositive(table, m)
GeluInt(table, x) == [i \in DOMAIN x |-> GeluOf(table, x[i])]

-----------------------------------------------------------------------------
(* LayerNorm.  epsilon is the rounded term under the root, headroom the     *)
(* scale of the radicand: 100000 and 2^24 in the source.                    *)

IntegerRoot(n) == CHOOSE r \in 0 .. n : r * r <= n /\ (r + 1) * (r + 1) > n
VarianceNumerator(x) == Len(x) * SumTo([i \in DOMAIN x |-> x[i] * x[i]], Len(x)) - Total(x) * Total(x)
NormDenominator(x, epsilon, headroom) == IntegerRoot(VarianceNumerator(x) * headroom + epsilon)
NormCore(x, gain, epsilon, headroom) ==
    LET d == NormDenominator(x, epsilon, headroom)
    IN  [i \in DOMAIN x |-> RneDiv((Len(x) * x[i] - Total(x)) * gain[i] * ActScale, d)]
LayerNormInt(x, gain, bias, epsilon, headroom) ==
    [i \in DOMAIN x |-> Sat16(NormCore(x, gain, epsilon, headroom)[i] + bias[i])]

-----------------------------------------------------------------------------
(* Softmax: the table of exp(-i/16) is interpolated on the four low bits.   *)

ExpNegative(table, difference) ==
    IF difference >= 16 * (Len(table) - 1) THEN 0
    ELSE LET i == difference \div 16
             f == difference % 16
         IN  RneDiv(table[i + 1] * (16 - f) + table[i + 2] * f, 16)

Weights(table, x, valid) ==
    LET top == Max({x[i] : i \in {j \in DOMAIN x : valid[j]}})
    IN  [i \in DOMAIN x |-> IF valid[i] THEN ExpNegative(table, top - x[i]) ELSE 0]

\* The floors, and one more for the first of the weights that are not zero.
Mass(weights, scale) == [i \in DOMAIN weights |-> (weights[i] * scale) \div Total(weights)]
Missing(weights, scale) == scale - Total(Mass(weights, scale))
PositiveBefore(weights, i) == {j \in 1 .. i : weights[j] > 0}
Corrected(weights, scale) ==
    [i \in DOMAIN weights |->
        Mass(weights, scale)[i] +
            IF weights[i] > 0 /\ Cardinality(PositiveBefore(weights, i)) <= Missing(weights, scale)
            THEN 1 ELSE 0]
SoftmaxInt(table, x, valid, scale) ==
    IF \A i \in DOMAIN x : ~valid[i] THEN [i \in DOMAIN x |-> 0]
    ELSE Corrected(Weights(table, x, valid), scale)

-----------------------------------------------------------------------------
(* Addition, affine maps and requantisation.                                *)

AddInt(x, y) == [i \in DOMAIN x |-> Sat16(x[i] + y[i])]
AffineInt(x, multipliers, biases, shift) ==
    [i \in DOMAIN x |-> Sat16(RneDiv(x[i] * multipliers[i], 2 ^ shift) + biases[i])]
RequantizeInt8(x, multiplier, shift) ==
    [i \in DOMAIN x |-> Sat8(RneDiv(x[i] * multiplier, 2 ^ shift))]

\* dynamic_int8_parameters: the multiplier of a vector whose largest magnitude
\* is a; the shift is 24 and the zero point 0.
DynamicShift == 24
ASSUME DynamicAssumption == 2 ^ DynamicShift = ExpOne
DynamicMultiplier(a) == IF a = 0 THEN 0 ELSE RneDiv(127 * ExpOne, a)
DynamicInt8(x) == RequantizeInt8(x, DynamicMultiplier(MaxMagnitude(x)), DynamicShift)

\* runtime_requant_parameters: the reduction of the host before a fabric packet.
RuntimeMultiplier(a) ==
    IF a = 0 THEN 0
    ELSE LET q == (127 * ExpOne) \div a
             r == (127 * ExpOne) % a
         IN  IF 2 * r > a \/ (2 * r = a /\ q % 2 = 1) THEN q + 1 ELSE q

\* requant_columns: a matrix whose columns share AFFINE packets, a multiplier a lane.
\* A matrix is a sequence of columns here.
BatchedColumn(x) ==
    AffineInt(x, [i \in DOMAIN x |-> DynamicMultiplier(MaxMagnitude(x))],
              [i \in DOMAIN x |-> 0], DynamicShift)

\* quantize_columns: the checkpoint's weights, a scale an output channel.  The
\* weights are integers of some unit; np.rint of w * 127 / maximum is exact.
StaticInt8(column) ==
    LET a == MaxMagnitude(column)
    IN  [i \in DOMAIN column |-> IF a = 0 THEN 0 ELSE Clamp(RneDiv(column[i] * 127, a), -127, 127)]

-----------------------------------------------------------------------------
(* Metadata of the scaled model.                                            *)

\* storage_exponent, exponent_for_range: the least exponent under which a range
\* keeps to 32700 of the 32767 raw units, the rest being room for the roundings.
\* maximum is in raw units of exponent 0; MaxExponent bounds the search.
Headroom == 32700
MaxExponent == 16
StorageExponent(maximum) == Min({e \in 0 .. MaxExponent : maximum <= Headroom * 2 ^ e})

\* affine_metadata, affine_parameters: the largest shift under which no
\* multiplier needs more than `width` bits.  Coefficients are numerators over
\* 2^fraction; what does not fit, and what is not zero and rounds to it, is refused.
Scaled(c, shift, fraction) == RneDiv(c * 2 ^ shift, 2 ^ fraction)
FitsShift(cs, shift, fraction, width) ==
    \A i \in DOMAIN cs : Scaled(cs[i], shift, fraction) < 2 ^ width
AffineShift(cs, fraction, width) ==
    LET fits == {s \in 0 .. width : FitsShift(cs, s, fraction, width)}
    IN  IF fits = {} THEN 0 ELSE Max(fits)
AffineMultipliers(cs, fraction, width) ==
    [i \in DOMAIN cs |-> Scaled(cs[i], AffineShift(cs, fraction, width), fraction)]
AffineAdmits(cs, fraction, width) ==
    LET m == AffineMultipliers(cs, fraction, width)
    IN  \A i \in DOMAIN cs : m[i] < 2 ^ width /\ ~(m[i] = 0 /\ cs[i] # 0)

\* QuantizedGPT2.linear: a row quantised with its own scale, its products with the
\* columns of the weights, and the affine map of the sums.
ColumnSum(q, column) == SumTo([i \in 1 .. Len(q) |-> q[i] * column[i]], Len(q))
ModelAffine(sums, multipliers, shift, biases) ==
    [j \in DOMAIN sums |-> Sat16(RneShift(sums[j] * multipliers[j], shift) + biases[j])]
ModelLinear(x, columns, multipliers, shift, biases) ==
    LET q == DynamicInt8(x)
    IN  ModelAffine([j \in DOMAIN columns |-> ColumnSum(q, columns[j])], multipliers, shift, biases)

\* QuantizedGPT2: a gain beyond the 16 bits of the operator is halved until it
\* fits, and the norm multiplied again, then moved by its bias.
GainFits(gain, factor) ==
    \A i \in DOMAIN gain : gain[i] <= 32767 * factor /\ gain[i] >= -32768 * factor
GainFactor(gain) == CHOOSE f \in {2 ^ e : e \in 0 .. 8} :
    GainFits(gain, f) /\ (f = 1 \/ ~GainFits(gain, f \div 2))
ModelNorm(x, gain, bias, epsilon, headroom) ==
    LET f == GainFactor(gain)
        fitted == [i \in DOMAIN gain |-> RneDiv(gain[i], f)]
        first == LayerNormInt(x, fitted, [i \in DOMAIN x |-> 0], epsilon, headroom)
    IN  IF f = 1 THEN LayerNormInt(x, gain, bias, epsilon, headroom)
        ELSE [i \in DOMAIN x |-> Sat16(first[i] * f + bias[i])]

\* ScaledGPT2.scores: the largest score is taken off before the clamp.
CenteredScores(raw) ==
    LET top == Max({raw[i] : i \in DOMAIN raw})
    IN  [i \in DOMAIN raw |-> Clamp(raw[i] - top, -32768, 0)]

\* ScaledGPT2.project: a residual and a branch are brought to a common exponent
\* and added.  The branch is a product and a bias, numerators over `unit` raw
\* units of exponent 0; the rounding of the multiplier itself is left out.
AlignedOld(old, oldExp, exp) == RneDiv(old * 2 ^ oldExp, 2 ^ exp)
ScaledBranch(product, bias, unit, exp) ==
    RneDiv(product, unit * 2 ^ exp) + RneDiv(bias, unit * 2 ^ exp)
ResidualSum(old, oldExp, product, bias, unit, exp) ==
    Sat16(Sat16(AlignedOld(old, oldExp, exp)) + Sat16(ScaledBranch(product, bias, unit, exp)))
=============================================================================
