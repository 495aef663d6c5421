-------------------------- MODULE M4Runtime_proofs --------------------------
(***************************************************************************)
(* Theorems about the runtime of the fourth milestone.  First what the one *)
(* rounding of its numbers guarantees for every integer, and what the      *)
(* host's bridges rest on because of it (TLC evaluates the same facts over *)
(* bounded inputs in NumericChecks).  Then its session with the two        *)
(* accelerators and its cache: for any vocabulary, capacity, block,        *)
(* programs and number of faults, a session that serves is in step with    *)
(* the board, answers each request with its own result, and the cache is   *)
(* that of the tokens that were fed.                                       *)
(***************************************************************************)
EXTENDS M4Offload, FixedPoint, TLAPS, SequenceTheorems, WellFoundedInduction

-----------------------------------------------------------------------------
(* The rounding. *)

LEMMA DivisionLaw ==
    ASSUME NEW m \in Nat, NEW d \in Nat, d > 0
    PROVE  /\ m \div d \in Nat /\ m % d \in Nat
           /\ m % d < d
           /\ m = d * (m \div d) + (m % d)
  BY SMT

LEMMA RneQuotientNearest ==
    ASSUME NEW m \in Nat, NEW d \in Nat, d > 0
    PROVE  /\ RneQuotient(m, d) \in Nat
           /\ 2 * (m - d * RneQuotient(m, d)) <= d
           /\ 2 * (d * RneQuotient(m, d) - m) <= d
  <1> DEFINE q == m \div d
             r == m % d
  <1>1. q \in Nat /\ r \in Nat /\ r < d /\ m = d * q + r
    BY DivisionLaw
  <1>2. CASE RoundsUp(q, r, d)
    <2>1. RneQuotient(m, d) = q + 1
      BY <1>2 DEF RneQuotient
    <2>2. 2 * r >= d
      BY <1>1, <1>2 DEF RoundsUp
    <2> QED
      BY <1>1, <2>1, <2>2
  <1>3. CASE ~RoundsUp(q, r, d)
    <2>1. RneQuotient(m, d) = q
      BY <1>1, <1>3 DEF RneQuotient
    <2>2. 2 * r <= d
      BY <1>1, <1>3 DEF RoundsUp
    <2> QED
      BY <1>1, <2>1, <2>2
  <1> QED
    BY <1>2, <1>3

(* sfpu_ref.rne_div: the result is a nearest integer to the quotient, for   *)
(* every numerator and every positive denominator.                          *)
THEOREM RneNearest ==
    ASSUME NEW n \in Int, NEW d \in Nat, d > 0
    PROVE  /\ RneDiv(n, d) \in Int
           /\ 2 * (n - d * RneDiv(n, d)) <= d
           /\ 2 * (d * RneDiv(n, d) - n) <= d
  <1>1. CASE n >= 0
    <2>1. n \in Nat /\ RneDiv(n, d) = RneQuotient(n, d)
      BY <1>1 DEF RneDiv
    <2> QED
      BY <2>1, RneQuotientNearest
  <1>2. CASE n < 0
    <2>1. -n \in Nat /\ RneDiv(n, d) = -RneQuotient(-n, d)
      BY <1>2 DEF RneDiv
    <2> DEFINE q == RneQuotient(-n, d)
    <2>2. q \in Nat /\ 2 * (-n - d * q) <= d /\ 2 * (d * q - (-n)) <= d
      BY <2>1, RneQuotientNearest
    <2>3. d * (-q) = -(d * q) /\ d * q \in Int
      BY <2>2
    <2> QED
      BY <2>1, <2>2, <2>3
  <1> QED
    BY <1>1, <1>2

(* sfpu_ref.rne_div: a quotient half-way between two integers goes to the   *)
(* even one, which is what makes the rounding free of bias.                 *)
THEOREM RneTiesToEven ==
    ASSUME NEW n \in Int, NEW d \in Nat, d > 0,
           2 * (n - d * RneDiv(n, d)) = d \/ 2 * (d * RneDiv(n, d) - n) = d
    PROVE  \E h \in Int : RneDiv(n, d) = 2 * h
  <1> DEFINE m == IF n < 0 THEN -n ELSE n
             q == m \div d
             r == m % d
             R == RneQuotient(m, d)
  <1>1. m \in Nat /\ q \in Nat /\ r \in Nat /\ r < d /\ m = d * q + r
    BY DivisionLaw
  <1>2. RneDiv(n, d) = (IF n < 0 THEN -R ELSE R) /\ R \in Nat
    BY RneQuotientNearest, <1>1 DEF RneDiv
  <1>3. 2 * (m - d * R) = d \/ 2 * (d * R - m) = d
    <2>1. d * (-R) = -(d * R) /\ d * R \in Int
      BY <1>2
    <2> QED
      BY <1>1, <1>2, <2>1
  <1>4. R = q + (IF RoundsUp(q, r, d) THEN 1 ELSE 0)
    BY DEF RneQuotient
  <1>5. 2 * r = d
    <2>1. CASE R = q
      <3>1. d * R = d * q /\ d * q \in Int
        BY <1>1, <2>1
      <3> QED
        BY <1>1, <1>3, <3>1
    <2>2. CASE R = q + 1
      <3>1. d * R = d * q + d /\ d * q \in Int
        BY <1>1, <2>2
      <3> QED
        BY <1>1, <1>3, <3>1
    <2> QED
      BY <1>1, <1>4, <2>1, <2>2
  <1>6. RoundsUp(q, r, d) <=> q % 2 = 1
    BY <1>1, <1>5 DEF RoundsUp
  <1>7. \E h \in Int : R = 2 * h
    <2>1. q = 2 * (q \div 2) + (q % 2) /\ q \div 2 \in Nat /\ q % 2 \in 0..1
      BY <1>1
    <2>2. CASE q % 2 = 1
      <3> WITNESS q \div 2 + 1 \in Int
      <3> QED BY <1>1, <1>4, <1>6, <2>1, <2>2
    <2>3. CASE q % 2 = 0
      <3> WITNESS q \div 2 \in Int
      <3> QED BY <1>1, <1>4, <1>6, <2>1, <2>3
    <2> QED
      BY <2>1, <2>2, <2>3
  <1>8. PICK h \in Int : R = 2 * h
    BY <1>7
  <1>9. RneDiv(n, d) = 2 * (IF n < 0 THEN -h ELSE h)
    BY <1>2, <1>8
  <1> QED
    BY <1>9

(* sfpu_ref.rne_div: a value and its opposite round to opposites, so that a *)
(* sign taken off before the operator and put back after it changes nothing. *)
THEOREM RneOdd ==
    ASSUME NEW n \in Int, NEW d \in Nat, d > 0
    PROVE  RneDiv(-n, d) = -RneDiv(n, d)
  <1>1. CASE n = 0
    <2>1. RneQuotient(0, d) = 0
      <3>1. 0 \div d = 0 /\ 0 % d = 0
        BY SMT
      <3> QED
        BY <3>1 DEF RneQuotient, RoundsUp
    <2> QED
      BY <1>1, <2>1 DEF RneDiv
  <1>2. CASE n > 0
    <2>1. RneQuotient(n, d) \in Nat
      BY <1>2, RneQuotientNearest
    <2>2. -n < 0 /\ -(-n) = n
      BY <1>2
    <2> QED
      BY <1>2, <2>1, <2>2 DEF RneDiv
  <1>3. CASE n < 0
    <2>1. RneQuotient(-n, d) \in Nat
      BY <1>3, RneQuotientNearest
    <2>2. ~(-n < 0)
      BY <1>3
    <2> QED
      BY <1>3, <2>1, <2>2 DEF RneDiv
  <1> QED
    BY <1>1, <1>2, <1>3

(* sfpu_ref.rne_div: the rounding keeps the order of its numerators, so the *)
(* largest element of a vector has the largest code.                        *)
THEOREM RneMonotone ==
    ASSUME NEW n \in Int, NEW k \in Int, n <= k, NEW d \in Nat, d > 0
    PROVE  RneDiv(n, d) <= RneDiv(k, d)
  <1> DEFINE a == RneDiv(n, d)
             b == RneDiv(k, d)
  <1>1. /\ a \in Int /\ 2 * (n - d * a) <= d /\ 2 * (d * a - n) <= d
        /\ b \in Int /\ 2 * (k - d * b) <= d /\ 2 * (d * b - k) <= d
    BY RneNearest
  <1>2. CASE n = k
    BY <1>1, <1>2
  <1>3. CASE n < k
    <2> SUFFICES ASSUME a >= b + 1 PROVE FALSE
      BY <1>1
    <2>1. d * a >= d * b + d /\ d * a \in Int /\ d * b \in Int
      <3> DEFINE c == a - b - 1
      <3>1. c \in Nat /\ a = b + 1 + c
        BY <1>1
      <3> HIDE DEF c
      <3>2. d * a = d * b + d + d * c /\ d * c \in Nat
        BY <1>1, <3>1
      <3> QED
        BY <1>1, <3>2
    <2> QED
      BY <1>1, <1>3, <2>1
  <1> QED
    BY <1>2, <1>3

-----------------------------------------------------------------------------
(* The int8 bridges. *)

DynamicProduct == 127 * ExpOne

\* The largest magnitude the bridges admit; the provers are shown the numbers
\* only where their size matters.
Widest == 32768

LEMMA ExpOneRange == ExpOne \in Nat /\ Widest \in Nat /\ ExpOne > Widest /\ Widest > 0
  BY SMT DEF ExpOne, Widest

LEMMA MultiplierNearest ==
    ASSUME NEW a \in 1 .. Widest
    PROVE  /\ DynamicMultiplier(a) \in Nat
           /\ 2 * (a * DynamicMultiplier(a) - DynamicProduct) <= a
           /\ 2 * (DynamicProduct - a * DynamicMultiplier(a)) <= a
  <1>1. DynamicMultiplier(a) = RneQuotient(DynamicProduct, a) /\ DynamicProduct \in Nat
    BY ExpOneRange, SMT DEF DynamicMultiplier, RneDiv, DynamicProduct
  <1> QED
    BY <1>1, RneQuotientNearest

(* m4_offload.requant: the host's own reduction, a division and a test of   *)
(* its remainder, is the multiplier of the reference, for every magnitude.  *)
THEOREM RuntimeMultiplierAgrees ==
    ASSUME NEW a \in Nat
    PROVE  RuntimeMultiplier(a) = DynamicMultiplier(a)
  <1>1. CASE a = 0
    BY <1>1 DEF RuntimeMultiplier, DynamicMultiplier
  <1>2. CASE a > 0
    <2>1. /\ DynamicProduct \in Nat /\ DynamicProduct \div a \in Nat
          /\ DynamicMultiplier(a) = RneQuotient(DynamicProduct, a)
      <3>1. DynamicMultiplier(a) = RneQuotient(DynamicProduct, a)
        BY <1>2, ExpOneRange, SMT DEF DynamicMultiplier, RneDiv, DynamicProduct
      <3>2. DynamicProduct \in Nat
        BY ExpOneRange DEF DynamicProduct
      <3> QED
        BY <1>2, <3>1, <3>2, DivisionLaw
    <2>2. RuntimeMultiplier(a) = RneQuotient(DynamicProduct, a)
      BY <1>2, <2>1 DEF RuntimeMultiplier, RneQuotient, RoundsUp, DynamicProduct
    <2> QED
      BY <2>1, <2>2
  <1> QED
    BY <1>1, <1>2

(* The core of m4_offload.requant_columns' argument: an element no larger   *)
(* than the maximum its multiplier was made for never leaves -127 .. 127.   *)
THEOREM DynamicBound ==
    ASSUME NEW a \in 1 .. Widest, NEW v \in -a .. a
    PROVE  RneDiv(v * DynamicMultiplier(a), ExpOne) \in -127 .. 127
  <1> DEFINE m == DynamicMultiplier(a)
             R == RneDiv(v * m, ExpOne)
  <1>1. m \in Nat /\ 2 * (a * m - DynamicProduct) <= a
    BY MultiplierNearest
  <1>2. v * m \in Int /\ a * m \in Int /\ v * m <= a * m /\ -(a * m) <= v * m
    <2>1. \A s, t \in Int : s <= t => s * m <= t * m
      BY <1>1
    <2>2. (-a) * m = -(a * m)
      BY <1>1
    <2> QED
      BY <1>1, <2>1, <2>2
  <1>3. R \in Int /\ 2 * (v * m - ExpOne * R) <= ExpOne /\ 2 * (ExpOne * R - v * m) <= ExpOne
    <2>1. \A n \in Int : /\ RneDiv(n, ExpOne) \in Int
                         /\ 2 * (n - ExpOne * RneDiv(n, ExpOne)) <= ExpOne
                         /\ 2 * (ExpOne * RneDiv(n, ExpOne) - n) <= ExpOne
      BY ExpOneRange, RneNearest
    <2> QED
      BY <1>2, <2>1
  <1>4. ASSUME NEW k \in Int, k >= 128 PROVE ExpOne * k >= 128 * ExpOne /\ ExpOne * k \in Int
    BY <1>4, ExpOneRange
  <1>5. 2 * (a * m) <= 254 * ExpOne + Widest
    BY <1>1, <1>2, ExpOneRange DEF DynamicProduct
  <1>6. ~(R >= 128)
    <2> SUFFICES ASSUME R >= 128 PROVE FALSE
      OBVIOUS
    <2>1. ExpOne * R >= 128 * ExpOne /\ ExpOne * R \in Int
      BY <1>3, <1>4
    <2> HIDE DEF m, R
    <2> QED
      BY <1>2, <1>3, <1>5, <2>1, ExpOneRange
  <1>7. ~(-R >= 128)
    <2> SUFFICES ASSUME -R >= 128 PROVE FALSE
      OBVIOUS
    <2>1. ExpOne * (-R) >= 128 * ExpOne /\ ExpOne * (-R) = -(ExpOne * R) /\ ExpOne * R \in Int
      BY <1>3, <1>4, ExpOneRange
    <2> HIDE DEF m, R
    <2> QED
      BY <1>2, <1>3, <1>5, <2>1, ExpOneRange
  <1> QED
    BY <1>3, <1>6, <1>7

-----------------------------------------------------------------------------
(* The bridges on vectors. *)

\* A vector of the domain the bridges admit.
Bridgeable(x) == x \in Seq(-Widest .. Widest) /\ x # <<>>

\* A set of naturals with an upper bound has a largest element.
LEMMA BoundedMax ==
    ASSUME NEW b \in Nat, NEW S \in SUBSET (0 .. b), S # {}
    PROVE  \E m \in S : \A k \in S : m >= k
  <1> DEFINE T == {b - k : k \in S}
             Below == {pair \in Nat \X Nat : pair[1] < pair[2]}
  <1>1. T \subseteq Nat /\ T # {}
    <2>1. \A k \in S : b - k \in Nat
      OBVIOUS
    <2> QED
      BY <2>1
  <1>2. IsWellFoundedOn(Below, Nat)
    BY NatLessThanWellFounded, Zenon DEF OpToRel
  <1>a. PICK t \in T : \A u \in T : ~(<<u, t>> \in Below)
    <2> HIDE DEF T, Below
    <2> QED
      BY <1>1, <1>2, WFMin, Zenon
  <1>3. \A u \in T : t <= u
    <2> HIDE DEF T
    <2> SUFFICES ASSUME NEW u \in T, u < t PROVE FALSE
      BY <1>1
    <2>1. <<u, t>> \in Below
      BY <1>1
    <2> QED
      BY <1>a, <2>1, Zenon
  <1>4. PICK m \in S : t = b - m
    BY <1>a
  <1>5. \A k \in S : b - m <= b - k
    BY <1>3, <1>4
  <1> QED
    BY <1>5

LEMMA MaxMagnitudeBounds ==
    ASSUME NEW x, Bridgeable(x)
    PROVE  /\ MaxMagnitude(x) \in 0 .. Widest
           /\ \A i \in DOMAIN x : x[i] \in -MaxMagnitude(x) .. MaxMagnitude(x)
  <1> DEFINE S == {Magnitude(x[i]) : i \in DOMAIN x}
  <1>1. \A i \in DOMAIN x : x[i] \in -Widest .. Widest
    <2>1. \A V : x \in Seq(V) => \A i \in DOMAIN x : x[i] \in V
      OBVIOUS
    <2> QED
      BY <2>1, Zenon DEF Bridgeable
  <1>2. S \in SUBSET (0 .. Widest)
    BY <1>1, ExpOneRange DEF Magnitude
  <1>3. S # {}
    <2>1. 1 \in DOMAIN x
      BY DEF Bridgeable
    <2> QED
      BY <2>1
  <1>4. \E m \in S : \A k \in S : m >= k
    BY <1>2, <1>3, ExpOneRange, BoundedMax
  <1>5. MaxMagnitude(x) \in S /\ \A k \in S : MaxMagnitude(x) >= k
    BY <1>4 DEF MaxMagnitude, Max
  <1>6. \A i \in DOMAIN x : MaxMagnitude(x) >= Magnitude(x[i])
    BY <1>5
  <1> QED
    BY <1>1, <1>2, <1>5, <1>6, ExpOneRange DEF Magnitude

LEMMA ZeroRounds == RneDiv(0, ExpOne) = 0
  <1>1. RneDiv(0, ExpOne) \in Int /\ RneDiv(-0, ExpOne) = -RneDiv(0, ExpOne)
    BY ExpOneRange, RneNearest, RneOdd
  <1> QED
    BY <1>1

LEMMA ElementBound ==
    ASSUME NEW x, Bridgeable(x), NEW i \in DOMAIN x
    PROVE  RneDiv(x[i] * DynamicMultiplier(MaxMagnitude(x)), ExpOne) \in -127 .. 127
  <1> DEFINE a == MaxMagnitude(x)
  <1>1. a \in 0 .. Widest /\ x[i] \in -a .. a
    BY MaxMagnitudeBounds
  <1> HIDE DEF a
  <1>2. CASE a = 0
    <2>1. DynamicMultiplier(a) = 0 /\ x[i] = 0
      BY <1>1, <1>2 DEF DynamicMultiplier
    <2> QED
      BY <2>1, ZeroRounds DEF a
  <1>3. CASE a # 0
    <2>1. a \in 1 .. Widest
      BY <1>1, <1>3, ExpOneRange
    <2> QED
      BY <1>1, <2>1, DynamicBound DEF a
  <1> QED
    BY <1>2, <1>3

\* What both bridges compute when nothing saturates.
Rounded(x) == [i \in DOMAIN x |-> RneDiv(x[i] * DynamicMultiplier(MaxMagnitude(x)), ExpOne)]

LEMMA InactiveClamps ==
    ASSUME NEW v \in -127 .. 127
    PROVE  Sat8(v) = v /\ Sat16(v) = v /\ Sat16(v + 0) = v
  BY SMT DEF Sat8, Sat16, Clamp

(* m4_offload.requant: for every vector of the domain, of any length, the   *)
(* saturation of REQUANT8 never acts and the codes are in -127 .. 127.      *)
THEOREM RequantNeverSaturates ==
    ASSUME NEW x, Bridgeable(x)
    PROVE  /\ DynamicInt8(x) = Rounded(x)
           /\ \A i \in DOMAIN x : DynamicInt8(x)[i] \in -127 .. 127
  <1>1. DynamicInt8(x) = [i \in DOMAIN x |->
                            Sat8(RneDiv(x[i] * DynamicMultiplier(MaxMagnitude(x)), ExpOne))]
    BY DynamicAssumption, Zenon DEF DynamicInt8, RequantizeInt8
  <1>2. \A i \in DOMAIN x :
            /\ RneDiv(x[i] * DynamicMultiplier(MaxMagnitude(x)), ExpOne) \in -127 .. 127
            /\ Sat8(RneDiv(x[i] * DynamicMultiplier(MaxMagnitude(x)), ExpOne))
                 = RneDiv(x[i] * DynamicMultiplier(MaxMagnitude(x)), ExpOne)
    BY ElementBound, InactiveClamps
  <1>3. DynamicInt8(x) = Rounded(x)
    BY <1>1, <1>2, Zenon DEF Rounded
  <1>4. \A i \in DOMAIN x : Rounded(x)[i] \in -127 .. 127
    BY <1>2, Zenon DEF Rounded
  <1> QED
    BY <1>3, <1>4, Zenon

(* m4_offload.requant_columns: "AFFINE(m,0,24) is exactly equivalent" to    *)
(* REQUANT8, for every column of the domain, so batching columns into       *)
(* AFFINE packets never changes a code.                                     *)
THEOREM BatchedIsRequant ==
    ASSUME NEW x, Bridgeable(x)
    PROVE  BatchedColumn(x) = DynamicInt8(x)
  <1>1. BatchedColumn(x) = [i \in DOMAIN x |->
                              Sat16(RneDiv(x[i] * DynamicMultiplier(MaxMagnitude(x)), ExpOne) + 0)]
    <2> DEFINE m == DynamicMultiplier(MaxMagnitude(x))
    <2> HIDE DEF m
    <2>1. AffineInt(x, [i \in DOMAIN x |-> m], [i \in DOMAIN x |-> 0], DynamicShift)
            = [i \in DOMAIN x |-> Sat16(RneDiv(x[i] * m, ExpOne) + 0)]
      BY DynamicAssumption, Zenon DEF AffineInt
    <2> QED
      BY <2>1, Zenon DEF BatchedColumn, m
  <1>2. \A i \in DOMAIN x :
            Sat16(RneDiv(x[i] * DynamicMultiplier(MaxMagnitude(x)), ExpOne) + 0)
              = RneDiv(x[i] * DynamicMultiplier(MaxMagnitude(x)), ExpOne)
    BY ElementBound, InactiveClamps
  <1>3. BatchedColumn(x) = Rounded(x)
    BY <1>1, <1>2, Zenon DEF Rounded
  <1> QED
    BY <1>3, RequantNeverSaturates, Zenon

-----------------------------------------------------------------------------
(* The residual of the scaled model. *)

LEMMA HeadroomFits ==
    ASSUME NEW v \in Int, Magnitude(v) <= Headroom + 1
    PROVE  Sat16(v) = v
  BY SMT DEF Sat16, Clamp, Magnitude, Headroom

LEMMA MagnitudeScales ==
    ASSUME NEW d \in Nat, NEW v \in Int
    PROVE  d * Magnitude(v) = Magnitude(d * v) /\ Magnitude(v) \in Nat
  <1>1. d * v \in Int /\ d * (-v) = -(d * v)
    OBVIOUS
  <1>2. CASE v >= 0
    <2>1. d * v >= 0
      BY <1>2
    <2> QED
      BY <1>1, <1>2, <2>1 DEF Magnitude
  <1>3. CASE v < 0
    <2>1. d * (-v) >= 0
      BY <1>3
    <2> QED
      BY <1>1, <1>3, <2>1 DEF Magnitude
  <1> QED
    BY <1>2, <1>3

(* ScaledGPT2.project: under any exponent that storage_exponent admits, the *)
(* roundings of the old residual, of the product and of the bias together   *)
(* stay inside the 16 bits, so none of the three clamps acts and the sum is *)
(* the sum of what was rounded, whatever the values.  The provers know no   *)
(* powers: that those of the two exponents are positive is a hypothesis.    *)
THEOREM ResidualNeverClamps ==
    ASSUME NEW old \in Int, NEW product \in Int, NEW bias \in Int, NEW unit \in Nat \ {0},
           NEW oldExp \in Nat, NEW exp \in Nat, 2 ^ oldExp \in Nat, 2 ^ exp \in Nat, 2 ^ exp > 0,
           Magnitude(product + bias) + unit * Magnitude(old * 2 ^ oldExp)
             <= Headroom * (unit * 2 ^ exp)
    PROVE  ResidualSum(old, oldExp, product, bias, unit, exp)
             = AlignedOld(old, oldExp, exp) + ScaledBranch(product, bias, unit, exp)
  <1> DEFINE P == 2 ^ exp
             Q == old * 2 ^ oldExp
             D == unit * P
             o == RneDiv(Q, P)
             p == RneDiv(product, D)
             b == RneDiv(bias, D)
             s == p + b
  <1>0. Headroom \in Nat
    BY SMT DEF Headroom
  <1>1. P \in Nat /\ P > 0 /\ Q \in Int /\ D \in Nat /\ D > 0
    <2>1. \A i \in Int, j \in Nat : i * j \in Int
      OBVIOUS
    <2>2. \A i, j \in Nat \ {0} : i * j \in Nat /\ i * j > 0
      OBVIOUS
    <2>3. P \in Nat /\ P > 0
      OBVIOUS
    <2>4. Q \in Int
      BY <2>1, Zenon
    <2>5. D \in Nat /\ D > 0
      <3> HIDE DEF P
      <3>1. P \in Nat \ {0}
        BY <2>3
      <3> QED
        BY <2>2, <3>1, Zenon
    <2> QED
      BY <2>3, <2>4, <2>5, Zenon
  <1>2. AlignedOld(old, oldExp, exp) = o /\ ScaledBranch(product, bias, unit, exp) = s
    BY Zenon DEF AlignedOld, ScaledBranch
  <1>3. Magnitude(product + bias) + unit * Magnitude(Q) <= Headroom * D
    OBVIOUS
  <1> HIDE DEF P, Q, D
  <1>4. /\ o \in Int /\ 2 * (Q - P * o) <= P /\ 2 * (P * o - Q) <= P
        /\ p \in Int /\ 2 * (product - D * p) <= D /\ 2 * (D * p - product) <= D
        /\ b \in Int /\ 2 * (bias - D * b) <= D /\ 2 * (D * b - bias) <= D
    BY <1>1, RneNearest
  <1> HIDE DEF o, p, b
  <1>5. s \in Int /\ D * s = D * p + D * b /\ D * p \in Int /\ D * b \in Int /\ P * o \in Int
    BY <1>1, <1>4
  <1>6. Magnitude(D * s) <= D + Magnitude(product + bias)
    BY <1>1, <1>4, <1>5 DEF Magnitude
  <1>7. 2 * Magnitude(P * o) <= P + 2 * Magnitude(Q)
    BY <1>1, <1>4, <1>5 DEF Magnitude
  <1> HIDE DEF s
  <1>8. /\ D * Magnitude(s) = Magnitude(D * s) /\ Magnitude(s) \in Nat
        /\ P * Magnitude(o) = Magnitude(P * o) /\ Magnitude(o) \in Nat
        /\ Magnitude(Q) \in Nat /\ Magnitude(product + bias) \in Nat
    <2>1. \A d \in Nat, v \in Int : d * Magnitude(v) = Magnitude(d * v) /\ Magnitude(v) \in Nat
      BY MagnitudeScales
    <2>2. product + bias \in Int
      OBVIOUS
    <2> QED
      BY <1>1, <1>4, <1>5, <2>1, <2>2, Zenon
  <1>9. 2 * (D * Magnitude(o)) <= D + 2 * (unit * Magnitude(Q))
    <2> DEFINE u == 2 * (P * Magnitude(o))
               w == P + 2 * Magnitude(Q)
    <2>1. u \in Nat /\ w \in Nat /\ u <= w
      BY <1>1, <1>7, <1>8
    <2>2. unit * u <= unit * w
      <3> HIDE DEF u, w
      <3> QED BY <2>1
    <2>3. unit * u = 2 * (D * Magnitude(o)) /\ unit * w = D + 2 * (unit * Magnitude(Q))
      BY <1>1, <1>8 DEF D
    <2> QED
      BY <2>2, <2>3
  <1>10. 2 * (D * (Magnitude(s) + Magnitude(o))) <= 3 * D + 2 * (Headroom * D)
    <2>1. D * (Magnitude(s) + Magnitude(o)) = D * Magnitude(s) + D * Magnitude(o)
      BY <1>1, <1>8
    <2>2. /\ D * Magnitude(s) \in Nat /\ D * Magnitude(o) \in Nat
          /\ unit * Magnitude(Q) \in Nat /\ Headroom * D \in Nat
      BY <1>0, <1>1, <1>8
    <2> QED
      BY <1>1, <1>3, <1>6, <1>8, <1>9, <2>1, <2>2
  <1>11. Magnitude(s) + Magnitude(o) <= Headroom + 1
    <2> DEFINE t == Magnitude(s) + Magnitude(o)
    <2>1. t \in Nat
      BY <1>8
    <2> HIDE DEF t
    <2> SUFFICES ASSUME t >= Headroom + 2 PROVE FALSE
      BY <1>0, <2>1 DEF t
    <2>2. D * t >= D * (Headroom + 2)
      BY <1>0, <1>1, <2>1
    <2>3. D * (Headroom + 2) = Headroom * D + 2 * D /\ Headroom * D \in Nat /\ D * t \in Nat
      BY <1>0, <1>1, <2>1
    <2> QED
      BY <1>1, <1>10, <2>2, <2>3 DEF t
  <1>12. Sat16(o) = o /\ Sat16(s) = s /\ Sat16(o + s) = o + s
    <2>1. Magnitude(o + s) <= Magnitude(s) + Magnitude(o)
      BY <1>4, <1>5 DEF Magnitude
    <2>2. Magnitude(o + s) \in Nat
      BY <1>4, <1>5 DEF Magnitude
    <2> QED
      BY <1>0, <1>4, <1>5, <1>8, <1>11, <2>1, <2>2, HeadroomFits
  <1> QED
    BY <1>2, <1>12, Zenon DEF ResidualSum

-----------------------------------------------------------------------------
(* The invariant of the session with the accelerators (M4Driver). *)

Packing == {"select", "selected", "start"}
Moving == {"receive", "send", "sent", "received", "check"}
Mending == {"recovering", "startSend", "startReceive"}
Asking == {"pack"} \cup Packing \cup Moving

Pcs == {"none", "closing"} \cup Mending \cup Asking

Packets == {Stale} \cup (Operands \X Nat)
EngineStates ==
    [busy : BOOLEAN, error : BOOLEAN, input : Packets, latched : Nat, tag : Nat, count : Nat]
Sessions ==
    [state : {"none", "opening", "open", "closed", "gone"}, failed : BOOLEAN, route : Routes, tag : Nat,
     completed : [Routes -> Nat], buffers : {"none", "tx", "held", "retained", "freed"},
     answer : Operands \cup {NoRequest, Error, Stale}, interrupted : BOOLEAN]
Calls ==
    [pc : Pcs, route : Routes, value : Operands \cup {NoRequest},
     tiles : Nat, got : Seq(Packets)]

DrvTypeOK ==
    /\ chan \in [Channels -> {"halted", "starting", "idle", "busy", "short", "error"}]
    /\ resetting \in BOOLEAN /\ engine \in [Routes -> EngineStates] /\ hwRoute \in Routes /\ faults \in Nat
    /\ tx \in Packets /\ rx \in Packets /\ drv \in Sessions /\ call \in Calls

\* A session that serves, and one whose engines are at rest.
Live == Ready /\ ~drv.interrupted
AtBoard == drv.state = "opening" \/ (Live /\ call.pc \in {"none", "pack"} \cup Packing)

\* Which calls a session can be in.
DrvControl ==
    /\ call.pc \in Packing \cup Moving => Live
    /\ call.pc = "pack" => drv.state \in {"open", "closed"} /\ ~drv.interrupted
    /\ call.pc \in Mending => Open /\ drv.failed /\ ~drv.interrupted
    /\ call.pc = "closing" => Open
    /\ drv.state \in {"none", "opening"} => ~drv.failed /\ ~drv.interrupted /\ call.pc = "none"
    /\ call.value = NoRequest <=> call.pc \notin Asking

\* An engine that does nothing holds nothing; one the session has not met is new.
DrvEngines ==
    /\ \A r \in Routes : ~engine[r].busy => engine[r].input = Stale
    /\ drv.state = "none" =>
          /\ ~resetting /\ \A c \in Channels : chan[c] = "halted"
          /\ \A r \in Routes : ~engine[r].busy /\ ~engine[r].error

Counted(r) == ~engine[r].busy /\ ~engine[r].error /\ engine[r].count = drv.completed[r]

\* Between packets nothing moves, and the session agrees with the board.
DrvAtRest ==
    AtBoard =>
        /\ ~resetting /\ \A c \in Channels : Idle(c)
        /\ \A r \in Routes : Counted(r)
        /\ call.pc # "selected" => drv.route = hwRoute
        /\ call.pc = "selected" => call.route = hwRoute
        /\ call.pc = "start" => call.route = hwRoute

\* During a packet only its own engine moves, and it moves this packet.
DrvInMotion ==
    call.pc \in Moving =>
        /\ ~resetting /\ drv.route = hwRoute /\ call.route = hwRoute
        /\ \A r \in Routes : r # call.route => Counted(r)
        /\ engine[call.route].input \in {Stale, tx}
        /\ \A c \in Channels : chan[c] \notin {"halted", "starting"}
        /\ call.pc = "receive" => \A c \in Channels : Idle(c)
        /\ call.pc # "sent" => Idle("mm2s")
        /\ call.pc # "receive" /\ Idle("s2mm") => ~engine[call.route].busy /\ rx = tx
        /\ call.pc = "check" => Idle("s2mm")

\* The tiles that have come back are those of the request, in their order.
DrvTiles ==
    /\ call.pc \in Asking =>
          /\ Len(call.got) < call.tiles
          /\ \A t \in 1 .. Len(call.got) : call.got[t] = <<call.value, t>>
    /\ call.pc \in Packing \cup Moving => tx = Tile

\* A reset that has ended leaves the channels where the call puts them.
DrvResets ==
    /\ call.pc \in {"startSend", "startReceive"} => ~resetting
    /\ call.pc = "startReceive" => chan["mm2s"] = "idle"
    /\ call.pc = "closing" /\ ~resetting => \A c \in Channels : chan[c] = "halted"

DrvInv == DrvTypeOK /\ DrvControl /\ DrvEngines /\ DrvAtRest /\ DrvInMotion /\ DrvTiles /\ DrvResets

-----------------------------------------------------------------------------
(* Every step of the session, and of the board, keeps it. *)

USE DEF Gemm, Sfpu, Routes, Channels, hwVars, Calling, Open, Ready, Live, AtBoard, Idle, Counted,
        Packing, Moving, Mending, Asking, Pcs

\* Counters and tags are numbers modulo Counts.
LEMMA Modular == ASSUME NEW n \in Nat PROVE (n + 1) % Counts \in Nat
  BY CountsAssumption

\* A call that goes on keeps its request.
LEMMA GotoEffect ==
    ASSUME call \in Calls, NEW pc \in Pcs, Goto(pc)
    PROVE  /\ call' \in Calls /\ call'.pc = pc /\ call'.route = call.route /\ call'.value = call.value
           /\ call'.tiles = call.tiles /\ call'.got = call.got
  BY DEF Goto, Calls

\* No call, and the calls that mend or close, have no request.
LEMMA NoCallType ==
    /\ NoCall \in Calls /\ NoCall.pc = "none" /\ NoCall.value = NoRequest
    /\ \A pc \in Pcs :
          /\ [NoCall EXCEPT !.pc = pc] \in Calls /\ [NoCall EXCEPT !.pc = pc].pc = pc
          /\ [NoCall EXCEPT !.pc = pc].value = NoRequest
  <1>1. NoCall.got \in Seq(Packets)
    BY DEF NoCall
  <1> QED BY <1>1 DEF NoCall, Calls

\* A packet that has begun and raises leaves the session failed (the except clause of
\* execute, m4_driver.py).
LEMMA RaiseEffect ==
    ASSUME drv \in Sessions, Raise
    PROVE  /\ call' \in Calls /\ call'.pc = "none" /\ call'.value = NoRequest
           /\ drv' \in Sessions /\ drv'.failed /\ drv'.answer = Error
           /\ drv'.state = drv.state /\ drv'.interrupted = drv.interrupted
  BY NoCallType DEF Raise, Sessions

\* A session that failed promises nothing about the board.
LEMMA RaiseKeeps ==
    ASSUME DrvInv, call.pc \in Packing \cup Moving, Raise,
           UNCHANGED <<chan, resetting, engine, hwRoute, tx, rx>>, faults' \in Nat
    PROVE  DrvInv'
  <1>1. DrvTypeOK'
    BY RaiseEffect DEF DrvInv, DrvTypeOK
  <1>2. DrvControl' /\ DrvEngines' /\ DrvAtRest' /\ DrvInMotion' /\ DrvTiles' /\ DrvResets'
    BY RaiseEffect DEF DrvInv, DrvTypeOK, DrvControl, DrvEngines, DrvAtRest, DrvInMotion, DrvTiles, DrvResets
  <1> QED BY <1>1, <1>2 DEF DrvInv

\* Nor does one whose mending was given up.
LEMMA GiveUpKeeps ==
    ASSUME DrvInv, call.pc \in Mending, GiveUp,
           UNCHANGED <<chan, resetting, engine, hwRoute, faults, tx, rx>>
    PROVE  DrvInv'
  <1>1. DrvTypeOK'
    BY NoCallType DEF DrvInv, DrvTypeOK, GiveUp
  <1>2. DrvControl' /\ DrvEngines' /\ DrvAtRest' /\ DrvInMotion' /\ DrvTiles' /\ DrvResets'
    BY NoCallType
       DEF DrvInv, DrvTypeOK, DrvControl, DrvEngines, DrvAtRest, DrvInMotion, DrvTiles, DrvResets, GiveUp
  <1> QED BY <1>1, <1>2 DEF DrvInv

\* The engines and the channels of the DMA, which may finish, fail or stall at any time.
LEMMA BoardKeeps ==
    ASSUME DrvInv, BoardStep
    PROVE  DrvInv'
  <1> USE DEF DrvInv
  <1>1. ASSUME NEW r \in Routes, EngineTakes(r)
        PROVE  DrvInv'
    <2>1. engine' \in [Routes -> EngineStates]
      BY <1>1 DEF DrvTypeOK, EngineTakes, EngineStates
    <2>2. DrvTypeOK'
      BY <1>1, <2>1 DEF DrvTypeOK, EngineTakes
    <2>3. DrvControl' /\ DrvEngines' /\ DrvAtRest' /\ DrvTiles' /\ DrvResets'
      BY <1>1
         DEF DrvTypeOK, DrvControl, DrvEngines, DrvAtRest, DrvTiles, DrvResets, EngineTakes, Tile, EngineStates
    <2>4. DrvInMotion'
      BY <1>1 DEF DrvTypeOK, DrvAtRest, DrvInMotion, EngineTakes, EngineStates
    <2> QED BY <2>2, <2>3, <2>4
  <1>2. ASSUME NEW r \in Routes, EngineDelivers(r)
        PROVE  DrvInv'
    <2>1. (engine[r].count + 1) % Counts \in Nat
      BY Modular DEF DrvTypeOK, EngineStates
    <2>2. engine' \in [Routes -> EngineStates]
      BY <1>2, <2>1 DEF DrvTypeOK, EngineDelivers, EngineStates, Packets
    <2>3. DrvTypeOK'
      BY <1>2, <2>2 DEF DrvTypeOK, EngineDelivers, Faulted, EngineStates
    <2>4. DrvControl' /\ DrvTiles' /\ DrvResets'
      BY <1>2 DEF DrvTypeOK, DrvControl, DrvTiles, DrvResets, EngineDelivers, Tile
    <2>5. DrvEngines'
      BY <1>2 DEF DrvTypeOK, DrvEngines, EngineDelivers, EngineStates
    <2>6. DrvAtRest'
      BY <1>2 DEF DrvTypeOK, DrvAtRest, EngineDelivers, EngineStates
    <2>7. DrvInMotion'
      BY <1>2 DEF DrvTypeOK, DrvInMotion, EngineDelivers, EngineStates
    <2> QED BY <2>3, <2>4, <2>5, <2>6, <2>7
  <1>3. ASSUME NEW r \in Routes, EngineFails(r)
        PROVE  DrvInv'
    <2>1. engine' \in [Routes -> EngineStates]
      <3>1. \A e \in EngineStates : [e EXCEPT !.busy = FALSE, !.input = Stale, !.error = TRUE] \in EngineStates
        BY DEF EngineStates, Packets
      <3>2. engine \in [Routes -> EngineStates]
        BY DEF DrvTypeOK
      <3> QED BY <1>3, <3>1, <3>2 DEF EngineFails
    <2>2. DrvTypeOK'
      BY <1>3, <2>1 DEF DrvTypeOK, EngineFails, Faulted
    <2>3. DrvControl' /\ DrvTiles' /\ DrvResets'
      BY <1>3 DEF DrvTypeOK, DrvControl, DrvTiles, DrvResets, EngineFails, Tile
    <2>4. DrvEngines' /\ DrvAtRest'
      BY <1>3 DEF DrvTypeOK, DrvEngines, DrvAtRest, EngineFails, EngineStates
    <2>5. DrvInMotion'
      BY <1>3 DEF DrvTypeOK, DrvInMotion, EngineFails, EngineStates
    <2> QED BY <2>2, <2>3, <2>4, <2>5
  <1>4. ASSUME NEW c \in Channels, ChannelFails(c) \/ ChannelStarts(c)
        PROVE  DrvInv'
    <2>1. DrvTypeOK'
      BY <1>4 DEF DrvTypeOK, ChannelFails, ChannelStarts, Faulted
    <2>2. DrvControl' /\ DrvEngines' /\ DrvAtRest' /\ DrvTiles' /\ DrvResets'
      BY <1>4
         DEF DrvTypeOK, DrvControl, DrvEngines, DrvAtRest, DrvTiles, DrvResets, ChannelFails, ChannelStarts,
             Tile
    <2>3. DrvInMotion'
      BY <1>4 DEF DrvTypeOK, DrvInMotion, ChannelFails, ChannelStarts
    <2> QED BY <2>1, <2>2, <2>3
  <1>5. CASE ResetEnds
    <2>1. DrvTypeOK'
      BY <1>5 DEF DrvTypeOK, ResetEnds
    <2>2. DrvControl' /\ DrvEngines' /\ DrvAtRest' /\ DrvInMotion' /\ DrvTiles' /\ DrvResets'
      BY <1>5
         DEF DrvTypeOK, DrvControl, DrvEngines, DrvAtRest, DrvInMotion, DrvTiles, DrvResets, ResetEnds, Tile
    <2> QED BY <2>1, <2>2
  <1> QED BY <1>1, <1>2, <1>3, <1>4, <1>5 DEF BoardStep

\* What most calls leave of the session.
Undisturbed ==
    drv' \in Sessions /\ drv'.state = drv.state /\ drv'.failed = drv.failed /\ drv'.interrupted = drv.interrupted

\* The steps of execute (m4_driver.py): one packet, from its descriptor to the copy of its result.
LEMMA ExecuteKeeps ==
    ASSUME DrvInv, Execute
    PROVE  DrvInv'
  <1> USE DEF DrvInv
  <1>1. CASE Refuse
    <2>1. Undisturbed /\ drv'.route = drv.route /\ drv'.completed = drv.completed /\ call' = NoCall
      BY <1>1 DEF Refuse, Return, DrvTypeOK, Sessions, Undisturbed
    <2>2. DrvTypeOK'
      BY <1>1, <2>1, NoCallType DEF Refuse, DrvTypeOK, Undisturbed
    <2>3. DrvControl' /\ DrvEngines' /\ DrvAtRest' /\ DrvInMotion' /\ DrvTiles' /\ DrvResets'
      BY <1>1, <2>1, NoCallType
         DEF Refuse, Undisturbed, DrvTypeOK, DrvControl, DrvEngines, DrvAtRest, DrvInMotion, DrvTiles, DrvResets
    <2> QED BY <2>2, <2>3
  <1>2. CASE Pack
    <2>1. call \in Calls /\ "select" \in Pcs /\ Goto("select")
      BY <1>2 DEF Pack, DrvTypeOK
    <2>2. call.value \in Operands /\ Tile \in Packets
      BY <1>2, <2>1 DEF Pack, DrvControl, Calls, Tile, Packets
    <2>3. DrvTypeOK'
      BY <1>2, <2>1, <2>2, GotoEffect DEF Pack, DrvTypeOK
    <2>4. DrvControl' /\ DrvEngines' /\ DrvAtRest' /\ DrvInMotion' /\ DrvTiles' /\ DrvResets'
      BY <1>2, <2>1, GotoEffect
         DEF Pack, DrvTypeOK, DrvControl, DrvEngines, DrvAtRest, DrvInMotion, DrvTiles, DrvResets, Tile
    <2> QED BY <2>3, <2>4
  <1>3. CASE Select
    <2>1. CASE call.route = drv.route
      <3>1. call \in Calls /\ "start" \in Pcs /\ Goto("start")
        BY <1>3, <2>1 DEF Select, DrvTypeOK
      <3>2. DrvTypeOK'
        BY <1>3, <2>1, <3>1, GotoEffect DEF Select, DrvTypeOK
      <3>3. DrvControl' /\ DrvEngines' /\ DrvAtRest' /\ DrvInMotion' /\ DrvTiles' /\ DrvResets'
        BY <1>3, <2>1, <3>1, GotoEffect
           DEF Select, DrvTypeOK, DrvControl, DrvEngines, DrvAtRest, DrvInMotion, DrvTiles, DrvResets, Tile
      <3> QED BY <3>2, <3>3
    <2>2. CASE call.route # drv.route /\ AnyBusy
      BY <1>3, <2>2, RaiseKeeps DEF Select, DrvTypeOK
    <2>3. CASE call.route # drv.route /\ ~AnyBusy
      <3>1. call \in Calls /\ "selected" \in Pcs /\ Goto("selected")
        BY <1>3, <2>3 DEF Select, DrvTypeOK
      <3>2. DrvTypeOK'
        BY <1>3, <2>3, <3>1, GotoEffect DEF Select, DrvTypeOK, Calls
      <3>3. DrvControl' /\ DrvEngines' /\ DrvAtRest' /\ DrvInMotion' /\ DrvTiles' /\ DrvResets'
        BY <1>3, <2>3, <3>1, GotoEffect
           DEF Select, DrvTypeOK, DrvControl, DrvEngines, DrvAtRest, DrvInMotion, DrvTiles, DrvResets, Tile
      <3> QED BY <3>2, <3>3
    <2> QED BY <2>1, <2>2, <2>3
  <1>4. CASE Selected
    <2>1. CASE hwRoute # call.route \/ engine[Sfpu].error
      BY <1>4, <2>1, RaiseKeeps DEF Selected, DrvTypeOK
    <2>2. CASE ~(hwRoute # call.route \/ engine[Sfpu].error)
      <3>1. call \in Calls /\ "start" \in Pcs /\ Goto("start")
        BY <1>4, <2>2 DEF Selected, DrvTypeOK
      <3>2. Undisturbed /\ drv'.route = call.route /\ drv'.completed = drv.completed
        <4>1. drv' = [drv EXCEPT !.route = call.route] /\ call.route \in Routes /\ drv \in Sessions
          BY <1>4, <2>2 DEF Selected, DrvTypeOK, Calls
        <4> QED BY <4>1 DEF Sessions, Undisturbed
      <3>3. DrvTypeOK'
        BY <1>4, <3>1, <3>2, GotoEffect DEF Selected, DrvTypeOK, Undisturbed
      <3>4. DrvControl' /\ DrvEngines' /\ DrvAtRest' /\ DrvInMotion' /\ DrvTiles' /\ DrvResets'
        BY <1>4, <2>2, <3>1, <3>2, GotoEffect
           DEF Selected, DrvTypeOK, DrvControl, DrvEngines, DrvAtRest, DrvInMotion, DrvTiles, DrvResets, Tile,
               Undisturbed
      <3> QED BY <3>3, <3>4
    <2> QED BY <2>1, <2>2
  <1>5. CASE Start
    <2> DEFINE r == call.route
               tag == (drv.tag + 1) % Counts
               taken == ~engine[r].error /\ ~engine[r].busy /\ call.value # BadOperand
    <2>1. r \in Routes /\ tag \in Nat /\ engine[r] \in EngineStates /\ drv \in Sessions /\ call \in Calls
      BY Modular DEF DrvTypeOK, Calls, Sessions
    <2>2. CASE taken
      <3>1. engine' = [engine EXCEPT ![r] = [engine[r] EXCEPT !.busy = TRUE, !.latched = tag]]
            /\ drv' = [drv EXCEPT !.tag = tag] /\ Goto("receive")
        BY <1>5, <2>2 DEF Start
      <3>2. engine' \in [Routes -> EngineStates] /\ engine'[r].input = engine[r].input
            /\ \A o \in Routes \ {r} : engine'[o] = engine[o]
        BY <2>1, <3>1 DEF DrvTypeOK, EngineStates
      <3>3. Undisturbed /\ drv'.route = drv.route /\ drv'.completed = drv.completed
        BY <2>1, <3>1 DEF Sessions, Undisturbed
      <3>4. call' \in Calls /\ call'.pc = "receive" /\ call'.route = r /\ call'.value = call.value
            /\ call'.tiles = call.tiles /\ call'.got = call.got
        BY <2>1, <3>1, GotoEffect
      <3> HIDE DEF r, tag, taken
      <3>5. DrvTypeOK'
        BY <1>5, <3>2, <3>3, <3>4 DEF Start, DrvTypeOK, Undisturbed
      <3>6. DrvControl' /\ DrvTiles' /\ DrvResets'
        BY <1>5, <3>3, <3>4 DEF Start, DrvTypeOK, DrvControl, DrvTiles, DrvResets, Tile, Undisturbed
      <3>7. DrvEngines'
        BY <1>5, <3>1, <3>2, <3>3, <2>1, <2>2
           DEF Start, DrvTypeOK, DrvControl, DrvEngines, Undisturbed, EngineStates, r, taken
      <3>8. DrvAtRest' /\ DrvInMotion'
        BY <1>5, <2>1, <2>2, <3>2, <3>3, <3>4
           DEF Start, DrvTypeOK, DrvControl, DrvEngines, DrvAtRest, DrvInMotion, DrvTiles, Tile, Undisturbed, r, taken
      <3> QED BY <3>5, <3>6, <3>7, <3>8
    <2>3. CASE ~taken
      <3>1. engine' = [engine EXCEPT ![r] = [engine[r] EXCEPT !.error = TRUE]]
            /\ drv' = [drv EXCEPT !.tag = tag, !.failed = TRUE, !.answer = Error] /\ call' = NoCall
        BY <1>5, <2>3 DEF Start
      <3>2. engine' \in [Routes -> EngineStates]
            /\ \A o \in Routes : engine'[o].busy = engine[o].busy /\ engine'[o].input = engine[o].input
        BY <2>1, <3>1 DEF DrvTypeOK, EngineStates
      <3>3. drv' \in Sessions /\ drv'.state = drv.state /\ drv'.failed
        BY <2>1, <3>1 DEF Sessions
      <3> HIDE DEF r, tag, taken
      <3>4. DrvTypeOK'
        BY <1>5, <3>1, <3>2, <3>3, NoCallType DEF Start, DrvTypeOK
      <3>5. DrvControl' /\ DrvEngines' /\ DrvAtRest' /\ DrvInMotion' /\ DrvTiles' /\ DrvResets'
        BY <1>5, <3>1, <3>2, <3>3, NoCallType
           DEF Start, DrvTypeOK, DrvControl, DrvEngines, DrvAtRest, DrvInMotion, DrvTiles, DrvResets
      <3> QED BY <3>4, <3>5
    <2> QED BY <2>2, <2>3
  <1>6. ASSUME NEW c \in Channels, NEW pc \in {"receive", "send"}, NEW next \in {"send", "sent"}, Submit(pc, c, next),
               (pc = "receive" /\ c = "s2mm" /\ next = "send") \/ (pc = "send" /\ c = "mm2s" /\ next = "sent")
        PROVE  DrvInv'
    <2>1. CASE Idle(c)
      <3>1. call \in Calls /\ next \in Pcs /\ Goto(next) /\ call.pc = pc
        BY <1>6, <2>1 DEF Submit, DrvTypeOK
      <3>2. DrvTypeOK'
        BY <1>6, <2>1, <3>1, GotoEffect DEF Submit, DrvTypeOK
      <3>3. DrvControl' /\ DrvEngines' /\ DrvAtRest' /\ DrvTiles' /\ DrvResets'
        BY <1>6, <2>1, <3>1, GotoEffect
           DEF Submit, DrvTypeOK, DrvControl, DrvEngines, DrvAtRest, DrvTiles, DrvResets, Tile
      <3>4. DrvInMotion'
        BY <1>6, <2>1, <3>1, GotoEffect DEF Submit, DrvTypeOK, DrvInMotion
      <3> QED BY <3>2, <3>3, <3>4
    <2>2. CASE ~Idle(c)
      <3>1. Raise /\ faults' \in Nat /\ call.pc \in Moving
        BY <1>6, <2>2 DEF Submit, DrvTypeOK
      <3> QED BY <1>6, <2>2, <3>1, RaiseKeeps DEF Submit
    <2> QED BY <2>1, <2>2
  <1>7. ASSUME NEW c \in Channels, NEW pc \in {"sent", "received"}, NEW next \in {"received", "check"}, Await(pc, c, next),
               (pc = "sent" /\ c = "mm2s" /\ next = "received") \/ (pc = "received" /\ c = "s2mm" /\ next = "check")
        PROVE  DrvInv'
    <2>1. CASE Idle(c)
      <3>1. call \in Calls /\ next \in Pcs /\ Goto(next) /\ call.pc = pc
        BY <1>7, <2>1 DEF Await, DrvTypeOK
      <3>2. DrvTypeOK'
        BY <1>7, <2>1, <3>1, GotoEffect DEF Await, DrvTypeOK
      <3>3. DrvControl' /\ DrvEngines' /\ DrvAtRest' /\ DrvTiles' /\ DrvResets'
        BY <1>7, <2>1, <3>1, GotoEffect
           DEF Await, DrvTypeOK, DrvControl, DrvEngines, DrvAtRest, DrvTiles, DrvResets, Tile
      <3>4. DrvInMotion'
        BY <1>7, <2>1, <3>1, GotoEffect DEF Await, DrvTypeOK, DrvInMotion
      <3> QED BY <3>2, <3>3, <3>4
    <2>2. CASE ~Idle(c)
      <3>1. Raise /\ faults' \in Nat /\ call.pc \in Moving
        BY <1>7, <2>2 DEF Await, DrvTypeOK
      <3> QED BY <1>7, <2>2, <3>1, RaiseKeeps DEF Await
    <2> QED BY <2>1, <2>2
  <1>8. CASE Collect
    <2> DEFINE r == call.route
               count == (drv.completed[r] + 1) % Counts
               counted == [drv EXCEPT !.completed[r] = count]
               good == ~engine[r].error /\ engine[r].tag = drv.tag /\ engine[r].count = count
               got == Append(call.got, rx)
    <2>1. /\ r \in Routes /\ drv \in Sessions /\ call \in Calls /\ call.pc = "check"
          /\ UNCHANGED <<chan, resetting, engine, hwRoute, faults, tx, rx>>
      BY <1>8 DEF DrvTypeOK, Calls, Collect
    <2>2. count \in Nat
      BY <2>1, Modular DEF Sessions
    <2>3. /\ counted \in Sessions /\ counted.state = drv.state /\ counted.failed = drv.failed
          /\ counted.interrupted = drv.interrupted /\ counted.route = drv.route
          /\ counted.completed = [drv.completed EXCEPT ![r] = count] /\ drv.completed \in [Routes -> Nat]
      BY <2>1, <2>2 DEF Sessions
    <2>4. got \in Seq(Packets) /\ Len(got) = Len(call.got) + 1 /\ got[Len(call.got) + 1] = rx
          /\ \A t \in 1 .. Len(call.got) : got[t] = call.got[t]
      BY <2>1 DEF DrvTypeOK, Calls
    <2>5. CASE chan["s2mm"] = "short"
      <3>1. Raise /\ faults' \in Nat
        BY <1>8, <2>5 DEF Collect, DrvTypeOK
      <3> QED BY <2>1, <3>1, RaiseKeeps
    <2>6. CASE chan["s2mm"] # "short" /\ ~good
      <3>1. drv' = [counted EXCEPT !.failed = TRUE, !.answer = Error] /\ call' = NoCall
        BY <1>8, <2>6 DEF Collect
      <3>2. drv' \in Sessions /\ drv'.state = drv.state /\ drv'.failed
        <4> HIDE DEF counted
        <4> QED BY <2>3, <3>1 DEF Sessions
      <3> HIDE DEF r, count, counted, good, got
      <3>4. DrvTypeOK'
        BY <2>1, <3>1, <3>2, NoCallType DEF DrvTypeOK
      <3>5. DrvControl' /\ DrvEngines' /\ DrvAtRest' /\ DrvInMotion' /\ DrvTiles' /\ DrvResets'
        BY <2>1, <3>1, <3>2, NoCallType
           DEF DrvTypeOK, DrvControl, DrvEngines, DrvAtRest, DrvInMotion, DrvTiles, DrvResets
      <3> QED BY <3>4, <3>5
    <2>7. CASE chan["s2mm"] # "short" /\ good /\ Len(got) < call.tiles
      <3>1. call' = [call EXCEPT !.pc = "pack", !.got = got] /\ drv' = counted
        BY <1>8, <2>7 DEF Collect
      <3>2. /\ call' \in Calls /\ call'.pc = "pack" /\ call'.got = got /\ call'.route = r
            /\ call'.value = call.value /\ call'.tiles = call.tiles
        <4> HIDE DEF got
        <4> QED BY <2>1, <2>4, <3>1 DEF Calls
      <3>3. Undisturbed /\ drv'.route = drv.route /\ drv'.completed = [drv.completed EXCEPT ![r] = count]
        <4> HIDE DEF counted
        <4> QED BY <2>3, <3>1 DEF Undisturbed
      <3>4. engine[r].count = count /\ ~engine[r].error
        BY <2>7
      <3> HIDE DEF r, count, counted, good, got
      <3>5. DrvTypeOK'
        BY <2>1, <3>2, <3>3 DEF DrvTypeOK, Undisturbed
      <3>6. DrvControl' /\ DrvEngines' /\ DrvInMotion' /\ DrvResets'
        BY <2>1, <3>2, <3>3 DEF DrvTypeOK, DrvControl, DrvEngines, DrvInMotion, DrvResets, Undisturbed
      <3>7. DrvAtRest'
        BY <2>1, <2>3, <3>2, <3>3, <3>4 DEF DrvTypeOK, DrvControl, DrvAtRest, DrvInMotion, Undisturbed, r
      <3>8. rx = <<call.value, Len(call.got) + 1>>
        BY <2>1 DEF DrvInMotion, DrvTiles, Tile
      <3>9. Len(call.got) \in Nat
        BY <2>1 DEF Calls
      <3>10. DrvTiles'
        <4>1. ASSUME NEW t \in 1 .. Len(got)
              PROVE  got[t] = <<call.value, t>>
          <5>1. t \in 1 .. Len(call.got) \/ t = Len(call.got) + 1
            BY <2>4, <3>9
          <5>2. \A n \in 1 .. Len(call.got) : call.got[n] = <<call.value, n>>
            BY <2>1 DEF DrvTiles
          <5> QED BY <2>4, <3>8, <5>1, <5>2
        <4> QED BY <2>7, <3>2, <4>1 DEF DrvTiles
      <3> QED BY <3>5, <3>6, <3>7, <3>10
    <2>8. CASE chan["s2mm"] # "short" /\ good /\ ~(Len(got) < call.tiles)
      <3> DEFINE answer == IF got = [t \in 1..call.tiles |-> <<call.value, t>>] THEN call.value ELSE Stale
      <3>1. call' = NoCall /\ drv' = [counted EXCEPT !.answer = answer]
        BY <1>8, <2>8 DEF Collect
      <3>2. answer \in Operands \cup {NoRequest, Error, Stale}
        BY <2>1 DEF Calls
      <3>3. Undisturbed /\ drv'.route = drv.route /\ drv'.completed = [drv.completed EXCEPT ![r] = count]
        <4> HIDE DEF counted, answer
        <4>1. drv' \in Sessions
          BY <2>3, <3>1, <3>2 DEF Sessions
        <4> QED BY <2>3, <3>1, <4>1 DEF Undisturbed, Sessions
      <3>4. engine[r].count = count /\ ~engine[r].error
        BY <2>8
      <3> HIDE DEF r, count, counted, good, got, answer
      <3>5. DrvTypeOK'
        BY <2>1, <3>1, <3>3, NoCallType DEF DrvTypeOK, Undisturbed
      <3>6. DrvControl' /\ DrvEngines' /\ DrvInMotion' /\ DrvTiles' /\ DrvResets'
        BY <2>1, <3>1, <3>3, NoCallType
           DEF DrvTypeOK, DrvControl, DrvEngines, DrvInMotion, DrvTiles, DrvResets, Undisturbed
      <3>7. DrvAtRest'
        BY <2>1, <2>3, <3>1, <3>3, <3>4, NoCallType
           DEF DrvTypeOK, DrvControl, DrvAtRest, DrvInMotion, Undisturbed, r
      <3> QED BY <3>5, <3>6, <3>7
    <2> QED BY <2>5, <2>6, <2>7, <2>8
  <1>9. CASE BadPadding
    <2>1. faults' \in Nat /\ Raise /\ call.pc = "check"
      BY <1>9 DEF BadPadding, Faulted, DrvTypeOK
    <2> QED BY <1>9, <2>1, RaiseKeeps DEF BadPadding
  <1> QED BY <1>1, <1>2, <1>3, <1>4, <1>5, <1>6, <1>7, <1>8, <1>9 DEF Execute

\* Opening, mending, closing and Ctrl-C.
LEMMA CallsKeep ==
    ASSUME DrvInv, Load \/ Allocate \/ (Recover /\ ~drv.interrupted) \/ AwaitReset \/ AwaitSend \/ AwaitReceive
                   \/ Close \/ FinishClose \/ InterruptCall
    PROVE  DrvInv'
  <1> USE DEF DrvInv
  <1>0. drv \in Sessions /\ call \in Calls
    BY DEF DrvTypeOK
  <1>1. CASE Load
    <2>1. /\ drv' \in Sessions /\ drv'.state = "opening" /\ drv'.route = hwRoute /\ drv'.failed = drv.failed
          /\ drv'.interrupted = drv.interrupted /\ drv'.completed = [r \in Routes |-> engine[r].count]
      BY <1>0, <1>1 DEF Load, DrvTypeOK, Sessions, EngineStates
    <2>2. DrvTypeOK'
      BY <1>1, <2>1 DEF Load, DrvTypeOK
    <2>3. DrvControl' /\ DrvEngines' /\ DrvAtRest' /\ DrvInMotion' /\ DrvTiles' /\ DrvResets'
      BY <1>1, <2>1 DEF Load, DrvTypeOK, DrvControl, DrvEngines, DrvAtRest, DrvInMotion, DrvTiles, DrvResets
    <2> QED BY <2>2, <2>3
  <1>2. CASE Allocate
    <2>1. /\ drv' \in Sessions /\ drv'.state \in {"opening", "open", "gone"} /\ drv'.route = drv.route
          /\ drv'.failed = drv.failed /\ drv'.interrupted = drv.interrupted /\ drv'.completed = drv.completed
      BY <1>0, <1>2 DEF Allocate, Sessions
    <2>2. DrvTypeOK'
      BY <1>2, <2>1 DEF Allocate, Faulted, DrvTypeOK
    <2>3. DrvControl' /\ DrvEngines' /\ DrvAtRest' /\ DrvInMotion' /\ DrvTiles' /\ DrvResets'
      BY <1>2, <2>1 DEF Allocate, DrvTypeOK, DrvControl, DrvEngines, DrvAtRest, DrvInMotion, DrvTiles, DrvResets
    <2> QED BY <2>2, <2>3
  <1>3. ASSUME NEW pc \in {"recovering", "closing"}, NEW failed \in BOOLEAN, WriteReset(pc, failed), Open,
               pc = "recovering" => failed /\ ~drv.interrupted
        PROVE  DrvInv'
    <2>1. /\ drv' \in Sessions /\ drv'.state = drv.state /\ drv'.interrupted = drv.interrupted
          /\ failed => drv'.failed
      BY <1>0, <1>3 DEF WriteReset, Sessions
    <2>2. call' \in Calls /\ call'.pc = pc /\ call'.value = NoRequest
      BY <1>3, NoCallType DEF WriteReset
    <2>3. DrvTypeOK'
      BY <1>3, <2>1, <2>2 DEF WriteReset, DrvTypeOK
    <2>4. DrvControl' /\ DrvEngines' /\ DrvAtRest' /\ DrvInMotion' /\ DrvTiles' /\ DrvResets'
      BY <1>3, <2>1, <2>2
         DEF WriteReset, DrvTypeOK, DrvControl, DrvEngines, DrvAtRest, DrvInMotion, DrvTiles, DrvResets
    <2> QED BY <2>3, <2>4
  <1>4. CASE AwaitReset
    <2>1. CASE resetting /\ GiveUp /\ UNCHANGED <<chan, engine>>
      BY <1>4, <2>1, GiveUpKeeps DEF AwaitReset
    <2>2. CASE /\ ~resetting /\ chan' = [chan EXCEPT !["mm2s"] = "starting"] /\ Goto("startSend") /\ UNCHANGED drv
               /\ engine' = [r \in Routes |-> [engine[r] EXCEPT !.busy = FALSE, !.error = FALSE, !.input = Stale]]
      <3>1. call \in Calls /\ "startSend" \in Pcs
        BY <1>0
      <3>2. engine' \in [Routes -> EngineStates] /\ \A r \in Routes : engine'[r].input = Stale
        <4>1. \A e \in EngineStates : LET f == [e EXCEPT !.busy = FALSE, !.error = FALSE, !.input = Stale]
                                      IN f \in EngineStates /\ f.input = Stale
          BY DEF EngineStates, Packets
        <4>2. engine \in [Routes -> EngineStates]
          BY DEF DrvTypeOK
        <4> QED BY <2>2, <4>1, <4>2
      <3>3. DrvTypeOK'
        BY <1>4, <2>2, <3>1, <3>2, GotoEffect DEF AwaitReset, DrvTypeOK
      <3>4. DrvControl' /\ DrvEngines' /\ DrvAtRest' /\ DrvInMotion' /\ DrvTiles' /\ DrvResets'
        BY <1>4, <2>2, <3>1, <3>2, GotoEffect
           DEF AwaitReset, DrvTypeOK, DrvControl, DrvEngines, DrvAtRest, DrvInMotion, DrvTiles, DrvResets
      <3> QED BY <3>3, <3>4
    <2> QED BY <1>4, <2>1, <2>2 DEF AwaitReset
  <1>5. CASE AwaitSend
    <2>1. CASE chan["mm2s"] # "idle"
      BY <1>5, <2>1, GiveUpKeeps DEF AwaitSend
    <2>2. CASE chan["mm2s"] = "idle"
      <3>1. call \in Calls /\ "startReceive" \in Pcs /\ Goto("startReceive")
        BY <1>0, <1>5, <2>2 DEF AwaitSend
      <3>2. DrvTypeOK'
        BY <1>5, <2>2, <3>1, GotoEffect DEF AwaitSend, DrvTypeOK
      <3>3. DrvControl' /\ DrvEngines' /\ DrvAtRest' /\ DrvInMotion' /\ DrvTiles' /\ DrvResets'
        BY <1>5, <2>2, <3>1, GotoEffect
           DEF AwaitSend, DrvTypeOK, DrvControl, DrvEngines, DrvAtRest, DrvInMotion, DrvTiles, DrvResets
      <3> QED BY <3>2, <3>3
    <2> QED BY <2>1, <2>2
  <1>6. CASE AwaitReceive
    <2>1. CASE ~(chan["s2mm"] = "idle" /\ ~AnyBusy /\ ~AnyError)
      BY <1>6, <2>1, GiveUpKeeps DEF AwaitReceive
    <2>2. CASE chan["s2mm"] = "idle" /\ ~AnyBusy /\ ~AnyError
      <3>1. call' = NoCall /\ drv' = [drv EXCEPT !.failed = FALSE, !.route = hwRoute,
                                                  !.completed = [r \in Routes |-> engine[r].count]]
        BY <1>6, <2>2 DEF AwaitReceive
      <3>2. /\ drv' \in Sessions /\ drv'.state = drv.state /\ drv'.interrupted = drv.interrupted /\ ~drv'.failed
            /\ drv'.route = hwRoute /\ drv'.completed = [r \in Routes |-> engine[r].count]
        BY <1>0, <3>1 DEF DrvTypeOK, Sessions, EngineStates
      <3>3. DrvTypeOK'
        BY <1>6, <3>1, <3>2, NoCallType DEF AwaitReceive, DrvTypeOK
      <3>4. DrvControl' /\ DrvEngines' /\ DrvInMotion' /\ DrvTiles' /\ DrvResets'
        BY <1>6, <3>1, <3>2, NoCallType
           DEF AwaitReceive, DrvTypeOK, DrvControl, DrvEngines, DrvInMotion, DrvTiles, DrvResets
      <3>5. DrvAtRest'
        BY <1>6, <2>2, <3>1, <3>2, NoCallType
           DEF AwaitReceive, DrvTypeOK, DrvControl, DrvAtRest, DrvResets, AnyBusy, AnyError
      <3> QED BY <3>3, <3>4, <3>5
    <2> QED BY <2>1, <2>2
  <1>7. CASE FinishClose
    <2>1. drv' \in Sessions /\ drv'.interrupted = drv.interrupted
          /\ ((drv'.state = drv.state /\ drv'.failed) \/ (drv'.state = "closed" /\ drv'.failed = drv.failed))
      BY <1>0, <1>7 DEF FinishClose, Sessions
    <2>2. DrvTypeOK'
      BY <1>7, <2>1, NoCallType DEF FinishClose, DrvTypeOK
    <2>3. DrvControl' /\ DrvEngines' /\ DrvAtRest' /\ DrvInMotion' /\ DrvTiles' /\ DrvResets'
      BY <1>7, <2>1, NoCallType
         DEF FinishClose, DrvTypeOK, DrvControl, DrvEngines, DrvAtRest, DrvInMotion, DrvTiles, DrvResets
    <2> QED BY <2>2, <2>3
  <1>8. CASE InterruptCall
    <2>1. drv' \in Sessions /\ drv'.state = drv.state /\ drv'.interrupted
      BY <1>0, <1>8 DEF InterruptCall, Sessions
    <2>2. DrvTypeOK'
      BY <1>8, <2>1, NoCallType DEF InterruptCall, DrvTypeOK
    <2>3. DrvControl' /\ DrvEngines' /\ DrvAtRest' /\ DrvInMotion' /\ DrvTiles' /\ DrvResets'
      BY <1>8, <2>1, NoCallType
         DEF InterruptCall, DrvTypeOK, DrvControl, DrvEngines, DrvAtRest, DrvInMotion, DrvTiles, DrvResets
    <2> QED BY <2>2, <2>3
  <1> QED BY <1>1, <1>2, <1>3, <1>4, <1>5, <1>6, <1>7, <1>8 DEF Recover, Close

\* A request that begins.
LEMMA AskKeeps ==
    ASSUME DrvInv, ~drv.interrupted,
           NEW route \in Routes, NEW value \in Operands, NEW tiles \in Nat \ {0}, Ask(route, value, tiles)
    PROVE  DrvInv'
  <1> USE DEF DrvInv
  <1>1. call' = [pc |-> "pack", route |-> route, value |-> value, tiles |-> tiles, got |-> << >>]
        /\ drv' = [drv EXCEPT !.answer = NoRequest] /\ drv \in Sessions
    BY DEF Ask, DrvTypeOK
  <1>2. << >> \in Seq(Packets) /\ Len(<< >>) = 0
    OBVIOUS
  <1>3. call' \in Calls /\ call'.pc = "pack" /\ call'.value = value /\ call'.tiles = tiles /\ call'.got = << >>
    BY <1>1, <1>2 DEF Calls
  <1>4. Undisturbed /\ drv'.route = drv.route /\ drv'.completed = drv.completed
    BY <1>1 DEF Sessions, Undisturbed
  <1>5. DrvTypeOK'
    BY <1>3, <1>4 DEF Ask, DrvTypeOK, Undisturbed
  <1>6. DrvControl' /\ DrvEngines' /\ DrvAtRest' /\ DrvInMotion' /\ DrvTiles' /\ DrvResets'
    BY <1>2, <1>3, <1>4, ProgramAssumption
       DEF Ask, DrvTypeOK, DrvControl, DrvEngines, DrvAtRest, DrvInMotion, DrvTiles, DrvResets, Undisturbed
  <1> QED BY <1>5, <1>6

\* A board that has just been loaded.
LEMMA DrvStarts == DrvInit => DrvInv
  <1> SUFFICES ASSUME DrvInit PROVE DrvInv
    OBVIOUS
  <1>1. DrvTypeOK
    BY NoCallType DEF DrvInit, DrvTypeOK, FreshEngine, EngineStates, Packets, Sessions
  <1>2. DrvControl /\ DrvEngines /\ DrvAtRest /\ DrvInMotion /\ DrvTiles /\ DrvResets
    BY NoCallType DEF DrvInit, FreshEngine, DrvControl, DrvEngines, DrvAtRest, DrvInMotion, DrvTiles, DrvResets
  <1> QED BY <1>1, <1>2 DEF DrvInv

-----------------------------------------------------------------------------
(* Prefixes of the sequences that stand for what the cache holds. *)

\* A context is a sequence of tokens that fits the cache.
LEMMA ContextsAre == \A c : c \in Contexts <=> c \in Seq(Tokens) /\ Len(c) \in Positions
  <1>1. ASSUME NEW c \in Contexts
        PROVE  c \in Seq(Tokens) /\ Len(c) \in Positions
    <2>1. PICK n \in 1 .. Capacity : c \in [1 .. n -> Tokens]
      BY DEF Contexts
    <2> QED BY <2>1, ContextAssumption DEF Positions
  <1>2. ASSUME NEW c \in Seq(Tokens), Len(c) \in Positions
        PROVE  c \in Contexts
    <2>1. c \in [1 .. Len(c) -> Tokens]
      BY LenProperties
    <2> QED BY <1>2, <2>1 DEF Contexts, Positions
  <1> QED BY <1>1, <1>2

\* The first n tokens of a sequence.
LEMMA Prefix ==
    ASSUME NEW s \in Seq(Tokens), NEW n \in 0 .. Len(s)
    PROVE  /\ SubSeq(s, 1, n) \in Seq(Tokens) /\ Len(SubSeq(s, 1, n)) = n
           /\ \A i \in 1 .. n : SubSeq(s, 1, n)[i] = s[i]
           /\ n = Len(s) => SubSeq(s, 1, n) = s
  <1>1. Len(s) \in Nat /\ \A i \in 1 .. Len(s) : s[i] \in Tokens
    BY LenProperties, ElementOfSeq
  <1>2. \A i \in 1 .. n : s[i] \in Tokens
    BY <1>1
  <1>3. /\ SubSeq(s, 1, n) \in Seq(Tokens) /\ Len(SubSeq(s, 1, n)) = n
        /\ \A i \in 1 .. n : SubSeq(s, 1, n)[i] = s[i]
    BY <1>1, <1>2, SubSeqProperties
  <1>4. ASSUME n = Len(s)
        PROVE  SubSeq(s, 1, n) = s
    BY <1>3, <1>4, SeqEqual
  <1> QED BY <1>3, <1>4

\* A prefix of a prefix is a prefix of the whole.
LEMMA PrefixOfPrefix ==
    ASSUME NEW s \in Seq(Tokens), NEW n \in 0 .. Len(s), NEW i \in 0 .. n
    PROVE  SubSeq(SubSeq(s, 1, n), 1, i) = SubSeq(s, 1, i)
  <1> DEFINE p == SubSeq(s, 1, n)
  <1>1. Len(s) \in Nat
    BY LenProperties
  <1>2. p \in Seq(Tokens) /\ Len(p) = n /\ \A j \in 1 .. n : p[j] = s[j]
    BY Prefix
  <1> HIDE DEF p
  <1>3. SubSeq(p, 1, i) \in Seq(Tokens) /\ Len(SubSeq(p, 1, i)) = i /\ \A j \in 1 .. i : SubSeq(p, 1, i)[j] = p[j]
    BY <1>2, Prefix
  <1>4. i \in 0 .. Len(s)
    BY <1>1
  <1>5. SubSeq(s, 1, i) \in Seq(Tokens) /\ Len(SubSeq(s, 1, i)) = i /\ \A j \in 1 .. i : SubSeq(s, 1, i)[j] = s[j]
    BY <1>4, Prefix
  <1>6. \A j \in 1 .. i : SubSeq(p, 1, i)[j] = SubSeq(s, 1, i)[j]
    BY <1>1, <1>2, <1>3, <1>5
  <1> QED BY <1>3, <1>5, <1>6, SeqEqual DEF p

\* The prefixes of what a cache and the tokens of a step make together.
LEMMA PrefixOfSum ==
    ASSUME NEW s \in Seq(Tokens), NEW t \in Seq(Tokens)
    PROVE  /\ \A i \in 0 .. Len(s) : SubSeq(s \o t, 1, i) = SubSeq(s, 1, i)
           /\ \A i \in 0 .. Len(t) : SubSeq(s \o t, 1, Len(s) + i) = s \o SubSeq(t, 1, i)
  <1> DEFINE g == s \o t
  <1>1. Len(s) \in Nat /\ Len(t) \in Nat
    BY LenProperties
  <1>2. /\ g \in Seq(Tokens) /\ Len(g) = Len(s) + Len(t)
        /\ \A i \in 1 .. Len(g) : g[i] = IF i <= Len(s) THEN s[i] ELSE t[i - Len(s)]
    BY ConcatProperties
  <1> HIDE DEF g
  <1>3. ASSUME NEW i \in 0 .. Len(s)
        PROVE  SubSeq(g, 1, i) = SubSeq(s, 1, i)
    <2>1. i \in 0 .. Len(g)
      BY <1>1, <1>2
    <2>2. SubSeq(g, 1, i) \in Seq(Tokens) /\ Len(SubSeq(g, 1, i)) = i /\ \A j \in 1 .. i : SubSeq(g, 1, i)[j] = g[j]
      BY <1>2, <2>1, Prefix
    <2>3. SubSeq(s, 1, i) \in Seq(Tokens) /\ Len(SubSeq(s, 1, i)) = i /\ \A j \in 1 .. i : SubSeq(s, 1, i)[j] = s[j]
      BY Prefix
    <2>4. \A j \in 1 .. i : SubSeq(g, 1, i)[j] = SubSeq(s, 1, i)[j]
      BY <1>1, <1>2, <2>2, <2>3
    <2> QED BY <2>2, <2>3, <2>4, SeqEqual
  <1>4. ASSUME NEW i \in 0 .. Len(t)
        PROVE  SubSeq(g, 1, Len(s) + i) = s \o SubSeq(t, 1, i)
    <2> DEFINE n == Len(s) + i
               u == SubSeq(t, 1, i)
    <2>1. n \in 0 .. Len(g)
      BY <1>1, <1>2
    <2> HIDE DEF n
    <2>2. SubSeq(g, 1, n) \in Seq(Tokens) /\ Len(SubSeq(g, 1, n)) = n /\ \A j \in 1 .. n : SubSeq(g, 1, n)[j] = g[j]
      BY <1>2, <2>1, Prefix
    <2>3. u \in Seq(Tokens) /\ Len(u) = i /\ \A j \in 1 .. i : u[j] = t[j]
      BY Prefix
    <2> HIDE DEF u
    <2>4. /\ s \o u \in Seq(Tokens) /\ Len(s \o u) = Len(s) + Len(u)
          /\ \A j \in 1 .. Len(s) + Len(u) : (s \o u)[j] = IF j <= Len(s) THEN s[j] ELSE u[j - Len(s)]
      BY <2>3, ConcatProperties
    <2>5. \A j \in 1 .. n : SubSeq(g, 1, n)[j] = (s \o u)[j]
      BY <1>1, <1>2, <2>1, <2>2, <2>3, <2>4 DEF n
    <2>6. Len(SubSeq(g, 1, n)) = Len(s \o u)
      BY <2>2, <2>3, <2>4 DEF n
    <2>7. SubSeq(g, 1, n) = s \o u
      BY <2>2, <2>4, <2>5, <2>6, SeqEqual
    <2> QED BY <2>7 DEF n, u
  <1> QED BY <1>3, <1>4 DEF g

-----------------------------------------------------------------------------
(* The invariant of the runtime and of the programs (M4Offload). *)

Cells == {Stale} \cup Contexts
Parts == {"k", "kq", "v"}
Phases == {"none", "feed", "project", "store", "keys", "attend", "logits", "greedy"}
Stepping == {"project", "store", "keys", "attend", "logits"}
Runtimes ==
    [length : Nat, failed : BOOLEAN, k : [Positions -> Cells], kq : [Positions -> Cells], v : [Positions -> Cells]]
Works ==
    [phase : Phases, waiting : BOOLEAN, tokens : Seq(Tokens), todo : Seq(Tokens), count : Nat, data : Cells]
Snapshots == [length : Positions, fed : Contexts, cells : [Parts -> Seq(Cells)]]
Clients ==
    [backend : {"cpu", "fpga"}, saved : {<< >>} \cup Snapshots, fed : Seq(Tokens), logits : Seq(Tokens), ops : Nat]

RtTypeOK == rt \in Runtimes /\ work \in Works /\ client \in Clients

\* The first n cells hold the first tokens of s.
Holds(cells, s, n) == \A i \in 1 .. n : cells[i] = SubSeq(s, 1, i)

\* What has been fed when the step in progress is done.
Growing == client.fed \o work.tokens

RtCache ==
    /\ rt.length = Len(client.fed) /\ rt.length <= Capacity
    /\ Holds(rt.k, client.fed, rt.length) /\ Holds(rt.kq, client.fed, rt.length) /\ Holds(rt.v, client.fed, rt.length)
    /\ client.logits # NoLogits => client.logits = client.fed

\* The rows of a step are stored before the length grows over them.
RtRows ==
    /\ work.phase \in {"store", "keys"} => work.data = work.tokens
    /\ work.phase \in {"keys", "attend", "logits"} => Holds(rt.k, Growing, End) /\ Holds(rt.v, Growing, End)
    /\ work.phase \in {"attend", "logits"} => Holds(rt.kq, Growing, End)
    /\ work.phase = "logits" => work.data = Growing

\* What is still to be fed and to be generated has room in the cache.
RtRoom ==
    /\ work.phase = "feed" =>
          work.todo # << >> /\ work.count >= 1 /\ rt.length + Len(work.todo) + work.count <= Capacity + 1
    /\ work.phase \in Stepping =>
          work.tokens # << >> /\ work.count >= 1 /\ End + Len(work.todo) + work.count <= Capacity + 1
    /\ work.phase = "greedy" =>
          client.logits # NoLogits /\ work.count >= 1 /\ rt.length + work.count <= Capacity

\* A snapshot is sound for the tokens it was taken after.
RtSaved ==
    client.saved # << >> =>
        /\ Len(client.saved.fed) = client.saved.length
        /\ \A c \in Parts : Holds(client.saved.cells[c], client.saved.fed, client.saved.length)

\* What a phase asks the session for, and a request that is under way.
Wanted == IF Phase("project") THEN work.tokens ELSE Growing

RtCalls ==
    /\ work.phase # "none" => ~drv.interrupted
    /\ work.waiting =>
          /\ Computing
          /\ \/ call.pc \in Asking /\ call.value = Wanted
             \/ call.pc = "none" /\ drv.answer \in {Error, Wanted}

RtInv == RtTypeOK /\ RtCache /\ RtRows /\ RtRoom /\ RtSaved
OffInv == DrvInv /\ RtInv /\ RtCalls

-----------------------------------------------------------------------------
(* Every step of the runtime and of a program keeps it. *)

\* A step has room, and its rows come after those of the cache.
LEMMA GrowingIs ==
    ASSUME RtInv, work.phase \in Stepping
    PROVE  /\ work.tokens \in Contexts /\ Growing \in Contexts /\ Growing \in Seq(Tokens)
           /\ Past \in Nat /\ End \in Positions /\ Past < End /\ Len(Growing) = End /\ Len(work.tokens) = End - Past
           /\ \A i \in 0 .. Past : SubSeq(Growing, 1, i) = SubSeq(client.fed, 1, i)
           /\ \A i \in Rows : SubSeq(Growing, 1, i) = client.fed \o SubSeq(work.tokens, 1, i - Past)
           /\ SubSeq(client.fed, 1, Past) = client.fed
  <1>1. client.fed \in Seq(Tokens) /\ work.tokens \in Seq(Tokens) /\ work.todo \in Seq(Tokens) /\ work.tokens # << >>
    BY DEF RtInv, RtTypeOK, Clients, Works, RtRoom
  <1>2. /\ Past = Len(client.fed) /\ End = Past + Len(work.tokens)
        /\ work.count \in Nat /\ work.count >= 1 /\ End + Len(work.todo) + work.count <= Capacity + 1
    BY DEF RtInv, RtTypeOK, Works, RtCache, RtRoom, Past, End
  <1>3. Len(client.fed) \in Nat /\ Len(work.tokens) \in Nat \ {0} /\ Len(work.todo) \in Nat
    BY <1>1, LenProperties, EmptySeq
  <1> DEFINE size == Len(work.tokens)
             left == Len(work.todo)
             past == Len(client.fed)
  <1> HIDE DEF size, left, past
  <1>4. Past = past /\ End = Past + size /\ End + left + work.count <= Capacity + 1
        /\ past \in Nat /\ size \in Nat \ {0} /\ left \in Nat
    BY <1>2, <1>3 DEF size, left, past
  <1>5. Past \in Nat /\ End \in 1 .. Capacity /\ Past < End /\ size = End - Past /\ size \in 1 .. Capacity
    BY <1>2, <1>4, ContextAssumption
  <1>6. Growing \in Seq(Tokens) /\ Len(Growing) = End
    <2>1. Growing \in Seq(Tokens) /\ Len(Growing) = past + size
      BY <1>1, ConcatProperties DEF Growing, past, size
    <2> QED BY <1>4, <2>1
  <1>7. work.tokens \in Contexts /\ Growing \in Contexts
    BY <1>1, <1>5, <1>6, ContextsAre DEF Positions, size
  <1>8. \A i \in 0 .. Past : SubSeq(Growing, 1, i) = SubSeq(client.fed, 1, i)
    BY <1>1, <1>4, PrefixOfSum DEF Growing, past
  <1>9. ASSUME NEW i \in Rows
        PROVE  SubSeq(Growing, 1, i) = client.fed \o SubSeq(work.tokens, 1, i - Past)
    <2>1. i - Past \in 0 .. size /\ past + (i - Past) = i
      BY <1>4, <1>5 DEF Rows
    <2>2. SubSeq(Growing, 1, past + (i - Past)) = client.fed \o SubSeq(work.tokens, 1, i - Past)
      BY <1>1, <2>1, PrefixOfSum DEF Growing, past, size
    <2> QED BY <2>1, <2>2
  <1>10. SubSeq(client.fed, 1, Past) = client.fed
    BY <1>1, <1>4, Prefix DEF past
  <1> QED BY <1>5, <1>6, <1>7, <1>8, <1>9, <1>10 DEF Positions, size

\* Attention over sound rows yields the tokens they came from.
LEMMA AttendedIs ==
    ASSUME NEW s \in Seq(Tokens), Len(s) <= Capacity, NEW n \in 0 .. Len(s), Holds(rt.kq, s, n), Holds(rt.v, s, n)
    PROVE  Attended(n) = SubSeq(s, 1, n)
  <1>1. Len(s) \in Nat
    BY LenProperties
  <1>2. ASSUME NEW i \in 1 .. n
        PROVE  /\ rt.kq[i] # Stale /\ Len(rt.kq[i]) = i
               /\ rt.kq[i] = rt.v[i] /\ IsPrefix(rt.kq[i], rt.kq[n])
    <2>1. rt.kq[i] = SubSeq(s, 1, i) /\ rt.v[i] = SubSeq(s, 1, i) /\ rt.kq[n] = SubSeq(s, 1, n)
      BY <1>2 DEF Holds
    <2>2. i \in 0 .. Len(s) /\ n \in 0 .. Len(s) /\ i \in 0 .. n /\ i \in 0 .. i /\ i <= n /\ i \in Positions
      BY <1>1, <1>2, ContextAssumption DEF Positions
    <2>3. SubSeq(s, 1, i) \in Seq(Tokens) /\ Len(SubSeq(s, 1, i)) = i /\ Len(SubSeq(s, 1, n)) = n
      BY <2>2, Prefix
    <2>4. SubSeq(s, 1, i) # Stale
      BY <2>2, <2>3, ContextsAre, ProgramAssumption
    <2>5. SubSeq(SubSeq(s, 1, i), 1, i) = SubSeq(s, 1, i) /\ SubSeq(SubSeq(s, 1, n), 1, i) = SubSeq(s, 1, i)
      BY <2>2, PrefixOfPrefix
    <2> QED BY <2>1, <2>2, <2>3, <2>4, <2>5 DEF IsPrefix
  <1>3. CASE n = 0
    <2>1. SubSeq(s, 1, n) = << >>
      BY <1>3, SubSeqEmpty
    <2> QED BY <1>2, <1>3, <2>1 DEF Attended
  <1>4. CASE n # 0
    <2>1. rt.kq[n] = SubSeq(s, 1, n)
      BY <1>4 DEF Holds
    <2> QED BY <1>2, <1>4, <2>1 DEF Attended
  <1> QED BY <1>3, <1>4

\* What a phase of a step asks the session, or the native operators, to compute.
LEMMA RequestIs ==
    ASSUME RtInv, Computing
    PROVE  /\ Request[1] \in Routes /\ Request[2] = Wanted /\ Request[3] \in Nat \ {0}
           /\ Wanted \in Contexts /\ Wanted \in Operands /\ Wanted # Error /\ Wanted # NoRequest /\ Wanted # Stale
  <1>1. work.phase \in Stepping
    BY DEF Computing, Stepping
  <1>2. /\ work.tokens \in Contexts /\ Growing \in Contexts /\ Growing \in Seq(Tokens) /\ Len(Growing) = End
        /\ End \in Positions
    BY <1>1, GrowingIs
  <1>3. Wanted \in Contexts
    BY <1>2 DEF Wanted
  <1>4. SubSeq(Growing, 1, End) = Growing
    BY <1>2, Prefix DEF Positions
  <1>5. Request[1] \in Routes /\ Request[2] = Wanted /\ Request[3] \in Nat \ {0}
    <2>1. CASE Phase("project")
      <3>1. Request = <<Gemm, work.tokens, 1>>
        BY <2>1 DEF Request, Phase
      <3> QED BY <2>1, <3>1 DEF Wanted, Routes, Gemm
    <2>2. CASE Phase("keys")
      <3>1. rt.k[End] = Growing
        BY <1>2, <1>4, <2>2 DEF RtInv, RtRows, Holds, Phase, Positions
      <3>2. Request = <<Sfpu, Growing, 1>>
        BY <2>2, <3>1 DEF Request, Phase
      <3> QED BY <2>2, <3>2 DEF Phase, Wanted, Routes, Sfpu
    <2>3. CASE Phase("attend")
      <3>1. Holds(rt.kq, Growing, End) /\ Holds(rt.v, Growing, End)
        BY <2>3 DEF RtInv, RtRows, Phase
      <3>2. End \in 0 .. Len(Growing) /\ Len(Growing) <= Capacity
        BY <1>2 DEF Positions
      <3>3. Attended(End) = Growing
        BY <1>2, <1>4, <3>1, <3>2, AttendedIs
      <3>4. Request = <<Gemm, Growing, 1>>
        BY <2>3, <3>3 DEF Request, Phase
      <3> QED BY <2>3, <3>4 DEF Phase, Wanted, Routes, Gemm
    <2>4. CASE Phase("logits")
      <3>1. work.data = Growing
        BY <2>4 DEF RtInv, RtRows, Phase
      <3>2. Request = <<Gemm, Growing, 2>>
        BY <2>4, <3>1 DEF Request, Phase
      <3> QED BY <2>4, <3>2 DEF Phase, Wanted, Routes, Gemm
    <2> QED BY <2>1, <2>2, <2>3, <2>4 DEF Computing, Phase
  <1>6. Wanted \in Operands /\ Wanted # Error /\ Wanted # NoRequest /\ Wanted # Stale
    BY <1>3, ProgramAssumption
  <1> QED BY <1>3, <1>5, <1>6

\* The cells of a step's rows hold what the cache leads to with them.
LEMMA HoldsMore ==
    ASSUME RtInv, work.phase \in Stepping, NEW cells,
           Holds(cells, client.fed, Past), \A i \in Rows : cells[i] = SubSeq(Growing, 1, i)
    PROVE  Holds(cells, Growing, End)
  <1>1. Past \in Nat /\ End \in Nat /\ \A i \in 0 .. Past : SubSeq(Growing, 1, i) = SubSeq(client.fed, 1, i)
    BY GrowingIs DEF Positions
  <1> SUFFICES ASSUME NEW i \in 1 .. End
               PROVE  cells[i] = SubSeq(Growing, 1, i)
    BY DEF Holds
  <1>2. CASE i \in Rows
    BY <1>2
  <1>3. CASE i \in 1 .. Past
    <2>1. i \in 0 .. Past
      BY <1>1, <1>3
    <2> QED BY <1>1, <1>3, <2>1 DEF Holds
  <1> QED BY <1>1, <1>2, <1>3 DEF Rows

\* The length grows last, over rows that have all been stored (step, m4_offload.py).
LEMMA EndStepKeeps ==
    ASSUME RtInv, work.phase \in {"attend", "logits"}, NEW logits \in {NoLogits, Growing}, EndStep(logits),
           logits = NoLogits => ~LastBlock
    PROVE  RtInv' /\ ~work'.waiting
  <1>1. /\ Growing \in Seq(Tokens) /\ Growing \in Contexts /\ Len(Growing) = End /\ End \in Positions
        /\ Growing # NoLogits
    <2>1. work.phase \in Stepping
      BY DEF Stepping
    <2>2. /\ Growing \in Seq(Tokens) /\ Growing \in Contexts /\ Len(Growing) = End /\ End \in Positions
      BY <2>1, GrowingIs
    <2>3. Len(NoLogits) = 0
      BY DEF NoLogits
    <2> QED BY <2>2, <2>3 DEF Positions
  <1>2. /\ rt \in Runtimes /\ work \in Works /\ client \in Clients
        /\ Holds(rt.k, Growing, End) /\ Holds(rt.kq, Growing, End) /\ Holds(rt.v, Growing, End)
        /\ work.count \in Nat /\ work.count >= 1 /\ End + Len(work.todo) + work.count <= Capacity + 1
        /\ work.todo \in Seq(Tokens)
    BY DEF RtInv, RtTypeOK, RtRows, RtRoom, Stepping, Works
  <1>3. rt' = [rt EXCEPT !.length = End] /\ client' = [client EXCEPT !.fed = Growing, !.logits = logits]
    BY DEF EndStep, Growing
  <1>4. /\ rt' \in Runtimes /\ rt'.length = End /\ rt'.k = rt.k /\ rt'.kq = rt.kq /\ rt'.v = rt.v
        /\ client' \in Clients /\ client'.fed = Growing /\ client'.logits = logits /\ client'.saved = client.saved
    <2>1. End \in Nat
      BY <1>1, ContextAssumption DEF Positions
    <2>2. << >> \in Seq(Tokens)
      OBVIOUS
    <2>3. logits \in Seq(Tokens)
      BY <1>1, <2>2 DEF NoLogits
    <2> QED BY <1>1, <1>2, <1>3, <2>1, <2>3 DEF Runtimes, Clients
  <1>5. /\ work' \in Works /\ ~work'.waiting
        /\ \/ work'.phase = "feed" /\ work'.todo = work.todo /\ ~LastBlock /\ work'.count = work.count
           \/ work'.phase = "greedy" /\ work'.count = work.count - 1 /\ work.count > 1 /\ LastBlock
           \/ work'.phase = "none"
    <2>1. CASE ~LastBlock
      BY <1>2, <2>1 DEF EndStep, Works, Phases, Cells
    <2>2. CASE LastBlock /\ work.count > 1
      <3>1. work' = [work EXCEPT !.phase = "greedy", !.data = Stale, !.waiting = FALSE, !.count = @ - 1]
        BY <2>2 DEF EndStep
      <3>2. work.count - 1 \in Nat
        BY <1>2, <2>2
      <3> QED BY <1>2, <2>2, <3>1, <3>2 DEF Works, Phases, Cells
    <2>3. CASE LastBlock /\ ~(work.count > 1)
      <3>1. << >> \in Seq(Tokens)
        OBVIOUS
      <3> QED BY <2>3, <3>1 DEF EndStep, NoWork, Works, Phases, Cells
    <2> QED BY <2>1, <2>2, <2>3
  <1>6. RtTypeOK'
    BY <1>4, <1>5 DEF RtTypeOK
  <1>7. RtCache'
    BY <1>1, <1>2, <1>4 DEF RtCache, Holds, Positions
  <1>8. RtRows'
    BY <1>5 DEF RtRows
  <1>9. RtRoom'
    <2>1. Len(work.todo) \in Nat /\ (LastBlock => Len(work.todo) = 0)
      BY <1>2, LenProperties DEF LastBlock
    <2> DEFINE left == Len(work.todo)
    <2>2. left \in Nat /\ End + left + work.count <= Capacity + 1 /\ End \in Nat /\ Capacity \in Nat
      BY <1>1, <1>2, <2>1, ContextAssumption DEF Positions
    <2> HIDE DEF left
    <2>3. LastBlock => End + work.count <= Capacity + 1
      BY <1>2, <2>2
    <2>4. work'.phase = "greedy" => logits # NoLogits
      BY <1>5
    <2>5. ASSUME work'.phase = "feed"
          PROVE  work'.todo # << >> /\ work'.count >= 1 /\ rt'.length + Len(work'.todo) + work'.count <= Capacity + 1
      BY <1>2, <1>4, <1>5, <2>5 DEF LastBlock
    <2>6. ASSUME work'.phase = "greedy"
          PROVE  client'.logits # NoLogits /\ work'.count >= 1 /\ rt'.length + work'.count <= Capacity
      BY <1>2, <1>4, <1>5, <2>2, <2>3, <2>4, <2>6
    <2> QED BY <1>5, <2>5, <2>6 DEF RtRoom, Stepping
  <1>10. RtSaved'
    BY <1>4 DEF RtInv, RtSaved
  <1> QED BY <1>5, <1>6, <1>7, <1>8, <1>9, <1>10 DEF RtInv

\* A part of a step that gets the result it asked for.
LEMMA ContinueKeeps ==
    ASSUME RtInv, Computing, Continue(Wanted)
    PROVE  RtInv' /\ ~work'.waiting
  <1>1. work.phase \in Stepping
    BY DEF Computing, Stepping
  <1>2. /\ Wanted \in Contexts /\ Wanted # Stale /\ Growing \in Contexts /\ Growing \in Seq(Tokens) /\ Len(Growing) = End
        /\ End \in Positions /\ Past \in Nat
    BY <1>1, RequestIs, GrowingIs
  <1>3. rt \in Runtimes /\ work \in Works /\ client \in Clients
    BY DEF RtInv, RtTypeOK
  <1>4. CASE work.phase = "project"
    <2>1. work' = [work EXCEPT !.phase = "store", !.data = work.tokens, !.waiting = FALSE] /\ UNCHANGED <<rt, client>>
      BY <1>4 DEF Continue, Phase, Wanted
    <2>2. /\ work' \in Works /\ work'.phase = "store" /\ work'.data = work.tokens /\ work'.tokens = work.tokens
          /\ work'.todo = work.todo /\ work'.count = work.count /\ ~work'.waiting
      BY <1>2, <1>3, <1>4, <2>1 DEF Works, Phases, Cells, Wanted, Phase
    <2> QED BY <1>1, <2>1, <2>2
         DEF RtInv, RtTypeOK, RtCache, RtRows, RtRoom, RtSaved, Growing, End, Past, Stepping, Holds
  <1>5. CASE work.phase = "keys"
    <2>1. /\ rt' = [rt EXCEPT !.kq = [i \in Positions |-> IF i \in Rows THEN SubSeq(Growing, 1, i) ELSE rt.kq[i]]]
          /\ work' = [work EXCEPT !.phase = "attend", !.data = Growing, !.waiting = FALSE] /\ UNCHANGED client
      BY <1>2, <1>5 DEF Continue, Phase, Wanted, Then
    <2>2. /\ work' \in Works /\ work'.phase = "attend" /\ work'.tokens = work.tokens
          /\ work'.todo = work.todo /\ work'.count = work.count /\ ~work'.waiting
      BY <1>2, <1>3, <2>1 DEF Works, Phases, Cells
    <2> DEFINE new == [i \in Positions |-> IF i \in Rows THEN SubSeq(Growing, 1, i) ELSE rt.kq[i]]
    <2>3. \A i \in Rows : i \in Positions /\ SubSeq(Growing, 1, i) \in Contexts
      <3> SUFFICES ASSUME NEW i \in Rows
                   PROVE  i \in Positions /\ SubSeq(Growing, 1, i) \in Contexts
        OBVIOUS
      <3>1. i \in Positions /\ i \in 0 .. Len(Growing)
        BY <1>2, ContextAssumption DEF Rows, Positions
      <3>2. SubSeq(Growing, 1, i) \in Seq(Tokens) /\ Len(SubSeq(Growing, 1, i)) = i
        BY <1>2, <3>1, Prefix
      <3> QED BY <3>1, <3>2, ContextsAre
    <2>4. new \in [Positions -> Cells]
      BY <1>3, <2>3 DEF Runtimes, Cells
    <2>5. /\ \A i \in Rows : new[i] = SubSeq(Growing, 1, i)
          /\ \A i \in 1 .. Past : new[i] = rt.kq[i]
      <3>1. \A i \in 1 .. Past : i \in Positions /\ i \notin Rows
        BY <1>2, ContextAssumption DEF RtInv, RtCache, Rows, Positions, Past
      <3> QED BY <2>3, <3>1
    <2> HIDE DEF new
    <2>6. /\ rt' \in Runtimes /\ rt'.length = rt.length /\ rt'.k = rt.k /\ rt'.v = rt.v /\ rt'.kq = new
      BY <1>3, <2>1, <2>4 DEF Runtimes, new
    <2>7. Holds(new, client.fed, Past)
      BY <2>5 DEF RtInv, RtCache, Holds, Past
    <2>8. Holds(new, Growing, End)
      BY <1>1, <2>5, <2>7, HoldsMore
    <2>9. /\ UNCHANGED client /\ End' = End /\ Growing' = Growing /\ rt'.length = Past
          /\ Holds(rt.k, Growing, End) /\ Holds(rt.v, Growing, End)
      BY <1>5, <2>1, <2>2, <2>6 DEF RtInv, RtRows, Growing, End, Past
    <2>10. RtTypeOK'
      BY <1>3, <2>2, <2>6, <2>9 DEF RtTypeOK
    <2>11. RtCache'
      BY <2>6, <2>7, <2>9 DEF RtInv, RtCache, Holds, Past
    <2>12. RtRows'
      BY <2>2, <2>6, <2>8, <2>9 DEF RtRows, Holds
    <2>13. RtRoom'
      BY <1>1, <2>2, <2>9 DEF RtInv, RtRoom, Stepping
    <2>14. RtSaved'
      BY <2>9 DEF RtInv, RtSaved
    <2> QED BY <2>2, <2>10, <2>11, <2>12, <2>13, <2>14 DEF RtInv
  <1>6. CASE work.phase = "attend" /\ LastBlock
    <2>1. work' = [work EXCEPT !.phase = "logits", !.data = Growing, !.waiting = FALSE] /\ UNCHANGED <<rt, client>>
      BY <1>6 DEF Continue, Phase, Wanted, Then
    <2>2. /\ work' \in Works /\ work'.phase = "logits" /\ work'.data = Growing /\ work'.tokens = work.tokens
          /\ work'.todo = work.todo /\ work'.count = work.count /\ ~work'.waiting
      BY <1>2, <1>3, <2>1 DEF Works, Phases, Cells
    <2> QED BY <1>6, <2>1, <2>2
         DEF RtInv, RtTypeOK, RtCache, RtRows, RtRoom, RtSaved, Growing, End, Past, Stepping, Holds
  <1>7. CASE work.phase = "attend" /\ ~LastBlock
    <2>1. EndStep(NoLogits)
      BY <1>7 DEF Continue, Phase
    <2> QED BY <1>7, <2>1, EndStepKeeps
  <1>8. CASE work.phase = "logits"
    <2>1. EndStep(Growing)
      BY <1>8 DEF Continue, Phase, Wanted
    <2>2. Growing # NoLogits
      BY <1>2 DEF NoLogits, Positions
    <2> QED BY <1>8, <2>1, <2>2, EndStepKeeps
  <1> QED BY <1>4, <1>5, <1>6, <1>7, <1>8 DEF Computing

\* Raw keys and values are stored after those of the cache.
LEMMA StoreKeeps ==
    ASSUME RtInv, Store
    PROVE  RtInv' /\ ~work'.waiting
  <1>1. work.phase = "store" /\ work.phase \in Stepping
    BY DEF Store, Phase, Stepping
  <1>2. /\ Growing \in Seq(Tokens) /\ Len(Growing) = End /\ End \in Positions /\ Past \in Nat /\ Past < End
        /\ work.tokens \in Contexts
        /\ \A i \in Rows : SubSeq(Growing, 1, i) = client.fed \o SubSeq(work.tokens, 1, i - Past)
        /\ SubSeq(client.fed, 1, Past) = client.fed
    BY <1>1, GrowingIs
  <1>3. /\ rt \in Runtimes /\ work \in Works /\ client \in Clients /\ work.data = work.tokens
        /\ Past = Len(client.fed) /\ Past <= Capacity
        /\ Holds(rt.k, client.fed, Past) /\ Holds(rt.kq, client.fed, Past) /\ Holds(rt.v, client.fed, Past)
    BY <1>1 DEF RtInv, RtTypeOK, RtRows, RtCache, Past
  <1>4. Attended(Past) = client.fed
    <2>1. client.fed \in Seq(Tokens) /\ Past \in 0 .. Len(client.fed) /\ Len(client.fed) <= Capacity
      BY <1>2, <1>3 DEF Clients
    <2> QED BY <1>2, <1>3, <2>1, AttendedIs
  <1>5. \A i \in Rows : History(i) = SubSeq(Growing, 1, i)
    <2>1. work.data # Stale
      BY <1>2, <1>3, ProgramAssumption
    <2>2. Attended(Past) # Stale
      <3>1. client.fed = << >> \/ client.fed \in Contexts
        <4>1. client.fed \in Seq(Tokens) /\ Len(client.fed) \in Nat /\ Len(client.fed) <= Capacity
          BY <1>3, LenProperties DEF Clients
        <4>2. client.fed # << >> => Len(client.fed) \in Positions
          BY <4>1, EmptySeq, ContextAssumption DEF Positions
        <4> QED BY <4>1, <4>2, ContextsAre
      <3> QED BY <1>4, <3>1, ProgramAssumption
    <2> QED BY <1>2, <1>3, <1>4, <2>1, <2>2 DEF History
  <1> DEFINE stored(cells) == [i \in Positions |-> IF i \in Rows THEN History(i) ELSE cells[i]]
  <1>6. /\ work' = [work EXCEPT !.phase = "keys", !.data = work.data, !.waiting = FALSE] /\ UNCHANGED client
        /\ rt' = [rt EXCEPT !.k = stored(rt.k), !.v = stored(rt.v)]
    BY DEF Store, Then
  <1>7. \A i \in Rows : i \in Positions /\ History(i) \in Contexts
    <2> SUFFICES ASSUME NEW i \in Rows
                 PROVE  i \in Positions /\ SubSeq(Growing, 1, i) \in Contexts
      BY <1>5
    <2>1. i \in Positions /\ i \in 0 .. Len(Growing)
      BY <1>2, ContextAssumption DEF Rows, Positions
    <2>2. SubSeq(Growing, 1, i) \in Seq(Tokens) /\ Len(SubSeq(Growing, 1, i)) = i
      BY <1>2, <2>1, Prefix
    <2> QED BY <2>1, <2>2, ContextsAre
  <1>8. ASSUME NEW cells \in [Positions -> Cells], Holds(cells, client.fed, Past)
        PROVE  /\ stored(cells) \in [Positions -> Cells]
               /\ Holds(stored(cells), client.fed, Past) /\ Holds(stored(cells), Growing, End)
    <2>1. stored(cells) \in [Positions -> Cells]
      BY <1>7 DEF Cells
    <2>2. \A i \in Rows : stored(cells)[i] = SubSeq(Growing, 1, i)
      BY <1>5, <1>7
    <2>3. Holds(stored(cells), client.fed, Past)
      <3>1. \A i \in 1 .. Past : i \in Positions /\ i \notin Rows
        BY <1>2, <1>3, ContextAssumption DEF Rows, Positions
      <3> QED BY <1>8, <3>1 DEF Holds
    <2> HIDE DEF stored
    <2> QED BY <1>1, <2>1, <2>2, <2>3, HoldsMore
  <1>9. rt.k \in [Positions -> Cells] /\ rt.v \in [Positions -> Cells]
    BY <1>3 DEF Runtimes
  <1> HIDE DEF stored
  <1>10. /\ rt' \in Runtimes /\ rt'.length = Past /\ rt'.kq = rt.kq
         /\ rt'.k = stored(rt.k) /\ rt'.v = stored(rt.v)
    BY <1>3, <1>6, <1>8, <1>9 DEF Runtimes, Past
  <1>11. /\ work' \in Works /\ work'.phase = "keys" /\ work'.data = work.tokens /\ work'.tokens = work.tokens
         /\ work'.todo = work.todo /\ work'.count = work.count /\ ~work'.waiting
    BY <1>3, <1>6 DEF Works, Phases
  <1>12. End' = End /\ Growing' = Growing
    BY <1>6, <1>10, <1>11 DEF End, Past, Growing
  <1>13. RtTypeOK'
    BY <1>3, <1>6, <1>10, <1>11 DEF RtTypeOK
  <1>14. RtCache'
    <2>1. rt'.length = Past /\ rt.length = Past /\ client' = client
      BY <1>6, <1>10 DEF Past
    <2>2. Holds(rt'.k, client.fed, Past) /\ Holds(rt'.kq, client.fed, Past) /\ Holds(rt'.v, client.fed, Past)
      BY <1>3, <1>8, <1>9, <1>10
    <2>3. client.logits # NoLogits => client.logits = client.fed
      BY DEF RtInv, RtCache
    <2> QED BY <1>3, <2>1, <2>2, <2>3 DEF RtCache
  <1>15. RtRows'
    BY <1>3, <1>8, <1>9, <1>10, <1>11, <1>12 DEF RtRows
  <1>16. RtRoom'
    BY <1>1, <1>11, <1>12 DEF RtInv, RtRoom, Stepping
  <1>17. RtSaved'
    BY <1>6 DEF RtInv, RtSaved
  <1> QED BY <1>11, <1>13, <1>14, <1>15, <1>16, <1>17 DEF RtInv

\* The next block of a prompt, or the refusal of a failed runtime.
LEMMA FeedKeeps ==
    ASSUME RtInv, Feed
    PROVE  RtInv' /\ (work'.waiting => work.waiting)
  <1>1. /\ rt \in Runtimes /\ work \in Works /\ client \in Clients /\ UNCHANGED <<rt, client>> /\ work.phase = "feed"
        /\ work.todo \in Seq(Tokens) /\ work.todo # << >> /\ work.count \in Nat /\ work.count >= 1
        /\ rt.length + Len(work.todo) + work.count <= Capacity + 1 /\ rt.length \in Nat
    BY DEF RtInv, RtTypeOK, RtRoom, Feed, Phase, Works, Runtimes
  <1>2. CASE rt.failed
    <2>1. work' = NoWork
      BY <1>2 DEF Feed
    <2>2. work' \in Works /\ work'.phase = "none" /\ ~work'.waiting
      <3>1. << >> \in Seq(Tokens)
        OBVIOUS
      <3> QED BY <2>1, <3>1 DEF NoWork, Works, Phases, Cells
    <2> QED BY <1>1, <2>2 DEF RtInv, RtTypeOK, RtCache, RtRows, RtRoom, RtSaved, Holds, Stepping
  <1>3. CASE ~rt.failed
    <2> DEFINE all == Len(work.todo)
               n == IF all < Block THEN all ELSE Block
               now == SubSeq(work.todo, 1, n)
               rest == SubSeq(work.todo, n + 1, all)
    <2>1. work' = [work EXCEPT !.phase = "project", !.tokens = now, !.todo = rest]
      BY <1>3 DEF Feed
    <2>2. all \in Nat \ {0} /\ \A i \in 1 .. all : work.todo[i] \in Tokens
      BY <1>1, LenProperties, EmptySeq, ElementOfSeq
    <2>3. n \in 1 .. all /\ all \in Nat
      BY <2>2, ContextAssumption
    <2>4. all = Len(work.todo)
      OBVIOUS
    <2> HIDE DEF n, all
    <2>5. now \in Seq(Tokens) /\ Len(now) = n
      BY <1>1, <2>3, <2>4, Prefix
    <2>6. rest \in Seq(Tokens) /\ Len(rest) = all - n
      <3>1. \A i \in n + 1 .. all : work.todo[i] \in Tokens
        BY <2>2, <2>3
      <3>2. /\ SubSeq(work.todo, n + 1, all) \in Seq(Tokens)
            /\ Len(SubSeq(work.todo, n + 1, all)) = IF n + 1 <= all THEN all - (n + 1) + 1 ELSE 0
        BY <2>3, <3>1, SubSeqProperties
      <3> QED BY <2>3, <3>2
    <2> HIDE DEF now, rest
    <2>7. /\ work' \in Works /\ work'.phase = "project" /\ work'.tokens = now /\ work'.todo = rest
          /\ work'.count = work.count /\ work'.waiting = work.waiting
      BY <1>1, <2>1, <2>5, <2>6 DEF Works, Phases
    <2>8. End' + Len(work'.todo) + work'.count <= Capacity + 1
      <3>1. End' = rt.length + n /\ Len(work'.todo) = all - n
        BY <1>1, <2>5, <2>6, <2>7 DEF End, Past
      <3> QED BY <1>1, <2>3, <2>4, <2>7, <3>1, ContextAssumption
    <2>9. now # << >>
      BY <2>3, <2>5
    <2>10. RtRoom'
      BY <1>1, <2>7, <2>8, <2>9 DEF RtRoom, Stepping
    <2> QED BY <1>1, <2>7, <2>10 DEF RtInv, RtTypeOK, RtCache, RtRows, RtSaved, Holds
  <1> QED BY <1>2, <1>3

\* The token that was chosen is fed next.
LEMMA GreedyKeeps ==
    ASSUME RtInv, Greedy
    PROVE  RtInv' /\ (work'.waiting => work.waiting)
  <1>1. /\ work \in Works /\ client \in Clients /\ UNCHANGED <<rt, client>> /\ work.phase = "greedy"
        /\ client.logits # NoLogits /\ client.logits = client.fed /\ work.count >= 1
        /\ rt.length + work.count <= Capacity /\ rt.length = Len(client.fed) /\ rt.length <= Capacity
    BY DEF RtInv, RtTypeOK, RtRoom, RtCache, Greedy, Phase
  <1>2. client.logits \in Contexts
    <2>1. client.fed \in Seq(Tokens) /\ client.fed # << >>
      BY <1>1 DEF Clients, NoLogits
    <2>2. Len(client.fed) \in Nat \ {0}
      BY <2>1, EmptySeq
    <2> QED BY <1>1, <2>1, <2>2, ContextsAre, ContextAssumption DEF Positions
  <1> DEFINE token == Argmax(client.logits)
  <1>3. token \in Tokens
    BY <1>2, ProgramAssumption
  <1>4. work' = [work EXCEPT !.phase = "feed", !.todo = <<token>>]
    BY DEF Greedy
  <1> HIDE DEF token
  <1>5. <<token>> \in Seq(Tokens) /\ Len(<<token>>) = 1 /\ <<token>> # << >>
    BY <1>3
  <1>6. /\ work' \in Works /\ work'.phase = "feed" /\ work'.todo = <<token>>
        /\ work'.count = work.count /\ work'.waiting = work.waiting
    BY <1>1, <1>4, <1>5 DEF Works, Phases
  <1>7. RtRoom'
    BY <1>1, <1>5, <1>6, ContextAssumption DEF RtRoom, Stepping, RtInv, RtTypeOK, Runtimes, Works
  <1> QED BY <1>1, <1>6, <1>7 DEF RtInv, RtTypeOK, RtCache, RtRows, RtSaved, Holds

\* The parts of the invariant that speak of the cache and of a request at rest.
LEMMA RestsKeep ==
    ASSUME RtTypeOK', RtCache', RtSaved', work'.phase \in {"none", "feed"}, RtRoom', work'.waiting => work.waiting
    PROVE  RtInv' /\ (work'.waiting => work.waiting)
  BY DEF RtInv, RtRows

\* What the programs do to the runtime: generate, one more token, snapshot, restore, Ctrl-C.
LEMMA ProgramKeeps ==
    ASSUME RtInv,
           \/ \E job \in Jobs : Generate(job)
           \/ \E t \in Fed : StepOnce(t)
           \/ \E b \in {"cpu", "fpga"} : UseBackend(b)
           \/ Snapshot \/ Restore \/ Interrupt
           \/ Op /\ client' = Spent /\ UNCHANGED <<rt, work>>
    PROVE  RtInv' /\ (work'.waiting => work.waiting)
  <1>1. /\ rt \in Runtimes /\ work \in Works /\ client \in Clients /\ rt.length \in Nat
        /\ NoWork \in Works /\ ~NoWork.waiting /\ NoWork.phase = "none"
    <2>1. << >> \in Seq(Tokens)
      OBVIOUS
    <2> QED BY <2>1 DEF RtInv, RtTypeOK, Runtimes, NoWork, Works, Phases, Cells
  <1>2. ASSUME Op
        PROVE  /\ Spent \in Clients /\ Spent.logits = NoLogits /\ Spent.fed = client.fed /\ Spent.saved = client.saved
               /\ work = NoWork
    <2>1. client.ops - 1 \in Nat /\ << >> \in Seq(Tokens)
      BY <1>1, <1>2 DEF Op, Clients
    <2> QED BY <1>1, <1>2, <2>1 DEF Spent, Clients, NoLogits, Op, MayAct, AtRest
  <1>3. ASSUME NEW job \in Jobs, Generate(job)
        PROVE  RtInv' /\ (work'.waiting => work.waiting)
    <2>1. /\ job.prompt \in Seq(Tokens) /\ job.prompt # << >> /\ job.count \in Nat \ {0}
          /\ Op /\ Len(job.prompt) + job.count <= Capacity
      BY <1>3, ProgramAssumption DEF Generate
    <2>2. /\ rt' = [rt EXCEPT !.length = 0, !.failed = FALSE] /\ client' = [Spent EXCEPT !.fed = << >>]
          /\ work' = [NoWork EXCEPT !.phase = "feed", !.todo = job.prompt, !.count = job.count]
      BY <1>3 DEF Generate
    <2>3. rt' \in Runtimes /\ rt'.length = 0
      BY <1>1, <2>2 DEF Runtimes
    <2>4. /\ work' \in Works /\ work'.phase = "feed" /\ work'.todo = job.prompt /\ work'.count = job.count
          /\ ~work'.waiting
      BY <1>1, <2>1, <2>2 DEF Works, Phases
    <2>5. << >> \in Seq(Tokens) /\ Len(<< >>) = 0
      OBVIOUS
    <2>6. /\ client' \in Clients /\ client'.fed = << >> /\ client'.logits = NoLogits
          /\ client'.saved = client.saved
      BY <1>2, <2>1, <2>2, <2>5 DEF Clients
    <2>7. RtTypeOK' /\ RtSaved'
      BY <2>3, <2>4, <2>6 DEF RtTypeOK, RtInv, RtSaved
    <2>8. RtCache'
      BY <2>3, <2>5, <2>6, ContextAssumption DEF RtCache, Holds
    <2>9. Len(job.prompt) \in Nat
      BY <2>1, LenProperties
    <2>10. RtRoom'
      BY <2>1, <2>3, <2>4, <2>9, ContextAssumption DEF RtRoom, Stepping
    <2> QED BY <2>4, <2>7, <2>8, <2>10, RestsKeep
  <1>4. ASSUME NEW t \in Fed, StepOnce(t)
        PROVE  RtInv' /\ (work'.waiting => work.waiting)
    <2>1. /\ Op /\ rt.length + 1 <= Capacity /\ client' = Spent /\ UNCHANGED rt /\ t \in Tokens
          /\ work' = [NoWork EXCEPT !.phase = "feed", !.todo = <<t>>, !.count = 1]
      BY <1>4, ProgramAssumption DEF StepOnce
    <2>2. <<t>> \in Seq(Tokens) /\ Len(<<t>>) = 1 /\ <<t>> # << >>
      BY <2>1
    <2>3. /\ work' \in Works /\ work'.phase = "feed" /\ work'.todo = <<t>> /\ work'.count = 1 /\ ~work'.waiting
      BY <1>1, <2>1, <2>2 DEF Works, Phases
    <2>4. RtTypeOK' /\ RtSaved' /\ RtCache'
      BY <1>1, <1>2, <2>1, <2>3 DEF RtTypeOK, RtInv, RtSaved, RtCache, Holds
    <2>5. RtRoom'
      BY <1>1, <2>1, <2>2, <2>3, ContextAssumption DEF RtRoom, Stepping
    <2> QED BY <2>3, <2>4, <2>5, RestsKeep
  <1>5. CASE Snapshot
    <2> DEFINE copy == [c \in Parts |-> SubSeq(rt[c], 1, rt.length)]
               saved == [length |-> rt.length, fed |-> client.fed, cells |-> copy]
    <2>1. client' = [client EXCEPT !.saved = saved] /\ UNCHANGED <<rt, work>> /\ work = NoWork /\ rt.length > 0
      BY <1>5 DEF Snapshot, MayAct, AtRest, Parts
    <2>2. /\ client.fed \in Seq(Tokens) /\ rt.length = Len(client.fed) /\ rt.length \in Positions
          /\ client.fed \in Contexts
      <3>1. client.fed \in Seq(Tokens) /\ rt.length = Len(client.fed) /\ rt.length \in Positions
        BY <1>1, <2>1, ContextAssumption DEF RtInv, RtCache, Clients, Positions
      <3> QED BY <3>1, ContextsAre
    <2>3. ASSUME NEW c \in Parts
          PROVE  copy[c] \in Seq(Cells) /\ Holds(copy[c], client.fed, rt.length)
      <3>1. rt[c] \in [Positions -> Cells] /\ Holds(rt[c], client.fed, rt.length)
        BY <1>1 DEF Parts, Runtimes, RtInv, RtCache
      <3>2. \A i \in 1 .. rt.length : rt[c][i] \in Cells
        BY <2>2, <3>1, ContextAssumption DEF Positions
      <3>3. /\ SubSeq(rt[c], 1, rt.length) \in Seq(Cells)
            /\ \A i \in 1 .. rt.length - 1 + 1 : SubSeq(rt[c], 1, rt.length)[i] = rt[c][1 + i - 1]
        BY <1>1, <3>2, SubSeqProperties
      <3>4. \A i \in 1 .. rt.length : SubSeq(rt[c], 1, rt.length)[i] = rt[c][i]
        BY <1>1, <3>3
      <3> QED BY <3>1, <3>3, <3>4 DEF Holds
    <2> HIDE DEF copy
    <2>4. copy \in [Parts -> Seq(Cells)]
      BY <2>3 DEF copy
    <2>5. saved \in Snapshots /\ saved.length = rt.length /\ saved.fed = client.fed /\ saved.cells = copy
      BY <2>2, <2>4 DEF Snapshots
    <2> HIDE DEF saved
    <2>6. /\ client' \in Clients /\ client'.saved = saved /\ client'.fed = client.fed /\ client'.logits = client.logits
      BY <1>1, <2>1, <2>5 DEF Clients
    <2>7. RtSaved'
      BY <2>2, <2>3, <2>5, <2>6 DEF RtSaved
    <2>8. RtTypeOK' /\ RtCache' /\ RtRoom'
      BY <1>1, <2>1, <2>6 DEF RtInv, RtTypeOK, RtCache, RtRoom, Holds, Stepping
    <2> QED BY <1>1, <2>1, <2>7, <2>8, RestsKeep
  <1>6. CASE Restore
    <2> DEFINE saved == client.saved
    <2>1. /\ saved # << >> /\ work = NoWork /\ UNCHANGED work
          /\ client' = [client EXCEPT !.fed = saved.fed, !.logits = NoLogits]
          /\ rt' = [length |-> saved.length, failed |-> FALSE, k |-> Copied("k", saved),
                    kq |-> Copied("kq", saved), v |-> Copied("v", saved)]
      BY <1>6 DEF Restore, MayAct, AtRest
    <2>2. /\ saved.length \in Positions /\ saved.fed \in Contexts /\ saved.cells \in [Parts -> Seq(Cells)]
          /\ Len(saved.fed) = saved.length
          /\ \A c \in Parts : Holds(saved.cells[c], saved.fed, saved.length)
      BY <1>1, <2>1 DEF Clients, Snapshots, RtInv, RtSaved
    <2> HIDE DEF saved
    <2>3. saved.length \in Nat /\ saved.length <= Capacity /\ saved.fed \in Seq(Tokens)
      BY <2>2, ContextsAre, ContextAssumption DEF Positions
    <2>4. ASSUME NEW c \in Parts
          PROVE  Copied(c, saved) \in [Positions -> Cells] /\ Holds(Copied(c, saved), saved.fed, saved.length)
      <3>1. \A i \in 1 .. saved.length : saved.cells[c][i] = SubSeq(saved.fed, 1, i) /\ SubSeq(saved.fed, 1, i) \in Contexts
        <4> SUFFICES ASSUME NEW i \in 1 .. saved.length
                     PROVE  SubSeq(saved.fed, 1, i) \in Contexts
          BY <2>2 DEF Holds
        <4>1. i \in Positions /\ i \in 0 .. Len(saved.fed)
          BY <2>2, <2>3, ContextAssumption DEF Positions
        <4>2. SubSeq(saved.fed, 1, i) \in Seq(Tokens) /\ Len(SubSeq(saved.fed, 1, i)) = i
          BY <2>3, <4>1, Prefix
        <4> QED BY <4>1, <4>2, ContextsAre
      <3>2. rt[c] \in [Positions -> Cells]
        BY <1>1 DEF Parts, Runtimes
      <3>3. \A i \in Positions : i <= saved.length => i \in 1 .. saved.length
        BY <2>3, ContextAssumption DEF Positions
      <3>4. Copied(c, saved) \in [Positions -> Cells]
        BY <3>1, <3>2, <3>3 DEF Copied, Cells
      <3>5. \A i \in 1 .. saved.length : i \in Positions /\ i <= saved.length
        BY <2>3, ContextAssumption DEF Positions
      <3> QED BY <3>1, <3>4, <3>5 DEF Copied, Holds
    <2>5. /\ rt' \in Runtimes /\ rt'.length = saved.length /\ rt'.k = Copied("k", saved)
          /\ rt'.kq = Copied("kq", saved) /\ rt'.v = Copied("v", saved)
      BY <2>1, <2>3, <2>4 DEF Runtimes, Parts
    <2>6. client' \in Clients /\ client'.fed = saved.fed /\ client'.logits = NoLogits /\ client'.saved = client.saved
      <3>1. NoLogits \in Seq(Tokens)
        BY DEF NoLogits
      <3> QED BY <1>1, <2>1, <2>3, <3>1 DEF Clients
    <2>7. RtCache'
      BY <2>2, <2>3, <2>4, <2>5, <2>6 DEF RtCache, Parts
    <2>8. RtTypeOK' /\ RtSaved' /\ RtRoom'
      BY <1>1, <2>1, <2>5, <2>6 DEF RtInv, RtTypeOK, RtSaved, RtRoom, Stepping
    <2> QED BY <1>1, <2>1, <2>7, <2>8, RestsKeep
  <1>7. CASE Interrupt
    <2>1. work' = NoWork /\ rt' = FreshRuntime /\ client' = [FreshClient EXCEPT !.ops = 0]
      BY <1>7 DEF Interrupt
    <2>2. /\ rt' \in Runtimes /\ rt'.length = 0
      BY <2>1 DEF FreshRuntime, Runtimes, Cells
    <2>3. << >> \in Seq(Tokens) /\ Len(<< >>) = 0
      OBVIOUS
    <2>4. client' \in Clients /\ client'.fed = << >> /\ client'.logits = NoLogits /\ client'.saved = << >>
      BY <2>1, <2>3 DEF FreshClient, Clients, NoLogits
    <2>5. RtTypeOK' /\ RtCache' /\ RtSaved' /\ RtRoom'
      BY <1>1, <2>1, <2>2, <2>3, <2>4, ContextAssumption DEF RtTypeOK, RtCache, RtSaved, RtRoom, Stepping, Holds
    <2> QED BY <1>1, <2>1, <2>5, RestsKeep
  <1>8. CASE Op /\ client' = Spent /\ UNCHANGED <<rt, work>>
    <2>1. RtTypeOK' /\ RtCache' /\ RtSaved' /\ RtRoom'
      BY <1>1, <1>2, <1>8 DEF RtInv, RtTypeOK, RtCache, RtSaved, RtRoom, Stepping, Holds
    <2> QED BY <1>1, <1>2, <1>8, <2>1, RestsKeep
  <1>9. ASSUME NEW b \in {"cpu", "fpga"}, UseBackend(b)
        PROVE  RtInv' /\ (work'.waiting => work.waiting)
    <2>1. client' = [client EXCEPT !.backend = b] /\ UNCHANGED <<rt, work>> /\ work = NoWork
      BY <1>9 DEF UseBackend, MayAct, AtRest
    <2>2. /\ client' \in Clients /\ client'.fed = client.fed /\ client'.logits = client.logits
          /\ client'.saved = client.saved
      BY <1>1, <1>9, <2>1 DEF Clients
    <2>3. RtTypeOK' /\ RtCache' /\ RtSaved' /\ RtRoom'
      BY <1>1, <2>1, <2>2 DEF RtInv, RtTypeOK, RtCache, RtSaved, RtRoom, Stepping, Holds
    <2> QED BY <1>1, <2>1, <2>3, RestsKeep
  <1> QED BY <1>3, <1>4, <1>5, <1>6, <1>7, <1>8, <1>9

-----------------------------------------------------------------------------
(* How requests are answered. *)

\* How a step of a request leaves the session, and what it answers.
SameSession == drv'.state = drv.state /\ drv'.interrupted = drv.interrupted
Continues ==
    /\ SameSession /\ drv'.failed = drv.failed /\ drv'.answer = drv.answer
    /\ call'.pc \in Asking /\ call'.value = call.value
Settles == SameSession /\ call' = NoCall
Breaks == Settles /\ Live /\ drv'.failed /\ drv'.answer = Error
Refuses == Settles /\ ~Ready /\ drv'.failed = drv.failed /\ drv'.answer = Error
Serves == Settles /\ Live /\ drv'.failed = drv.failed /\ drv'.answer = call.value

\* A packet's last tile completes the request it was asked for.
LEMMA CollectsAll ==
    ASSUME DrvInv, Collect
    PROVE  Continues \/ Breaks \/ Serves
  <1> DEFINE r == call.route
             count == (drv.completed[r] + 1) % Counts
             counted == [drv EXCEPT !.completed[r] = count]
             good == ~engine[r].error /\ engine[r].tag = drv.tag /\ engine[r].count = count
             got == Append(call.got, rx)
             all == [t \in 1..call.tiles |-> <<call.value, t>>]
  <1>1. drv \in Sessions /\ call \in Calls /\ call.pc = "check" /\ rx \in Packets /\ Live
    BY DEF DrvInv, DrvTypeOK, DrvControl, Collect
  <1>2. /\ counted.state = drv.state /\ counted.failed = drv.failed /\ counted.interrupted = drv.interrupted
        /\ counted.answer = drv.answer /\ drv.completed[r] \in Nat
    BY <1>1 DEF Sessions, Calls
  <1>3. counted \in [state : {drv.state}, failed : BOOLEAN, route : Routes, tag : Nat, completed : {counted.completed},
                     buffers : {drv.buffers}, answer : {drv.answer}, interrupted : {drv.interrupted}]
    BY <1>1 DEF Sessions
  <1> HIDE DEF counted
  <1>4. ASSUME NEW a, drv' = [counted EXCEPT !.answer = a]
        PROVE  drv'.answer = a /\ drv'.failed = drv.failed /\ SameSession
    BY <1>2, <1>3, <1>4 DEF SameSession
  <1>5. CASE chan["s2mm"] = "short"
    <2>1. Raise
      BY <1>5 DEF Collect
    <2> QED BY <1>1, <2>1, RaiseEffect DEF Breaks, Settles, SameSession, Raise
  <1>6. CASE chan["s2mm"] # "short" /\ ~good
    <2>1. call' = NoCall /\ drv' = [counted EXCEPT !.failed = TRUE, !.answer = Error]
      BY <1>6 DEF Collect, counted
    <2>2. drv'.answer = Error /\ drv'.failed /\ SameSession
      BY <1>2, <1>3, <2>1 DEF SameSession
    <2> QED BY <1>1, <2>1, <2>2 DEF Breaks, Settles
  <1>7. CASE chan["s2mm"] # "short" /\ good /\ Len(got) < call.tiles
    <2>1. call' = [call EXCEPT !.pc = "pack", !.got = got] /\ drv' = counted
      BY <1>7 DEF Collect, counted
    <2> HIDE DEF got
    <2>2. call'.pc = "pack" /\ call'.value = call.value
      BY <1>1, <2>1 DEF Calls
    <2> QED BY <1>2, <2>1, <2>2 DEF Continues, SameSession
  <1>8. CASE chan["s2mm"] # "short" /\ good /\ ~(Len(got) < call.tiles)
    <2>1. call' = NoCall /\ drv' = [counted EXCEPT !.answer = IF got = all THEN call.value ELSE Stale]
      BY <1>8 DEF Collect, counted
    <2>2. got \in Seq(Packets) /\ Len(got) = Len(call.got) + 1 /\ got[Len(call.got) + 1] = rx
          /\ \A t \in 1 .. Len(call.got) : got[t] = call.got[t]
      BY <1>1 DEF Calls
    <2>3. /\ Len(call.got) < call.tiles /\ Len(call.got) \in Nat /\ call.tiles \in Nat
          /\ \A t \in 1 .. Len(call.got) : call.got[t] = <<call.value, t>>
          /\ rx = <<call.value, Len(call.got) + 1>>
      BY <1>1 DEF DrvInv, DrvTiles, DrvInMotion, Tile, Calls
    <2>4. Len(got) = call.tiles
      BY <1>8, <2>2, <2>3
    <2>5. DOMAIN got = 1 .. call.tiles /\ got = [t \in DOMAIN got |-> got[t]]
      BY <2>2, <2>4, LenProperties
    <2>6. \A t \in 1 .. call.tiles : got[t] = <<call.value, t>>
      BY <2>2, <2>3, <2>4
    <2> HIDE DEF got
    <2>7. got = all
      BY <2>5, <2>6
    <2>8. drv' = [counted EXCEPT !.answer = call.value]
      BY <2>1, <2>7
    <2> QED BY <1>1, <1>4, <2>1, <2>8 DEF Serves, Settles
  <1> QED BY <1>5, <1>6, <1>7, <1>8

\* A request is worked on until it is answered, with its own result or with an error.
LEMMA Answered ==
    ASSUME DrvInv, Execute
    PROVE  call.pc \in Asking /\ (Continues \/ Breaks \/ Refuses \/ Serves)
  <1>1. drv \in Sessions /\ call \in Calls /\ (call.pc \in Packing \cup Moving => Live)
    BY DEF DrvInv, DrvTypeOK, DrvControl
  <1>2. ASSUME call.pc \in Packing \cup Moving, Raise
        PROVE  Breaks
    BY <1>1, <1>2, RaiseEffect DEF Breaks, Settles, SameSession, Raise
  <1>3. ASSUME NEW pc \in Packing \cup Moving, Goto(pc), drv' = drv
        PROVE  Continues
    BY <1>1, <1>3, GotoEffect DEF Continues, SameSession
  <1>4. CASE Refuse
    BY <1>1, <1>4 DEF Refuse, Return, Refuses, Settles, SameSession, Sessions
  <1>5. CASE Pack
    BY <1>3, <1>5 DEF Pack
  <1>6. CASE Select
    BY <1>2, <1>3, <1>6 DEF Select
  <1>7. CASE Selected
    <2>1. CASE hwRoute # call.route \/ engine[Sfpu].error
      BY <1>2, <1>7, <2>1 DEF Selected
    <2>2. CASE ~(hwRoute # call.route \/ engine[Sfpu].error)
      <3>1. drv' = [drv EXCEPT !.route = call.route] /\ Goto("start") /\ call.pc = "selected"
        BY <1>7, <2>2 DEF Selected
      <3>2. SameSession /\ drv'.failed = drv.failed /\ drv'.answer = drv.answer
        BY <1>1, <3>1 DEF Sessions, SameSession
      <3> QED BY <1>1, <3>1, <3>2, GotoEffect DEF Continues
    <2> QED BY <2>1, <2>2
  <1>8. CASE Start
    <2> DEFINE r == call.route
               tag == (drv.tag + 1) % Counts
               taken == ~engine[r].error /\ ~engine[r].busy /\ call.value # BadOperand
    <2>1. call.pc = "start"
      BY <1>8 DEF Start
    <2>2. CASE taken
      <3>1. drv' = [drv EXCEPT !.tag = tag] /\ Goto("receive")
        BY <1>8, <2>2 DEF Start
      <3>2. SameSession /\ drv'.failed = drv.failed /\ drv'.answer = drv.answer
        BY <1>1, <3>1 DEF Sessions, SameSession
      <3> QED BY <1>1, <2>1, <3>1, <3>2, GotoEffect DEF Continues
    <2>3. CASE ~taken
      <3>1. drv' = [drv EXCEPT !.tag = tag, !.failed = TRUE, !.answer = Error] /\ call' = NoCall
        BY <1>8, <2>3 DEF Start
      <3>2. SameSession /\ drv'.failed /\ drv'.answer = Error
        BY <1>1, <3>1 DEF Sessions, SameSession
      <3> QED BY <1>1, <2>1, <3>1, <3>2 DEF Breaks, Settles
    <2> QED BY <2>2, <2>3
  <1>9. CASE Submit("receive", "s2mm", "send") \/ Submit("send", "mm2s", "sent")
    BY <1>2, <1>3, <1>9 DEF Submit
  <1>10. CASE Await("sent", "mm2s", "received") \/ Await("received", "s2mm", "check")
    BY <1>2, <1>3, <1>10 DEF Await
  <1>11. CASE Collect
    BY <1>11, CollectsAll DEF Collect
  <1>12. CASE BadPadding
    BY <1>2, <1>12 DEF BadPadding
  <1> QED BY <1>4, <1>5, <1>6, <1>7, <1>8, <1>9, <1>10, <1>11, <1>12 DEF Execute

-----------------------------------------------------------------------------
(* The theorems. *)

\* The session steps that no request is part of.
LEMMA OthersKeepAnswer ==
    ASSUME DrvInv, Allocate \/ AwaitReset \/ AwaitSend \/ AwaitReceive \/ FinishClose \/ Load
    PROVE  /\ drv'.answer = drv.answer /\ drv'.interrupted = drv.interrupted /\ call.pc \notin Asking
           /\ call.pc = "none" => call' = call
  <1>1. drv \in Sessions /\ (drv.state = "opening" => call.pc = "none")
    BY DEF DrvInv, DrvTypeOK, DrvControl
  <1> QED BY <1>1 DEF Sessions, Allocate, AwaitReset, AwaitSend, AwaitReceive, FinishClose, Load, GiveUp, Goto

\* Every step of the whole keeps the invariant.
LEMMA OffKeeps ==
    ASSUME OffInv, [Next]_vars
    PROVE  OffInv'
  <1>1. DrvInv /\ RtInv /\ RtCalls /\ drv \in Sessions /\ call \in Calls /\ work \in Works
    BY DEF OffInv, DrvInv, DrvTypeOK, RtInv, RtTypeOK
  <1>2. ASSUME UNCHANGED offVars
        PROVE  RtInv' /\ Wanted' = Wanted /\ Computing' = Computing
    BY <1>1, <1>2 DEF offVars, RtInv, RtTypeOK, RtCache, RtRows, RtRoom, RtSaved, Growing, End, Past, Holds,
                      Wanted, Phase, Computing
  <1>3. ASSUME UNCHANGED drvVars
        PROVE  DrvInv'
    BY <1>1, <1>3
       DEF drvVars, DrvInv, DrvTypeOK, DrvControl, DrvEngines, DrvAtRest, DrvInMotion, DrvTiles, DrvResets, Tile
  <1>4. ASSUME UNCHANGED drvVars, work.phase # "none", ~work'.waiting
        PROVE  RtCalls'
    BY <1>1, <1>4 DEF RtCalls, drvVars
  <1>5. CASE (BoardStep \/ DriverStep) /\ UNCHANGED offVars
    <2>1. DrvInv'
      BY <1>1, <1>5, BoardKeeps, ExecuteKeeps, CallsKeep DEF DriverStep
    <2>2. CASE BoardStep
      <3>1. UNCHANGED <<drv, call>>
        BY <2>2 DEF BoardStep, EngineTakes, EngineDelivers, EngineFails, ChannelFails, ChannelStarts, ResetEnds
      <3>2. RtCalls'
        BY <1>1, <1>2, <1>5, <3>1 DEF RtCalls, offVars
      <3> QED BY <1>2, <1>5, <2>1, <3>2 DEF OffInv
    <2>3. CASE Execute
      <3>1. call.pc \in Asking /\ (Continues \/ Breaks \/ Refuses \/ Serves)
        BY <1>1, <2>3, Answered
      <3>2. RtCalls'
        BY <1>1, <1>2, <1>5, <3>1, NoCallType
           DEF RtCalls, offVars, Continues, Breaks, Refuses, Serves, Settles, SameSession
      <3> QED BY <1>2, <1>5, <2>1, <3>2 DEF OffInv
    <2>4. CASE Allocate \/ AwaitReset \/ AwaitSend \/ AwaitReceive \/ FinishClose
      <3>1. RtCalls'
        BY <1>1, <1>2, <1>5, <2>4, OthersKeepAnswer DEF RtCalls, offVars
      <3> QED BY <1>2, <1>5, <2>1, <3>1 DEF OffInv
    <2> QED BY <1>5, <2>2, <2>3, <2>4 DEF DriverStep
  <1>6. CASE NativeCall
    <2>1. Computing /\ Continue(Wanted) /\ UNCHANGED drvVars /\ work.phase # "none"
      BY <1>1, <1>6, RequestIs DEF NativeCall, Computing
    <2> QED BY <1>1, <1>3, <1>4, <2>1, ContinueKeeps DEF OffInv
  <1>7. CASE PacketCall
    <2>1. /\ Ask(Request[1], Wanted, Request[3]) /\ Request[1] \in Routes /\ Wanted \in Operands
          /\ Request[3] \in Nat \ {0} /\ Computing /\ work.phase # "none" /\ UNCHANGED <<rt, client>>
          /\ work' = [work EXCEPT !.waiting = TRUE]
      BY <1>1, <1>7, RequestIs DEF PacketCall, Computing
    <2>2. ~drv.interrupted
      BY <1>1, <2>1 DEF RtCalls
    <2>3. DrvInv'
      BY <1>1, <2>1, <2>2, AskKeeps
    <2>4. /\ work' \in Works /\ work'.phase = work.phase /\ work'.tokens = work.tokens /\ work'.todo = work.todo
          /\ work'.count = work.count /\ work'.data = work.data
      BY <1>1, <2>1 DEF Works
    <2>5. RtInv'
      BY <1>1, <2>1, <2>4 DEF RtInv, RtTypeOK, RtCache, RtRows, RtRoom, RtSaved, Growing, End, Past, Holds
    <2>6. call'.pc = "pack" /\ call'.value = Wanted /\ drv'.interrupted = drv.interrupted
      BY <1>1, <2>1 DEF Ask, Sessions
    <2>7. Wanted' = Wanted /\ Computing'
      BY <2>1, <2>4 DEF Wanted, Growing, Phase, Computing
    <2> QED BY <2>2, <2>3, <2>5, <2>6, <2>7 DEF OffInv, RtCalls
  <1>8. CASE PacketAnswer
    <2>1. Computing /\ work.phase # "none" /\ drv.answer \in {Error, Wanted} /\ UNCHANGED drvVars
      BY <1>1, <1>8 DEF PacketAnswer, RtCalls, Computing
    <2>2. CASE drv.answer = Error
      <3>1. rt' = [rt EXCEPT !.failed = TRUE] /\ work' = NoWork /\ UNCHANGED client /\ rt \in Runtimes
        BY <1>1, <1>8, <2>2 DEF PacketAnswer, RtInv, RtTypeOK
      <3>2. /\ rt' \in Runtimes /\ rt'.length = rt.length /\ rt'.k = rt.k /\ rt'.kq = rt.kq /\ rt'.v = rt.v
        BY <3>1 DEF Runtimes
      <3>3. work' \in Works /\ work'.phase = "none" /\ ~work'.waiting
        <4>1. << >> \in Seq(Tokens)
          OBVIOUS
        <4> QED BY <3>1, <4>1 DEF NoWork, Works, Phases, Cells
      <3>4. RtInv'
        BY <1>1, <3>1, <3>2, <3>3 DEF RtInv, RtTypeOK, RtCache, RtRows, RtRoom, RtSaved, Holds, Stepping
      <3> QED BY <1>3, <1>4, <2>1, <3>3, <3>4 DEF OffInv
    <2>3. CASE drv.answer # Error
      <3>1. Continue(Wanted)
        BY <1>8, <2>1, <2>3 DEF PacketAnswer
      <3> QED BY <1>1, <1>3, <1>4, <2>1, <3>1, ContinueKeeps DEF OffInv
    <2> QED BY <2>2, <2>3
  <1>9. CASE Store
    <2>1. work.phase # "none" /\ UNCHANGED drvVars
      BY <1>9 DEF Store, Phase
    <2> QED BY <1>1, <1>3, <1>4, <1>9, <2>1, StoreKeeps DEF OffInv
  <1>10. CASE Feed \/ Greedy
    <2>1. work.phase \in {"feed", "greedy"} /\ UNCHANGED drvVars
      BY <1>10 DEF Feed, Greedy, Phase
    <2>2. ~work.waiting
      BY <1>1, <2>1 DEF RtCalls, Computing
    <2>3. RtInv' /\ ~work'.waiting
      BY <1>1, <1>10, <2>2, FeedKeeps, GreedyKeeps
    <2> QED BY <1>3, <1>4, <2>1, <2>3 DEF OffInv
  <1>11. ASSUME MayAct, UNCHANGED drvVars,
                \/ \E job \in Jobs : Generate(job)
                \/ \E t \in Fed : StepOnce(t)
                \/ \E b \in {"cpu", "fpga"} : UseBackend(b)
                \/ Snapshot \/ Restore
         PROVE  OffInv'
    <2>1. ~work.waiting /\ ~drv.interrupted
      BY <1>11 DEF MayAct, AtRest, NoWork
    <2>2. RtInv' /\ ~work'.waiting
      BY <1>1, <1>11, <2>1, ProgramKeeps
    <2>3. RtCalls'
      BY <1>11, <2>1, <2>2 DEF RtCalls, drvVars
    <2> QED BY <1>3, <1>11, <2>2, <2>3 DEF OffInv
  <1>12. CASE AskBad \/ Mend
    <2>1. Op /\ client' = Spent /\ UNCHANGED <<rt, work>> /\ ~work.waiting /\ ~drv.interrupted
      BY <1>12 DEF AskBad, Mend, Op, MayAct, AtRest, NoWork
    <2>2. RtInv' /\ ~work'.waiting
      BY <1>1, <2>1, ProgramKeeps
    <2>3. DrvInv' /\ drv'.interrupted = drv.interrupted
      <3>1. CASE AskBad
        <4>1. Ask(Sfpu, BadOperand, 1) /\ BadOperand \in Operands
          BY <3>1, ProgramAssumption DEF AskBad
        <4>2. drv'.interrupted = drv.interrupted
          BY <1>1, <4>1 DEF Ask, Sessions
        <4> QED BY <1>1, <2>1, <4>1, <4>2, AskKeeps
      <3>2. CASE Mend
        <4>1. Recover
          BY <3>2 DEF Mend
        <4>2. drv'.interrupted = drv.interrupted
          BY <1>1, <4>1 DEF Recover, WriteReset, Sessions
        <4> QED BY <1>1, <2>1, <4>1, <4>2, CallsKeep
      <3> QED BY <1>12, <3>1, <3>2
    <2> QED BY <2>1, <2>2, <2>3 DEF OffInv, RtCalls
  <1>13. CASE OpenSession
    <2>1. DrvInv' /\ drv'.answer = drv.answer /\ drv'.interrupted = drv.interrupted /\ call' = call
      BY <1>1, <1>13, CallsKeep, OthersKeepAnswer DEF OpenSession, Load
    <2>2. RtCalls'
      BY <1>1, <1>2, <1>13, <2>1 DEF OpenSession, RtCalls, offVars
    <2> QED BY <1>2, <1>13, <2>1, <2>2 DEF OpenSession, OffInv
  <1>14. CASE Shut
    <2>1. Close /\ UNCHANGED offVars /\ work = NoWork
      BY <1>14 DEF Shut, AtRest
    <2>2. RtCalls'
      BY <2>1 DEF RtCalls, offVars, NoWork
    <2> QED BY <1>1, <1>2, <2>1, <2>2, CallsKeep DEF OffInv
  <1>15. CASE Interrupt
    <2>1. InterruptCall /\ work' = NoWork
      BY <1>15 DEF Interrupt
    <2> QED BY <1>1, <1>15, <2>1, CallsKeep, ProgramKeeps DEF OffInv, RtCalls, NoWork
  <1>16. CASE UNCHANGED vars
    <2>1. UNCHANGED drvVars /\ UNCHANGED offVars /\ UNCHANGED <<drv, call, work>>
      BY <1>16 DEF vars, drvVars, offVars
    <2>2. RtCalls'
      BY <1>1, <1>2, <2>1 DEF RtCalls
    <2> QED BY <1>2, <1>3, <2>1, <2>2 DEF OffInv
  <1>17. CASE \/ \E job \in Jobs : Generate(job)
              \/ \E t \in Fed : StepOnce(t)
              \/ \E b \in {"cpu", "fpga"} : UseBackend(b)
              \/ Snapshot \/ Restore
    BY <1>11, <1>17 DEF Generate, StepOnce, UseBackend, Snapshot, Restore, Op
  <1> QED BY <1>5, <1>6, <1>7, <1>8, <1>9, <1>10, <1>12, <1>13, <1>14, <1>15, <1>16, <1>17
          DEF Next, RuntimeStep, ClientStep

\* It holds when a program starts.
LEMMA OffStarts == OffInit => OffInv
  <1> SUFFICES ASSUME OffInit PROVE OffInv
    OBVIOUS
  <1>1. DrvInv
    BY DrvStarts DEF OffInit
  <1>2. << >> \in Seq(Tokens) /\ Len(<< >>) = 0
    OBVIOUS
  <1>3. RtTypeOK
    BY <1>2, ProgramAssumption
       DEF OffInit, RtTypeOK, FreshRuntime, Runtimes, NoWork, Works, Phases, Cells, FreshClient, Clients,
           NoLogits
  <1>4. RtCache /\ RtRows /\ RtRoom /\ RtSaved /\ RtCalls
    BY <1>2, ContextAssumption
       DEF OffInit, RtCache, RtRows, RtRoom, RtSaved, RtCalls, FreshRuntime, NoWork, FreshClient, Holds, Stepping, NoLogits
  <1> QED BY <1>1, <1>3, <1>4 DEF OffInv, RtInv

\* Whatever the board, the driver, the runtime and the programs do (m4_driver.py, m4_offload.py),
\* the driver and the board, and the cache and the tokens that were fed, stay in agreement.
THEOREM M4Invariant == Spec => []OffInv
  <1>1. OffInit => OffInv
    BY OffStarts
  <1>2. OffInv /\ [Next]_vars => OffInv'
    BY OffKeeps
  <1> QED BY <1>1, <1>2, PTL DEF Spec

\* A session that will serve (require_ready passes) has nothing in flight, and its route and
\* completion counters are the engines', after any failure, recovery or late answer.
THEOREM DrvInStepCorrect == Spec => []DrvInStep
  <1>1. OffInv => DrvInStep
    BY DEF OffInv, DrvInv, DrvAtRest, DrvInStep, AnyBusy, AnyError
  <1> QED BY <1>1, M4Invariant, PTL

\* A position within the length holds what the tokens fed so far lead to, on either backend
\* and after failures, restores and resets; logits belong to exactly these tokens (step, reset and
\* the restore of m4_benchmark.py).
THEOREM RtCacheSoundCorrect == Spec => []RtCacheSound
  <1>1. OffInv => RtCacheSound
    BY DEF OffInv, RtInv, RtCache, Holds, RtCacheSound
  <1> QED BY <1>1, M4Invariant, PTL

\* Which steps touch the buffers, and what the DMA does then.
LEMMA BuffersStep ==
    ASSUME OffInv, Next
    PROVE  /\ tx' # tx => chan["mm2s"] # "busy"
           /\ Calling("check") => chan["s2mm"] # "busy"
           /\ drv'.buffers = "freed" /\ drv.buffers \in {"held", "retained"}
                 => ~resetting /\ \A c \in Channels : chan[c] # "busy"
  <1>1. drv \in Sessions /\ DrvInv
    BY DEF OffInv, DrvInv, DrvTypeOK
  <1>2. Calling("check") => chan["s2mm"] # "busy"
    BY <1>1 DEF DrvInv, DrvInMotion
  <1>3. CASE Pack
    <2>1. chan["mm2s"] # "busy" /\ UNCHANGED drv
      BY <1>1, <1>3 DEF Pack, DrvInv, DrvControl, DrvAtRest
    <2> QED BY <1>1, <1>2, <2>1 DEF Sessions
  <1>4. CASE FinishClose
    <2>1. UNCHANGED tx /\ call.pc = "closing"
      BY <1>4 DEF FinishClose
    <2>2. CASE resetting
      BY <1>1, <1>2, <1>4, <2>1, <2>2 DEF FinishClose, Sessions
    <2>3. CASE ~resetting
      BY <1>1, <1>2, <2>1, <2>3 DEF DrvInv, DrvResets
    <2> QED BY <2>2, <2>3
  <1>5. ASSUME UNCHANGED tx, drv'.buffers = drv.buffers \/ drv.buffers \in {"none", "tx"}
        PROVE  /\ tx' # tx => chan["mm2s"] # "busy"
               /\ drv'.buffers = "freed" /\ drv.buffers \in {"held", "retained"}
                     => ~resetting /\ \A c \in Channels : chan[c] # "busy"
    BY <1>1, <1>5
  <1>6. CASE BoardStep
    BY <1>2, <1>5, <1>6
       DEF BoardStep, EngineTakes, EngineDelivers, EngineFails, ChannelFails, ChannelStarts, ResetEnds
  <1>7. CASE Execute /\ ~Pack
    <2>1. UNCHANGED tx
      BY <1>7 DEF Execute, Refuse, Select, Selected, Start, Submit, Await, Collect, BadPadding
    <2>2. drv'.buffers = drv.buffers
      <3>1. Raise => drv'.buffers = drv.buffers
        BY <1>1 DEF Raise, Sessions
      <3>2. CASE Start
        BY <1>1, <3>2 DEF Start, Goto, Sessions
      <3>3. CASE Collect
        <4> DEFINE counted == [drv EXCEPT !.completed[call.route] = (drv.completed[call.route] + 1) % Counts]
        <4>1. counted.buffers = drv.buffers
              /\ counted \in [state : {drv.state}, failed : {drv.failed}, route : {drv.route}, tag : {drv.tag},
                              completed : {counted.completed}, buffers : {drv.buffers}, answer : {drv.answer},
                              interrupted : {drv.interrupted}]
          BY <1>1 DEF Sessions
        <4>2. \/ Raise \/ drv' = counted \/ (\E a : drv' = [counted EXCEPT !.answer = a])
              \/ drv' = [counted EXCEPT !.failed = TRUE, !.answer = Error]
          BY <3>3 DEF Collect
        <4> HIDE DEF counted
        <4> QED BY <3>1, <4>1, <4>2
      <3> QED BY <1>1, <1>7, <3>1, <3>2, <3>3
           DEF Execute, Refuse, Return, Select, Selected, Submit, Await, BadPadding, Goto, Sessions
    <2> QED BY <1>2, <1>5, <2>1, <2>2
  <1>8. CASE Allocate \/ AwaitReset \/ AwaitSend \/ AwaitReceive
    <2>1. UNCHANGED tx /\ (drv'.buffers = drv.buffers \/ drv.buffers \in {"none", "tx"})
      <3>1. CASE Allocate
        BY <1>1, <3>1 DEF Allocate, Sessions
      <3>2. CASE AwaitReset \/ AwaitSend \/ AwaitReceive
        BY <1>1, <3>2 DEF AwaitReset, AwaitSend, AwaitReceive, GiveUp, Goto, Sessions
      <3> QED BY <1>8, <3>1, <3>2
    <2> QED BY <1>2, <1>5, <2>1
  <1>9. CASE RuntimeStep
    <2>1. UNCHANGED tx /\ drv'.buffers = drv.buffers
      BY <1>1, <1>9
         DEF RuntimeStep, NativeCall, PacketCall, PacketAnswer, Store, Feed, Greedy, Ask, drvVars, Sessions
    <2> QED BY <1>2, <1>5, <2>1
  <1>10. CASE ClientStep
    <2>1. UNCHANGED tx /\ drv'.buffers = drv.buffers
      BY <1>1, <1>10
         DEF ClientStep, Generate, StepOnce, UseBackend, AskBad, Ask, Snapshot, Restore, OpenSession, Load,
                         Mend, Recover, WriteReset, Shut, Close, Interrupt, InterruptCall, drvVars, Sessions
    <2> QED BY <1>2, <1>5, <2>1
  <1> QED BY <1>3, <1>4, <1>6, <1>7, <1>8, <1>9, <1>10 DEF Next, DriverStep

\* A packet is rewritten, a result read and a buffer given back only when the DMA no longer uses
\* it (pack_gemm_into after require_ready, reset_dma before freebuffer).
THEOREM DrvBuffersQuietCorrect == Spec => DrvBuffersQuiet
  <1>1. OffInv /\ [Next]_vars =>
          [/\ tx' # tx => chan["mm2s"] # "busy"
           /\ Calling("check") /\ (Calling("pack")' \/ drv'.answer \notin {NoRequest, Error})
                 => chan["s2mm"] # "busy"
           /\ drv'.buffers = "freed" /\ drv.buffers \in {"held", "retained"}
                 => ~resetting /\ \A c \in Channels : chan[c] # "busy"]_vars
    BY BuffersStep
  <1> QED BY <1>1, M4Invariant, PTL DEF Spec, DrvBuffersQuiet

\* What the state of a session depends on.
SessionAs(state, failed, interrupted) == drv'.state = state /\ drv'.failed = failed /\ drv'.interrupted = interrupted

\* What the scheduler can tell of a session.
LEMMA SessionStates ==
    ASSUME DrvTypeOK
    PROVE  /\ SessionState = "Absent" <=> drv.state \in {"none", "opening", "gone"}
           /\ SessionState = "Closed" <=> drv.state = "closed"
           /\ SessionState = "Ready" <=> Live
           /\ SessionState = "Interrupted" <=> Ready /\ drv.interrupted
           /\ SessionState = "Failed" <=> Open /\ drv.failed
           /\ SessionState \in {"Absent", "Closed", "Ready", "Interrupted", "Failed"}
  BY DEF DrvTypeOK, Sessions, SessionState

\* Each step of the driver is a step of the session the scheduler relies on, or none.
LEMMA SessionStep ==
    ASSUME OffInv, OffInv', [Next]_vars
    PROVE  [Session!MsNext]_Session!msVars
  <1>1. /\ DrvInv /\ drv \in Sessions /\ call \in Calls /\ NoRequest \notin Operands
        /\ call.pc \in Asking => call.value \in Operands
        /\ call.pc \notin Asking => call.value = NoRequest
        /\ call'.pc \in Asking => call'.value \in Operands
        /\ call'.pc \notin Asking => call'.value = NoRequest
    BY ProgramAssumption DEF OffInv, DrvInv, DrvTypeOK, DrvControl, Calls
  <1>2. /\ SessionState = "Absent" <=> drv.state \in {"none", "opening", "gone"}
        /\ SessionState = "Closed" <=> drv.state = "closed"
        /\ SessionState = "Ready" <=> Live
        /\ SessionState = "Interrupted" <=> Ready /\ drv.interrupted
        /\ SessionState = "Failed" <=> Open /\ drv.failed
        /\ SessionState \in {"Absent", "Closed", "Ready", "Interrupted", "Failed"}
    BY SessionStates DEF OffInv, DrvInv
  <1>3. /\ SessionState' = "Absent" <=> drv'.state \in {"none", "opening", "gone"}
        /\ SessionState' = "Closed" <=> drv'.state = "closed"
        /\ SessionState' = "Ready" <=> drv'.state = "open" /\ ~drv'.failed /\ ~drv'.interrupted
        /\ SessionState' = "Interrupted" <=> drv'.state = "open" /\ ~drv'.failed /\ drv'.interrupted
        /\ SessionState' = "Failed" <=> drv'.state = "open" /\ drv'.failed
        /\ SessionState' \in {"Absent", "Closed", "Ready", "Interrupted", "Failed"}
    <2>1. DrvTypeOK'
      BY DEF OffInv, DrvInv
    <2> QED BY <2>1 DEF DrvTypeOK, Sessions, SessionState
  <1>4. ASSUME SessionAs(drv.state, drv.failed, drv.interrupted)
        PROVE  SessionState' = SessionState
    BY <1>2, <1>3, <1>4 DEF SessionAs
  <1>5. ASSUME SessionAs(drv.state, drv.failed, drv.interrupted), drv'.answer = drv.answer, call'.value = call.value
        PROVE  UNCHANGED Session!msVars
    BY <1>4, <1>5 DEF Session!msVars
  <1> HIDE DEF SessionState
  <1>6. ASSUME NEW route, NEW value \in Operands, NEW tiles, Ask(route, value, tiles)
        PROVE  Session!MsNext
    <2>1. SessionAs(drv.state, drv.failed, drv.interrupted) /\ drv'.answer = NoRequest
      BY <1>1, <1>6 DEF Ask, SessionAs, Sessions
    <2>2. call.pc = "none" /\ call'.value = value /\ drv.state \in {"open", "closed"}
      BY <1>6 DEF Ask
    <2> QED BY <1>1, <1>2, <1>4, <2>1, <2>2 DEF Session!MsNext, Session!MsAsk
  <1>7. CASE Execute
    <2>1. call.pc \in Asking /\ (Continues \/ Breaks \/ Refuses \/ Serves)
      BY <1>1, <1>7, Answered
    <2>2. CASE Continues
      BY <1>5, <2>2 DEF Continues, SameSession, SessionAs
    <2>3. CASE Breaks
      <3>1. SessionState = "Ready" /\ SessionState' = "Failed"
        BY <1>2, <1>3, <2>3 DEF Breaks, Settles, SameSession
      <3> QED BY <1>1, <2>1, <2>3, <3>1, NoCallType
           DEF Breaks, Settles, Session!MsNext, Session!MsBreak, Session!Settled
    <2>4. CASE Refuses
      <3>1. SessionState # "Ready" /\ SessionState' = SessionState
        BY <1>2, <1>4, <2>4 DEF Refuses, Settles, SameSession, SessionAs
      <3> QED BY <1>1, <2>1, <2>4, <3>1, NoCallType
           DEF Refuses, Settles, Session!MsNext, Session!MsRefuse, Session!Settled
    <2>5. CASE Serves
      <3>1. SessionState = "Ready" /\ SessionState' = "Ready"
        BY <1>2, <1>4, <2>5 DEF Serves, Settles, SameSession, SessionAs
      <3> QED BY <1>1, <2>1, <2>5, <3>1, NoCallType
           DEF Serves, Settles, Session!MsNext, Session!MsServe, Session!Settled
    <2> QED BY <2>1, <2>2, <2>3, <2>4, <2>5
  <1>8. CASE Load \/ Allocate
    <2>1. call' = call /\ drv'.answer = drv.answer /\ drv.state \in {"none", "opening"} /\ call.value = NoRequest
          /\ drv'.state \in {"opening", "open", "gone"} /\ drv'.failed = drv.failed /\ drv'.interrupted = drv.interrupted
      BY <1>1, <1>8 DEF Load, Allocate, Sessions, DrvInv, DrvControl
    <2>2. ~drv.failed /\ ~drv.interrupted
      BY <1>1, <2>1 DEF DrvInv, DrvControl
    <2>3. SessionState = "Absent" /\ SessionState' \in {"Absent", "Ready"}
      BY <1>2, <1>3, <2>1, <2>2
    <2> QED BY <2>1, <2>3 DEF Session!MsNext, Session!MsOpen, Session!msVars
  <1>9. ASSUME NEW pc \in {"recovering", "closing"}, NEW failed \in BOOLEAN, WriteReset(pc, failed), Open, call.pc = "none",
               failed => ~drv.interrupted
        PROVE  [Session!MsNext]_Session!msVars
    <2>1. drv' = [drv EXCEPT !.failed = drv.failed \/ failed] /\ call' = [NoCall EXCEPT !.pc = pc]
      BY <1>9 DEF WriteReset
    <2>2. drv'.state = "open" /\ drv'.interrupted = drv.interrupted /\ drv'.answer = drv.answer
          /\ drv'.failed = (drv.failed \/ failed)
      BY <1>1, <1>9, <2>1 DEF Sessions
    <2>3. call'.value = NoRequest /\ call.value = NoRequest
      BY <1>1, <1>9, <2>1, NoCallType
    <2>4. CASE failed /\ ~drv.failed
      BY <1>2, <1>3, <1>9, <2>2, <2>3, <2>4 DEF Session!MsNext, Session!MsFail
    <2>5. CASE ~failed \/ drv.failed
      <3>1. drv'.failed = drv.failed
        BY <1>1, <2>2, <2>5 DEF Sessions
      <3> QED BY <1>5, <1>9, <2>2, <2>3, <3>1 DEF SessionAs
    <2> QED BY <2>4, <2>5
  <1>10. CASE AwaitReset \/ AwaitSend
    <2>1. drv' = drv /\ call'.pc \notin Asking /\ call.pc \notin Asking
      <3>1. call \in Calls
        BY <1>1
      <3> QED BY <1>10, <3>1, GotoEffect, NoCallType DEF AwaitReset, AwaitSend, GiveUp
    <2> QED BY <1>1, <1>5, <2>1 DEF SessionAs
  <1>11. CASE AwaitReceive
    <2>1. call' = NoCall /\ call.pc = "startReceive"
      BY <1>11 DEF AwaitReceive, GiveUp
    <2>2. call'.value = NoRequest /\ call.value = NoRequest /\ Open /\ drv.failed /\ ~drv.interrupted
      BY <1>1, <2>1, NoCallType DEF DrvInv, DrvControl
    <2>3. \/ drv' = drv
          \/ (drv'.state = drv.state /\ ~drv'.failed /\ drv'.interrupted = drv.interrupted
              /\ drv'.answer = drv.answer)
      BY <1>1, <1>11 DEF AwaitReceive, GiveUp, Sessions
    <2>4. CASE drv' = drv
      BY <1>5, <2>2, <2>4 DEF SessionAs
    <2>5. CASE drv'.state = drv.state /\ ~drv'.failed /\ drv'.interrupted = drv.interrupted /\ drv'.answer = drv.answer
      BY <1>2, <1>3, <2>2, <2>5 DEF Session!MsNext, Session!MsMend
    <2> QED BY <2>3, <2>4, <2>5
  <1>12. CASE FinishClose
    <2>1. call'.value = NoRequest /\ call.value = NoRequest /\ Open /\ call' = NoCall
      BY <1>1, <1>12, NoCallType DEF FinishClose, DrvInv, DrvControl
    <2>2. drv'.answer = drv.answer /\ drv'.interrupted = drv.interrupted
          /\ ((drv'.state = drv.state /\ drv'.failed) \/ (drv'.state = "closed"))
      BY <1>1, <1>12 DEF FinishClose, Sessions
    <2>3. CASE drv'.state = "closed"
      BY <1>2, <1>3, <2>1, <2>2, <2>3 DEF Session!MsNext, Session!MsClose
    <2>4. CASE drv'.state = drv.state /\ drv'.failed
      <3>1. SessionState' = "Failed" /\ SessionState \in {"Ready", "Interrupted", "Failed"}
        BY <1>2, <1>3, <2>1, <2>4
      <3> QED BY <2>1, <2>2, <3>1 DEF Session!MsNext, Session!MsFail, Session!msVars
    <2> QED BY <2>2, <2>3, <2>4
  <1>13. CASE Interrupt
    <2>1. drv'.answer = drv.answer /\ drv'.state = drv.state /\ drv'.failed = drv.failed /\ drv'.interrupted
          /\ Open /\ ~drv.interrupted /\ call' = NoCall
      BY <1>1, <1>13 DEF Interrupt, InterruptCall, Sessions
    <2>2. SessionState \in {"Ready", "Failed"} /\ SessionState' \in {SessionState, "Interrupted"}
      BY <1>2, <1>3, <2>1
    <2> QED BY <2>1, <2>2, NoCallType DEF Session!MsNext, Session!MsInterrupt
  <1>14. ASSUME UNCHANGED <<drv, call>>
         PROVE  UNCHANGED Session!msVars
    BY <1>5, <1>14 DEF SessionAs
  <1>15. CASE BoardStep
    BY <1>14, <1>15
       DEF BoardStep, EngineTakes, EngineDelivers, EngineFails, ChannelFails, ChannelStarts, ResetEnds
  <1>16. CASE RuntimeStep
    <2>1. CASE PacketCall
      BY <1>6, <2>1, RequestIs DEF PacketCall, OffInv
    <2>2. CASE RuntimeStep /\ ~PacketCall
      BY <1>14, <2>2 DEF RuntimeStep, NativeCall, PacketAnswer, Store, Feed, Greedy, drvVars
    <2> QED BY <1>16, <2>1, <2>2
  <1>17. CASE AskBad
    BY <1>6, <1>17, ProgramAssumption DEF AskBad
  <1>18. CASE Mend \/ Shut
    BY <1>9, <1>18 DEF Mend, Recover, Op, MayAct, Shut, Close
  <1>19. CASE OpenSession
    BY <1>8, <1>19 DEF OpenSession
  <1>20. CASE \/ \E job \in Jobs : Generate(job)
              \/ \E t \in Fed : StepOnce(t)
              \/ \E b \in {"cpu", "fpga"} : UseBackend(b)
              \/ Snapshot \/ Restore
    BY <1>14, <1>20 DEF Generate, StepOnce, UseBackend, Snapshot, Restore, drvVars
  <1>21. CASE UNCHANGED vars
    BY <1>14, <1>21 DEF vars, drvVars
  <1> QED BY <1>7, <1>8, <1>10, <1>11, <1>12, <1>13, <1>15, <1>16, <1>17, <1>18, <1>19, <1>20, <1>21
          DEF Next, DriverStep, ClientStep

\* The safety part of DrvImplementsSession: a session answers each request once, with its own
\* result or with an error, serves nothing after an error until it is mended, and nothing when
\* it is closed (execute, recover and close of m4_driver.py).
SessionKeeps == Session!MsInit /\ [][Session!MsNext]_Session!msVars

\* The session implements what the scheduler relies on, for every step it takes.
THEOREM DrvSession == Spec => SessionKeeps
  <1>1. OffInit => Session!MsInit
    BY DEF OffInit, DrvInit, NoCall, SessionState, Session!MsInit
  <1>2. OffInv /\ OffInv' /\ [Next]_vars => [Session!MsNext]_Session!msVars
    BY SessionStep
  <1> QED BY <1>1, <1>2, M4Invariant, PTL DEF Spec, SessionKeeps
=============================================================================
