------------------------- MODULE GemmEngine_proofs -------------------------
(***************************************************************************)
(* Theorems about rtl/gemm/pa_gemm.sv: for any dimensions, any number of   *)
(* pipeline stages, rows computed together and words per row, the words it *)
(* gives are the products of the packet at the head of its two slots, and  *)
(* it serves its packets as PacketEngine says.                             *)
(***************************************************************************)
EXTENDS GemmEngine, TLAPS, SequenceTheorems

-----------------------------------------------------------------------------
(* The inductive invariant. *)

States == {"Empty", "Load", "Ready", "Compute", "Pack", "Output"}
SlotRecords ==
    [state : States, m : Nat, n : Nat, k : Nat, wide : BOOLEAN, tag : Nat,
     mn : Nat, macs : Nat, cycles : Nat]
Reads == [k : Nat, valid : BOOLEAN, last : BOOLEAN]
Results == [tag : Nat, row : Nat, sum : Seq(Nat)]

GmTypeOK ==
    /\ gmSlots \in [Slots -> SlotRecords]
    /\ gmPtrs \in [alloc : Slots, load : Slots, compute : Slots, output : Slots]
    /\ gmLoad \in [phaseB : BOOLEAN, row : Nat, word : Nat, k : Nat, group : Nat]
    /\ gmDrop \in BOOLEAN /\ gmMid \in BOOLEAN
    /\ gmEngine \in [state : {"Idle", "Run", "Pack"}, slot : Slots, k : Nat, base : Nat, word : Nat, cycles : Nat]
    /\ gmPipe \in [1 .. PipeDepth -> Reads] /\ gmAcc \in Seq(Nat)
    /\ gmC \in [Slots -> [0 .. OutputWords(MaxM, EnableWide) - 1 -> Results]]
    /\ gmOut \in Nat /\ gmCount \in Nat /\ gmSubmits \in Nat
    /\ gmStatus.done \in BOOLEAN /\ gmStatus.error \in BOOLEAN
    /\ gmReport \in [tag : Nat, macs : Nat, cycles : Nat]

\* A pointer stands past the packets, from the head on, that have come so far.
Oldest == gmPtrs.output
Newest == OtherSlot(gmPtrs.output)
PointsPast(ptr, first, second) ==
    (second => first) /\ ptr = IF first /\ ~second THEN Newest ELSE Oldest

InUse(s) == gmSlots[s].state # "Empty"
IsLoaded(s) == gmSlots[s].state \notin {"Empty", "Load"}
IsDone(s) == gmSlots[s].state = "Output"

GmPointers ==
    /\ PointsPast(gmPtrs.alloc, InUse(Oldest), InUse(Newest))
    /\ PointsPast(gmPtrs.load, IsLoaded(Oldest), IsLoaded(Newest))
    /\ PointsPast(gmPtrs.compute, IsDone(Oldest), IsDone(Newest))

\* The engine works on the slot whose turn it is, and on no other.
GmBusy ==
    /\ gmEngine.state # "Idle" => gmEngine.slot = gmPtrs.compute
    /\ \A s \in Slots : gmSlots[s].state = "Compute" <=> gmEngine.state = "Run" /\ gmEngine.slot = s
    /\ \A s \in Slots : gmSlots[s].state = "Pack" <=> gmEngine.state = "Pack" /\ gmEngine.slot = s

\* What a slot has captured and derived from it.
GmPackets ==
    \A s \in Slots :
        LET p == gmSlots[s] IN
        /\ InUse(s) =>
              /\ p.m \in 1 .. MaxM /\ p.k \in 1 .. MaxK /\ (p.wide => EnableWide)
              /\ p.mn = p.m * p.n
        /\ IsLoaded(s) => p.macs = p.m * p.n * p.k
        /\ IsDone(s) => p.cycles = NoStallCycles(p.m, p.k, p.wide)

\* Where the next input word of a packet can go.
InRange(l, p) ==
    IF l.phaseB
    THEN l.row = 0 /\ l.word = 0 /\ l.k < p.k /\ l.group < Groups
    ELSE l.row < p.m /\ l.word < Stride(p.k) /\ l.k = 0 /\ l.group = 0

\* Nothing is loaded while a frame is dropped.
GmLoading ==
    /\ gmStatus.error <=> gmStatus.code # "None"
    /\ gmDrop => gmStatus.error /\ \A s \in Slots : ~InUse(s)
    /\ IF Loading.state = "Load" THEN InRange(gmLoad, Loading) ELSE gmLoad = FreshLoad
    /\ gmMid <=> gmDrop \/ gmLoad # FreshLoad

GmOutput == IF OutValid THEN gmOut < OutputWords(Draining.m, Draining.wide) ELSE gmOut = 0

\* The first n positions of K, each once and in order.
First(n) == [i \in 1 .. n |-> i - 1]

\* After t cycles of a row group, stage i holds the read of i cycles ago.
Staged(t, i) ==
    IF i <= t /\ t - i < Computing.k
    THEN [k |-> t - i, valid |-> TRUE, last |-> t - i + 1 = Computing.k]
    ELSE NoRead

\* The g-th row group (from 0) is summed up to its cycle t, or packed.
Summing(g, t) ==
    /\ gmEngine.base = g * PhysicalRows /\ gmEngine.word = 0
    /\ gmEngine.k = IF t < Computing.k THEN t ELSE Computing.k
    /\ gmPipe = [i \in 1 .. PipeDepth |-> Staged(t, i)]
    /\ gmAcc = First(IF t > PipeDepth THEN t - PipeDepth ELSE 0)
    /\ gmEngine.cycles =
          g * (Computing.k + PipeDepth) + gmEngine.base * WordsPerRow(Computing.wide) + t

Packing(g) ==
    /\ gmEngine.base = g * PhysicalRows
    /\ gmEngine.word < OutputWords(GroupRows, Computing.wide)
    /\ gmAcc = First(Computing.k)
    /\ gmEngine.cycles =
          (g + 1) * (Computing.k + PipeDepth) + gmEngine.base * WordsPerRow(Computing.wide) + gmEngine.word

GmSums ==
    /\ gmEngine.state # "Idle" => gmEngine.base < Computing.m
    /\ gmEngine.state = "Run" =>
          \E g \in 0 .. gmEngine.base, t \in 0 .. Computing.k + PipeDepth - 1 : Summing(g, t)
    /\ gmEngine.state = "Pack" => \E g \in 0 .. gmEngine.base : Packing(g)

\* The word w of the results of a slot.
ResultOf(s, w) ==
    LET p == gmSlots[s] IN [tag |-> p.tag, row |-> w \div WordsPerRow(p.wide), sum |-> First(p.k)]

Written(s) ==
    LET p == gmSlots[s] IN
    CASE p.state = "Output" -> OutputWords(p.m, p.wide)
      [] p.state \in {"Compute", "Pack"} -> gmEngine.base * WordsPerRow(p.wide) + gmEngine.word
      [] OTHER -> 0

\* What has been written so far is right, and the other slot does not disturb it.
GmMemory == \A s \in Slots : \A w \in 0 .. Written(s) - 1 : gmC[s][w] = ResultOf(s, w)

GmInv ==
    /\ GmTypeOK /\ GmPointers /\ GmBusy /\ GmPackets /\ GmLoading /\ GmOutput /\ GmSums /\ GmMemory

-----------------------------------------------------------------------------
(* Arithmetic of the sizes. *)

LEMMA DivisionLaw ==
    ASSUME NEW m \in Nat, NEW d \in Nat \ {0}
    PROVE  m \div d \in Nat /\ m % d \in Nat /\ m % d < d /\ m = d * (m \div d) + (m % d)
  BY SMT

LEMMA TimesLess ==
    ASSUME NEW a \in Nat, NEW b \in Nat, NEW w \in Nat, a <= b
    PROVE  a * w \in Nat /\ b * w \in Nat /\ a * w <= b * w /\ (w > 0 /\ a < b => a * w + w <= b * w)
  <1>1. PICK e \in Nat : b = a + e
    BY b - a \in Nat, b = a + (b - a)
  <1>2. b * w = a * w + e * w /\ a * w \in Nat /\ e * w \in Nat
    BY <1>1
  <1>3. ASSUME e > 0 PROVE e * w >= w
    <2>1. PICK f \in Nat : e = f + 1
      BY <1>3, e - 1 \in Nat, e = (e - 1) + 1
    <2>2. e * w = f * w + w /\ f * w \in Nat
      BY <2>1
    <2> QED BY <2>2
  <1> QED BY <1>1, <1>2, <1>3

\* A quotient by a positive number is the one with a remainder below it.
LEMMA QuotientIs ==
    ASSUME NEW d \in Nat \ {0}, NEW q \in Nat, NEW r \in Nat, r < d
    PROVE  (q * d + r) \div d = q
  <1> DEFINE n == q * d + r
             p == n \div d
  <1>1. n \in Nat /\ q * d \in Nat /\ d * q = q * d
    OBVIOUS
  <1>2. p \in Nat /\ n % d \in Nat /\ n % d < d /\ n = d * p + (n % d) /\ d * p = p * d
    BY <1>1, DivisionLaw
  <1> HIDE DEF p, n
  <1>3. ~(p < q)
    <2> SUFFICES ASSUME p < q PROVE FALSE
      OBVIOUS
    <2>1. p * d + d <= q * d
      BY <1>2, TimesLess
    <2> QED BY <1>1, <1>2, <2>1 DEF n
  <1>4. ~(q < p)
    <2> SUFFICES ASSUME q < p PROVE FALSE
      OBVIOUS
    <2>1. q * d + d <= p * d
      BY <1>2, TimesLess
    <2> QED BY <1>1, <1>2, <2>1 DEF n
  <1> QED BY <1>2, <1>3, <1>4 DEF p, n

LEMMA Sizes ==
    ASSUME NEW m \in Nat, NEW wide \in BOOLEAN
    PROVE  /\ WordsPerRow(wide) \in Nat \ {0}
           /\ OutputWords(m, wide) = m * WordsPerRow(wide) /\ OutputWords(m, wide) \in Nat
           /\ m > 0 => OutputWords(m, wide) > 0
  <1>1. WordsPerRow(wide) \in Nat \ {0}
    BY GmAssumption DEF WordsPerRow
  <1>2. OutputWords(m, wide) = m * WordsPerRow(wide)
    BY DEF OutputWords
  <1>3. 0 * WordsPerRow(wide) = 0
    BY <1>1
  <1> HIDE DEF WordsPerRow
  <1>4. m * WordsPerRow(wide) \in Nat /\ (m > 0 => m * WordsPerRow(wide) > 0)
    BY <1>1, <1>3, TimesLess
  <1> QED BY <1>1, <1>2, <1>4

LEMMA StrideIs == ASSUME NEW k \in Nat \ {0} PROVE Stride(k) \in Nat \ {0}
  <1> DEFINE n == k + KPerWord - 1
  <1>1. n \in Nat /\ KPerWord \in Nat \ {0} /\ n >= KPerWord
    BY GmAssumption
  <1>2. n \div KPerWord \in Nat /\ n % KPerWord < KPerWord /\ n = KPerWord * (n \div KPerWord) + (n % KPerWord)
    BY <1>1, DivisionLaw
  <1>3. n \div KPerWord # 0
    <2> SUFFICES ASSUME n \div KPerWord = 0 PROVE FALSE
      OBVIOUS
    <2> QED BY <1>1, <1>2, n % KPerWord \in Nat, DivisionLaw
  <1> QED BY <1>2, <1>3 DEF Stride

\* The row a word is of, when the group's first row is row base.
LEMMA PackRowIs ==
    ASSUME NEW base \in Nat, NEW word \in Nat, NEW w \in Nat \ {0}
    PROVE  (base * w + word) \div w = base + word \div w
  <1> DEFINE q == word \div w
             r == word % w
  <1>1. q \in Nat /\ r \in Nat /\ r < w /\ word = w * q + r /\ w * q = q * w
    BY DivisionLaw
  <1> HIDE DEF q, r
  <1>2. base * w + word = (base + q) * w + r /\ base + q \in Nat
    BY <1>1
  <1>3. ((base + q) * w + r) \div w = base + q
    BY <1>1, <1>2, QuotientIs
  <1> QED BY <1>2, <1>3 DEF q

\* The cycles of a packet whose last row group is the g-th.
LEMMA NoStallIs ==
    ASSUME NEW m \in Nat, NEW k \in Nat, NEW wide \in BOOLEAN, NEW g \in Nat,
           g * PhysicalRows < m, m <= g * PhysicalRows + PhysicalRows
    PROVE  NoStallCycles(m, k, wide) = (g + 1) * (k + PipeDepth) + m * WordsPerRow(wide)
  <1> DEFINE r == m - 1 - g * PhysicalRows
  <1>1. PhysicalRows \in Nat \ {0} /\ g * PhysicalRows \in Nat /\ PipeDepth \in Nat
    BY GmAssumption
  <1>2. r \in Nat /\ r < PhysicalRows
    BY <1>1
  <1>3. m + PhysicalRows - 1 = (g + 1) * PhysicalRows + r
    BY <1>1
  <1>4. ((g + 1) * PhysicalRows + r) \div PhysicalRows = g + 1
    BY <1>1, <1>2, QuotientIs
  <1> QED BY <1>3, <1>4 DEF NoStallCycles, OutputWords

-----------------------------------------------------------------------------
(* One clock edge, slot by slot. *)

\* A word, a readiness and a command; every submission has a tag.
Edge(in, ready, op, d) ==
    /\ in \in InputChoices /\ ready \in BOOLEAN /\ op \in {"None", "Ack", "Clear", "Submit"}
    /\ op = "Submit" => d.tag \in Nat
    /\ GmClock(in, ready, op, d)

\* The state a slot moves to, from its own state and what happens to it alone.
StateAfter(s, in, ready, op, d) ==
    LET p == gmSlots[s].state IN
    CASE p = "Empty"   -> IF Accepts(op, d) /\ s = gmPtrs.alloc THEN "Load" ELSE p
      [] p = "Load"    -> IF Loaded(in) /\ s = gmPtrs.load THEN "Ready" ELSE p
      [] p = "Ready"   -> IF Starts /\ s = gmPtrs.compute THEN "Compute" ELSE p
      [] p = "Compute" -> IF Summed THEN "Pack" ELSE p
      [] p = "Pack"    -> IF NextGroup THEN "Compute" ELSE IF Finished THEN "Output" ELSE p
      [] p = "Output"  -> IF Completes(ready) /\ s = gmPtrs.output THEN "Empty" ELSE p

\* Of one edge's assignments to a slot at most one applies, for each needs another state.
LEMMA SlotStep ==
    ASSUME GmTypeOK, GmBusy, NEW in, NEW ready, NEW op, NEW d, NEW s \in Slots,
           op = "Submit" => d.tag \in Nat
    PROVE  LET p == gmSlots[s]
               q == SlotAfter(s, in, ready, op, d)
               new == Accepts(op, d) /\ s = gmPtrs.alloc
           IN  /\ q \in SlotRecords /\ q.state = StateAfter(s, in, ready, op, d)
               /\ q.macs = p.mn * p.k
               /\ q.cycles = IF Finished /\ s = gmEngine.slot THEN gmEngine.cycles + 1 ELSE p.cycles
               /\ new => /\ p.state = "Empty" /\ DimsValid(d)
                         /\ q.m = d.m /\ q.n = d.n /\ q.k = d.k /\ q.wide = StagedWide(d)
                         /\ q.tag = d.tag /\ q.mn = d.m * d.n
               /\ ~new => /\ q.m = p.m /\ q.n = p.n /\ q.k = p.k /\ q.wide = p.wide
                          /\ q.tag = p.tag /\ q.mn = p.mn
  <1> DEFINE old == gmSlots[s]
             new == Accepts(op, d) /\ s = gmPtrs.alloc
             submitted == IF new THEN Captured(old, d) ELSE old
             loaded == IF Loaded(in) /\ s = gmPtrs.load
                       THEN [submitted EXCEPT !.state = "Ready"] ELSE submitted
             drained == IF Completes(ready) /\ s = gmPtrs.output
                        THEN [loaded EXCEPT !.state = "Empty"] ELSE loaded
             computed == Computed(drained, s)
             q == SlotAfter(s, in, ready, op, d)
  <1>1. old \in SlotRecords /\ q = [computed EXCEPT !.macs = old.mn * old.k]
    BY DEF GmTypeOK, SlotAfter
  <1>2. new => old.state = "Empty" /\ DimsValid(d) /\ d.tag \in Nat /\ StagedWide(d) \in BOOLEAN
               /\ d.m \in Nat /\ d.n \in Nat /\ d.k \in Nat
    BY GmAssumption DEF Accepts, Submits, Refusal, DimsValid, StagedWide
  <1>3. Loaded(in) /\ s = gmPtrs.load => old.state = "Load"
    BY DEF Loaded, LastExpected, Loading
  <1>4. Completes(ready) /\ s = gmPtrs.output => old.state = "Output"
    BY DEF Completes, OutLast, OutValid, Draining
  <1>5. Starts /\ s = gmPtrs.compute => old.state = "Ready"
    BY DEF Starts
  <1>6. Starts => ~Summed /\ ~NextGroup /\ ~Finished /\ old.state \notin {"Compute", "Pack"}
    BY DEF Starts, Summed, NextGroup, Finished, GroupPacked, GmBusy
  <1>7. Summed => ~NextGroup /\ ~Finished /\ (s = gmEngine.slot <=> old.state = "Compute")
    BY DEF Summed, NextGroup, Finished, GroupPacked, GmBusy
  <1>8. NextGroup => ~Finished /\ (s = gmEngine.slot <=> old.state = "Pack")
    BY DEF NextGroup, Finished, GroupPacked, GmBusy
  <1>9. Finished => (s = gmEngine.slot <=> old.state = "Pack") /\ gmEngine.cycles + 1 \in Nat
    BY DEF Finished, GroupPacked, GmBusy, GmTypeOK
  <1> HIDE DEF new
  <1>10. submitted \in SlotRecords /\ submitted.cycles = old.cycles
         /\ (new => /\ submitted.state = "Load" /\ submitted.m = d.m /\ submitted.n = d.n /\ submitted.k = d.k
                    /\ submitted.wide = StagedWide(d) /\ submitted.tag = d.tag /\ submitted.mn = d.m * d.n)
         /\ (~new => submitted = old)
    <2>1. new => d.m * d.n \in Nat
      BY <1>2
    <2>2. CASE new
      <3>1. submitted = [old EXCEPT !.state = "Load", !.m = d.m, !.n = d.n, !.k = d.k,
                                    !.wide = StagedWide(d), !.tag = d.tag, !.mn = d.m * d.n]
        BY <2>2 DEF Captured
      <3> QED BY <1>1, <1>2, <2>1, <2>2, <3>1 DEF SlotRecords, States
    <2> QED BY <1>1, <2>2
  <1> DEFINE Same(a, b) ==
        /\ a \in SlotRecords /\ a.m = b.m /\ a.n = b.n /\ a.k = b.k
        /\ a.wide = b.wide /\ a.tag = b.tag /\ a.mn = b.mn
  <1> HIDE DEF submitted
  <1>11. Same(loaded, submitted) /\ loaded.cycles = old.cycles
         /\ loaded.state = IF Loaded(in) /\ s = gmPtrs.load THEN "Ready" ELSE submitted.state
    BY <1>10 DEF SlotRecords, States
  <1> HIDE DEF loaded
  <1>12. Same(drained, submitted) /\ drained.cycles = old.cycles
         /\ drained.state = IF Completes(ready) /\ s = gmPtrs.output THEN "Empty" ELSE loaded.state
    BY <1>11 DEF SlotRecords, States
  <1> HIDE DEF drained
  <1>13. Same(computed, submitted)
         /\ computed.cycles = (IF Finished /\ s = gmEngine.slot THEN gmEngine.cycles + 1 ELSE old.cycles)
         /\ computed.state = IF Starts /\ s = gmPtrs.compute THEN "Compute"
                             ELSE IF s = gmEngine.slot /\ Summed THEN "Pack"
                             ELSE IF s = gmEngine.slot /\ NextGroup THEN "Compute"
                             ELSE IF s = gmEngine.slot /\ Finished THEN "Output"
                             ELSE drained.state
    BY <1>6, <1>7, <1>8, <1>9, <1>12 DEF SlotRecords, States, Computed
  <1> HIDE DEF computed
  <1>14. Same(q, submitted) /\ q.macs = old.mn * old.k /\ q.cycles = computed.cycles /\ q.state = computed.state
    BY <1>1, <1>13 DEF SlotRecords
  <1>15. q.state = StateAfter(s, in, ready, op, d)
    BY <1>1, <1>2, <1>3, <1>4, <1>5, <1>6, <1>7, <1>8, <1>9, <1>10, <1>11, <1>12, <1>13, <1>14
       DEF StateAfter, SlotRecords, States, new
  <1> HIDE DEF q
  <1> QED BY <1>2, <1>10, <1>13, <1>14, <1>15 DEF new, q

\* An edge either empties the slots and rewinds the pointers, or lets everything move on.
Drops(in, op) == BreaksFrame(in) \/ Clears(op)

\* How packets come and go: what a slot counts as after an edge that drops nothing.
LEMMA SlotEvents ==
    ASSUME GmTypeOK, GmBusy, NEW in, NEW ready, NEW op, NEW d, Edge(in, ready, op, d),
           ~Drops(in, op), NEW s \in Slots
    PROVE  /\ gmSlots'[s] = SlotAfter(s, in, ready, op, d)
           /\ gmSlots'[s].state = StateAfter(s, in, ready, op, d)
           /\ InUse(s)' <=> \/ InUse(s) /\ ~(Completes(ready) /\ s = gmPtrs.output)
                            \/ Accepts(op, d) /\ s = gmPtrs.alloc
           /\ IsLoaded(s)' <=> \/ IsLoaded(s) /\ ~(Completes(ready) /\ s = gmPtrs.output)
                               \/ Loaded(in) /\ s = gmPtrs.load
           /\ IsDone(s)' <=> \/ IsDone(s) /\ ~(Completes(ready) /\ s = gmPtrs.output)
                             \/ Finished /\ s = gmEngine.slot
           /\ Accepts(op, d) => ~InUse(gmPtrs.alloc)
           /\ Loaded(in) => gmSlots[gmPtrs.load].state = "Load"
           /\ Finished => gmSlots[gmEngine.slot].state = "Pack" /\ gmEngine.slot = gmPtrs.compute
           /\ Completes(ready) => IsDone(gmPtrs.output)
  <1>1. gmSlots'[s] = SlotAfter(s, in, ready, op, d)
    BY DEF Edge, GmClock, Drops, Advanced
  <1>2. gmSlots'[s].state = StateAfter(s, in, ready, op, d)
    BY <1>1, SlotStep DEF Edge
  <1>3. gmSlots[s].state \in States /\ gmPtrs.output \in Slots /\ gmPtrs.load \in Slots /\ gmPtrs.alloc \in Slots
        /\ gmEngine.slot \in Slots
    BY DEF GmTypeOK, SlotRecords
  <1>4. Accepts(op, d) => ~InUse(gmPtrs.alloc)
    BY DEF Accepts, Submits, Refusal, InUse
  <1>5. Loaded(in) => gmSlots[gmPtrs.load].state = "Load"
    BY DEF Loaded, LastExpected, Loading
  <1>6. Completes(ready) => IsDone(gmPtrs.output)
    BY DEF Completes, OutLast, OutValid, Draining, IsDone
  <1>7. Finished => gmEngine.state = "Pack"
    BY DEF Finished, GroupPacked
  <1>8. gmSlots[s].state = "Pack" <=> gmEngine.state = "Pack" /\ gmEngine.slot = s
    BY DEF GmBusy
  <1>9. Finished => gmSlots[gmEngine.slot].state = "Pack" /\ gmEngine.slot = gmPtrs.compute /\ ~NextGroup
    BY <1>3, <1>7 DEF GmBusy, Finished, NextGroup
  <1>10. InUse(s)' <=> gmSlots'[s].state # "Empty"
    BY DEF InUse
  <1>11. IsLoaded(s)' <=> gmSlots'[s].state \notin {"Empty", "Load"}
    BY DEF IsLoaded
  <1>12. IsDone(s)' <=> gmSlots'[s].state = "Output"
    BY DEF IsDone
  <1>13. InUse(s)' <=> \/ InUse(s) /\ ~(Completes(ready) /\ s = gmPtrs.output)
                       \/ Accepts(op, d) /\ s = gmPtrs.alloc
    BY <1>2, <1>3, <1>4, <1>6, <1>10 DEF States, StateAfter, InUse, IsDone
  <1>14. IsLoaded(s)' <=> \/ IsLoaded(s) /\ ~(Completes(ready) /\ s = gmPtrs.output)
                          \/ Loaded(in) /\ s = gmPtrs.load
    BY <1>2, <1>3, <1>5, <1>6, <1>11 DEF States, StateAfter, IsLoaded, IsDone
  <1>15. IsDone(s)' <=> \/ IsDone(s) /\ ~(Completes(ready) /\ s = gmPtrs.output)
                        \/ Finished /\ s = gmEngine.slot
    BY <1>2, <1>3, <1>6, <1>7, <1>8, <1>9, <1>12 DEF States, StateAfter, IsDone
  <1> QED BY <1>1, <1>2, <1>4, <1>5, <1>6, <1>9, <1>13, <1>14, <1>15

\* After an edge that drops nothing is left, and everything starts at slot 0.
LEMMA DropEffect ==
    ASSUME GmTypeOK, GmBusy, NEW in, NEW ready, NEW op, NEW d, Edge(in, ready, op, d), Drops(in, op)
    PROVE  /\ \A s \in Slots : gmSlots'[s] \in SlotRecords /\ gmSlots'[s].state = "Empty"
           /\ gmPtrs' = FreshPtrs /\ gmLoad' = FreshLoad /\ gmOut' = 0
           /\ gmEngine' = [EngineAfter EXCEPT !.state = "Idle"] /\ gmPipe' = EmptyPipe
  <1>1. Dropped(in, ready, op, d)
    BY DEF Edge, GmClock, Drops
  <1>2. ASSUME NEW s \in Slots PROVE gmSlots'[s] \in SlotRecords /\ gmSlots'[s].state = "Empty"
    <2>1. SlotAfter(s, in, ready, op, d) \in SlotRecords
      BY SlotStep DEF Edge
    <2>2. gmSlots'[s] = [SlotAfter(s, in, ready, op, d) EXCEPT !.state = "Empty"]
      BY <1>1 DEF Dropped
    <2> QED BY <2>1, <2>2 DEF SlotRecords, States
  <1> QED BY <1>1, <1>2 DEF Dropped, PtrsDropped

LEMMA PointersKeep ==
    ASSUME GmTypeOK, GmPointers, GmBusy, NEW in, NEW ready, NEW op, NEW d, Edge(in, ready, op, d)
    PROVE  GmPointers'
  <1>1. CASE Drops(in, op)
    BY <1>1, DropEffect
       DEF GmPointers, PointsPast, InUse, IsLoaded, IsDone, Oldest, Newest, OtherSlot, FreshPtrs, Slots
  <1>2. CASE ~Drops(in, op)
    <2> DEFINE o == gmPtrs.output
               n == OtherSlot(o)
               p == OtherSlot(gmPtrs'.output)
    <2>1. o \in Slots /\ n \in Slots /\ o # n /\ OtherSlot(n) = o
          /\ gmPtrs.alloc \in Slots /\ gmPtrs.load \in Slots /\ gmPtrs.compute \in Slots
          /\ gmEngine.slot \in Slots
      BY DEF GmTypeOK, Slots, OtherSlot
    <2>2. gmPtrs' = PtrsAfter(in, ready, op, d)
      BY <1>2 DEF Edge, GmClock, Drops, Advanced
    <2>3. gmPtrs'.output = (IF Completes(ready) THEN n ELSE o)
          /\ gmPtrs'.alloc = (IF Accepts(op, d) THEN OtherSlot(gmPtrs.alloc) ELSE gmPtrs.alloc)
          /\ gmPtrs'.load = (IF Loaded(in) THEN OtherSlot(gmPtrs.load) ELSE gmPtrs.load)
          /\ gmPtrs'.compute = (IF Finished THEN OtherSlot(gmPtrs.compute) ELSE gmPtrs.compute)
      BY <2>2 DEF PtrsAfter, Toggled
    <2>4. /\ PointsPast(gmPtrs.alloc, InUse(o), InUse(n))
          /\ PointsPast(gmPtrs.load, IsLoaded(o), IsLoaded(n))
          /\ PointsPast(gmPtrs.compute, IsDone(o), IsDone(n))
      BY DEF GmPointers, Oldest, Newest
    <2>5. Completes(ready) => IsDone(o) /\ IsLoaded(o) /\ InUse(o)
      BY <1>2, <2>1, SlotEvents DEF IsDone, IsLoaded, InUse
    <2>6. Finished => gmEngine.slot = gmPtrs.compute
      BY <1>2, <2>1, SlotEvents
    <2> DEFINE Past(ptr, first, second) == (second => first) /\ ptr = IF first /\ ~second THEN p ELSE gmPtrs'.output
    <2>7. Past(gmPtrs'.alloc, gmSlots'[gmPtrs'.output].state # "Empty", gmSlots'[p].state # "Empty")
      <3>1. Accepts(op, d) => ~InUse(gmPtrs.alloc)
        BY <1>2, <2>1, SlotEvents
      <3>2. \A s \in Slots : gmSlots'[s].state # "Empty" <=>
                               \/ InUse(s) /\ ~(Completes(ready) /\ s = o)
                               \/ Accepts(op, d) /\ s = gmPtrs.alloc
        BY <1>2, SlotEvents DEF InUse
      <3> QED BY <2>1, <2>3, <2>4, <2>5, <3>1, <3>2 DEF PointsPast, Oldest, Newest, OtherSlot, Slots
    <2>8. Past(gmPtrs'.load, gmSlots'[gmPtrs'.output].state \notin {"Empty", "Load"},
               gmSlots'[p].state \notin {"Empty", "Load"})
      <3>1. Loaded(in) => ~IsLoaded(gmPtrs.load)
        BY <1>2, <2>1, SlotEvents DEF IsLoaded
      <3>2. \A s \in Slots : gmSlots'[s].state \notin {"Empty", "Load"} <=>
                               \/ IsLoaded(s) /\ ~(Completes(ready) /\ s = o)
                               \/ Loaded(in) /\ s = gmPtrs.load
        BY <1>2, SlotEvents DEF IsLoaded
      <3> QED BY <2>1, <2>3, <2>4, <2>5, <3>1, <3>2 DEF PointsPast, Oldest, Newest, OtherSlot, Slots
    <2>9. Past(gmPtrs'.compute, gmSlots'[gmPtrs'.output].state = "Output", gmSlots'[p].state = "Output")
      <3>1. Finished => ~IsDone(gmPtrs.compute)
        BY <1>2, <2>1, SlotEvents DEF IsDone
      <3>2. \A s \in Slots : gmSlots'[s].state = "Output" <=>
                               \/ IsDone(s) /\ ~(Completes(ready) /\ s = o)
                               \/ Finished /\ s = gmEngine.slot
        BY <1>2, SlotEvents DEF IsDone
      <3> QED BY <2>1, <2>3, <2>4, <2>5, <2>6, <3>1, <3>2 DEF PointsPast, Oldest, Newest, OtherSlot, Slots
    <2> QED BY <2>7, <2>8, <2>9 DEF GmPointers, PointsPast, InUse, IsLoaded, IsDone, Oldest, Newest
  <1> QED BY <1>1, <1>2

Engines == [state : {"Idle", "Run", "Pack"}, slot : Slots, k : Nat, base : Nat, word : Nat, cycles : Nat]

\* What the engine does in an edge, by its state.
LEMMA EngineStep ==
    ASSUME GmTypeOK
    PROVE  LET e == gmEngine
               f == EngineAfter
           IN  /\ f \in Engines
               /\ Starts => /\ e.state = "Idle" /\ f.state = "Run" /\ f.slot = gmPtrs.compute
                            /\ f.k = 0 /\ f.base = 0 /\ f.word = 0 /\ f.cycles = 0
               /\ e.state = "Run" =>
                     /\ ~Starts /\ ~GroupPacked /\ ~NextGroup /\ ~Finished
                     /\ f.state = (IF Summed THEN "Pack" ELSE "Run") /\ f.slot = e.slot /\ f.base = e.base
                     /\ f.k = (IF e.k < Computing.k THEN e.k + 1 ELSE e.k)
                     /\ f.word = (IF Summed THEN 0 ELSE e.word) /\ f.cycles = e.cycles + 1
               /\ e.state = "Pack" =>
                     /\ ~Starts /\ ~Summed
                     /\ f.state = (IF NextGroup THEN "Run" ELSE IF Finished THEN "Idle" ELSE "Pack")
                     /\ f.slot = e.slot /\ f.cycles = e.cycles + 1
                     /\ f.base = (IF NextGroup THEN e.base + PhysicalRows ELSE e.base)
                     /\ f.word = (IF GroupPacked THEN 0 ELSE e.word + 1)
                     /\ NextGroup => f.k = 0
               /\ e.state = "Idle" /\ ~Starts => f = e
               /\ e.state = "Idle" => ~Summed /\ ~GroupPacked /\ ~NextGroup /\ ~Finished
  <1> DEFINE e == gmEngine
             f == EngineAfter
  <1>1. e \in Engines /\ gmPtrs.compute \in Slots /\ PhysicalRows \in Nat
    BY GmAssumption DEF GmTypeOK, Engines
  <1>2. CASE Starts
    <2>1. e.state = "Idle" /\ f = [state |-> "Run", slot |-> gmPtrs.compute, k |-> 0, base |-> 0, word |-> 0, cycles |-> 0]
      BY <1>2 DEF Starts, EngineAfter
    <2> QED BY <1>1, <1>2, <2>1 DEF Engines, Summed, GroupPacked, NextGroup, Finished
  <1>3. CASE e.state = "Run"
    <2>1. f = [e EXCEPT !.cycles = @ + 1, !.k = IF @ < Computing.k THEN @ + 1 ELSE @,
                        !.state = IF Summed THEN "Pack" ELSE @, !.word = IF Summed THEN 0 ELSE @]
      BY <1>3 DEF EngineAfter, Starts
    <2>2. ~Starts /\ ~GroupPacked /\ ~NextGroup /\ ~Finished
      BY <1>3 DEF Starts, GroupPacked, NextGroup, Finished
    <2>3. /\ f \in Engines /\ f.state = (IF Summed THEN "Pack" ELSE "Run") /\ f.slot = e.slot /\ f.base = e.base
          /\ f.k = (IF e.k < Computing.k THEN e.k + 1 ELSE e.k)
          /\ f.word = (IF Summed THEN 0 ELSE e.word) /\ f.cycles = e.cycles + 1
      <3> DEFINE c == e.cycles + 1
                 k == IF e.k < Computing.k THEN e.k + 1 ELSE e.k
                 st == IF Summed THEN "Pack" ELSE e.state
                 w == IF Summed THEN 0 ELSE e.word
      <3>1. c \in Nat /\ k \in Nat /\ w \in Nat /\ st = (IF Summed THEN "Pack" ELSE "Run")
        BY <1>1, <1>3 DEF Engines
      <3>2. f = [e EXCEPT !.cycles = c, !.k = k, !.state = st, !.word = w]
        BY <2>1
      <3> HIDE DEF c, k, st, w
      <3>3. f.cycles = c /\ f.k = k /\ f.state = st /\ f.word = w /\ f.slot = e.slot /\ f.base = e.base
        BY <1>1, <3>2 DEF Engines
      <3>4. f \in Engines
        BY <1>1, <3>1, <3>2 DEF Engines
      <3> QED BY <3>1, <3>3, <3>4 DEF c, k, w
    <2> QED BY <1>3, <2>2, <2>3
  <1>4. CASE e.state = "Pack"
    <2>1. f = [e EXCEPT !.cycles = @ + 1, !.word = IF GroupPacked THEN 0 ELSE @ + 1,
                        !.base = IF NextGroup THEN @ + PhysicalRows ELSE @,
                        !.k = IF NextGroup THEN 0 ELSE @,
                        !.state = IF NextGroup THEN "Run" ELSE IF Finished THEN "Idle" ELSE @]
      BY <1>4 DEF EngineAfter, Starts
    <2>2. ~Starts /\ ~Summed
      BY <1>4 DEF Starts, Summed
    <2>3. /\ f \in Engines
          /\ f.state = (IF NextGroup THEN "Run" ELSE IF Finished THEN "Idle" ELSE "Pack")
          /\ f.slot = e.slot /\ f.cycles = e.cycles + 1
          /\ f.base = (IF NextGroup THEN e.base + PhysicalRows ELSE e.base)
          /\ f.word = (IF GroupPacked THEN 0 ELSE e.word + 1)
          /\ NextGroup => f.k = 0
      <3> DEFINE c == e.cycles + 1
                 w == IF GroupPacked THEN 0 ELSE e.word + 1
                 b == IF NextGroup THEN e.base + PhysicalRows ELSE e.base
                 k == IF NextGroup THEN 0 ELSE e.k
                 st == IF NextGroup THEN "Run" ELSE IF Finished THEN "Idle" ELSE e.state
      <3>1. c \in Nat /\ k \in Nat /\ w \in Nat /\ b \in Nat
            /\ st = (IF NextGroup THEN "Run" ELSE IF Finished THEN "Idle" ELSE "Pack")
        BY <1>1, <1>4 DEF Engines
      <3>2. f = [e EXCEPT !.cycles = c, !.word = w, !.base = b, !.k = k, !.state = st]
        BY <2>1
      <3> HIDE DEF c, k, st, w, b
      <3>3. f.cycles = c /\ f.k = k /\ f.state = st /\ f.word = w /\ f.slot = e.slot /\ f.base = b
        BY <1>1, <3>2 DEF Engines
      <3>4. f \in Engines
        BY <1>1, <3>1, <3>2 DEF Engines
      <3> QED BY <3>1, <3>3, <3>4 DEF c, k, w, b
    <2> QED BY <1>4, <2>2, <2>3
  <1>5. CASE e.state = "Idle" /\ ~Starts
    BY <1>1, <1>5 DEF Engines, EngineAfter, Summed, GroupPacked, NextGroup, Finished
  <1> QED BY <1>1, <1>2, <1>3, <1>4, <1>5 DEF Engines

LEMMA BusyKeeps ==
    ASSUME GmTypeOK, GmBusy, NEW in, NEW ready, NEW op, NEW d, Edge(in, ready, op, d)
    PROVE  GmBusy'
  <1>1. CASE Drops(in, op)
    <2>1. gmEngine'.state = "Idle" /\ \A s \in Slots : gmSlots'[s].state = "Empty"
      BY <1>1, DropEffect, EngineStep DEF Engines
    <2> QED BY <2>1 DEF GmBusy
  <1>2. CASE ~Drops(in, op)
    <2>1. gmEngine' = EngineAfter /\ gmPtrs' = PtrsAfter(in, ready, op, d)
      BY <1>2 DEF Edge, GmClock, Drops, Advanced
    <2>2. gmEngine'.state # "Idle" => gmEngine'.slot = gmPtrs'.compute
      <3>1. Starts => ~Finished
        BY EngineStep
      <3>2. gmPtrs'.compute = IF Finished THEN OtherSlot(gmPtrs.compute) ELSE gmPtrs.compute
        BY <2>1 DEF PtrsAfter, Toggled
      <3>3. Finished => gmEngine.state = "Pack" /\ ~NextGroup
        BY DEF Finished, GroupPacked, NextGroup
      <3>4. gmEngine \in Engines
        BY DEF GmTypeOK, Engines
      <3>5. CASE Starts
        BY <2>1, <3>1, <3>2, <3>5, EngineStep
      <3>6. CASE gmEngine.state = "Run"
        BY <2>1, <3>2, <3>6, EngineStep DEF GmBusy
      <3>7. CASE gmEngine.state = "Pack"
        BY <2>1, <3>2, <3>3, <3>7, EngineStep DEF GmBusy
      <3>8. CASE gmEngine.state = "Idle" /\ ~Starts
        BY <2>1, <3>8, EngineStep
      <3> QED BY <3>4, <3>5, <3>6, <3>7, <3>8 DEF Engines
    <2>3. ASSUME NEW s \in Slots
          PROVE  /\ gmSlots'[s].state = "Compute" <=> gmEngine'.state = "Run" /\ gmEngine'.slot = s
                 /\ gmSlots'[s].state = "Pack" <=> gmEngine'.state = "Pack" /\ gmEngine'.slot = s
      <3>1. gmSlots'[s].state = StateAfter(s, in, ready, op, d)
        BY <1>2, SlotEvents
      <3>2. /\ gmSlots[s].state = "Compute" <=> gmEngine.state = "Run" /\ gmEngine.slot = s
            /\ gmSlots[s].state = "Pack" <=> gmEngine.state = "Pack" /\ gmEngine.slot = s
            /\ gmSlots[s].state \in States /\ gmEngine \in Engines
        BY DEF GmBusy, GmTypeOK, SlotRecords, Engines
      <3>3. Starts => gmSlots[gmPtrs.compute].state = "Ready"
        BY DEF Starts
      <3>4. Finished => ~NextGroup
        BY DEF Finished, NextGroup
      <3>5. CASE Starts
        <4>1. gmEngine'.state = "Run" /\ gmEngine'.slot = gmPtrs.compute /\ gmEngine.state = "Idle"
          BY <2>1, <3>5, EngineStep
        <4> QED BY <3>1, <3>2, <3>3, <3>5, <4>1 DEF StateAfter, States
      <3>6. CASE gmEngine.state = "Run"
        <4>1. gmEngine'.state = (IF Summed THEN "Pack" ELSE "Run") /\ gmEngine'.slot = gmEngine.slot
              /\ ~Starts
          BY <2>1, <3>6, EngineStep
        <4> QED BY <3>1, <3>2, <3>6, <4>1 DEF StateAfter, States
      <3>7. CASE gmEngine.state = "Pack"
        <4>1. gmEngine'.state = (IF NextGroup THEN "Run" ELSE IF Finished THEN "Idle" ELSE "Pack")
              /\ gmEngine'.slot = gmEngine.slot /\ ~Starts
          BY <2>1, <3>7, EngineStep
        <4> QED BY <3>1, <3>2, <3>7, <4>1 DEF StateAfter, States
      <3>8. CASE gmEngine.state = "Idle" /\ ~Starts
        <4>1. gmEngine' = gmEngine
          BY <2>1, <3>8, EngineStep
        <4> QED BY <3>1, <3>2, <3>8, <4>1 DEF StateAfter, States
      <3> QED BY <3>2, <3>5, <3>6, <3>7, <3>8 DEF Engines
    <2> QED BY <2>2, <2>3 DEF GmBusy
  <1> QED BY <1>1, <1>2

LEMMA LoadType ==
    ASSUME GmTypeOK, NEW in
    PROVE  LoadAfter(in) \in [phaseB : BOOLEAN, row : Nat, word : Nat, k : Nat, group : Nat]
  <1> DEFINE L == [phaseB : BOOLEAN, row : Nat, word : Nat, k : Nat, group : Nat]
  <1>1. gmLoad \in L /\ FreshLoad \in L
    BY DEF GmTypeOK, FreshLoad
  <1>2. NextA \in L
    <2>1. [gmLoad EXCEPT !.word = @ + 1] \in L
      BY <1>1
    <2>2. [gmLoad EXCEPT !.word = 0, !.row = @ + 1] \in L
      <3> DEFINE x == gmLoad.row + 1
      <3>1. x \in Nat
        BY <1>1
      <3> HIDE DEF x
      <3>2. [gmLoad EXCEPT !.word = 0, !.row = x] \in L
        BY <1>1, <3>1
      <3> QED BY <3>2 DEF x
    <2>3. [gmLoad EXCEPT !.word = 0, !.row = 0, !.phaseB = TRUE] \in L
      BY <1>1
    <2> HIDE DEF L
    <2> QED BY <2>1, <2>2, <2>3 DEF NextA
  <1>3. NextB \in L
    <2>1. [gmLoad EXCEPT !.group = 0, !.k = @ + 1] \in L
      <3> DEFINE x == gmLoad.k + 1
      <3>1. x \in Nat
        BY <1>1
      <3> HIDE DEF x
      <3>2. [gmLoad EXCEPT !.group = 0, !.k = x] \in L
        BY <1>1, <3>1
      <3> QED BY <3>2 DEF x
    <2>2. [gmLoad EXCEPT !.group = @ + 1] \in L
      BY <1>1
    <2> HIDE DEF L
    <2> QED BY <1>1, <2>1, <2>2 DEF NextB
  <1> QED BY <1>1, <1>2, <1>3 DEF LoadAfter

\* What an edge writes into the memories, whatever else it does.
LEMMA DataType ==
    ASSUME GmTypeOK
    PROVE  /\ AccAfter \in Seq(Nat) /\ PipeAfter \in [1 .. PipeDepth -> Reads] /\ EmptyPipe \in [1 .. PipeDepth -> Reads]
           /\ CAfter \in [Slots -> [0 .. OutputWords(MaxM, EnableWide) - 1 -> Results]]
           /\ Product \in Reads /\ Computing \in SlotRecords /\ PackRow \in Nat
  <1>1. PipeDepth \in Nat \ {0} /\ PhysicalRows \in Nat
    BY GmAssumption
  <1>2. Product \in Reads
    BY <1>1 DEF GmTypeOK, Product
  <1>3. Computing \in SlotRecords
    BY DEF GmTypeOK, Computing
  <1>4. AccAfter \in Seq(Nat)
    BY <1>2 DEF GmTypeOK, AccAfter, Reads
  <1>5. NoRead \in Reads /\ EmptyPipe \in [1 .. PipeDepth -> Reads]
    BY DEF EmptyPipe, NoRead, Reads
  <1>6. Issued \in Reads
    BY <1>5 DEF GmTypeOK, Issued, Reads
  <1>7. [i \in 1 .. PipeDepth |-> IF i = 1 THEN Issued ELSE gmPipe[i - 1]] \in [1 .. PipeDepth -> Reads]
    BY <1>1, <1>6 DEF GmTypeOK
  <1>8. PipeAfter \in [1 .. PipeDepth -> Reads]
    BY <1>5, <1>7 DEF GmTypeOK, PipeAfter
  <1>9. PackRow \in Nat
    <2>1. Computing.wide \in BOOLEAN
      BY <1>3 DEF SlotRecords
    <2>2. WordsPerRow(Computing.wide) \in Nat \ {0}
      BY <2>1, Sizes
    <2>3. gmEngine.word \in Nat /\ gmEngine.base \in Nat
      BY DEF GmTypeOK
    <2>4. gmEngine.word \div WordsPerRow(Computing.wide) \in Nat
      BY <2>2, <2>3, DivisionLaw
    <2> QED BY <2>3, <2>4 DEF PackRow
  <1>10. CAfter \in [Slots -> [0 .. OutputWords(MaxM, EnableWide) - 1 -> Results]]
    <2> DEFINE D == 0 .. OutputWords(MaxM, EnableWide) - 1
               r == [tag |-> Computing.tag, row |-> PackRow, sum |-> gmAcc]
    <2>1. r \in Results
      BY <1>3, <1>9 DEF Results, SlotRecords, GmTypeOK
    <2>2. gmC \in [Slots -> [D -> Results]]
      BY DEF GmTypeOK
    <2> HIDE DEF D, r
    <2>3. [gmC EXCEPT ![gmEngine.slot][PackAddr] = r] \in [Slots -> [D -> Results]]
      BY <2>1, <2>2
    <2> QED BY <2>2, <2>3 DEF CAfter, D, r
  <1> QED BY <1>2, <1>3, <1>4, <1>5, <1>8, <1>9, <1>10

LEMMA TypeKeeps ==
    ASSUME GmTypeOK, GmBusy, NEW in, NEW ready, NEW op, NEW d, Edge(in, ready, op, d)
    PROVE  GmTypeOK'
  <1>1. gmSlots' \in [Slots -> SlotRecords]
    <2>1. CASE Drops(in, op)
      <3>1. gmSlots' = [s \in Slots |-> [SlotAfter(s, in, ready, op, d) EXCEPT !.state = "Empty"]]
        BY <2>1 DEF Edge, GmClock, Drops, Dropped
      <3>2. \A s \in Slots : gmSlots'[s] \in SlotRecords
        BY <2>1, DropEffect
      <3> QED BY <3>1, <3>2
    <2>2. CASE ~Drops(in, op)
      <3>1. gmSlots' = [s \in Slots |-> SlotAfter(s, in, ready, op, d)]
        BY <2>2 DEF Edge, GmClock, Drops, Advanced
      <3>2. \A s \in Slots : SlotAfter(s, in, ready, op, d) \in SlotRecords
        BY SlotStep DEF Edge
      <3> QED BY <3>1, <3>2
    <2> QED BY <2>1, <2>2
  <1>2. gmPtrs' \in [alloc : Slots, load : Slots, compute : Slots, output : Slots]
    <2>1. CASE Drops(in, op)
      BY <2>1, DropEffect DEF FreshPtrs, Slots
    <2>2. CASE ~Drops(in, op)
      <3>1. gmPtrs' = PtrsAfter(in, ready, op, d)
        BY <2>2 DEF Edge, GmClock, Drops, Advanced
      <3>2. \A p \in Slots : \A w : Toggled(p, w) \in Slots
        BY DEF Toggled, OtherSlot, Slots
      <3> QED BY <3>1, <3>2 DEF PtrsAfter, GmTypeOK
    <2> QED BY <2>1, <2>2
  <1>3. gmLoad' \in [phaseB : BOOLEAN, row : Nat, word : Nat, k : Nat, group : Nat] /\ gmOut' \in Nat
    <2>1. CASE Drops(in, op)
      <3>1. gmLoad' = FreshLoad /\ gmOut' = 0
        BY <2>1, DropEffect
      <3> QED BY <3>1 DEF FreshLoad
    <2>2. CASE ~Drops(in, op)
      <3>1. gmLoad' = LoadAfter(in) /\ gmOut' = OutAfter(ready)
        BY <2>2 DEF Edge, GmClock, Drops, Advanced
      <3> QED BY <3>1, LoadType DEF OutAfter, GmTypeOK
    <2> QED BY <2>1, <2>2
  <1>4. gmEngine' \in Engines /\ gmPipe' \in [1 .. PipeDepth -> Reads]
    <2>1. CASE Drops(in, op)
      BY <2>1, DropEffect, EngineStep, DataType DEF Engines
    <2>2. CASE ~Drops(in, op)
      <3>1. gmEngine' = EngineAfter /\ gmPipe' = PipeAfter
        BY <2>2 DEF Edge, GmClock, Drops, Advanced
      <3> QED BY <3>1, EngineStep, DataType
    <2> QED BY <2>1, <2>2
  <1>5. gmDrop' \in BOOLEAN /\ gmMid' \in BOOLEAN
    <2>1. gmDrop' = (~Clears(op) /\ StillDropping(in)) /\ gmMid' = (~Clears(op) /\ IF Takes(in) THEN ~in.last ELSE gmMid)
      BY DEF Edge, GmClock
    <2> QED BY <2>1 DEF GmTypeOK
  <1>6. gmAcc' \in Seq(Nat) /\ gmC' \in [Slots -> [0 .. OutputWords(MaxM, EnableWide) - 1 -> Results]]
    BY DataType DEF Edge, GmClock
  <1>7. gmStatus'.done \in BOOLEAN /\ gmStatus'.error \in BOOLEAN
    <2>1. gmStatus' = [done |-> DoneAfter(ready, op), error |-> ErrorAfter(in, op, d) # "None",
                       code |-> ErrorAfter(in, op, d)]
      BY DEF Edge, GmClock
    <2>2. DoneAfter(ready, op) \in BOOLEAN
      BY DEF DoneAfter, GmTypeOK
    <2> QED BY <2>1, <2>2
  <1>8. gmCount' \in Nat /\ gmSubmits' \in Nat /\ gmReport' \in [tag : Nat, macs : Nat, cycles : Nat]
    <2>1. Draining \in SlotRecords
      BY DEF GmTypeOK, Draining
    <2>2. [tag |-> Draining.tag, macs |-> Draining.macs, cycles |-> Draining.cycles] \in [tag : Nat, macs : Nat, cycles : Nat]
      BY <2>1 DEF SlotRecords
    <2>3. IF Completes(ready)
          THEN /\ gmCount' = gmCount + 1
               /\ gmReport' = [tag |-> Draining.tag, macs |-> Draining.macs, cycles |-> Draining.cycles]
          ELSE gmCount' = gmCount /\ gmReport' = gmReport
      BY DEF Edge, GmClock
    <2>4. gmCount \in Nat /\ gmReport \in [tag : Nat, macs : Nat, cycles : Nat] /\ gmSubmits \in Nat
      BY DEF GmTypeOK
    <2>5. gmSubmits' = IF op = "Submit" THEN gmSubmits + 1 ELSE gmSubmits
      BY DEF Edge, GmClock
    <2> QED BY <2>2, <2>3, <2>4, <2>5
  <1> QED BY <1>1, <1>2, <1>3, <1>4, <1>5, <1>6, <1>7, <1>8 DEF GmTypeOK, Engines

\* The last word of a packet is written in the last of its no-stall cycles.
LEMMA FinishCycles ==
    ASSUME GmTypeOK, GmBusy, GmPackets, GmSums, Finished
    PROVE  gmEngine.cycles + 1 = NoStallCycles(Computing.m, Computing.k, Computing.wide)
  <1> DEFINE c == Computing
             w == WordsPerRow(c.wide)
             b == gmEngine.base
  <1>1. gmEngine.state = "Pack" /\ gmEngine.word + 1 = OutputWords(GroupRows, c.wide) /\ ~MoreRows
    BY DEF Finished, GroupPacked
  <1>2. c \in SlotRecords /\ gmEngine \in Engines
    BY DataType DEF GmTypeOK, Engines
  <1>3. c.m \in Nat /\ c.k \in Nat /\ c.wide \in BOOLEAN /\ b \in Nat /\ gmEngine.word \in Nat /\ gmEngine.cycles \in Nat
    BY <1>2 DEF SlotRecords, Engines
  <1>4. PICK g \in 0 .. b : Packing(g)
    BY <1>1 DEF GmSums
  <1>5. b < c.m /\ g \in Nat /\ b = g * PhysicalRows
    BY <1>1, <1>3, <1>4 DEF GmSums, Packing
  <1>6. PhysicalRows \in Nat \ {0} /\ PipeDepth \in Nat \ {0} /\ w \in Nat \ {0}
    BY <1>3, GmAssumption, Sizes
  <1>7. c.m <= b + PhysicalRows /\ GroupRows = c.m - b
    BY <1>1, <1>3, <1>5, <1>6 DEF MoreRows, GroupRows
  <1>8. c.m - b \in Nat /\ OutputWords(GroupRows, c.wide) = (c.m - b) * w
    BY <1>3, <1>5, <1>7 DEF OutputWords
  <1>9. gmEngine.cycles = (g + 1) * (c.k + PipeDepth) + b * w + gmEngine.word
    BY <1>4 DEF Packing
  <1>10. NoStallCycles(c.m, c.k, c.wide) = (g + 1) * (c.k + PipeDepth) + c.m * w
    BY <1>3, <1>5, <1>7, NoStallIs
  <1> HIDE DEF w, c
  <1>11. PICK e \in Nat : c.m = b + e /\ e = c.m - b
    BY <1>8, <1>3
  <1>12. (b + e) * w = b * w + e * w /\ b * w \in Nat /\ e * w \in Nat
    BY <1>3, <1>6, <1>11
  <1>13. (g + 1) * (c.k + PipeDepth) \in Nat
    BY <1>3, <1>5, <1>6
  <1> QED BY <1>1, <1>3, <1>8, <1>9, <1>10, <1>11, <1>12, <1>13 DEF c

LEMMA PacketsKeep ==
    ASSUME GmTypeOK, GmBusy, GmPackets, GmSums, NEW in, NEW ready, NEW op, NEW d, Edge(in, ready, op, d)
    PROVE  GmPackets'
  <1>1. CASE Drops(in, op)
    BY <1>1, DropEffect DEF GmPackets, InUse, IsLoaded, IsDone
  <1>2. CASE ~Drops(in, op)
    <2> SUFFICES ASSUME NEW s \in Slots
                 PROVE  LET p == gmSlots'[s] IN
                        /\ p.state # "Empty" =>
                              /\ p.m \in 1 .. MaxM /\ p.k \in 1 .. MaxK /\ (p.wide => EnableWide)
                              /\ p.mn = p.m * p.n
                        /\ p.state \notin {"Empty", "Load"} => p.macs = p.m * p.n * p.k
                        /\ p.state = "Output" => p.cycles = NoStallCycles(p.m, p.k, p.wide)
      BY DEF GmPackets, InUse, IsLoaded, IsDone
    <2> DEFINE p == gmSlots[s]
               q == gmSlots'[s]
               new == Accepts(op, d) /\ s = gmPtrs.alloc
    <2>1. q = SlotAfter(s, in, ready, op, d) /\ q.state = StateAfter(s, in, ready, op, d)
      BY <1>2, SlotEvents
    <2>2. /\ q.macs = p.mn * p.k
          /\ q.cycles = IF Finished /\ s = gmEngine.slot THEN gmEngine.cycles + 1 ELSE p.cycles
          /\ new => /\ p.state = "Empty" /\ DimsValid(d)
                    /\ q.m = d.m /\ q.n = d.n /\ q.k = d.k /\ q.wide = StagedWide(d) /\ q.mn = d.m * d.n
          /\ ~new => q.m = p.m /\ q.n = p.n /\ q.k = p.k /\ q.wide = p.wide /\ q.mn = p.mn
      BY <2>1, SlotStep DEF Edge
    <2>3. /\ p.state # "Empty" =>
                p.m \in 1 .. MaxM /\ p.k \in 1 .. MaxK /\ (p.wide => EnableWide) /\ p.mn = p.m * p.n
          /\ p.state = "Output" => p.cycles = NoStallCycles(p.m, p.k, p.wide)
          /\ p.state \in States
      BY DEF GmPackets, InUse, IsDone, GmTypeOK, SlotRecords
    <2>4. CASE new
      <3>1. q.state = "Load"
        BY <2>1, <2>2, <2>4 DEF StateAfter
      <3> QED BY <2>2, <2>4, <3>1 DEF DimsValid, StagedWide
    <2>5. CASE ~new
      <3>1. q.state # "Empty" => p.state # "Empty"
        BY <2>1, <2>3, <2>5 DEF StateAfter, States
      <3>2. q.state = "Output" => p.state = "Output" \/ (Finished /\ p.state = "Pack")
        BY <2>1, <2>3 DEF StateAfter, States
      <3>3. Finished /\ p.state = "Pack" => s = gmEngine.slot
        BY DEF GmBusy
      <3>4. Finished /\ s = gmEngine.slot => gmEngine.cycles + 1 = NoStallCycles(p.m, p.k, p.wide)
        BY FinishCycles DEF Computing
      <3>5. p.state = "Output" => ~(Finished /\ s = gmEngine.slot)
        BY <1>2, SlotEvents
      <3> QED BY <2>2, <2>3, <2>5, <3>1, <3>2, <3>3, <3>4, <3>5
    <2> QED BY <2>4, <2>5
  <1> QED BY <1>1, <1>2

\* A word that is loaded moves on to the next place, or ends the packet.
LEMMA NextPlace ==
    ASSUME GmTypeOK, GmPackets, GmLoading, NEW in, in \in InputChoices, LoadsWord(in)
    PROVE  /\ Loading.state = "Load" /\ in.last = LastExpected
           /\ LastExpected => LoadAfter(in) = FreshLoad
           /\ ~LastExpected => LoadAfter(in) # FreshLoad /\ InRange(LoadAfter(in), Loading)
  <1> DEFINE l == gmLoad
             f == LoadAfter(in)
             P == [phaseB : BOOLEAN, row : Nat, word : Nat, k : Nat, group : Nat]
  <1>1. Loading.state = "Load" /\ ~gmDrop /\ in.last = LastExpected /\ LastExpected \in BOOLEAN
    BY DEF LoadsWord, Takes, InReady, FrameOK, LastExpected
  <1>2. Loading \in SlotRecords /\ Loading.m \in Nat \ {0} /\ Loading.k \in Nat \ {0}
    <2>1. gmPtrs.load \in Slots /\ Loading = gmSlots[gmPtrs.load] /\ Loading \in SlotRecords
      BY DEF GmTypeOK, Loading
    <2>2. InUse(gmPtrs.load)
      BY <1>1, <2>1 DEF InUse
    <2>3. Loading.m \in 1 .. MaxM /\ Loading.k \in 1 .. MaxK
      BY <2>1, <2>2 DEF GmPackets
    <2> QED BY <2>1, <2>3, GmAssumption
  <1>3. InRange(l, Loading) /\ l \in P /\ Groups \in Nat \ {0} /\ Stride(Loading.k) \in Nat \ {0}
    BY <1>1, <1>2, GmAssumption, StrideIs DEF GmLoading, GmTypeOK
  <1>4. CASE l.phaseB
    <2>1. f = NextB
      BY <1>4 DEF LoadAfter
    <2>2. LastExpected => f = FreshLoad
      BY <2>1 DEF NextB
    <2>3. l.row = 0 /\ l.word = 0 /\ l.k < Loading.k /\ l.group < Groups
      BY <1>3, <1>4 DEF InRange
    <2>4. LastExpected <=> l.k + 1 = Loading.k /\ l.group = Groups - 1
      BY <1>1, <1>4 DEF LastExpected
    <2>5. CASE ~LastExpected /\ l.group = Groups - 1
      <3>1. f = [l EXCEPT !.group = 0, !.k = @ + 1]
        BY <2>1, <2>5 DEF NextB
      <3>2. f.phaseB /\ f.row = 0 /\ f.word = 0 /\ f.k = l.k + 1 /\ f.group = 0
        BY <1>3, <1>4, <2>3, <3>1
      <3> QED BY <1>1, <1>2, <1>3, <2>3, <2>4, <2>5, <3>2 DEF InRange, FreshLoad
    <2>6. CASE ~LastExpected /\ l.group # Groups - 1
      <3>1. f = [l EXCEPT !.group = @ + 1]
        BY <2>1, <2>6 DEF NextB
      <3>2. f.phaseB /\ f.row = 0 /\ f.word = 0 /\ f.k = l.k /\ f.group = l.group + 1
        BY <1>3, <1>4, <2>3, <3>1
      <3> QED BY <1>1, <1>2, <1>3, <2>3, <2>4, <2>6, <3>2 DEF InRange, FreshLoad
    <2> QED BY <1>1, <2>2, <2>5, <2>6
  <1>5. CASE ~l.phaseB
    <2>1. f = NextA /\ ~LastExpected
      BY <1>5 DEF LoadAfter, LastExpected
    <2>2. l.row < Loading.m /\ l.word < Stride(Loading.k) /\ l.k = 0 /\ l.group = 0
      BY <1>3, <1>5 DEF InRange
    <2>3. CASE l.word + 1 # Stride(Loading.k)
      <3>1. f = [l EXCEPT !.word = @ + 1]
        BY <2>1, <2>3 DEF NextA
      <3>2. ~f.phaseB /\ f.row = l.row /\ f.word = l.word + 1 /\ f.k = 0 /\ f.group = 0
        BY <1>3, <1>5, <2>2, <3>1
      <3> QED BY <1>1, <1>3, <2>1, <2>2, <2>3, <3>2 DEF InRange, FreshLoad
    <2>4. CASE l.word + 1 = Stride(Loading.k) /\ l.row + 1 # Loading.m
      <3>1. f = [l EXCEPT !.word = 0, !.row = @ + 1]
        BY <2>1, <2>4 DEF NextA
      <3>2. ~f.phaseB /\ f.row = l.row + 1 /\ f.word = 0 /\ f.k = 0 /\ f.group = 0
        BY <1>3, <1>5, <2>2, <3>1
      <3> QED BY <1>1, <1>2, <1>3, <2>1, <2>2, <2>4, <3>2 DEF InRange, FreshLoad
    <2>5. CASE l.word + 1 = Stride(Loading.k) /\ l.row + 1 = Loading.m
      <3>1. f = [l EXCEPT !.word = 0, !.row = 0, !.phaseB = TRUE]
        BY <2>1, <2>5 DEF NextA
      <3>2. f.phaseB /\ f.row = 0 /\ f.word = 0 /\ f.k = 0 /\ f.group = 0
        BY <1>3, <1>5, <2>2, <3>1
      <3> QED BY <1>1, <1>2, <1>3, <2>1, <3>2 DEF InRange, FreshLoad
    <2> QED BY <1>1, <2>1, <2>3, <2>4, <2>5
  <1> QED BY <1>4, <1>5

LEMMA LoadingKeeps ==
    ASSUME GmTypeOK, GmBusy, GmPackets, GmSums, GmLoading,
           NEW in, NEW ready, NEW op, NEW d, Edge(in, ready, op, d)
    PROVE  GmLoading'
  <1>1. gmStatus' = [done |-> DoneAfter(ready, op), error |-> ErrorAfter(in, op, d) # "None",
                     code |-> ErrorAfter(in, op, d)]
        /\ gmDrop' = (~Clears(op) /\ StillDropping(in))
        /\ gmMid' = (~Clears(op) /\ IF Takes(in) THEN ~in.last ELSE gmMid)
    BY DEF Edge, GmClock
  <1>2. in \in InputChoices /\ in.valid \in BOOLEAN /\ in.last \in BOOLEAN /\ in.keep \in BOOLEAN
    <2>1. in \in InputChoices
      BY DEF Edge
    <2>2. NoWord.valid \in BOOLEAN /\ NoWord.last \in BOOLEAN /\ NoWord.keep \in BOOLEAN
      BY DEF NoWord
    <2>3. in = NoWord \/ in \in [valid : {TRUE}, keep : BOOLEAN, last : BOOLEAN]
      BY <2>1 DEF InputChoices
    <2> QED BY <2>1, <2>2, <2>3
  <1>3. GmPackets' /\ GmTypeOK'
    BY PacketsKeep, TypeKeeps
  <1>4. CASE Drops(in, op)
    <2>1. gmLoad' = FreshLoad /\ (\A s \in Slots : gmSlots'[s].state = "Empty")
      BY <1>4, DropEffect
    <2>2. Loading'.state = "Empty"
      BY <1>3, <2>1 DEF Loading, GmTypeOK
    <2>3. BreaksFrame(in) /\ ~Clears(op) => ErrorAfter(in, op, d) # "None"
      BY DEF ErrorAfter, FrameError
    <2>4. gmDrop' = (~Clears(op) /\ ~in.last)
      <3>1. ASSUME BreaksFrame(in) PROVE StillDropping(in) <=> ~in.last
        <4>1. ~gmDrop
          BY <3>1 DEF BreaksFrame
        <4> QED BY <1>2, <3>1, <4>1 DEF StillDropping
      <3> QED BY <1>1, <1>4, <3>1 DEF Drops
    <2>5. BreaksFrame(in) => Takes(in)
      BY DEF BreaksFrame
    <2>6. gmDrop' => gmStatus'.error
      BY <1>1, <1>4, <2>3 DEF Drops
    <2>7. gmMid' = gmDrop'
      BY <1>1, <1>4, <2>4, <2>5 DEF Drops
    <2>8. gmStatus'.error <=> gmStatus'.code # "None"
      BY <1>1
    <2> QED BY <2>1, <2>2, <2>6, <2>7, <2>8 DEF GmLoading, InUse
  <1>5. CASE ~Drops(in, op)
    <2>1. gmLoad' = LoadAfter(in) /\ gmPtrs' = PtrsAfter(in, ready, op, d)
      BY <1>5 DEF Edge, GmClock, Drops, Advanced
    <2>2. ~Clears(op) /\ ~BreaksFrame(in)
      BY <1>5 DEF Drops
    <2>3. gmDrop' = (gmDrop /\ ~(Takes(in) /\ in.last)) /\ gmDrop \in BOOLEAN /\ gmMid \in BOOLEAN
      BY <1>1, <2>2 DEF StillDropping, GmTypeOK
    <2>4. gmDrop => gmStatus.error /\ ~LoadsWord(in) /\ (\A s \in Slots : ~InUse(s)) /\ gmLoad = FreshLoad
      BY DEF GmLoading, LoadsWord, InUse, GmTypeOK, Loading
    <2>5. gmDrop => ErrorAfter(in, op, d) # "None" /\ \A s \in Slots : ~InUse(s)'
      <3>1. gmDrop => ~Submits(op)
        BY <2>4 DEF Submits
      <3>2. gmDrop => \A s \in Slots : ~InUse(s)'
        BY <1>5, <2>4, <3>1, SlotEvents DEF Accepts
      <3> QED BY <2>2, <2>4, <3>1, <3>2 DEF ErrorAfter, GmLoading
    <2>6. gmDrop' => gmStatus'.error /\ \A s \in Slots : ~InUse(s)'
      BY <1>1, <2>3, <2>5
    <2>7. Takes(in) /\ ~gmDrop => LoadsWord(in)
      BY <2>2 DEF BreaksFrame, LoadsWord
    <2>8. LoadsWord(in) => Takes(in) /\ ~gmDrop
      BY DEF LoadsWord
    <2>9. gmMid' <=> gmDrop' \/ gmLoad' # FreshLoad
      <3>1. CASE LoadsWord(in)
        <4>1. LastExpected \in BOOLEAN
          BY DEF LastExpected
        <4>2. in.last = LastExpected /\ (LastExpected => LoadAfter(in) = FreshLoad)
              /\ (~LastExpected => LoadAfter(in) # FreshLoad)
          BY <1>2, <3>1, NextPlace
        <4> QED BY <1>1, <2>1, <2>2, <2>3, <2>8, <3>1, <4>1, <4>2
      <3>2. CASE ~LoadsWord(in)
        <4>1. gmLoad' = gmLoad
          BY <2>1, <3>2 DEF LoadAfter
        <4>2. gmMid <=> gmDrop \/ gmLoad # FreshLoad
          BY DEF GmLoading
        <4> QED BY <1>1, <1>2, <2>2, <2>3, <2>4, <2>7, <3>2, <4>1, <4>2
      <3> QED BY <3>1, <3>2
    <2>10. IF Loading'.state = "Load" THEN InRange(gmLoad', Loading') ELSE gmLoad' = FreshLoad
      <3>1. gmPtrs.load \in Slots /\ gmPtrs'.load = IF Loaded(in) THEN OtherSlot(gmPtrs.load) ELSE gmPtrs.load
        BY <2>1 DEF PtrsAfter, Toggled, GmTypeOK
      <3>2. CASE gmLoad' = FreshLoad
        <4>1. gmPtrs'.load \in Slots /\ Loading' = gmSlots'[gmPtrs'.load]
          BY <1>3 DEF GmTypeOK, Loading
        <4>2. Loading'.state = "Load" => Loading'.m \in Nat \ {0} /\ Loading'.k \in Nat \ {0}
          BY <1>3, <4>1, GmAssumption DEF GmPackets, InUse
        <4>3. Loading'.state = "Load" => Stride(Loading'.k) \in Nat \ {0}
          BY <4>2, StrideIs
        <4> QED BY <3>2, <4>2, <4>3 DEF InRange, FreshLoad
      <3>3. CASE gmLoad' # FreshLoad
        <4>1. Loading.state = "Load" /\ InRange(gmLoad', Loading) /\ ~Loaded(in)
          <5>1. CASE LoadsWord(in)
            BY <1>2, <2>1, <3>3, <5>1, NextPlace DEF Loaded
          <5>2. CASE ~LoadsWord(in)
            BY <2>1, <3>3, <5>2 DEF LoadAfter, GmLoading, Loaded
          <5> QED BY <5>1, <5>2
        <4>2. Loading' = gmSlots'[gmPtrs.load] /\ Loading = gmSlots[gmPtrs.load]
          BY <3>1, <4>1 DEF Loading
        <4>3. gmSlots'[gmPtrs.load] = SlotAfter(gmPtrs.load, in, ready, op, d)
              /\ gmSlots'[gmPtrs.load].state = StateAfter(gmPtrs.load, in, ready, op, d)
          BY <1>5, <3>1, SlotEvents
        <4>4. Loading'.state = "Load"
          BY <4>1, <4>2, <4>3 DEF StateAfter
        <4>5. Loading'.m = Loading.m /\ Loading'.k = Loading.k
          BY <3>1, <4>1, <4>2, <4>3, SlotStep DEF Edge
        <4> QED BY <4>1, <4>4, <4>5 DEF InRange
      <3> QED BY <3>2, <3>3
    <2>11. gmStatus'.error <=> gmStatus'.code # "None"
      BY <1>1
    <2> QED BY <2>6, <2>9, <2>10, <2>11 DEF GmLoading
  <1> QED BY <1>4, <1>5

LEMMA OutputKeeps ==
    ASSUME GmTypeOK, GmBusy, GmPackets, GmSums, GmOutput,
           NEW in, NEW ready, NEW op, NEW d, Edge(in, ready, op, d)
    PROVE  GmOutput'
  <1>1. GmPackets' /\ GmTypeOK'
    BY PacketsKeep, TypeKeeps
  <1>2. Draining' = gmSlots'[gmPtrs'.output] /\ gmPtrs'.output \in Slots /\ Draining' \in SlotRecords
    BY <1>1 DEF Draining, GmTypeOK
  <1>3. OutValid' => OutputWords(Draining'.m, Draining'.wide) \in Nat \ {0}
    <2>1. OutValid' <=> Draining'.state = "Output"
      BY DEF OutValid
    <2> SUFFICES ASSUME Draining'.state = "Output" PROVE OutputWords(Draining'.m, Draining'.wide) \in Nat \ {0}
      BY <2>1
    <2>2. Draining'.m \in Nat \ {0} /\ Draining'.wide \in BOOLEAN
      BY <1>1, <1>2, GmAssumption DEF GmPackets, InUse, SlotRecords
    <2> QED BY <2>2, Sizes
  <1>4. CASE gmOut' = 0
    BY <1>3, <1>4 DEF GmOutput
  <1>5. CASE gmOut' # 0
    <2>1. ~Drops(in, op)
      BY <1>5, DropEffect
    <2>2. gmOut' = OutAfter(ready) /\ gmPtrs' = PtrsAfter(in, ready, op, d)
      BY <2>1 DEF Edge, GmClock, Drops, Advanced
    <2>3. OutValid /\ ~Completes(ready) /\ gmOut' < OutputWords(Draining.m, Draining.wide)
      <3>1. gmOut \in Nat /\ Draining.m \in Nat /\ Draining.wide \in BOOLEAN
        BY DEF GmTypeOK, Draining, SlotRecords
      <3>2. OutputWords(Draining.m, Draining.wide) \in Nat
        BY <3>1, Sizes
      <3>3. CASE Gives(ready)
        BY <1>5, <2>2, <3>1, <3>2, <3>3 DEF OutAfter, Gives, Completes, OutLast, GmOutput
      <3>4. CASE ~Gives(ready)
        BY <1>5, <2>2, <3>4 DEF OutAfter, Completes, GmOutput
      <3> QED BY <3>3, <3>4
    <2>4. gmPtrs'.output = gmPtrs.output /\ gmPtrs.output \in Slots
      BY <2>2, <2>3 DEF PtrsAfter, Toggled, GmTypeOK
    <2>5. gmSlots'[gmPtrs.output].state = StateAfter(gmPtrs.output, in, ready, op, d)
          /\ gmSlots'[gmPtrs.output] = SlotAfter(gmPtrs.output, in, ready, op, d)
      BY <2>1, <2>4, SlotEvents
    <2>6. gmSlots[gmPtrs.output].state = "Output" /\ Draining = gmSlots[gmPtrs.output]
      BY <2>3 DEF OutValid, Draining
    <2>7. Draining'.state = "Output" /\ OutValid'
      BY <1>2, <2>3, <2>4, <2>5, <2>6 DEF StateAfter, OutValid
    <2>8. Draining'.m = Draining.m /\ Draining'.wide = Draining.wide
      BY <1>2, <2>4, <2>5, <2>6, SlotStep DEF Edge
    <2> QED BY <2>3, <2>7, <2>8 DEF GmOutput
  <1> QED BY <1>4, <1>5

\* The packet the engine works on stays what it was.
LEMMA ComputingStays ==
    ASSUME GmTypeOK, GmBusy, NEW in, NEW ready, NEW op, NEW d, Edge(in, ready, op, d), ~Drops(in, op),
           gmEngine.state # "Idle"
    PROVE  LET p == gmSlots'[gmEngine.slot] IN
           /\ gmEngine.slot \in Slots /\ Computing.state \in {"Compute", "Pack"}
           /\ p.m = Computing.m /\ p.k = Computing.k /\ p.wide = Computing.wide /\ p.tag = Computing.tag
  <1>1. gmEngine.slot \in Slots /\ gmEngine.state \in {"Run", "Pack"}
    BY DEF GmTypeOK
  <1>2. Computing = gmSlots[gmEngine.slot] /\ Computing.state \in {"Compute", "Pack"}
    BY <1>1 DEF Computing, GmBusy
  <1>3. gmSlots'[gmEngine.slot] = SlotAfter(gmEngine.slot, in, ready, op, d)
    BY <1>1, SlotEvents
  <1>4. ~(Accepts(op, d) /\ gmEngine.slot = gmPtrs.alloc)
    BY <1>1, <1>2, SlotEvents DEF InUse
  <1> QED BY <1>1, <1>2, <1>3, <1>4, SlotStep DEF Edge

\* The sizes of the packet the engine works on.
LEMMA ComputingIs ==
    ASSUME GmTypeOK, GmBusy, GmPackets, gmEngine.state # "Idle"
    PROVE  /\ gmEngine.slot \in Slots /\ Computing = gmSlots[gmEngine.slot]
           /\ Computing.m \in 1 .. MaxM /\ Computing.m \in Nat /\ Computing.k \in Nat \ {0}
           /\ Computing.wide \in BOOLEAN /\ (Computing.wide => EnableWide) /\ Computing.tag \in Nat
           /\ WordsPerRow(Computing.wide) \in Nat \ {0}
           /\ gmEngine.base \in Nat /\ gmEngine.word \in Nat /\ gmEngine.cycles \in Nat /\ gmEngine.k \in Nat
  <1>1. gmEngine.slot \in Slots /\ gmEngine.state \in {"Run", "Pack"} /\ Computing = gmSlots[gmEngine.slot]
        /\ gmEngine \in Engines /\ Computing \in SlotRecords
    BY DEF GmTypeOK, Computing, Engines
  <1>2. InUse(gmEngine.slot)
    BY <1>1 DEF GmBusy, InUse
  <1>3. Computing.m \in 1 .. MaxM /\ Computing.k \in 1 .. MaxK /\ (Computing.wide => EnableWide)
    BY <1>1, <1>2 DEF GmPackets
  <1>4. Computing.wide \in BOOLEAN /\ Computing.tag \in Nat /\ gmEngine.base \in Nat /\ gmEngine.word \in Nat
        /\ gmEngine.cycles \in Nat /\ gmEngine.k \in Nat
    BY <1>1 DEF SlotRecords, Engines
  <1> QED BY <1>1, <1>3, <1>4, GmAssumption, Sizes

\* A row group, from its last cycle back to its first.
LEMMA SummedLast ==
    ASSUME GmTypeOK, GmBusy, GmPackets, gmEngine.state = "Run", NEW g \in Nat,
           NEW t \in 0 .. Computing.k + PipeDepth - 1, Summing(g, t)
    PROVE  /\ Product.valid <=> t >= PipeDepth
           /\ Product.valid => Product.k = t - PipeDepth
           /\ Summed <=> t = Computing.k + PipeDepth - 1
  <1>1. PipeDepth \in Nat \ {0} /\ Computing.k \in Nat \ {0} /\ t \in Nat
    BY ComputingIs, GmAssumption
  <1>2. Product = Staged(t, PipeDepth)
    BY <1>1 DEF Product, Summing
  <1>3. CASE t >= PipeDepth
    <2>1. Product = [k |-> t - PipeDepth, valid |-> TRUE, last |-> t - PipeDepth + 1 = Computing.k]
      BY <1>1, <1>2, <1>3 DEF Staged
    <2>2. Product.valid /\ Product.k = t - PipeDepth /\ (Product.last <=> t - PipeDepth + 1 = Computing.k)
      BY <2>1
    <2> QED BY <1>1, <1>3, <2>2 DEF Summed
  <1>4. CASE ~(t >= PipeDepth)
    <2>1. Product = NoRead
      BY <1>1, <1>2, <1>4 DEF Staged
    <2> QED BY <1>1, <1>4, <2>1 DEF Summed, NoRead
  <1> QED BY <1>3, <1>4

LEMMA FirstGrows == ASSUME NEW n \in Nat PROVE Append(First(n), n) = First(n + 1) /\ First(0) = << >>
  <1>1. First(n) \in Seq(Nat) /\ Len(First(n)) = n
    <2>1. \A i \in 1 .. n : i - 1 \in Nat
      OBVIOUS
    <2> QED BY <2>1 DEF First
  <1>2. First(n + 1) \in Seq(Nat) /\ Len(First(n + 1)) = n + 1
    <2>1. \A i \in 1 .. n + 1 : i - 1 \in Nat
      OBVIOUS
    <2> QED BY <2>1 DEF First
  <1>3. Append(First(n), n) \in Seq(Nat) /\ Len(Append(First(n), n)) = n + 1
        /\ \A i \in 1 .. n + 1 : Append(First(n), n)[i] = IF i = n + 1 THEN n ELSE First(n)[i]
    BY <1>1
  <1>4. \A i \in 1 .. n + 1 : Append(First(n), n)[i] = First(n + 1)[i]
    BY <1>3 DEF First
  <1>5. Append(First(n), n) = First(n + 1)
    BY <1>2, <1>3, <1>4, SeqEqual
  <1>6. First(0) = << >>
    BY DEF First
  <1> QED BY <1>5, <1>6

\* One cycle of a row group that is not its last.
LEMMA SumStep ==
    ASSUME GmTypeOK, GmBusy, GmPackets, gmEngine.state = "Run", NEW g \in Nat,
           NEW t \in 0 .. Computing.k + PipeDepth - 1, Summing(g, t)
    PROVE  /\ AccAfter = First(IF t + 1 > PipeDepth THEN t + 1 - PipeDepth ELSE 0)
           /\ PipeAfter = [i \in 1 .. PipeDepth |-> Staged(t + 1, i)]
           /\ (IF gmEngine.k < Computing.k THEN gmEngine.k + 1 ELSE gmEngine.k)
                 = IF t + 1 < Computing.k THEN t + 1 ELSE Computing.k
  <1>1. PipeDepth \in Nat \ {0} /\ Computing.k \in Nat \ {0} /\ t \in Nat /\ ~Starts /\ ~NextGroup
        /\ gmEngine.k = IF t < Computing.k THEN t ELSE Computing.k
    BY ComputingIs, GmAssumption, EngineStep DEF Summing
  <1>2. AccAfter = First(IF t + 1 > PipeDepth THEN t + 1 - PipeDepth ELSE 0)
    <2>1. gmAcc = First(IF t > PipeDepth THEN t - PipeDepth ELSE 0)
      BY DEF Summing
    <2>2. CASE t >= PipeDepth
      <3>1. AccAfter = Append(gmAcc, t - PipeDepth)
        BY <1>1, <2>2, SummedLast DEF AccAfter
      <3>2. gmAcc = First(t - PipeDepth) /\ t - PipeDepth \in Nat /\ t - PipeDepth + 1 = t + 1 - PipeDepth
        BY <1>1, <2>1, <2>2
      <3>3. Append(First(t - PipeDepth), t - PipeDepth) = First(t - PipeDepth + 1)
        BY <3>2, FirstGrows
      <3> QED BY <1>1, <2>2, <3>1, <3>2, <3>3
    <2>3. CASE ~(t >= PipeDepth)
      <3>1. AccAfter = gmAcc
        BY <1>1, <2>3, SummedLast DEF AccAfter
      <3> QED BY <1>1, <2>1, <2>3, <3>1
    <2> QED BY <2>2, <2>3
  <1>3. PipeAfter = [i \in 1 .. PipeDepth |-> Staged(t + 1, i)]
    <2>1. PipeAfter = [i \in 1 .. PipeDepth |-> IF i = 1 THEN Issued ELSE gmPipe[i - 1]]
      BY <1>1 DEF PipeAfter
    <2>2. ASSUME NEW i \in 1 .. PipeDepth
          PROVE  (IF i = 1 THEN Issued ELSE gmPipe[i - 1]) = Staged(t + 1, i)
      <3>1. CASE i = 1
        <4>1. CASE t < Computing.k
          <5>1. gmEngine.k = t /\ t + 1 - i = t /\ i <= t + 1
            BY <1>1, <3>1, <4>1
          <5> QED BY <3>1, <4>1, <5>1 DEF Issued, Staged
        <4>2. CASE ~(t < Computing.k)
          <5>1. gmEngine.k = Computing.k /\ ~(gmEngine.k < Computing.k) /\ ~(t + 1 - i < Computing.k)
            BY <1>1, <3>1, <4>2
          <5> QED BY <3>1, <5>1 DEF Issued, Staged
        <4> QED BY <4>1, <4>2
      <3>2. CASE i # 1
        <4>1. gmPipe[i - 1] = Staged(t, i - 1)
          BY <1>1, <3>2 DEF Summing
        <4>2. t - (i - 1) = t + 1 - i /\ (i - 1 <= t <=> i <= t + 1)
          BY <1>1
        <4> QED BY <3>2, <4>1, <4>2 DEF Staged
      <3> QED BY <3>1, <3>2
    <2> QED BY <2>1, <2>2
  <1>4. (IF gmEngine.k < Computing.k THEN gmEngine.k + 1 ELSE gmEngine.k)
          = IF t + 1 < Computing.k THEN t + 1 ELSE Computing.k
    BY <1>1
  <1> QED BY <1>2, <1>3, <1>4

\* What one word packed adds: its place, its value, and what it completes.
LEMMA PackWord ==
    ASSUME GmTypeOK, GmBusy, GmPackets, GmSums, gmEngine.state = "Pack"
    PROVE  LET w == WordsPerRow(Computing.wide) IN
           /\ PackAddr \in Nat /\ PackAddr = gmEngine.base * w + gmEngine.word
           /\ PackAddr < OutputWords(MaxM, EnableWide)
           /\ PackRow = PackAddr \div w /\ gmAcc = First(Computing.k)
           /\ NextGroup => (gmEngine.base + PhysicalRows) * w = PackAddr + 1
           /\ NextGroup => gmEngine.base + PhysicalRows < Computing.m
           /\ Finished => OutputWords(Computing.m, Computing.wide) = PackAddr + 1
           /\ ~GroupPacked => gmEngine.word + 1 < OutputWords(GroupRows, Computing.wide)
  <1> DEFINE c == Computing
             w == WordsPerRow(c.wide)
             v == WordsPerRow(EnableWide)
             b == gmEngine.base
             word == gmEngine.word
             r == GroupRows
  <1>1. c.m \in Nat /\ c.m <= MaxM /\ MaxM \in Nat /\ w \in Nat \ {0} /\ b \in Nat /\ word \in Nat
        /\ (c.wide => EnableWide) /\ c.wide \in BOOLEAN /\ EnableWide \in BOOLEAN /\ PhysicalRows \in Nat \ {0}
    BY ComputingIs, GmAssumption
  <1>2. PICK g \in 0 .. b : Packing(g)
    BY DEF GmSums
  <1>3. b < c.m /\ word < OutputWords(r, c.wide) /\ gmAcc = First(c.k)
    BY <1>2 DEF GmSums, Packing
  <1>4. r \in Nat /\ b + r <= c.m /\ (MoreRows => r = PhysicalRows) /\ (~MoreRows => r = c.m - b)
        /\ (MoreRows => b + PhysicalRows < c.m)
    BY <1>1, <1>3 DEF GroupRows, MoreRows
  <1>5. v \in Nat \ {0} /\ w <= v
    <2>1. v \in Nat \ {0}
      BY <1>1, Sizes
    <2>2. RowWords \in Nat
      BY GmAssumption
    <2> QED BY <1>1, <2>1, <2>2 DEF WordsPerRow
  <1>6. OutputWords(r, c.wide) = r * w /\ OutputWords(MaxM, EnableWide) = MaxM * v
        /\ OutputWords(c.m, c.wide) = c.m * w
    BY DEF OutputWords
  <1>7. PackAddr = b * w + word /\ PackRow = b + word \div w
    BY DEF PackAddr, PackRow
  <1>8. PackRow = PackAddr \div w
    BY <1>1, <1>7, PackRowIs
  <1> HIDE DEF w, v
  <1>9. b * w \in Nat /\ r * w \in Nat /\ (b + r) * w = b * w + r * w
    BY <1>1, <1>4
  <1>10. (b + r) * w <= c.m * w /\ c.m * w \in Nat
    BY <1>1, <1>4, TimesLess, b + r \in Nat
  <1>11. c.m * w <= MaxM * w /\ MaxM * w \in Nat
    BY <1>1, TimesLess
  <1>12. MaxM * w <= MaxM * v /\ MaxM * v \in Nat
    <2>1. w * MaxM <= v * MaxM
      BY <1>1, <1>5, TimesLess
    <2>2. w * MaxM = MaxM * w /\ v * MaxM = MaxM * v
      BY <1>1, <1>5
    <2> QED BY <1>1, <1>5, <2>1, <2>2
  <1>13. PackAddr \in Nat /\ PackAddr < OutputWords(MaxM, EnableWide)
    BY <1>1, <1>3, <1>6, <1>7, <1>9, <1>10, <1>11, <1>12
  <1>14. GroupPacked <=> word + 1 = r * w
    BY <1>6 DEF GroupPacked
  <1>15. NextGroup => (b + PhysicalRows) * w = PackAddr + 1 /\ b + PhysicalRows < c.m
    <2> SUFFICES ASSUME NextGroup PROVE (b + PhysicalRows) * w = PackAddr + 1 /\ b + PhysicalRows < c.m
      OBVIOUS
    <2>1. MoreRows /\ GroupPacked
      BY DEF NextGroup
    <2>2. r = PhysicalRows /\ b + PhysicalRows < c.m
      BY <1>4, <2>1
    <2>3. (b + r) * w = PackAddr + 1
      BY <1>1, <1>7, <1>9, <1>14, <2>1
    <2> QED BY <2>2, <2>3
  <1>16. Finished => OutputWords(c.m, c.wide) = PackAddr + 1
    <2>1. ~MoreRows => b + r = c.m
      BY <1>1, <1>3, <1>4
    <2> QED BY <1>1, <1>6, <1>7, <1>9, <1>14, <2>1 DEF Finished
  <1>17. ~GroupPacked => word + 1 < OutputWords(r, c.wide)
    BY <1>1, <1>3, <1>6, <1>9, <1>14
  <1> QED BY <1>3, <1>7, <1>8, <1>13, <1>15, <1>16, <1>17 DEF w

LEMMA SumsKeep ==
    ASSUME GmTypeOK, GmBusy, GmPackets, GmSums,
           NEW in, NEW ready, NEW op, NEW d, Edge(in, ready, op, d)
    PROVE  GmSums'
  <1>1. CASE Drops(in, op)
    <2>1. gmEngine'.state = "Idle"
      BY <1>1, DropEffect, EngineStep DEF Engines
    <2> QED BY <2>1 DEF GmSums
  <1>2. CASE ~Drops(in, op)
    <2>1. gmEngine' = EngineAfter /\ gmPipe' = PipeAfter /\ gmAcc' = AccAfter
      BY <1>2 DEF Edge, GmClock, Drops, Advanced
    <2>2. Computing' = gmSlots'[gmEngine'.slot]
      BY DEF Computing
    <2>3. GmTypeOK' /\ GmPackets' /\ GmBusy' /\ PipeDepth \in Nat \ {0} /\ PhysicalRows \in Nat \ {0}
      BY TypeKeeps, PacketsKeep, BusyKeeps, GmAssumption
    <2>4. CASE Starts
      <3>1. /\ gmEngine'.state = "Run" /\ gmEngine'.slot = gmPtrs.compute /\ gmEngine.state = "Idle"
            /\ gmEngine'.k = 0 /\ gmEngine'.base = 0 /\ gmEngine'.word = 0 /\ gmEngine'.cycles = 0
        BY <2>1, <2>4, EngineStep
      <3>2. gmPtrs.compute \in Slots /\ gmSlots'[gmPtrs.compute].state = "Compute"
        BY <2>3, <3>1 DEF GmTypeOK, GmBusy
      <3>3. Computing'.m \in 1 .. MaxM /\ Computing'.k \in 1 .. MaxK /\ Computing'.wide \in BOOLEAN
        BY <2>2, <2>3, <3>1, <3>2 DEF GmPackets, InUse, GmTypeOK, SlotRecords
      <3>4. gmPipe' = [i \in 1 .. PipeDepth |-> NoRead] /\ gmAcc' = << >>
        BY <2>1, <2>4, <3>1 DEF PipeAfter, AccAfter, EmptyPipe
      <3>5. WordsPerRow(Computing'.wide) \in Nat
        BY <3>3, Sizes
      <3>6. Summing(0, 0)'
        <4>1. \A i \in 1 .. PipeDepth : Staged(0, i)' = NoRead
          BY <2>3 DEF Staged
        <4>2. First(0) = << >>
          BY FirstGrows
        <4>3. 0 * PhysicalRows = 0 /\ 0 * WordsPerRow(Computing'.wide) = 0 /\ 0 * (Computing'.k + PipeDepth) = 0
          BY <2>3, <3>3, <3>5, GmAssumption
        <4> QED BY <2>3, <3>1, <3>3, <3>4, <4>1, <4>2, <4>3, GmAssumption DEF Summing
      <3>7. 0 \in 0 .. gmEngine'.base /\ 0 \in 0 .. Computing'.k + PipeDepth - 1 /\ gmEngine'.base < Computing'.m
        BY <2>3, <3>1, <3>3, GmAssumption
      <3> QED BY <3>1, <3>6, <3>7 DEF GmSums
    <2>5. CASE gmEngine.state # "Idle"
      <3>1. gmEngine'.slot = gmEngine.slot /\ gmEngine.state \in {"Run", "Pack"}
        BY <2>1, <2>5, EngineStep DEF GmTypeOK
      <3>2. Computing'.m = Computing.m /\ Computing'.k = Computing.k /\ Computing'.wide = Computing.wide
        BY <1>2, <2>2, <2>5, <3>1, ComputingStays
      <3> DEFINE K == Computing.k
                 w == WordsPerRow(Computing.wide)
                 b == gmEngine.base
      <3>3. K \in Nat \ {0} /\ w \in Nat \ {0} /\ b \in Nat /\ gmEngine.word \in Nat /\ gmEngine.cycles \in Nat
            /\ Computing.m \in Nat /\ b < Computing.m
        BY <2>5, ComputingIs DEF GmSums
      <3>4. CASE gmEngine.state = "Run"
        <4>1. PICK g \in 0 .. b, t \in 0 .. K + PipeDepth - 1 : Summing(g, t)
          BY <3>4 DEF GmSums
        <4>2. /\ g \in Nat /\ t \in Nat /\ t <= K + PipeDepth - 1 /\ b * w \in Nat /\ g * (K + PipeDepth) \in Nat
              /\ (g + 1) * (K + PipeDepth) = g * (K + PipeDepth) + K + PipeDepth
          BY <2>3, <3>3, <4>1
        <4>3. b = g * PhysicalRows /\ gmEngine.word = 0 /\ gmEngine.cycles = g * (K + PipeDepth) + b * w + t
          BY <4>1 DEF Summing
        <4>4. /\ gmEngine'.state = (IF Summed THEN "Pack" ELSE "Run") /\ gmEngine'.base = b
              /\ gmEngine'.word = (IF Summed THEN 0 ELSE gmEngine.word) /\ gmEngine'.cycles = gmEngine.cycles + 1
              /\ gmEngine'.k = (IF gmEngine.k < K THEN gmEngine.k + 1 ELSE gmEngine.k)
          BY <2>1, <3>4, EngineStep
        <4>5. /\ gmAcc' = First(IF t + 1 > PipeDepth THEN t + 1 - PipeDepth ELSE 0)
              /\ gmPipe' = [i \in 1 .. PipeDepth |-> Staged(t + 1, i)]
              /\ gmEngine'.k = IF t + 1 < K THEN t + 1 ELSE K
          BY <2>1, <3>4, <4>1, <4>2, <4>4, SumStep
        <4>6. Summed <=> t = K + PipeDepth - 1
          BY <3>4, <4>1, <4>2, SummedLast
        <4>7. CASE Summed
          <5>1. gmAcc' = First(K)
            <6>1. t + 1 > PipeDepth /\ t + 1 - PipeDepth = K
              BY <2>3, <3>3, <4>2, <4>6, <4>7
            <6> QED BY <4>5, <6>1
          <5>2. gmEngine'.word < OutputWords(GroupRows', Computing'.wide)
            <6>1. GroupRows' \in Nat \ {0}
              BY <2>3, <3>2, <3>3, <4>4 DEF GroupRows
            <6>2. Computing'.wide \in BOOLEAN
              BY <2>5, <3>2, ComputingIs
            <6>3. OutputWords(GroupRows', Computing'.wide) \in Nat /\ OutputWords(GroupRows', Computing'.wide) > 0
              BY <6>1, <6>2, Sizes
            <6> QED BY <4>4, <4>7, <6>3
          <5>3. gmEngine'.cycles = (g + 1) * (K + PipeDepth) + b * w + 0
            BY <2>3, <3>3, <4>2, <4>3, <4>4, <4>6, <4>7
          <5>4. Packing(g)'
            BY <3>2, <4>3, <4>4, <4>7, <5>1, <5>2, <5>3 DEF Packing
          <5> QED BY <3>2, <3>3, <4>4, <4>7, <5>4 DEF GmSums
        <4>8. CASE ~Summed
          <5>1. t + 1 \in 0 .. K + PipeDepth - 1
            <6>1. PipeDepth \in Nat /\ K \in Nat /\ t \in Nat /\ t <= K + PipeDepth - 1 /\ t # K + PipeDepth - 1
              BY <2>3, <3>3, <4>2, <4>6, <4>8
            <6> HIDE DEF K
            <6> QED BY <6>1
          <5>2. gmEngine'.cycles = g * (K + PipeDepth) + b * w + (t + 1)
            BY <3>3, <4>2, <4>3, <4>4
          <5>3. \A i \in 1 .. PipeDepth : Staged(t + 1, i)' = Staged(t + 1, i)
            BY <3>2 DEF Staged
          <5>4. Summing(g, t + 1)'
            <6>0. PICK u \in Nat : u = t + 1
              BY <4>2
            <6>1. gmPipe' = [i \in 1 .. PipeDepth |-> Staged(u, i)']
              BY <4>5, <5>3, <6>0
            <6>2. gmEngine'.base = g * PhysicalRows /\ gmEngine'.word = 0
              BY <4>3, <4>4, <4>8
            <6>3. gmEngine'.cycles = g * (Computing'.k + PipeDepth) + gmEngine'.base * WordsPerRow(Computing'.wide) + u
              BY <3>2, <4>4, <5>2, <6>0
            <6>4. gmEngine'.k = IF u < Computing'.k THEN u ELSE Computing'.k
              BY <3>2, <4>5, <6>0
            <6>5. gmAcc' = First(IF u > PipeDepth THEN u - PipeDepth ELSE 0)
              <7>1. (IF t + 1 > PipeDepth THEN t + 1 - PipeDepth ELSE 0) = (IF u > PipeDepth THEN u - PipeDepth ELSE 0)
                BY <2>3, <4>2, <6>0
              <7> QED BY <4>5, <7>1
            <6>7. Summing(g, u)'
              BY <6>1, <6>2, <6>3, <6>4, <6>5 DEF Summing
            <6> QED BY <6>0, <6>7
          <5>5. g \in 0 .. gmEngine'.base /\ t + 1 \in 0 .. Computing'.k + PipeDepth - 1
            BY <3>2, <4>1, <4>4, <5>1
          <5> QED BY <3>2, <3>3, <4>4, <4>8, <5>4, <5>5 DEF GmSums
        <4> QED BY <4>7, <4>8
      <3>5. CASE gmEngine.state = "Pack"
        <4>1. PICK g \in 0 .. b : Packing(g)
          BY <3>5 DEF GmSums
        <4>2. g \in Nat /\ b * w \in Nat /\ (g + 1) * (K + PipeDepth) \in Nat
              /\ (g + 1) * PhysicalRows = g * PhysicalRows + PhysicalRows
          BY <2>3, <3>3, <4>1
        <4>3. b = g * PhysicalRows /\ gmAcc = First(K)
              /\ gmEngine.cycles = (g + 1) * (K + PipeDepth) + b * w + gmEngine.word
          BY <4>1 DEF Packing
        <4>4. /\ gmEngine'.state = (IF NextGroup THEN "Run" ELSE IF Finished THEN "Idle" ELSE "Pack")
              /\ gmEngine'.cycles = gmEngine.cycles + 1
              /\ gmEngine'.base = (IF NextGroup THEN b + PhysicalRows ELSE b)
              /\ gmEngine'.word = (IF GroupPacked THEN 0 ELSE gmEngine.word + 1)
              /\ NextGroup => gmEngine'.k = 0
          BY <2>1, <3>5, EngineStep
        <4>5. GroupPacked <=> NextGroup \/ Finished
          BY DEF NextGroup, Finished
        <4>6. CASE NextGroup
          <5>1. (b + PhysicalRows) * w = b * w + gmEngine.word + 1 /\ b + PhysicalRows < Computing.m
            BY <3>5, <4>6, PackWord
          <5>2. gmPipe' = [i \in 1 .. PipeDepth |-> NoRead] /\ gmAcc' = << >>
            BY <2>1, <3>5, <4>6 DEF PipeAfter, AccAfter, EmptyPipe, Starts
          <5>3. \A i \in 1 .. PipeDepth : Staged(0, i)' = NoRead
            BY <2>3 DEF Staged
          <5>4. First(0) = << >>
            BY FirstGrows
          <5>5. gmEngine'.cycles = (g + 1) * (K + PipeDepth) + (b + PhysicalRows) * w + 0
            BY <3>3, <4>2, <4>3, <4>4, <5>1
          <5>6. Summing(g + 1, 0)'
            <6>1. gmPipe' = [i \in 1 .. PipeDepth |-> Staged(0, i)']
              BY <5>2, <5>3
            <6>2. gmEngine'.base = (g + 1) * PhysicalRows /\ gmEngine'.word = 0
              BY <4>2, <4>3, <4>4, <4>5, <4>6
            <6>3. gmEngine'.cycles = (g + 1) * (Computing'.k + PipeDepth) + gmEngine'.base * WordsPerRow(Computing'.wide) + 0
              BY <3>2, <4>4, <4>6, <5>5
            <6>4. gmEngine'.k = IF 0 < Computing'.k THEN 0 ELSE Computing'.k
              BY <3>2, <3>3, <4>4, <4>6
            <6>5. gmAcc' = First(IF 0 > PipeDepth THEN 0 - PipeDepth ELSE 0)
              BY <2>3, <5>2, <5>4
            <6> QED BY <6>1, <6>2, <6>3, <6>4, <6>5 DEF Summing
          <5>7. g + 1 \in 0 .. gmEngine'.base /\ 0 \in 0 .. Computing'.k + PipeDepth - 1
            BY <2>3, <3>2, <3>3, <4>1, <4>4, <4>6
          <5> QED BY <3>2, <4>4, <4>6, <5>1, <5>6, <5>7 DEF GmSums
        <4>7. CASE Finished
          <5>1. gmEngine'.state = "Idle"
            BY <4>4, <4>7 DEF NextGroup, Finished
          <5> QED BY <5>1 DEF GmSums
        <4>8. CASE ~NextGroup /\ ~Finished
          <5>1. gmEngine.word + 1 < OutputWords(GroupRows, Computing.wide)
            BY <3>5, <4>5, <4>8, PackWord
          <5>2. GroupRows' = GroupRows
            BY <3>2, <4>4, <4>8 DEF GroupRows
          <5>3. gmAcc' = gmAcc
            BY <2>1, <3>5, <4>8 DEF AccAfter, Starts
          <5>4. gmEngine'.cycles = (g + 1) * (K + PipeDepth) + b * w + (gmEngine.word + 1)
            BY <3>3, <4>2, <4>3, <4>4
          <5>5. Packing(g)'
            BY <3>2, <4>3, <4>4, <4>5, <4>8, <5>1, <5>2, <5>3, <5>4 DEF Packing
          <5> QED BY <3>2, <3>3, <4>4, <4>8, <5>5 DEF GmSums
        <4> QED BY <4>6, <4>7, <4>8
      <3> QED BY <3>1, <3>4, <3>5
    <2>6. CASE gmEngine.state = "Idle" /\ ~Starts
      <3>1. gmEngine'.state = "Idle"
        BY <2>1, <2>6, EngineStep
      <3> QED BY <3>1 DEF GmSums
    <2> QED BY <2>4, <2>5, <2>6
  <1> QED BY <1>1, <1>2

\* A word is written where the last one of the packet ended, and nowhere else.
LEMMA CWritten ==
    ASSUME GmTypeOK, NEW s \in Slots, NEW a \in Nat, a < OutputWords(MaxM, EnableWide)
    PROVE  /\ ~(gmEngine.state = "Pack" /\ gmEngine.slot = s /\ a = PackAddr) => CAfter[s][a] = gmC[s][a]
           /\ gmEngine.state = "Pack" /\ gmEngine.slot = s /\ a = PackAddr =>
                 CAfter[s][a] = [tag |-> Computing.tag, row |-> PackRow, sum |-> gmAcc]
  <1> DEFINE D == 0 .. OutputWords(MaxM, EnableWide) - 1
             r == [tag |-> Computing.tag, row |-> PackRow, sum |-> gmAcc]
  <1>1. OutputWords(MaxM, EnableWide) \in Nat /\ a \in D
    <2>1. OutputWords(MaxM, EnableWide) \in Nat
      BY GmAssumption, Sizes
    <2> QED BY <2>1
  <1>2. gmC \in [Slots -> [D -> Results]] /\ gmEngine.slot \in Slots
    BY DEF GmTypeOK
  <1> HIDE DEF D, r
  <1>3. CASE gmEngine.state = "Pack"
    <2>1. CAfter = [gmC EXCEPT ![gmEngine.slot] = [gmC[gmEngine.slot] EXCEPT ![PackAddr] = r]]
      BY <1>3 DEF CAfter, r
    <2>2. CAfter[s] = IF s = gmEngine.slot THEN [gmC[s] EXCEPT ![PackAddr] = r] ELSE gmC[s]
      BY <1>2, <2>1
    <2>3. gmC[s] \in [D -> Results]
      BY <1>2
    <2>4. [gmC[s] EXCEPT ![PackAddr] = r][a] = IF a = PackAddr THEN r ELSE gmC[s][a]
      BY <1>1, <2>3
    <2> QED BY <1>3, <2>2, <2>4 DEF r
  <1>4. CASE gmEngine.state # "Pack"
    BY <1>4 DEF CAfter
  <1> QED BY <1>3, <1>4

\* Why a slot's words are never more than its memory has room for.
LEMMA WrittenFits ==
    ASSUME GmTypeOK, GmBusy, GmPackets, GmSums, NEW s \in Slots
    PROVE  Written(s) \in Nat /\ Written(s) <= OutputWords(MaxM, EnableWide)
  <1> DEFINE p == gmSlots[s]
             w == WordsPerRow(p.wide)
             v == WordsPerRow(EnableWide)
  <1>1. p \in SlotRecords /\ p.m \in Nat /\ p.wide \in BOOLEAN /\ MaxM \in Nat /\ EnableWide \in BOOLEAN
    BY GmAssumption DEF GmTypeOK, SlotRecords
  <1>2. w \in Nat \ {0} /\ v \in Nat \ {0} /\ OutputWords(p.m, p.wide) = p.m * w
        /\ OutputWords(MaxM, EnableWide) = MaxM * v
    BY <1>1, Sizes
  <1>3. CASE p.state = "Output"
    <2>1. p.m <= MaxM /\ (p.wide => EnableWide)
      BY <1>1, <1>3 DEF GmPackets, InUse
    <2>2. w <= v
      BY <1>1, <2>1, GmAssumption DEF WordsPerRow
    <2> HIDE DEF w, v
    <2>3. p.m * w <= MaxM * w /\ w * MaxM <= v * MaxM
      BY <1>1, <1>2, <2>1, <2>2, TimesLess
    <2>4. p.m * w \in Nat /\ w * MaxM = MaxM * w /\ v * MaxM = MaxM * v /\ MaxM * w \in Nat /\ MaxM * v \in Nat
      BY <1>1, <1>2
    <2> QED BY <1>2, <1>3, <2>3, <2>4 DEF Written
  <1>4. CASE p.state = "Pack"
    <2>1. gmEngine.state = "Pack" /\ gmEngine.slot = s /\ Computing = p
      BY <1>4 DEF GmBusy, Computing
    <2>2. PackAddr = gmEngine.base * w + gmEngine.word /\ PackAddr \in Nat /\ PackAddr < OutputWords(MaxM, EnableWide)
      BY <2>1, PackWord
    <2> QED BY <1>2, <1>4, <2>2, GmAssumption DEF Written, Sizes
  <1>5. CASE p.state = "Compute"
    <2>1. gmEngine.state = "Run" /\ gmEngine.slot = s /\ Computing = p
      BY <1>5 DEF GmBusy, Computing
    <2>2. gmEngine.word = 0 /\ gmEngine.base < p.m /\ gmEngine.base \in Nat /\ p.m <= MaxM /\ (p.wide => EnableWide)
      <3>1. PICK g \in 0 .. gmEngine.base, t \in 0 .. Computing.k + PipeDepth - 1 : Summing(g, t)
        BY <2>1 DEF GmSums
      <3>2. gmEngine.word = 0
        BY <3>1 DEF Summing
      <3>3. p.m <= MaxM /\ (p.wide => EnableWide)
        BY <1>1, <1>5 DEF GmPackets, InUse
      <3> QED BY <2>1, <3>2, <3>3 DEF GmSums, GmTypeOK
    <2>3. w <= v
      BY <1>1, <2>2, GmAssumption DEF WordsPerRow
    <2>4. Written(s) = gmEngine.base * w + gmEngine.word
      BY <1>5 DEF Written
    <2> HIDE DEF w, v
    <2>5. gmEngine.base * w <= MaxM * w /\ w * MaxM <= v * MaxM
      BY <1>1, <1>2, <2>2, <2>3, TimesLess
    <2>6. gmEngine.base * w \in Nat /\ w * MaxM = MaxM * w /\ v * MaxM = MaxM * v /\ MaxM * w \in Nat /\ MaxM * v \in Nat
      BY <1>1, <1>2, <2>2
    <2> QED BY <1>2, <2>2, <2>4, <2>5, <2>6
  <1>6. CASE p.state \notin {"Output", "Compute", "Pack"}
    <2>1. Written(s) = 0
      BY <1>6 DEF Written
    <2>2. OutputWords(MaxM, EnableWide) \in Nat
      BY <1>1, Sizes
    <2> QED BY <2>1, <2>2
  <1> QED BY <1>3, <1>4, <1>5, <1>6

LEMMA MemoryKeeps ==
    ASSUME GmTypeOK, GmBusy, GmPackets, GmSums, GmMemory,
           NEW in, NEW ready, NEW op, NEW d, Edge(in, ready, op, d)
    PROVE  GmMemory'
  <1> SUFFICES ASSUME NEW s \in Slots, NEW a \in 0 .. Written(s)' - 1
               PROVE  gmC'[s][a] = ResultOf(s, a)'
    BY DEF GmMemory
  <1> DEFINE p == gmSlots[s]
             q == gmSlots'[s]
             e == gmEngine
             f == gmEngine'
             w == WordsPerRow(p.wide)
  <1>1. Written(s)' = IF q.state = "Output" THEN OutputWords(q.m, q.wide)
                      ELSE IF q.state \in {"Compute", "Pack"} THEN f.base * WordsPerRow(q.wide) + f.word
                      ELSE 0
    BY DEF Written
  <1>2. GmTypeOK' /\ GmBusy' /\ GmPackets' /\ GmSums'
    BY TypeKeeps, BusyKeeps, PacketsKeep, SumsKeep
  <1>3. Written(s)' \in Nat /\ a \in Nat /\ a < Written(s)'
    <2>1. Written(s)' \in Nat
      <3>1. q.m \in Nat /\ q.wide \in BOOLEAN /\ f.base \in Nat /\ f.word \in Nat
        BY <1>2 DEF GmTypeOK, SlotRecords
      <3>2. WordsPerRow(q.wide) \in Nat /\ OutputWords(q.m, q.wide) \in Nat
        BY <3>1, Sizes
      <3> QED BY <1>1, <3>1, <3>2
    <2> QED BY <2>1
  <1>4. q.state \in {"Output", "Compute", "Pack"}
    BY <1>1, <1>3
  <1>5. ~Drops(in, op)
    BY <1>4, DropEffect
  <1>6. f = EngineAfter /\ gmC' = CAfter
    BY <1>5 DEF Edge, GmClock, Drops, Advanced
  <1>7. q.state = StateAfter(s, in, ready, op, d) /\ q = SlotAfter(s, in, ready, op, d)
    BY <1>5, SlotEvents
  <1>8. p.state \in {"Ready", "Compute", "Pack", "Output"}
    BY <1>4, <1>7 DEF StateAfter, GmTypeOK, SlotRecords, States
  <1>9. q.m = p.m /\ q.k = p.k /\ q.wide = p.wide /\ q.tag = p.tag
    BY <1>7, <1>8, SlotStep DEF Edge
  <1>10. ResultOf(s, a)' = ResultOf(s, a)
    BY <1>9 DEF ResultOf
  <1>11. Written(s) \in Nat /\ Written(s) <= OutputWords(MaxM, EnableWide) /\ OutputWords(MaxM, EnableWide) \in Nat
    BY WrittenFits, GmAssumption, Sizes
  <1>12. p.state # "Ready"
    <2> SUFFICES ASSUME p.state = "Ready" PROVE FALSE
      OBVIOUS
    <2>1. Starts /\ q.state = "Compute"
      BY <1>4, <1>7 DEF StateAfter
    <2>2. f.base = 0 /\ f.word = 0
      BY <1>6, <2>1, EngineStep
    <2>3. WordsPerRow(q.wide) \in Nat
      BY <1>2, <1>9, Sizes DEF GmTypeOK, SlotRecords
    <2>4. Written(s)' = 0
      BY <1>1, <2>1, <2>2, <2>3
    <2> QED BY <1>3, <2>4
  <1>13. CASE p.state = "Output"
    <2>1. q.state = "Output"
      BY <1>4, <1>7, <1>13 DEF StateAfter
    <2>2. Written(s)' = Written(s)
      BY <1>1, <1>9, <1>13, <2>1 DEF Written
    <2>3. ~(e.state = "Pack" /\ e.slot = s)
      BY <1>13 DEF GmBusy
    <2>4. CAfter[s][a] = gmC[s][a]
      BY <1>3, <1>11, <2>2, <2>3, CWritten
    <2> QED BY <1>3, <1>6, <1>10, <1>11, <2>2, <2>4 DEF GmMemory
  <1>14. CASE p.state = "Compute"
    <2>1. e.state = "Run" /\ e.slot = s /\ q.state \in {"Compute", "Pack"}
      BY <1>4, <1>7, <1>14 DEF GmBusy, StateAfter
    <2>2. e.word = 0 /\ f.word = 0 /\ f.base = e.base
      <3>1. e.word = 0
        <4>1. PICK g \in 0 .. e.base, t \in 0 .. Computing.k + PipeDepth - 1 : Summing(g, t)
          BY <2>1 DEF GmSums
        <4> QED BY <4>1 DEF Summing
      <3> QED BY <1>6, <2>1, <3>1, EngineStep
    <2>3. Written(s)' = Written(s)
      BY <1>1, <1>9, <1>14, <2>1, <2>2 DEF Written
    <2>4. CAfter[s][a] = gmC[s][a]
      BY <1>3, <1>11, <2>1, <2>3, CWritten
    <2> QED BY <1>3, <1>6, <1>10, <1>11, <2>3, <2>4 DEF GmMemory
  <1>15. CASE p.state = "Pack"
    <2>1. e.state = "Pack" /\ e.slot = s /\ Computing = p
      BY <1>15 DEF GmBusy, Computing
    <2>2. Written(s) = PackAddr /\ PackAddr \in Nat /\ PackAddr < OutputWords(MaxM, EnableWide)
          /\ PackAddr = e.base * w + e.word
      BY <1>15, <2>1, PackWord DEF Written
    <2>3. Written(s)' = PackAddr + 1
      <3>1. q.state = (IF NextGroup THEN "Compute" ELSE IF Finished THEN "Output" ELSE "Pack")
        BY <1>7, <1>15 DEF StateAfter
      <3>2. CASE NextGroup
        <4>1. f.base = e.base + PhysicalRows /\ f.word = 0 /\ (e.base + PhysicalRows) * w = PackAddr + 1
          BY <1>6, <2>1, <3>2, EngineStep, PackWord DEF NextGroup
        <4>2. q.state = "Compute"
          BY <3>1, <3>2
        <4> QED BY <1>1, <1>9, <2>2, <4>1, <4>2
      <3>3. CASE Finished
        <4>1. q.state = "Output"
          BY <3>1, <3>3 DEF NextGroup, Finished
        <4>2. OutputWords(p.m, p.wide) = PackAddr + 1
          BY <2>1, <3>3, PackWord
        <4> QED BY <1>1, <1>9, <4>1, <4>2
      <3>4. CASE ~NextGroup /\ ~Finished
        <4>1. q.state = "Pack"
          BY <3>1, <3>4
        <4>2. f.base = e.base /\ f.word = e.word + 1
          BY <1>6, <2>1, <3>4, EngineStep DEF NextGroup, Finished
        <4>3. e.base * w \in Nat /\ e.word \in Nat
          BY <2>1, ComputingIs
        <4>4. Written(s)' = e.base * w + (e.word + 1)
          BY <1>1, <1>9, <4>1, <4>2
        <4> HIDE DEF w
        <4> QED BY <2>2, <4>3, <4>4
      <3> QED BY <3>2, <3>3, <3>4
    <2>4. CASE a = PackAddr
      <3>1. CAfter[s][a] = [tag |-> Computing.tag, row |-> PackRow, sum |-> gmAcc]
        BY <2>1, <2>2, <2>4, CWritten
      <3>2. PackRow = PackAddr \div w /\ gmAcc = First(p.k)
        BY <2>1, PackWord
      <3> QED BY <1>6, <1>10, <2>1, <2>4, <3>1, <3>2 DEF ResultOf
    <2>5. CASE a # PackAddr
      <3>1. a < Written(s)
        BY <1>3, <2>2, <2>3, <2>5
      <3>2. CAfter[s][a] = gmC[s][a]
        BY <1>3, <1>11, <2>5, <3>1, CWritten
      <3> QED BY <1>3, <1>6, <1>10, <1>11, <3>1, <3>2 DEF GmMemory
    <2> QED BY <2>4, <2>5
  <1> QED BY <1>8, <1>12, <1>13, <1>14, <1>15

-----------------------------------------------------------------------------
(* The theorems. *)

\* What the command of an edge submits is one of the staged shapes, under a tag of its own.
Staging(op, d) == op = "Submit" => gmSubmits < MaxSubmits /\ \E s \in Shapes : d = Tagged(s)

LEMMA NextEdge ==
    ASSUME GmTypeOK, GmNext
    PROVE  \E in, ready, op, d : Edge(in, ready, op, d) /\ Staging(op, d)
  <1>1. PICK in \in Offered, ready \in Readiness, c \in Commands : GmClock(in, ready, c.op, Tagged(c.shape))
    BY DEF GmNext, GmEdge
  <1> DEFINE d == Tagged(c.shape)
  <1>2. in \in InputChoices /\ ready \in BOOLEAN
    BY DEF Offered, InputChoices, Readiness
  <1>3. c.op \in {"None", "Ack", "Clear", "Submit"}
        /\ (c.op = "Submit" => c.shape \in Shapes /\ gmSubmits < MaxSubmits)
    BY DEF Commands
  <1>4. d.tag \in Nat
    BY DEF Tagged, GmTypeOK
  <1>5. Edge(in, ready, c.op, d)
    BY <1>1, <1>2, <1>3, <1>4 DEF Edge
  <1>6. Staging(c.op, d)
    BY <1>3 DEF Staging
  <1> QED BY <1>5, <1>6

\* The invariant holds of the engine after reset.
LEMMA GmInitInv == ASSUME GmInit PROVE GmInv
  <1>1. \A s \in Slots : gmSlots[s] = EmptySlot
    BY DEF GmInit
  <1>2. gmPtrs = FreshPtrs /\ gmLoad = FreshLoad /\ gmDrop = FALSE /\ gmMid = FALSE /\ gmOut = 0
        /\ gmEngine.state = "Idle" /\ gmStatus = [done |-> FALSE, error |-> FALSE, code |-> "None"]
    BY DEF GmInit
  <1>3. GmTypeOK
    <2>1. gmSlots \in [Slots -> SlotRecords]
      BY DEF GmInit, EmptySlot, SlotRecords, States
    <2>2. gmPtrs \in [alloc : Slots, load : Slots, compute : Slots, output : Slots]
          /\ gmLoad \in [phaseB : BOOLEAN, row : Nat, word : Nat, k : Nat, group : Nat]
      BY <1>2 DEF FreshPtrs, FreshLoad, Slots
    <2>3. gmEngine \in [state : {"Idle", "Run", "Pack"}, slot : Slots, k : Nat, base : Nat, word : Nat, cycles : Nat]
      BY DEF GmInit, Slots
    <2>4. gmPipe \in [1 .. PipeDepth -> Reads] /\ gmAcc \in Seq(Nat)
      BY DEF GmInit, EmptyPipe, NoRead, Reads
    <2>5. gmC \in [Slots -> [0 .. OutputWords(MaxM, EnableWide) - 1 -> Results]]
      <3>1. NoResult \in Results
        BY DEF NoResult, Results
      <3> QED BY <3>1 DEF GmInit
    <2>6. gmReport \in [tag : Nat, macs : Nat, cycles : Nat]
      BY DEF GmInit
    <2>7. gmDrop \in BOOLEAN /\ gmMid \in BOOLEAN /\ gmOut \in Nat /\ gmCount \in Nat /\ gmSubmits \in Nat
      BY DEF GmInit
    <2>8. gmStatus.done \in BOOLEAN /\ gmStatus.error \in BOOLEAN
      BY <1>2
    <2> QED BY <2>1, <2>2, <2>3, <2>4, <2>5, <2>6, <2>7, <2>8 DEF GmTypeOK
  <1>4. GmPointers /\ GmBusy /\ GmPackets /\ GmLoading /\ GmOutput /\ GmSums
    BY <1>1, <1>2
       DEF EmptySlot, FreshPtrs, GmPointers, PointsPast, Oldest, Newest, OtherSlot, Slots, InUse, IsLoaded, IsDone,
           GmBusy, GmPackets, GmLoading, Loading, GmOutput, OutValid, Draining, GmSums
  <1>5. GmMemory
    BY <1>1 DEF GmMemory, Written, EmptySlot
  <1> QED BY <1>3, <1>4, <1>5 DEF GmInv

\* An edge, with whatever word, readiness and command, keeps the invariant.
LEMMA GmInvKeeps == ASSUME GmInv, [GmNext]_gmVars PROVE GmInv'
  <1>1. CASE GmNext
    <2>1. GmTypeOK /\ GmPointers /\ GmBusy /\ GmPackets /\ GmLoading /\ GmOutput /\ GmSums /\ GmMemory
      BY DEF GmInv
    <2>2. PICK in, ready, op, d : Edge(in, ready, op, d)
      BY <1>1, <2>1, NextEdge
    <2> QED BY <2>1, <2>2, TypeKeeps, PointersKeep, BusyKeeps, PacketsKeep, LoadingKeeps, OutputKeeps, SumsKeep, MemoryKeeps
            DEF GmInv
  <1>2. CASE UNCHANGED gmVars
    <2>1. /\ gmSlots' = gmSlots /\ gmPtrs' = gmPtrs /\ gmLoad' = gmLoad /\ gmDrop' = gmDrop /\ gmMid' = gmMid
          /\ gmEngine' = gmEngine /\ gmPipe' = gmPipe /\ gmAcc' = gmAcc /\ gmC' = gmC /\ gmOut' = gmOut
          /\ gmStatus' = gmStatus /\ gmCount' = gmCount /\ gmReport' = gmReport /\ gmSubmits' = gmSubmits
      BY <1>2 DEF gmVars, gmInput, gmCompute, gmReported
    <2>2. GmTypeOK' /\ GmPointers' /\ GmBusy' /\ GmPackets'
      BY <2>1 DEF GmInv, GmTypeOK, GmPointers, PointsPast, Oldest, Newest, InUse, IsLoaded, IsDone, GmBusy, GmPackets
    <2>3. Computing' = Computing /\ Loading' = Loading /\ Draining' = Draining
      BY <2>1 DEF Computing, Loading, Draining
    <2>4. GmLoading' /\ GmOutput'
      BY <2>1, <2>3 DEF GmInv, GmLoading, GmOutput, OutValid, InUse
    <2>5. GmSums'
      BY <2>1, <2>3 DEF GmInv, GmSums, Summing, Staged, Packing, GroupRows
    <2>6. GmMemory'
      BY <2>1 DEF GmInv, GmMemory, Written, ResultOf
    <2> QED BY <2>2, <2>4, <2>5, <2>6 DEF GmInv
  <1> QED BY <1>1, <1>2

(* The engine's registers agree with one another in every state it reaches: *)
(* each pointer stands past the packets that have come so far, the engine   *)
(* works on the slot whose turn it is, the pipeline and the accumulators    *)
(* hold one row group's positions, and each slot's words are its own.       *)
THEOREM GmInvariant == GmSpec => []GmInv
  <1>1. GmInit => GmInv
    BY GmInitInv
  <1>2. GmInv /\ [GmNext]_gmVars => GmInv'
    BY GmInvKeeps
  <1> QED BY <1>1, <1>2, PTL DEF GmSpec

(* Every result word the engine offers is of the packet at the head, of the *)
(* row its place says, and sums each K position once; and the engine is     *)
(* between two frames exactly when the source is.                           *)
THEOREM GmResultsCorrect == GmSpec => []GmResults
  <1>1. GmInv => GmResults
    <2> SUFFICES ASSUME GmInv PROVE GmResults
      OBVIOUS
    <2>1. GmTypeOK /\ GmPackets /\ GmLoading /\ GmOutput /\ GmMemory
      BY DEF GmInv
    <2>2. ASSUME OutValid
          PROVE  gmC[gmPtrs.output][gmOut] =
                   [tag |-> Draining.tag, row |-> gmOut \div WordsPerRow(Draining.wide),
                    sum |-> [i \in 1 .. Draining.k |-> i - 1]]
      <3>1. gmPtrs.output \in Slots /\ Draining = gmSlots[gmPtrs.output] /\ Draining \in SlotRecords /\ gmOut \in Nat
        BY <2>1 DEF GmTypeOK, Draining
      <3>2. Draining.m \in Nat /\ Draining.wide \in BOOLEAN
        BY <3>1 DEF SlotRecords
      <3>3. Written(gmPtrs.output) = OutputWords(Draining.m, Draining.wide) /\ gmOut < OutputWords(Draining.m, Draining.wide)
        BY <2>1, <2>2, <3>1 DEF Written, OutValid, GmOutput
      <3>4. OutputWords(Draining.m, Draining.wide) \in Nat
        BY <3>2, Sizes
      <3>5. gmC[gmPtrs.output][gmOut] = ResultOf(gmPtrs.output, gmOut)
        BY <2>1, <3>1, <3>3, <3>4 DEF GmMemory
      <3> QED BY <3>1, <3>5 DEF ResultOf, First
    <2>3. gmMid <=> gmDrop \/ gmLoad # FreshLoad
      BY <2>1 DEF GmLoading
    <2> QED BY <2>2, <2>3 DEF GmResults
  <1> QED BY <1>1, GmInvariant, PTL

-----------------------------------------------------------------------------
(* The words a slot has taken. *)

\* The words taken before the place l of a packet p.
FedAt(l, p) == IF l.phaseB THEN p.m * Stride(p.k) + l.k * Groups + l.group ELSE l.row * Stride(p.k) + l.word

LEMMA PacketIs ==
    ASSUME GmTypeOK, GmPackets, NEW s \in Slots, InUse(s)
    PROVE  LET p == gmSlots[s] IN
           /\ p.m \in Nat \ {0} /\ p.k \in Nat \ {0} /\ p.n \in Nat /\ p.wide \in BOOLEAN /\ p.tag \in Nat
           /\ Stride(p.k) \in Nat \ {0} /\ Groups \in Nat \ {0}
           /\ p.m * Stride(p.k) \in Nat \ {0} /\ Groups * p.k \in Nat /\ Groups * p.k = p.k * Groups
           /\ InputWords(p.m, p.k) = p.m * Stride(p.k) + p.k * Groups /\ InputWords(p.m, p.k) \in Nat
  <1> DEFINE p == gmSlots[s]
             S == Stride(p.k)
  <1>1. p \in SlotRecords /\ p.n \in Nat /\ p.wide \in BOOLEAN /\ p.tag \in Nat
    BY DEF GmTypeOK, SlotRecords
  <1>2. p.m \in Nat \ {0} /\ p.k \in Nat \ {0} /\ Groups \in Nat \ {0}
    BY GmAssumption DEF GmPackets
  <1>3. S \in Nat \ {0}
    BY <1>2, StrideIs
  <1> HIDE DEF S
  <1>4. p.m * S \in Nat /\ p.m * S > 0
    <2>1. 0 * S = 0
      BY <1>3
    <2> QED BY <1>2, <1>3, <2>1, TimesLess
  <1>5. Groups * p.k \in Nat /\ Groups * p.k = p.k * Groups
    BY <1>2
  <1> QED BY <1>1, <1>2, <1>3, <1>4, <1>5 DEF InputWords, S

\* A slot wants words exactly as long as it is loading.
LEMMA FedIs ==
    ASSUME GmTypeOK, GmPackets, GmLoading, NEW s \in Slots, InUse(s)
    PROVE  LET p == gmSlots[s] IN
           /\ Fed(s) \in Nat /\ (Fed(s) < InputWords(p.m, p.k) <=> p.state = "Load")
           /\ p.state # "Load" => Fed(s) = InputWords(p.m, p.k)
           /\ p.state = "Load" /\ s # gmPtrs.load => Fed(s) = 0
           /\ p.state = "Load" /\ s = gmPtrs.load => Fed(s) = FedAt(gmLoad, p)
  <1> DEFINE p == gmSlots[s]
             S == Stride(p.k)
             l == gmLoad
  <1>1. /\ p.m \in Nat \ {0} /\ p.k \in Nat \ {0} /\ S \in Nat \ {0} /\ Groups \in Nat \ {0}
        /\ p.m * S \in Nat \ {0} /\ p.k * Groups \in Nat /\ InputWords(p.m, p.k) \in Nat
        /\ InputWords(p.m, p.k) = p.m * S + p.k * Groups
    BY PacketIs
  <1> HIDE DEF S
  <1>2. CASE p.state # "Load"
    BY <1>1, <1>2 DEF Fed
  <1>3. CASE p.state = "Load" /\ s # gmPtrs.load
    BY <1>1, <1>3 DEF Fed
  <1>4. CASE p.state = "Load" /\ s = gmPtrs.load
    <2>1. Loading = p /\ InRange(l, p)
      BY <1>4 DEF Loading, GmLoading
    <2>2. l.phaseB \in BOOLEAN /\ l.row \in Nat /\ l.word \in Nat /\ l.k \in Nat /\ l.group \in Nat
      BY DEF GmTypeOK
    <2>3. Fed(s) = FedAt(l, p)
      BY <1>4 DEF Fed, FedAt
    <2>4. CASE l.phaseB
      <3>1. l.k < p.k /\ l.group < Groups
        BY <2>1, <2>4 DEF InRange
      <3>2. l.k * Groups + Groups <= p.k * Groups /\ l.k * Groups \in Nat
        BY <1>1, <2>2, <3>1, TimesLess
      <3>3. Fed(s) = p.m * S + l.k * Groups + l.group
        BY <2>3, <2>4 DEF FedAt, S
      <3> QED BY <1>1, <1>4, <2>2, <2>3, <3>1, <3>2, <3>3
    <2>5. CASE ~l.phaseB
      <3>1. l.row < p.m /\ l.word < S
        BY <2>1, <2>5 DEF InRange, S
      <3>2. l.row * S + S <= p.m * S /\ l.row * S \in Nat
        BY <1>1, <2>2, <3>1, TimesLess
      <3>3. Fed(s) = l.row * S + l.word
        BY <2>3, <2>5 DEF FedAt, S
      <3> QED BY <1>1, <1>4, <2>2, <2>3, <3>1, <3>2, <3>3
    <2> QED BY <2>2, <2>4, <2>5
  <1> QED BY <1>2, <1>3, <1>4

\* A word moves the place on by one, and the last one fills the packet.
LEMMA FedTaken ==
    ASSUME GmTypeOK, GmPackets, GmLoading, NEW in, LoadsWord(in)
    PROVE  /\ LastExpected => FedAt(gmLoad, Loading) + 1 = InputWords(Loading.m, Loading.k)
           /\ ~LastExpected => FedAt(LoadAfter(in), Loading) = FedAt(gmLoad, Loading) + 1
  <1> DEFINE p == Loading
             S == Stride(p.k)
             l == gmLoad
             P == [phaseB : BOOLEAN, row : Nat, word : Nat, k : Nat, group : Nat]
  <1>1. p.state = "Load" /\ gmPtrs.load \in Slots /\ p = gmSlots[gmPtrs.load] /\ ~gmDrop
    BY DEF LoadsWord, Takes, InReady, Loading, GmTypeOK
  <1>2. /\ p.m \in Nat \ {0} /\ p.k \in Nat \ {0} /\ S \in Nat \ {0} /\ Groups \in Nat \ {0}
        /\ p.m * S \in Nat /\ p.k * Groups \in Nat /\ InputWords(p.m, p.k) = p.m * S + p.k * Groups
    BY <1>1, PacketIs DEF InUse
  <1>3. l \in P /\ InRange(l, p)
    BY <1>1 DEF GmTypeOK, GmLoading
  <1> HIDE DEF S, p
  <1>4. CASE l.phaseB
    <2>1. l.row = 0 /\ l.word = 0 /\ l.k \in Nat /\ l.group \in Nat /\ FedAt(l, p) = p.m * S + l.k * Groups + l.group
      BY <1>3, <1>4 DEF InRange, FedAt, S
    <2>2. l.k * Groups \in Nat /\ (l.k + 1) * Groups = l.k * Groups + Groups
      BY <1>2, <2>1
    <2>3. LastExpected <=> l.k + 1 = p.k /\ l.group = Groups - 1
      BY <1>1, <1>4 DEF LastExpected, p
    <2>4. CASE LastExpected
      BY <1>2, <2>1, <2>2, <2>3, <2>4 DEF p
    <2>5. CASE ~LastExpected /\ l.group = Groups - 1
      <3>1. LoadAfter(in) = [l EXCEPT !.group = 0, !.k = @ + 1]
        BY <1>4, <2>5 DEF LoadAfter, NextB
      <3>2. LoadAfter(in).phaseB /\ LoadAfter(in).k = l.k + 1 /\ LoadAfter(in).group = 0
        <4> DEFINE x == l.k + 1
        <4>1. LoadAfter(in) = [l EXCEPT !.group = 0, !.k = x]
          BY <3>1
        <4> HIDE DEF x
        <4>2. LoadAfter(in).phaseB = l.phaseB /\ LoadAfter(in).k = x /\ LoadAfter(in).group = 0
          BY <1>3, <4>1
        <4> QED BY <1>4, <4>2 DEF x
      <3>3. FedAt(LoadAfter(in), p) = p.m * S + (l.k + 1) * Groups + 0
        BY <3>2 DEF FedAt, S
      <3> QED BY <1>2, <2>1, <2>2, <2>5, <3>3 DEF p
    <2>6. CASE ~LastExpected /\ l.group # Groups - 1
      <3>1. LoadAfter(in) = [l EXCEPT !.group = @ + 1]
        BY <1>4, <2>6 DEF LoadAfter, NextB
      <3>2. LoadAfter(in).phaseB /\ LoadAfter(in).k = l.k /\ LoadAfter(in).group = l.group + 1
        BY <1>3, <1>4, <3>1
      <3>3. FedAt(LoadAfter(in), p) = p.m * S + l.k * Groups + (l.group + 1)
        BY <3>2 DEF FedAt, S
      <3> QED BY <1>2, <2>1, <2>2, <2>6, <3>3 DEF p
    <2> QED BY <2>4, <2>5, <2>6
  <1>5. CASE ~l.phaseB
    <2>1. l.k = 0 /\ l.group = 0 /\ l.row \in Nat /\ l.word \in Nat /\ FedAt(l, p) = l.row * S + l.word
      BY <1>3, <1>5 DEF InRange, FedAt, S
    <2>2. l.row * S \in Nat /\ (l.row + 1) * S = l.row * S + S
      BY <1>2, <2>1
    <2>3. ~LastExpected /\ LoadAfter(in) = NextA
      BY <1>5 DEF LastExpected, LoadAfter
    <2>4. CASE l.word + 1 # S
      <3>1. LoadAfter(in) = [l EXCEPT !.word = @ + 1]
        BY <2>3, <2>4 DEF NextA, S, p
      <3>2. ~LoadAfter(in).phaseB /\ LoadAfter(in).row = l.row /\ LoadAfter(in).word = l.word + 1
        BY <1>3, <1>5, <3>1
      <3>3. FedAt(LoadAfter(in), p) = l.row * S + (l.word + 1)
        BY <3>2 DEF FedAt, S
      <3>4. FedAt(LoadAfter(in), p) = FedAt(l, p) + 1
        BY <2>1, <2>2, <3>3
      <3> QED BY <2>3, <3>4 DEF p
    <2>5. CASE l.word + 1 = S /\ l.row + 1 # p.m
      <3>1. LoadAfter(in) = [l EXCEPT !.word = 0, !.row = @ + 1]
        BY <2>3, <2>5 DEF NextA, S, p
      <3>2. ~LoadAfter(in).phaseB /\ LoadAfter(in).row = l.row + 1 /\ LoadAfter(in).word = 0
        <4> DEFINE x == l.row + 1
        <4>1. LoadAfter(in) = [l EXCEPT !.word = 0, !.row = x]
          BY <3>1
        <4> HIDE DEF x
        <4>2. LoadAfter(in).phaseB = l.phaseB /\ LoadAfter(in).row = x /\ LoadAfter(in).word = 0
          BY <1>3, <4>1
        <4> QED BY <1>5, <4>2 DEF x
      <3>3. FedAt(LoadAfter(in), p) = (l.row + 1) * S + 0
        BY <3>2 DEF FedAt, S
      <3> QED BY <1>2, <2>1, <2>2, <2>3, <2>5, <3>3 DEF p
    <2>6. CASE l.word + 1 = S /\ l.row + 1 = p.m
      <3>1. LoadAfter(in) = [l EXCEPT !.word = 0, !.row = 0, !.phaseB = TRUE]
        BY <2>3, <2>6 DEF NextA, S, p
      <3>2. LoadAfter(in).phaseB /\ LoadAfter(in).k = 0 /\ LoadAfter(in).group = 0
        BY <1>3, <2>1, <3>1
      <3>3. FedAt(LoadAfter(in), p) = p.m * S + 0 * Groups + 0
        BY <3>2 DEF FedAt, S
      <3>4. 0 * Groups = 0 /\ p.m * S = l.row * S + S
        BY <1>2, <2>2, <2>6
      <3> QED BY <1>2, <2>1, <2>2, <2>3, <2>6, <3>3, <3>4 DEF p
    <2> QED BY <2>4, <2>5, <2>6
  <1> QED BY <1>3, <1>4, <1>5

LEMMA FedFresh == ASSUME NEW p, p.k \in Nat \ {0} PROVE FedAt(FreshLoad, p) = 0
  <1>1. Stride(p.k) \in Nat
    BY StrideIs
  <1>2. 0 * Stride(p.k) + 0 = 0
    BY <1>1
  <1> QED BY <1>2 DEF FedAt, FreshLoad

\* Of the packets in flight the one at the load pointer takes the word of the edge.
LEMMA FedStep ==
    ASSUME GmInv, NEW in, NEW ready, NEW op, NEW d, Edge(in, ready, op, d), ~Drops(in, op),
           NEW s \in Slots, InUse(s), ~(Completes(ready) /\ s = gmPtrs.output)
    PROVE  LET p == gmSlots[s]
               q == gmSlots'[s]
           IN  /\ q.state # "Empty" /\ q.m = p.m /\ q.n = p.n /\ q.k = p.k /\ q.wide = p.wide /\ q.tag = p.tag
               /\ Fed(s)' = IF LoadsWord(in) /\ s = gmPtrs.load THEN Fed(s) + 1 ELSE Fed(s)
  <1> DEFINE p == gmSlots[s]
             q == gmSlots'[s]
  <1>1. GmTypeOK /\ GmBusy /\ GmPackets /\ GmLoading
    BY DEF GmInv
  <1>2. q = SlotAfter(s, in, ready, op, d) /\ q.state = StateAfter(s, in, ready, op, d) /\ ~(Accepts(op, d) /\ s = gmPtrs.alloc)
    BY <1>1, SlotEvents
  <1>3. q.m = p.m /\ q.n = p.n /\ q.k = p.k /\ q.wide = p.wide /\ q.tag = p.tag
    BY <1>1, <1>2, SlotStep DEF Edge
  <1>4. p.state \in States \ {"Empty"} /\ gmPtrs.load \in Slots /\ in \in InputChoices
    BY <1>1 DEF GmTypeOK, SlotRecords, InUse, Edge
  <1>5. q.state # "Empty"
    BY <1>1, <1>2, <1>4, SlotEvents DEF InUse
  <1>6. gmLoad' = LoadAfter(in) /\ gmPtrs'.load = (IF Loaded(in) THEN OtherSlot(gmPtrs.load) ELSE gmPtrs.load)
    BY DEF Edge, GmClock, Drops, Advanced, PtrsAfter, Toggled
  <1>7. LoadsWord(in) /\ s = gmPtrs.load => p.state = "Load"
    BY DEF LoadsWord, Takes, InReady, Loading
  <1>8. p.k \in Nat \ {0}
    BY <1>1, PacketIs
  <1>9. Fed(s)' = IF q.state # "Load" THEN InputWords(q.m, q.k)
                  ELSE IF s # gmPtrs'.load THEN 0 ELSE FedAt(gmLoad', q)
    BY DEF Fed, FedAt
  <1>10. CASE p.state # "Load"
    <2>1. q.state # "Load"
      BY <1>2, <1>4, <1>5, <1>10 DEF StateAfter, States
    <2>2. Fed(s) = InputWords(p.m, p.k)
      BY <1>1, <1>10, FedIs
    <2> QED BY <1>3, <1>5, <1>7, <1>9, <1>10, <2>1, <2>2
  <1>11. CASE p.state = "Load" /\ s = gmPtrs.load
    <2>1. Loading = p /\ Fed(s) = FedAt(gmLoad, p)
      BY <1>1, <1>11, FedIs DEF Loading
    <2>2. FedAt(gmLoad', q) = FedAt(gmLoad', p)
      BY <1>3 DEF FedAt
    <2>3. CASE Loaded(in)
      <3>1. LoadsWord(in) /\ LastExpected
        BY <2>3 DEF Loaded
      <3>2. q.state = "Ready"
        BY <1>2, <1>11, <2>3 DEF StateAfter
      <3>3. Fed(s) + 1 = InputWords(p.m, p.k)
        BY <1>1, <2>1, <3>1, FedTaken
      <3> QED BY <1>3, <1>5, <1>9, <1>11, <3>1, <3>2, <3>3
    <2>4. CASE ~Loaded(in)
      <3>1. q.state = "Load" /\ gmPtrs'.load = s
        BY <1>2, <1>6, <1>11, <2>4 DEF StateAfter
      <3>2. Fed(s)' = FedAt(LoadAfter(in), p)
        BY <1>6, <1>9, <2>2, <3>1
      <3>3. CASE LoadsWord(in)
        <4>1. ~LastExpected
          BY <2>4, <3>3 DEF Loaded
        <4>2. FedAt(LoadAfter(in), Loading) = FedAt(gmLoad, Loading) + 1
          BY <1>1, <3>3, <4>1, FedTaken
        <4> QED BY <1>3, <1>5, <1>11, <2>1, <3>2, <3>3, <4>2
      <3>4. CASE ~LoadsWord(in)
        <4>1. LoadAfter(in) = gmLoad
          BY <3>4 DEF LoadAfter
        <4> QED BY <1>3, <1>5, <2>1, <3>2, <3>4, <4>1
      <3> QED BY <3>3, <3>4
    <2> QED BY <2>3, <2>4
  <1>12. CASE p.state = "Load" /\ s # gmPtrs.load
    <2>1. Fed(s) = 0
      BY <1>1, <1>12, FedIs
    <2>2. q.state = "Load"
      BY <1>2, <1>12 DEF StateAfter
    <2>3. Fed(s)' = 0
      <3>1. CASE Loaded(in)
        <4>1. LoadsWord(in) /\ LastExpected
          BY <3>1 DEF Loaded
        <4>2. gmLoad' = FreshLoad
          BY <1>1, <1>4, <1>6, <4>1, NextPlace
        <4>3. FedAt(gmLoad', q) = 0
          BY <1>3, <1>8, <4>2, FedFresh
        <4> QED BY <1>9, <2>2, <4>3
      <3>2. CASE ~Loaded(in)
        BY <1>6, <1>9, <1>12, <2>2, <3>2
      <3> QED BY <3>1, <3>2
    <2> QED BY <1>3, <1>5, <1>12, <2>1, <2>3
  <1> QED BY <1>10, <1>11, <1>12

\* A packet that was accepted has taken none.
LEMMA FedNew ==
    ASSUME GmInv, NEW in, NEW ready, NEW op, NEW d, Edge(in, ready, op, d), ~Drops(in, op), Accepts(op, d)
    PROVE  LET s == gmPtrs.alloc
               q == gmSlots'[s]
           IN  /\ s \in Slots /\ ~InUse(s) /\ DimsValid(d) /\ q.state = "Load" /\ q.m = d.m /\ q.n = d.n /\ q.k = d.k
               /\ q.wide = StagedWide(d) /\ q.tag = d.tag
               /\ (IF s # gmPtrs'.load THEN 0 ELSE FedAt(gmLoad', q)) = 0
  <1> DEFINE s == gmPtrs.alloc
             p == gmSlots[s]
             q == gmSlots'[s]
  <1>1. GmTypeOK /\ GmBusy /\ GmPackets /\ GmLoading /\ s \in Slots /\ gmPtrs.load \in Slots /\ in \in InputChoices
    BY DEF GmInv, GmTypeOK, Edge
  <1>2. q = SlotAfter(s, in, ready, op, d) /\ q.state = StateAfter(s, in, ready, op, d) /\ ~InUse(s)
    BY <1>1, SlotEvents
  <1>3. DimsValid(d) /\ p.state = "Empty" /\ q.m = d.m /\ q.n = d.n /\ q.k = d.k /\ q.wide = StagedWide(d) /\ q.tag = d.tag
    BY <1>1, <1>2, SlotStep DEF Edge
  <1>4. q.state = "Load"
    BY <1>2, <1>3 DEF StateAfter
  <1>5. gmLoad' = LoadAfter(in) /\ gmPtrs'.load = (IF Loaded(in) THEN OtherSlot(gmPtrs.load) ELSE gmPtrs.load)
    BY DEF Edge, GmClock, Drops, Advanced, PtrsAfter, Toggled
  <1>6. s = gmPtrs'.load => gmLoad' = FreshLoad
    <2>1. CASE Loaded(in)
      <3>1. LoadsWord(in) /\ LastExpected
        BY <2>1 DEF Loaded
      <3> QED BY <1>1, <1>5, <3>1, NextPlace
    <2>2. CASE ~Loaded(in) /\ s = gmPtrs.load
      <3>1. Loading.state # "Load" /\ ~LoadsWord(in)
        BY <1>3, <2>2 DEF Loading, LoadsWord, Takes, InReady
      <3>2. gmLoad = FreshLoad
        BY <1>1, <3>1 DEF GmLoading
      <3> QED BY <1>5, <3>1, <3>2 DEF LoadAfter
    <2> QED BY <1>5, <2>1, <2>2
  <1>7. q.k \in Nat \ {0}
    BY <1>3, GmAssumption DEF DimsValid
  <1>8. (IF s # gmPtrs'.load THEN 0 ELSE FedAt(gmLoad', q)) = 0
    BY <1>6, <1>7, FedFresh
  <1> QED BY <1>1, <1>2, <1>3, <1>4, <1>8

-----------------------------------------------------------------------------
(* The two slots as the queue of PacketEngine. *)

Queue == Entry(Oldest) \o Entry(Newest)
PacketOf(s) == LET p == gmSlots[s] IN Packet(p.m, p.n, p.k, p.wide, p.tag)

\* Queues of no, one and two entries.
LEMMA Pairs ==
    /\ << >> \o << >> = << >>
    /\ \A x : /\ <<x>> \o << >> = <<x>> /\ << >> \o <<x>> = <<x>> /\ <<x>> # << >>
             /\ Head(<<x>>) = x /\ Tail(<<x>>) = << >> /\ Len(<<x>>) = 1
    /\ \A x, y : /\ <<x>> \o <<y>> = <<x, y>> /\ <<x, y>> \o << >> = <<x, y>> /\ <<x, y>> # << >>
                /\ Head(<<x, y>>) = x /\ Tail(<<x, y>>) = <<y>>
    /\ \A x, z : [<<x>> EXCEPT ![1] = z] = <<z>>
    /\ \A x, y, z : [<<x, y>> EXCEPT ![1] = z] = <<z, y>> /\ [<<x, y>> EXCEPT ![2] = z] = <<x, z>>
  <1>1. << >> \o << >> = << >>
    <2>1. << >> \in Seq({0})
      OBVIOUS
    <2> QED BY <2>1, ConcatEmptySeq
  <1>2. ASSUME NEW x
        PROVE  /\ <<x>> \o << >> = <<x>> /\ << >> \o <<x>> = <<x>> /\ <<x>> # << >>
               /\ Head(<<x>>) = x /\ Tail(<<x>>) = << >> /\ Len(<<x>>) = 1
    <2>1. <<x>> \in Seq({x}) /\ Len(<<x>>) = 1 /\ Head(<<x>>) = x /\ Tail(<<x>>) = << >>
      OBVIOUS
    <2>2. <<x>> # << >>
      BY <2>1
    <2>3. <<x>> \o << >> = <<x>> /\ << >> \o <<x>> = <<x>>
      BY <2>1, ConcatEmptySeq
    <2> QED BY <2>1, <2>2, <2>3
  <1>3. ASSUME NEW x, NEW y
        PROVE  /\ <<x>> \o <<y>> = <<x, y>> /\ <<x, y>> \o << >> = <<x, y>> /\ <<x, y>> # << >>
               /\ Head(<<x, y>>) = x /\ Tail(<<x, y>>) = <<y>>
    <2> DEFINE S == {x, y}
    <2>1. <<x>> \in Seq(S) /\ <<y>> \in Seq(S) /\ <<x, y>> \in Seq(S)
      OBVIOUS
    <2>2. Len(<<x>>) = 1 /\ Len(<<y>>) = 1 /\ Len(<<x, y>>) = 2
          /\ <<x>>[1] = x /\ <<y>>[1] = y /\ <<x, y>>[1] = x /\ <<x, y>>[2] = y
      OBVIOUS
    <2>3. <<x>> \o <<y>> = <<x, y>>
      <3>1. <<x>> \o <<y>> \in Seq(S) /\ Len(<<x>> \o <<y>>) = 2
            /\ (<<x>> \o <<y>>)[1] = x /\ (<<x>> \o <<y>>)[2] = y
        BY <2>1, <2>2, ConcatProperties
      <3>2. \A i \in 1 .. 2 : (<<x>> \o <<y>>)[i] = <<x, y>>[i]
        BY <2>2, <3>1
      <3> QED BY <2>1, <2>2, <3>1, <3>2, SeqEqual
    <2>4. <<x, y>> \o << >> = <<x, y>>
      BY <2>1, ConcatEmptySeq
    <2>5. Head(<<x, y>>) = x /\ Tail(<<x, y>>) = <<y>>
      OBVIOUS
    <2>6. <<x, y>> # << >>
      BY <2>2
    <2> QED BY <2>3, <2>4, <2>5, <2>6
  <1>4. ASSUME NEW x, NEW z PROVE [<<x>> EXCEPT ![1] = z] = <<z>>
    OBVIOUS
  <1>5. ASSUME NEW x, NEW y, NEW z
        PROVE  [<<x, y>> EXCEPT ![1] = z] = <<z, y>> /\ [<<x, y>> EXCEPT ![2] = z] = <<x, z>>
    <2>1. [<<x, y>> EXCEPT ![1] = z] = <<z, y>>
      OBVIOUS
    <2>2. [<<x, y>> EXCEPT ![2] = z] = <<x, z>>
      OBVIOUS
    <2> QED BY <2>1, <2>2
  <1> QED BY <1>1, <1>2, <1>3, <1>4, <1>5

\* The queue of one, and of two, when its oldest hungry packet takes a word.
Fuller(x) == [x EXCEPT !.fed = @ + 1]

LEMMA TakenOne ==
    ASSUME NEW x
    PROVE  /\ Engine!PeHungry(<<x>>) = IF x.fed < x.pkt.need THEN {1} ELSE {}
           /\ x.fed < x.pkt.need => Engine!PeTaken(<<x>>) = <<Fuller(x)>>
  <1> DEFINE q == <<x>>
             h == Engine!PeHungry(q)
  <1>1. DOMAIN q = {1} /\ q[1] = x
    OBVIOUS
  <1>2. h = IF x.fed < x.pkt.need THEN {1} ELSE {}
    BY <1>1 DEF Engine!PeHungry
  <1>3. ASSUME x.fed < x.pkt.need PROVE Engine!PeTaken(q) = <<Fuller(x)>>
    <2>1. (CHOOSE j \in h : \A k \in h : j <= k) = 1
      BY <1>2, <1>3
    <2>2. Engine!PeTaken(q) = [q EXCEPT ![1].fed = @ + 1]
      BY <2>1 DEF Engine!PeTaken
    <2> QED BY <2>2 DEF Fuller
  <1> QED BY <1>2, <1>3

LEMMA TakenTwo ==
    ASSUME NEW x, NEW y
    PROVE  /\ Engine!PeHungry(<<x, y>>) =
                 (IF x.fed < x.pkt.need THEN {1} ELSE {}) \cup (IF y.fed < y.pkt.need THEN {2} ELSE {})
           /\ x.fed < x.pkt.need => Engine!PeTaken(<<x, y>>) = <<Fuller(x), y>>
           /\ ~(x.fed < x.pkt.need) /\ y.fed < y.pkt.need => Engine!PeTaken(<<x, y>>) = <<x, Fuller(y)>>
  <1> DEFINE q == <<x, y>>
             h == Engine!PeHungry(q)
             i == CHOOSE j \in h : \A k \in h : j <= k
  <1>1. DOMAIN q = {1, 2} /\ q[1] = x /\ q[2] = y
    OBVIOUS
  <1>2. h = (IF x.fed < x.pkt.need THEN {1} ELSE {}) \cup (IF y.fed < y.pkt.need THEN {2} ELSE {})
    BY <1>1 DEF Engine!PeHungry
  <1>3. Engine!PeTaken(q) = [q EXCEPT ![i].fed = @ + 1]
    BY DEF Engine!PeTaken
  <1>4. ASSUME x.fed < x.pkt.need PROVE Engine!PeTaken(q) = <<Fuller(x), y>>
    <2>1. 1 \in h /\ h \subseteq {1, 2}
      BY <1>2, <1>4
    <2> HIDE DEF h
    <2>2. i = 1
      <3>1. \A k \in h : 1 <= k
        BY <2>1
      <3>2. \E j \in h : \A k \in h : j <= k
        BY <2>1, <3>1
      <3>3. i \in h /\ \A k \in h : i <= k
        BY <3>2
      <3> HIDE DEF i
      <3>4. i <= 1 /\ i \in {1, 2}
        BY <2>1, <3>3
      <3> QED BY <3>4
    <2>3. Engine!PeTaken(q) = [q EXCEPT ![1] = Fuller(x)]
      BY <1>1, <1>3, <2>2 DEF Fuller
    <2> QED BY <2>3, Pairs
  <1>5. ASSUME ~(x.fed < x.pkt.need), y.fed < y.pkt.need PROVE Engine!PeTaken(q) = <<x, Fuller(y)>>
    <2>1. h = {2}
      BY <1>2, <1>5
    <2>2. i = 2
      <3>1. \E j \in h : \A k \in h : j <= k
        BY <2>1
      <3>2. i \in h
        BY <3>1
      <3> QED BY <2>1, <3>2
    <2>3. Engine!PeTaken(q) = [q EXCEPT ![2] = Fuller(y)]
      BY <1>1, <1>3, <2>2 DEF Fuller
    <2> QED BY <2>3, Pairs
  <1> QED BY <1>2, <1>4, <1>5

\* What the slots hold, as the queue, and which of its packets want words.
LEMMA QueueIs ==
    ASSUME GmInv
    PROVE  LET o == Oldest
               n == Newest
               x == [pkt |-> PacketOf(o), fed |-> Fed(o), sent |-> gmOut]
               y == [pkt |-> PacketOf(n), fed |-> Fed(n), sent |-> 0]
           IN  /\ o \in Slots /\ n \in Slots /\ o # n /\ Slots = {o, n}
               /\ InUse(n) => InUse(o)
               /\ InUse(n) => Queue = <<x, y>>
               /\ InUse(o) /\ ~InUse(n) => Queue = <<x>>
               /\ ~InUse(o) => Queue = << >>
               /\ InUse(o) => (x.fed < x.pkt.need <=> gmSlots[o].state = "Load")
               /\ InUse(n) => (y.fed < y.pkt.need <=> gmSlots[n].state = "Load")
  <1> DEFINE o == Oldest
             n == Newest
             x == [pkt |-> PacketOf(o), fed |-> Fed(o), sent |-> gmOut]
             y == [pkt |-> PacketOf(n), fed |-> Fed(n), sent |-> 0]
  <1>1. GmTypeOK /\ GmPackets /\ GmLoading /\ GmPointers
    BY DEF GmInv
  <1>2. o \in Slots /\ n \in Slots /\ o # n /\ Slots = {o, n} /\ o = gmPtrs.output
    BY <1>1 DEF GmTypeOK, Slots, OtherSlot, Oldest, Newest
  <1>3. InUse(n) => InUse(o)
    BY <1>1 DEF GmPointers, PointsPast
  <1>4. Entry(o) = IF InUse(o) THEN <<x>> ELSE << >>
    BY <1>2 DEF Entry, InUse, PacketOf
  <1>5. Entry(n) = IF InUse(n) THEN <<y>> ELSE << >>
    BY <1>2 DEF Entry, InUse, PacketOf
  <1>6. ASSUME NEW s \in Slots, InUse(s) PROVE Fed(s) < PacketOf(s).need <=> gmSlots[s].state = "Load"
    <2>1. PacketOf(s).need = InputWords(gmSlots[s].m, gmSlots[s].k)
      BY DEF PacketOf, Packet
    <2> QED BY <1>1, <1>6, <2>1, FedIs
  <1>7. /\ InUse(n) => Queue = <<x, y>>
        /\ InUse(o) /\ ~InUse(n) => Queue = <<x>>
        /\ ~InUse(o) => Queue = << >>
    <2> HIDE DEF x, y
    <2>1. <<x>> \o <<y>> = <<x, y>>
      BY Pairs
    <2>2. <<x>> \o << >> = <<x>>
      BY Pairs
    <2>3. << >> \o << >> = << >>
      BY Pairs
    <2>4. Queue = Entry(o) \o Entry(n)
      BY DEF Queue
    <2> HIDE DEF o, n
    <2> QED BY <1>3, <1>4, <1>5, <2>1, <2>2, <2>3, <2>4
  <1> QED BY <1>2, <1>3, <1>6, <1>7

\* What an edge makes of the entry of a slot.
LEMMA EntryAfter ==
    ASSUME GmInv, NEW in, NEW ready, NEW op, NEW d, Edge(in, ready, op, d), ~Drops(in, op), NEW s \in Slots
    PROVE  Entry(s)' =
             IF InUse(s) /\ ~(Completes(ready) /\ s = Oldest)
             THEN <<[pkt |-> PacketOf(s),
                     fed |-> IF LoadsWord(in) /\ s = gmPtrs.load THEN Fed(s) + 1 ELSE Fed(s),
                     sent |-> IF s # Oldest THEN 0 ELSE IF Gives(ready) THEN gmOut + 1 ELSE gmOut]>>
             ELSE IF Accepts(op, d) /\ s = gmPtrs.alloc
             THEN <<[pkt |-> Packet(d.m, d.n, d.k, StagedWide(d), d.tag), fed |-> 0, sent |-> 0]>>
             ELSE << >>
  <1> DEFINE q == gmSlots'[s]
             sent == IF s = gmPtrs'.output THEN gmOut' ELSE 0
  <1>1. GmTypeOK /\ GmBusy /\ GmOutput
    BY DEF GmInv
  <1>2. Entry(s)' = IF q.state = "Empty" THEN << >>
                    ELSE <<[pkt |-> Packet(q.m, q.n, q.k, q.wide, q.tag), fed |-> Fed(s)', sent |-> sent]>>
    BY DEF Entry
  <1>3. gmOut' = OutAfter(ready)
        /\ gmPtrs'.output = (IF Completes(ready) THEN OtherSlot(gmPtrs.output) ELSE gmPtrs.output)
    BY DEF Edge, GmClock, Drops, Advanced, PtrsAfter, Toggled
  <1>4. gmPtrs.output \in Slots /\ Oldest = gmPtrs.output /\ OtherSlot(gmPtrs.output) # gmPtrs.output
    BY <1>1 DEF GmTypeOK, Slots, OtherSlot, Oldest
  <1>5. Completes(ready) => gmOut' = 0
    BY <1>3 DEF OutAfter, Completes
  <1>6. ~Completes(ready) => gmOut' = IF Gives(ready) THEN gmOut + 1 ELSE gmOut
    BY <1>3 DEF OutAfter, Completes
  <1>7. CASE InUse(s) /\ ~(Completes(ready) /\ s = Oldest)
    <2>1. /\ q.state # "Empty" /\ Packet(q.m, q.n, q.k, q.wide, q.tag) = PacketOf(s)
          /\ Fed(s)' = IF LoadsWord(in) /\ s = gmPtrs.load THEN Fed(s) + 1 ELSE Fed(s)
      BY <1>4, <1>7, FedStep DEF PacketOf
    <2>2. sent = IF s # Oldest THEN 0 ELSE IF Gives(ready) THEN gmOut + 1 ELSE gmOut
      BY <1>3, <1>4, <1>5, <1>6, <1>7
    <2> HIDE DEF sent, q
    <2> QED BY <1>2, <1>7, <2>1, <2>2
  <1>8. CASE ~(InUse(s) /\ ~(Completes(ready) /\ s = Oldest)) /\ Accepts(op, d) /\ s = gmPtrs.alloc
    <2>1. /\ ~InUse(s) /\ q.state = "Load"
          /\ Packet(q.m, q.n, q.k, q.wide, q.tag) = Packet(d.m, d.n, d.k, StagedWide(d), d.tag)
      BY <1>8, FedNew
    <2>2. Fed(s)' = 0
      <3>1. Fed(s)' = IF s # gmPtrs'.load THEN 0 ELSE FedAt(gmLoad', q)
        BY <2>1 DEF Fed, FedAt
      <3> QED BY <1>8, <3>1, FedNew
    <2>3. sent = 0
      <3>1. CASE Completes(ready)
        BY <1>5, <3>1
      <3>2. CASE ~Completes(ready) /\ s = gmPtrs.output
        <4>1. ~OutValid /\ ~Gives(ready)
          BY <2>1, <3>2 DEF OutValid, Draining, InUse, Gives
        <4> QED BY <1>1, <1>6, <3>2, <4>1 DEF GmOutput
      <3> QED BY <1>3, <3>1, <3>2
    <2> HIDE DEF sent, q
    <2> QED BY <1>2, <1>8, <2>1, <2>2, <2>3
  <1>9. CASE ~(InUse(s) /\ ~(Completes(ready) /\ s = Oldest)) /\ ~(Accepts(op, d) /\ s = gmPtrs.alloc)
    <2>1. InUse(s)' <=> FALSE
      BY <1>1, <1>4, <1>9, SlotEvents
    <2>2. q.state = "Empty"
      BY <2>1 DEF InUse
    <2> HIDE DEF sent, q
    <2> QED BY <1>2, <1>9, <2>2
  <1> QED BY <1>7, <1>8, <1>9

\* The entry of a slot with the word of the edge, and the one an accepted packet gets.
Filled(s, in, sent) ==
    [pkt |-> PacketOf(s), fed |-> IF LoadsWord(in) /\ s = gmPtrs.load THEN Fed(s) + 1 ELSE Fed(s), sent |-> sent]
FreshEntry(d) == [pkt |-> Packet(d.m, d.n, d.k, StagedWide(d), d.tag), fed |-> 0, sent |-> 0]

\* The word of the edge goes to the oldest packet that wants one.
LEMMA QueueTakes ==
    ASSUME GmInv, NEW in
    PROVE  LET o == Oldest
               n == Newest
               q == IF LoadsWord(in) THEN Engine!PeTaken(Queue) ELSE Queue
           IN  /\ LoadsWord(in) => InUse(o) /\ Engine!PeHungry(Queue) # {}
               /\ InUse(n) => q = <<Filled(o, in, gmOut), Filled(n, in, 0)>>
               /\ InUse(o) /\ ~InUse(n) => q = <<Filled(o, in, gmOut)>>
               /\ ~InUse(o) => q = << >>
  <1> DEFINE o == Oldest
             n == Newest
             x == [pkt |-> PacketOf(o), fed |-> Fed(o), sent |-> gmOut]
             y == [pkt |-> PacketOf(n), fed |-> Fed(n), sent |-> 0]
             xHungry == x.fed < x.pkt.need
             yHungry == y.fed < y.pkt.need
  <1>1. /\ o \in Slots /\ n \in Slots /\ o # n /\ Slots = {o, n}
        /\ InUse(n) => InUse(o)
        /\ InUse(n) => Queue = <<x, y>>
        /\ InUse(o) /\ ~InUse(n) => Queue = <<x>>
        /\ ~InUse(o) => Queue = << >>
        /\ InUse(o) => (xHungry <=> gmSlots[o].state = "Load")
        /\ InUse(n) => (yHungry <=> gmSlots[n].state = "Load")
    BY QueueIs
  <1>2. gmPtrs.load = IF IsLoaded(o) /\ ~IsLoaded(n) THEN n ELSE o
    BY DEF GmInv, GmPointers, PointsPast
  <1>3. CASE ~LoadsWord(in)
    <2>1. Filled(o, in, gmOut) = x /\ Filled(n, in, 0) = y
      BY <1>3 DEF Filled
    <2> HIDE DEF x, y
    <2> QED BY <1>1, <1>3, <2>1
  <1>4. CASE LoadsWord(in)
    <2>1. gmSlots[gmPtrs.load].state = "Load"
      BY <1>4 DEF LoadsWord, Takes, InReady, Loading
    <2>2. CASE gmPtrs.load = o
      <3>1. InUse(o) /\ xHungry
        BY <1>1, <2>1, <2>2 DEF InUse
      <3>2. Filled(o, in, gmOut) = Fuller(x) /\ Filled(n, in, 0) = y
        BY <1>1, <1>4, <2>2 DEF Filled, Fuller
      <3> HIDE DEF x, y
      <3>3. 1 \in Engine!PeHungry(<<x>>) /\ 1 \in Engine!PeHungry(<<x, y>>)
        BY <3>1, TakenOne, TakenTwo
      <3>4. Engine!PeTaken(<<x>>) = <<Fuller(x)>> /\ Engine!PeTaken(<<x, y>>) = <<Fuller(x), y>>
        BY <3>1, TakenOne, TakenTwo
      <3> QED BY <1>1, <1>4, <3>1, <3>2, <3>3, <3>4
    <2>3. CASE gmPtrs.load = n
      <3>1. InUse(n) /\ yHungry /\ ~xHungry /\ InUse(o)
        BY <1>1, <1>2, <2>1, <2>3 DEF InUse, IsLoaded
      <3>2. Filled(o, in, gmOut) = x /\ Filled(n, in, 0) = Fuller(y)
        BY <1>1, <1>4, <2>3 DEF Filled, Fuller
      <3> HIDE DEF x, y
      <3>3. 2 \in Engine!PeHungry(<<x, y>>)
        BY <3>1, TakenTwo
      <3>4. Engine!PeTaken(<<x, y>>) = <<x, Fuller(y)>>
        BY <3>1, TakenTwo
      <3> QED BY <1>1, <1>4, <3>1, <3>2, <3>3, <3>4
    <2> QED BY <1>2, <2>2, <2>3
  <1> QED BY <1>3, <1>4

\* The head gives a word, or the last of its packet, and what is accepted comes last.
LEMMA QueueAfter ==
    ASSUME GmInv, NEW in, NEW ready, NEW op, NEW d, Edge(in, ready, op, d), ~Drops(in, op)
    PROVE  LET q == IF LoadsWord(in) THEN Engine!PeTaken(Queue) ELSE Queue
               given == IF OutLast THEN Tail(q) ELSE [q EXCEPT ![1].sent = @ + 1]
               new == IF Accepts(op, d) THEN <<FreshEntry(d)>> ELSE << >>
           IN  Queue' = (IF Gives(ready) THEN given ELSE q) \o new
  <1> DEFINE o == Oldest
             n == Newest
             q == IF LoadsWord(in) THEN Engine!PeTaken(Queue) ELSE Queue
             given == IF OutLast THEN Tail(q) ELSE [q EXCEPT ![1].sent = @ + 1]
             new == IF Accepts(op, d) THEN <<FreshEntry(d)>> ELSE << >>
             x == Filled(o, in, gmOut)
             y == Filled(n, in, 0)
             z == IF Gives(ready) THEN Filled(o, in, gmOut + 1) ELSE x
  <1> SUFFICES Queue' = (IF Gives(ready) THEN given ELSE q) \o new
    OBVIOUS
  <1>1. GmTypeOK /\ GmBusy /\ GmPointers
    BY DEF GmInv
  <1>2. o \in Slots /\ n \in Slots /\ o # n /\ Slots = {o, n} /\ (InUse(n) => InUse(o))
        /\ o = gmPtrs.output /\ n = OtherSlot(gmPtrs.output) /\ OtherSlot(n) = o
    BY <1>1, QueueIs DEF Oldest, Newest, OtherSlot, Slots
  <1>0. PICK h \in Slots, g \in Slots : h = o /\ g = n
    BY <1>2
  <1>3. /\ InUse(n) => q = <<x, y>>
        /\ InUse(o) /\ ~InUse(n) => q = <<x>>
        /\ ~InUse(o) => q = << >>
    BY QueueTakes
  <1>4. Accepts(op, d) => ~InUse(gmPtrs.alloc) /\ ~InUse(n) /\ gmPtrs.alloc = IF InUse(o) THEN n ELSE o
    <2>1. gmPtrs.alloc = IF InUse(o) /\ ~InUse(n) THEN n ELSE o
      BY <1>1 DEF GmPointers, PointsPast
    <2>2. Accepts(op, d) => ~InUse(gmPtrs.alloc)
      BY <1>1, <1>2, SlotEvents
    <2> QED BY <1>2, <2>1, <2>2
  <1>5. Gives(ready) => InUse(o) /\ (Completes(ready) <=> OutLast)
    BY <1>2 DEF Gives, OutValid, Draining, InUse, Completes
  <1>6. Completes(ready) => Gives(ready)
    BY DEF Completes
  <1>7. Entry(h)' = IF InUse(o) /\ ~Completes(ready) THEN <<z>>
                    ELSE IF Accepts(op, d) /\ o = gmPtrs.alloc THEN <<FreshEntry(d)>> ELSE << >>
    BY <1>0, <1>2, EntryAfter DEF Filled, FreshEntry
  <1>8. Entry(g)' = IF InUse(n) THEN <<y>>
                    ELSE IF Accepts(op, d) /\ n = gmPtrs.alloc THEN <<FreshEntry(d)>> ELSE << >>
    BY <1>0, <1>2, EntryAfter DEF Filled, FreshEntry
  <1>9. gmPtrs'.output = IF Completes(ready) THEN n ELSE o
    BY <1>2 DEF Edge, GmClock, Drops, Advanced, PtrsAfter, Toggled
  <1>10. Gives(ready) => z = [x EXCEPT !.sent = @ + 1]
    BY DEF Filled
  <1>11. Entry(h)' \in {<< >>, <<z>>, <<FreshEntry(d)>>} /\ Entry(g)' \in {<< >>, <<y>>, <<FreshEntry(d)>>}
    BY <1>7, <1>8
  <1>12. CASE ~Completes(ready)
    <2>1. Queue' = Entry(h)' \o Entry(g)'
      BY <1>0, <1>2, <1>9, <1>12 DEF Queue, Oldest, Newest, Entry, Fed
    <2>2. CASE InUse(n)
      <3>1. Entry(h)' = <<z>> /\ Entry(g)' = <<y>> /\ new = << >>
        BY <1>2, <1>4, <1>7, <1>8, <1>12, <2>2
      <3>2. (IF Gives(ready) THEN given ELSE q) = <<z, y>>
        <4>1. CASE Gives(ready)
          <5>1. given = [<<x, y>> EXCEPT ![1].sent = @ + 1]
            BY <1>3, <1>5, <1>12, <2>2, <4>1
          <5> HIDE DEF x, y
          <5>2. <<x, y>>[1] = x
            OBVIOUS
          <5>3. given = [<<x, y>> EXCEPT ![1] = [x EXCEPT !.sent = @ + 1]]
            BY <5>1, <5>2
          <5> DEFINE v == [x EXCEPT !.sent = @ + 1]
          <5> HIDE DEF v
          <5>4. [<<x, y>> EXCEPT ![1] = v] = <<v, y>>
            BY Pairs
          <5>5. given = <<v, y>>
            BY <5>3, <5>4 DEF v
          <5> QED BY <1>10, <4>1, <5>5 DEF v
        <4>2. CASE ~Gives(ready)
          BY <1>3, <2>2, <4>2
        <4> QED BY <4>1, <4>2
      <3> HIDE DEF x, y, z, q, given, new
      <3>3. <<z>> \o <<y>> = <<z, y>>
        BY Pairs
      <3>4. <<z, y>> \o << >> = <<z, y>>
        BY Pairs
      <3> QED BY <2>1, <3>1, <3>2, <3>3, <3>4
    <2>3. CASE InUse(o) /\ ~InUse(n)
      <3>1. Entry(h)' = <<z>> /\ Entry(g)' = new
        BY <1>2, <1>4, <1>7, <1>8, <1>12, <2>3
      <3>2. (IF Gives(ready) THEN given ELSE q) = <<z>>
        <4>1. CASE Gives(ready)
          <5>1. given = [<<x>> EXCEPT ![1].sent = @ + 1]
            BY <1>3, <1>5, <1>12, <2>3, <4>1
          <5> HIDE DEF x, y
          <5>2. <<x>>[1] = x
            OBVIOUS
          <5>3. given = [<<x>> EXCEPT ![1] = [x EXCEPT !.sent = @ + 1]]
            BY <5>1, <5>2
          <5> DEFINE v == [x EXCEPT !.sent = @ + 1]
          <5> HIDE DEF v
          <5>4. [<<x>> EXCEPT ![1] = v] = <<v>>
            BY Pairs
          <5>5. given = <<v>>
            BY <5>3, <5>4 DEF v
          <5> QED BY <1>10, <4>1, <5>5 DEF v
        <4>2. CASE ~Gives(ready)
          BY <1>3, <2>3, <4>2
        <4> QED BY <4>1, <4>2
      <3> HIDE DEF x, y, z, q, given, new
      <3> QED BY <2>1, <3>1, <3>2
    <2>4. CASE ~InUse(o)
      <3>1. Entry(h)' = new /\ Entry(g)' = << >> /\ ~Gives(ready) /\ q = << >>
        BY <1>2, <1>3, <1>4, <1>5, <1>7, <1>8, <2>4
      <3>2. new \o << >> = << >> \o new
        BY Pairs
      <3> HIDE DEF x, y, z, q, given, new
      <3> QED BY <2>1, <3>1, <3>2
    <2> QED BY <1>2, <2>2, <2>3, <2>4
  <1>13. CASE Completes(ready)
    <2>1. Queue' = Entry(g)' \o Entry(h)'
      BY <1>0, <1>2, <1>9, <1>13 DEF Queue, Oldest, Newest, Entry, Fed
    <2>2. InUse(o) /\ Gives(ready) /\ given = Tail(q)
      BY <1>5, <1>6, <1>13
    <2>3. Entry(h)' = << >>
      BY <1>2, <1>4, <1>7, <1>13, <2>2
    <2>4. CASE InUse(n)
      <3>1. Entry(g)' = <<y>> /\ new = << >> /\ q = <<x, y>>
        BY <1>3, <1>4, <1>8, <2>4
      <3> HIDE DEF x, y, z, new
      <3>2. Tail(<<x, y>>) = <<y>>
        OBVIOUS
      <3> HIDE DEF q
      <3>3. given = <<y>>
        BY <2>2, <3>1, <3>2
      <3> HIDE DEF given
      <3> QED BY <2>1, <2>2, <2>3, <3>1, <3>3
    <2>5. CASE ~InUse(n)
      <3>1. Entry(g)' = new /\ q = <<x>>
        BY <1>2, <1>3, <1>4, <1>8, <2>2, <2>5
      <3>2. new \o << >> = << >> \o new
        BY Pairs
      <3> HIDE DEF x, y, z, new
      <3>3. Tail(<<x>>) = << >>
        OBVIOUS
      <3> HIDE DEF q
      <3>4. given = << >>
        BY <2>2, <3>1, <3>3
      <3> HIDE DEF given
      <3> QED BY <2>1, <2>2, <2>3, <3>1, <3>2, <3>4
    <2> QED BY <2>4, <2>5
  <1> QED BY <1>12, <1>13

\* What the head gives, completes and reports in an edge, whether or not it drops the rest.
LEMMA Reporting ==
    ASSUME GmInv, NEW in, NEW ready, NEW op, NEW d, Edge(in, ready, op, d)
    PROVE  /\ Gives(ready) => Engine!PeMayGive /\ (Engine!PeEnds <=> OutLast)
           /\ Engine!PeReports(Gives(ready))
           /\ ~Clears(op) =>
                 gmStatus'.done \in IF Gives(ready) /\ Engine!PeEnds THEN {TRUE} ELSE {gmStatus.done, FALSE}
  <1> DEFINE o == Oldest
             n == Newest
             x == [pkt |-> PacketOf(o), fed |-> Fed(o), sent |-> gmOut]
             y == [pkt |-> PacketOf(n), fed |-> Fed(n), sent |-> 0]
  <1>1. GmTypeOK /\ GmPackets
    BY DEF GmInv
  <1>2. /\ InUse(n) => Queue = <<x, y>>
        /\ InUse(o) /\ ~InUse(n) => Queue = <<x>>
        /\ InUse(o) => (x.fed < x.pkt.need <=> gmSlots[o].state = "Load")
    BY QueueIs
  <1>3. Draining = gmSlots[o] /\ o \in Slots
    BY <1>1 DEF Draining, Oldest, GmTypeOK
  <1>4. ASSUME Gives(ready)
        PROVE  Engine!PeMayGive /\ (Engine!PeEnds <=> OutLast) /\ Head(Queue).pkt = PacketOf(o)
    <2>1. OutValid /\ gmSlots[o].state = "Output" /\ InUse(o)
      BY <1>3, <1>4 DEF Gives, OutValid, InUse
    <2>2. ~(x.fed < x.pkt.need)
      BY <1>2, <2>1
    <2>3. x.sent = gmOut /\ x.pkt = PacketOf(o) /\ PacketOf(o).gives = OutputWords(Draining.m, Draining.wide)
      BY <1>3 DEF PacketOf, Packet
    <2> HIDE DEF x, y
    <2>4. Queue # << >> /\ 1 \notin Engine!PeHungry(Queue) /\ Head(Queue) = x
      <3>1. CASE InUse(n)
        <4>1. Head(<<x, y>>) = x /\ <<x, y>> # << >>
          BY Pairs
        <4>2. 1 \notin Engine!PeHungry(<<x, y>>)
          BY <2>2, TakenTwo
        <4> QED BY <1>2, <3>1, <4>1, <4>2
      <3>2. CASE ~InUse(n)
        <4>1. Head(<<x>>) = x /\ <<x>> # << >>
          BY Pairs
        <4>2. 1 \notin Engine!PeHungry(<<x>>)
          BY <2>2, TakenOne
        <4> QED BY <1>2, <2>1, <3>2, <4>1, <4>2
      <3> QED BY <3>1, <3>2
    <2>5. Engine!PeMayGive
      BY <2>4 DEF Engine!PeMayGive, Queue, Oldest, Newest
    <2>6. Engine!PeEnds <=> Head(Queue).sent + 1 = Head(Queue).pkt.gives
      BY DEF Engine!PeEnds, Queue, Oldest, Newest
    <2> QED BY <2>1, <2>3, <2>4, <2>5, <2>6 DEF OutLast
  <1>5. Gives(ready) /\ Engine!PeEnds <=> Completes(ready)
    BY <1>4 DEF Completes
  <1>6. Engine!PeReports(Gives(ready))
    <2>1. CASE Completes(ready)
      <3>1. gmCount' = gmCount + 1
            /\ gmReport' = [tag |-> Draining.tag, macs |-> Draining.macs, cycles |-> Draining.cycles]
        BY <2>1 DEF Edge, GmClock
      <3>2. Draining.macs = Draining.m * Draining.n * Draining.k
            /\ Draining.cycles = NoStallCycles(Draining.m, Draining.k, Draining.wide)
        BY <1>1, <1>3, <2>1 DEF GmPackets, IsLoaded, IsDone, Completes, Gives, OutValid
      <3>3. PacketOf(o).report = [tag |-> Draining.tag, macs |-> Draining.macs, cycles |-> Draining.cycles]
        BY <1>3, <3>2 DEF PacketOf, Packet
      <3>4. Head(Queue).pkt = PacketOf(o) /\ Gives(ready) /\ Engine!PeEnds
        BY <1>4, <1>5, <2>1
      <3> QED BY <3>1, <3>3, <3>4 DEF Engine!PeReports, Queue, Oldest, Newest
    <2>2. CASE ~Completes(ready)
      <3>1. gmCount' = gmCount /\ gmReport' = gmReport
        BY <2>2 DEF Edge, GmClock
      <3> QED BY <1>5, <2>2, <3>1 DEF Engine!PeReports
    <2> QED BY <2>1, <2>2
  <1>7. ASSUME ~Clears(op)
        PROVE  gmStatus'.done \in IF Gives(ready) /\ Engine!PeEnds THEN {TRUE} ELSE {gmStatus.done, FALSE}
    <2>1. gmStatus'.done = DoneAfter(ready, op)
      BY DEF Edge, GmClock
    <2>2. CASE Completes(ready)
      BY <1>5, <1>7, <2>1, <2>2 DEF DoneAfter
    <2>3. CASE ~Completes(ready)
      <3>1. DoneAfter(ready, op) \in {gmStatus.done, FALSE}
        BY <1>7, <2>3 DEF DoneAfter
      <3> QED BY <1>5, <2>1, <2>3, <3>1
    <2> QED BY <2>2, <2>3
  <1> QED BY <1>4, <1>6, <1>7

\* An edge that drops nothing is a step of the queue.
LEMMA EdgeRuns ==
    ASSUME GmInv, NEW in, NEW ready, NEW op, NEW d, Edge(in, ready, op, d), Staging(op, d), ~Drops(in, op)
    PROVE  Engine!PeNext
  <1> DEFINE take == LoadsWord(in)
             give == Gives(ready)
             new == IF Accepts(op, d) THEN <<FreshEntry(d)>> ELSE << >>
             q == IF take THEN Engine!PeTaken(Queue) ELSE Queue
  <1>1. GmTypeOK /\ GmPointers /\ GmLoading
    BY DEF GmInv
  <1>2. take \in BOOLEAN /\ give \in BOOLEAN
    BY <1>1 DEF LoadsWord, Gives, OutValid
  <1>3. new \in Engine!PeNew
    <2>1. CASE Accepts(op, d)
      <3>1. PICK s \in Shapes : d = Tagged(s) /\ gmSubmits < MaxSubmits
        BY <2>1 DEF Staging, Accepts, Submits
      <3>2. gmSubmits \in 0 .. MaxSubmits - 1
        <4>1. MaxSubmits \in Nat /\ gmSubmits \in Nat
          BY <1>1, GmAssumption DEF GmTypeOK
        <4> QED BY <3>1, <4>1
      <3>3. d.m = s.m /\ d.n = s.n /\ d.k = s.k /\ d.tag = gmSubmits /\ StagedWide(d) = StagedWide(s)
        BY <3>1 DEF Tagged, StagedWide
      <3>4. Packet(d.m, d.n, d.k, StagedWide(d), d.tag) = Packet(s.m, s.n, s.k, StagedWide(s), gmSubmits)
        BY <3>3
      <3> DEFINE p == Packet(d.m, d.n, d.k, StagedWide(d), d.tag)
      <3>5. p \in {Packet(r.m, r.n, r.k, StagedWide(r), t) : r \in Shapes, t \in 0 .. MaxSubmits - 1}
        BY <3>2, <3>4
      <3>6. new = <<[pkt |-> p, fed |-> 0, sent |-> 0]>>
        BY <2>1 DEF FreshEntry
      <3> HIDE DEF p, new
      <3> QED BY <3>5, <3>6 DEF Engine!PeNew
    <2>2. CASE ~Accepts(op, d)
      BY <2>2 DEF Engine!PeNew
    <2> QED BY <2>1, <2>2
  <1>4. take => Engine!PeHungry(Queue) # {}
    BY QueueTakes
  <1>5. new # << >> => Len(Queue) < 2 /\ ~gmStatus.error
    <2> SUFFICES ASSUME Accepts(op, d) PROVE Len(Queue) < 2 /\ ~gmStatus.error
      OBVIOUS
    <2>1. ~gmStatus.error /\ ~InUse(gmPtrs.alloc)
      BY DEF Accepts, Submits, Refusal, InUse
    <2>2. ~InUse(Newest)
      BY <1>1, <2>1 DEF GmPointers, PointsPast
    <2>3. Queue = << >> \/ \E x : Queue = <<x>>
      BY <2>2, QueueIs
    <2>4. Len(Queue) < 2
      <3>1. CASE Queue = << >>
        BY <3>1
      <3>2. CASE \E x : Queue = <<x>>
        <4>1. PICK x : Queue = <<x>>
          BY <3>2
        <4> QED BY <4>1
      <3> QED BY <2>3, <3>1, <3>2
    <2> QED BY <2>1, <2>4
  <1>6. /\ give => Engine!PeMayGive /\ (Engine!PeEnds <=> OutLast)
        /\ Engine!PeReports(give)
        /\ gmStatus'.done \in IF give /\ Engine!PeEnds THEN {TRUE} ELSE {gmStatus.done, FALSE}
    BY Reporting DEF Drops
  <1>7. Queue' = (IF give THEN Engine!PeGiven(q) ELSE q) \o new
    <2>1. give => Engine!PeGiven(q) = IF OutLast THEN Tail(q) ELSE [q EXCEPT ![1].sent = @ + 1]
      BY <1>6 DEF Engine!PeGiven
    <2>2. Queue' = (IF give THEN IF OutLast THEN Tail(q) ELSE [q EXCEPT ![1].sent = @ + 1] ELSE q) \o new
      BY QueueAfter
    <2> QED BY <2>1, <2>2
  <1>8. gmStatus'.error \in {gmStatus.error, TRUE}
    <2>1. gmStatus'.error = (ErrorAfter(in, op, d) # "None")
      BY DEF Edge, GmClock
    <2>2. ErrorAfter(in, op, d) = "None" => gmStatus.code = "None"
      BY DEF ErrorAfter, Drops
    <2>3. ErrorAfter(in, op, d) # "None" \/ gmStatus.error = FALSE
      BY <1>1, <2>2 DEF GmLoading, GmTypeOK
    <2> QED BY <2>1, <2>3
  <1> HIDE DEF take, give, new, q
  <1>9. Engine!PeRun(take, give, new)
    BY <1>4, <1>5, <1>6, <1>7, <1>8 DEF Engine!PeRun, Queue, Oldest, Newest, q
  <1> QED BY <1>2, <1>3, <1>9 DEF Engine!PeNext

\* An edge that breaks a frame or clears the engine drops the queue.
LEMMA EdgeDrops ==
    ASSUME GmInv, NEW in, NEW ready, NEW op, NEW d, Edge(in, ready, op, d), Drops(in, op)
    PROVE  Engine!PeNext
  <1> DEFINE give == Gives(ready)
  <1>1. GmTypeOK /\ GmBusy /\ give \in BOOLEAN
    BY DEF GmInv, GmTypeOK, Gives, OutValid
  <1>2. Queue' = << >>
    <2>1. \A s \in Slots : gmSlots'[s].state = "Empty"
      BY <1>1, DropEffect
    <2>2. gmPtrs'.output \in Slots /\ OtherSlot(gmPtrs'.output) \in Slots
      BY <1>1, DropEffect DEF FreshPtrs, OtherSlot, Slots
    <2>3. Queue' = << >> \o << >>
      BY <2>1, <2>2 DEF Queue, Entry, Oldest, Newest
    <2> QED BY <2>3, Pairs
  <1>3. /\ give => Engine!PeMayGive
        /\ Engine!PeReports(give)
        /\ ~Clears(op) => gmStatus'.done \in IF give /\ Engine!PeEnds THEN {TRUE} ELSE {gmStatus.done, FALSE}
    BY Reporting
  <1>4. gmStatus'.error = (ErrorAfter(in, op, d) # "None") /\ gmStatus'.done = DoneAfter(ready, op)
    BY DEF Edge, GmClock
  <1>5. Clears(op) => gmStatus'.error = FALSE /\ gmStatus'.done = FALSE
    BY <1>4 DEF ErrorAfter, DoneAfter
  <1>6. ~Clears(op) => gmStatus'.error = TRUE
    <2>1. FrameError(in) # "None"
      BY DEF FrameError
    <2> QED BY <1>4, <2>1 DEF ErrorAfter, Drops
  <1> HIDE DEF give
  <1>7. Engine!PeDrop(give)
    BY <1>2, <1>3, <1>5, <1>6 DEF Engine!PeDrop, Queue, Oldest, Newest
  <1> QED BY <1>1, <1>7 DEF Engine!PeNext

(* The GEMM engine implements the packet engine: its two slots are a queue  *)
(* whose packets are taken whole, given and reported once, in the order of  *)
(* the submissions, each with its counts, and nothing is accepted until an  *)
(* error is cleared.                                                        *)
THEOREM GmRefinesPacketEngine == GmSpec => GmImplementsEngine
  <1>1. GmInit => Engine!PeInit
    <2> SUFFICES ASSUME GmInit PROVE Engine!PeInit
      OBVIOUS
    <2>1. gmSlots = [s \in Slots |-> EmptySlot] /\ gmPtrs = FreshPtrs
      BY DEF GmInit
    <2>2. Entry(gmPtrs.output) = << >> /\ Entry(OtherSlot(gmPtrs.output)) = << >>
      BY <2>1 DEF Entry, EmptySlot, FreshPtrs, OtherSlot, Slots
    <2>3. << >> \o << >> = << >>
      BY Pairs
    <2> QED BY <2>2, <2>3 DEF GmInit, Engine!PeInit, Engine!PeBlank
  <1>2. GmInv /\ [GmNext]_gmVars => [Engine!PeNext]_(Engine!peVars)
    <2> SUFFICES ASSUME GmInv, [GmNext]_gmVars PROVE [Engine!PeNext]_(Engine!peVars)
      OBVIOUS
    <2>1. CASE GmNext
      <3>1. PICK in, ready, op, d : Edge(in, ready, op, d) /\ Staging(op, d)
        BY <2>1, NextEdge DEF GmInv
      <3>2. Engine!PeNext
        BY <3>1, EdgeRuns, EdgeDrops
      <3> QED BY <3>2
    <2>2. CASE UNCHANGED gmVars
      <3>1. gmSlots' = gmSlots /\ gmPtrs' = gmPtrs /\ gmLoad' = gmLoad /\ gmOut' = gmOut /\ gmStatus' = gmStatus
            /\ gmCount' = gmCount /\ gmReport' = gmReport
        BY <2>2 DEF gmVars, gmInput, gmReported
      <3> QED BY <3>1 DEF Engine!peVars, Entry, Fed
    <2> QED BY <2>1, <2>2
  <1> QED BY <1>1, <1>2, GmInvariant, PTL DEF GmSpec, GmImplementsEngine, Engine!PeSpec
=============================================================================
