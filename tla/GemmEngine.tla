----------------------------- MODULE GemmEngine -----------------------------
(***************************************************************************)
(* rtl/gemm/pa_gemm.sv: the GEMM engine.  Two slots hold a packet each, so *)
(* that one can be loaded, one computed and one drained at the same time;  *)
(* four pointers say whose turn it is.  A step is one clock edge.          *)
(*                                                                         *)
(* Of the arithmetic this module keeps which products reach which sum; of  *)
(* the staging registers, that a submission finds any descriptor in them.  *)
(***************************************************************************)
EXTENDS Naturals, Sequences, FiniteSets

CONSTANTS
    MaxM, MaxN, MaxK, \* 16, 16, 3072: the largest dimensions
    NarrowK,          \* 768: the largest K of a narrow result
    EnableWide,       \* results of 32 bits are built in
    PhysicalRows,     \* 4: rows computed together
    KPerWord,         \* 4: values of A in a word
    Groups,           \* 4: words of B for one K
    RowWords,         \* 8: words of a row of narrow results
    PipeDepth,        \* 6: stages from the read to the product
    Shapes,           \* descriptors software may stage, without their tag
    MaxSubmits        \* bounds the submissions

ASSUME GmAssumption ==
    /\ {MaxM, MaxN, MaxK, NarrowK, MaxSubmits} \subseteq Nat /\ EnableWide \in BOOLEAN
    /\ {PhysicalRows, KPerWord, Groups, RowWords, PipeDepth} \subseteq Nat \ {0}

VARIABLES
    gmSlots,  \* slot_state_q and the registers of each slot
    gmPtrs,   \* alloc_ptr_q, load_ptr_q, compute_ptr_q, output_ptr_q
    gmLoad,   \* load_phase_b_q ... load_b_group_q: where the next input word goes
    gmDrop,   \* drop_until_last_q
    gmEngine, \* engine_state_q, engine_slot_q, issue_k_q, row_base_q, pack_word_q, engine_cycles_q
    gmPipe,   \* read_valid_q ... prod_valid_q with the K position in each stage
    gmAcc,    \* the K positions the accumulators have summed
    gmC,      \* the C memory of each slot
    gmOut,    \* output_word_q
    gmStatus, \* done_q, error_q, error_code_q
    gmCount, gmReport, \* completed_count_q; completed_tag_q, last_macs_q, last_cycles_q
    gmSubmits, gmMid   \* history: submissions made; the last input word did not end its frame

gmInput == <<gmLoad, gmDrop, gmMid>>
gmCompute == <<gmEngine, gmPipe, gmAcc, gmC>>
gmReported == <<gmStatus, gmCount, gmReport>>
gmVars == <<gmSlots, gmPtrs, gmInput, gmCompute, gmOut, gmReported, gmSubmits>>

Slots == {0, 1}
OtherSlot(s) == 1 - s

\* a_stride_for_k, input_words_for, output_words_for
Stride(k) == (k + KPerWord - 1) \div KPerWord
InputWords(m, k) == m * Stride(k) + Groups * k
WordsPerRow(wide) == IF wide THEN 2 * RowWords ELSE RowWords
OutputWords(m, wide) == m * WordsPerRow(wide)

\* descriptor_dims_valid, descriptor_flags_valid
StagedWide(d) == EnableWide /\ d.flags = "Wide"
DimsValid(d) ==
    /\ d.m \in 1 .. MaxM /\ d.n \in 1 .. MaxN /\ d.k \in 1 .. MaxK
    /\ StagedWide(d) \/ d.k <= NarrowK
FlagsValid(d) == d.flags = "Narrow" \/ StagedWide(d)

EmptySlot ==
    [state |-> "Empty", m |-> 0, n |-> 0, k |-> 0, wide |-> FALSE, tag |-> 0,
     mn |-> 0, macs |-> 0, cycles |-> 0]
FreshPtrs == [alloc |-> 0, load |-> 0, compute |-> 0, output |-> 0]
FreshLoad == [phaseB |-> FALSE, row |-> 0, word |-> 0, k |-> 0, group |-> 0]
NoRead == [k |-> 0, valid |-> FALSE, last |-> FALSE]
EmptyPipe == [i \in 1 .. PipeDepth |-> NoRead]
NoResult == [tag |-> 0, row |-> 0, sum |-> <<>>]

GmInit ==
    /\ gmSlots = [s \in Slots |-> EmptySlot] /\ gmPtrs = FreshPtrs
    /\ gmLoad = FreshLoad /\ gmDrop = FALSE /\ gmMid = FALSE
    /\ gmEngine = [state |-> "Idle", slot |-> 0, k |-> 0, base |-> 0, word |-> 0, cycles |-> 0]
    /\ gmPipe = EmptyPipe /\ gmAcc = <<>>
    /\ gmC = [s \in Slots |-> [w \in 0 .. OutputWords(MaxM, EnableWide) - 1 |-> NoResult]]
    /\ gmOut = 0
    /\ gmStatus = [done |-> FALSE, error |-> FALSE, code |-> "None"]
    /\ gmCount = 0 /\ gmReport = [tag |-> 0, macs |-> 0, cycles |-> 0] /\ gmSubmits = 0

-----------------------------------------------------------------------------
(* The command register. *)

Refusal(d) ==
    CASE ~DimsValid(d) -> "BadDims"
      [] DimsValid(d) /\ ~FlagsValid(d) -> "BadFlags"
      [] DimsValid(d) /\ FlagsValid(d) ->
            IF gmSlots[gmPtrs.alloc].state # "Empty" THEN "QueueFull" ELSE "None"

Submits(op) == op = "Submit" /\ ~gmStatus.error
Accepts(op, d) == Submits(op) /\ Refusal(d) = "None"
Clears(op) == op = "Clear"

-----------------------------------------------------------------------------
(* The input stream: a word, or none, with its keep and last. *)

NoWord == [valid |-> FALSE, keep |-> FALSE, last |-> FALSE]
InputChoices == {NoWord} \cup [valid : {TRUE}, keep : BOOLEAN, last : BOOLEAN]

Loading == gmSlots[gmPtrs.load]
InReady == gmDrop \/ Loading.state = "Load"
Takes(in) == in.valid /\ InReady

LastExpected ==
    /\ ~gmDrop /\ Loading.state = "Load" /\ gmLoad.phaseB
    /\ gmLoad.k + 1 = Loading.k /\ gmLoad.group = Groups - 1

FrameOK(in) == in.keep /\ in.last = LastExpected
LoadsWord(in) == Takes(in) /\ ~gmDrop /\ FrameOK(in)
BreaksFrame(in) == Takes(in) /\ ~gmDrop /\ ~FrameOK(in)
Loaded(in) == LoadsWord(in) /\ LastExpected

FrameError(in) == IF ~in.keep THEN "InputKeep" ELSE IF in.last THEN "EarlyLast" ELSE "MissingLast"

\* Whether the rest of a broken frame is still to come.
StillDropping(in) ==
    CASE BreaksFrame(in) -> ~in.last
      [] gmDrop -> ~(Takes(in) /\ in.last)
      [] OTHER -> FALSE

NextA ==
    IF gmLoad.word + 1 # Stride(Loading.k) THEN [gmLoad EXCEPT !.word = @ + 1]
    ELSE IF gmLoad.row + 1 # Loading.m THEN [gmLoad EXCEPT !.word = 0, !.row = @ + 1]
    ELSE [gmLoad EXCEPT !.word = 0, !.row = 0, !.phaseB = TRUE]

NextB ==
    IF LastExpected THEN FreshLoad
    ELSE IF gmLoad.group = Groups - 1 THEN [gmLoad EXCEPT !.group = 0, !.k = @ + 1]
    ELSE [gmLoad EXCEPT !.group = @ + 1]

LoadAfter(in) == IF ~LoadsWord(in) THEN gmLoad ELSE IF gmLoad.phaseB THEN NextB ELSE NextA

-----------------------------------------------------------------------------
(* The output stream. *)

Draining == gmSlots[gmPtrs.output]
OutValid == Draining.state = "Output"
OutLast == OutValid /\ gmOut + 1 = OutputWords(Draining.m, Draining.wide)
Gives(ready) == OutValid /\ ready
Completes(ready) == Gives(ready) /\ OutLast

-----------------------------------------------------------------------------
(* The arithmetic: a row group at a time, all its K positions, then packed. *)

Computing == gmSlots[gmEngine.slot]
Starts == gmEngine.state = "Idle" /\ gmSlots[gmPtrs.compute].state = "Ready"
Product == gmPipe[PipeDepth]
Summed == gmEngine.state = "Run" /\ Product.valid /\ Product.last
GroupRows ==
    IF Computing.m - gmEngine.base > PhysicalRows THEN PhysicalRows ELSE Computing.m - gmEngine.base
GroupPacked ==
    gmEngine.state = "Pack" /\ gmEngine.word + 1 = OutputWords(GroupRows, Computing.wide)
MoreRows == gmEngine.base + PhysicalRows < Computing.m
NextGroup == GroupPacked /\ MoreRows
Finished == GroupPacked /\ ~MoreRows

EngineAfter ==
    CASE Starts ->
            [state |-> "Run", slot |-> gmPtrs.compute, k |-> 0, base |-> 0, word |-> 0, cycles |-> 0]
      [] gmEngine.state = "Run" ->
            [gmEngine EXCEPT !.cycles = @ + 1, !.k = IF @ < Computing.k THEN @ + 1 ELSE @,
                             !.state = IF Summed THEN "Pack" ELSE @, !.word = IF Summed THEN 0 ELSE @]
      [] gmEngine.state = "Pack" ->
            [gmEngine EXCEPT !.cycles = @ + 1, !.word = IF GroupPacked THEN 0 ELSE @ + 1,
                             !.base = IF NextGroup THEN @ + PhysicalRows ELSE @,
                             !.k = IF NextGroup THEN 0 ELSE @,
                             !.state = IF NextGroup THEN "Run" ELSE IF Finished THEN "Idle" ELSE @]
      [] OTHER -> gmEngine

\* The read that enters the pipeline.
Issued ==
    IF gmEngine.k < Computing.k
    THEN [k |-> gmEngine.k, valid |-> TRUE, last |-> gmEngine.k + 1 = Computing.k]
    ELSE NoRead

PipeAfter ==
    CASE gmEngine.state = "Run" ->
            [i \in 1 .. PipeDepth |-> IF i = 1 THEN Issued ELSE gmPipe[i - 1]]
      [] gmEngine.state = "Idle" \/ NextGroup -> EmptyPipe
      [] OTHER -> gmPipe

(* Mutation: the sums of a row group start from those of the one before. *)
AccAfterUncleared ==
    CASE Starts -> <<>>
      [] gmEngine.state = "Run" /\ Product.valid -> Append(gmAcc, Product.k)
      [] OTHER -> gmAcc

AccAfter ==
    CASE Starts \/ NextGroup -> <<>>
      [] gmEngine.state = "Run" /\ Product.valid -> Append(gmAcc, Product.k)
      [] OTHER -> gmAcc

\* pack_global_row, and the word written for it.
PackRow == gmEngine.base + gmEngine.word \div WordsPerRow(Computing.wide)
PackAddr == gmEngine.base * WordsPerRow(Computing.wide) + gmEngine.word
CAfter ==
    IF gmEngine.state = "Pack"
    THEN [gmC EXCEPT ![gmEngine.slot][PackAddr] =
            [tag |-> Computing.tag, row |-> PackRow, sum |-> gmAcc]]
    ELSE gmC

-----------------------------------------------------------------------------
(* One clock edge. *)

Captured(s, d) ==
    [s EXCEPT !.state = "Load", !.m = d.m, !.n = d.n, !.k = d.k, !.wide = StagedWide(d),
              !.tag = d.tag, !.mn = d.m * d.n]

\* What the engine makes of the slot it works on.
Computed(s, slot) ==
    CASE Starts /\ slot = gmPtrs.compute -> [s EXCEPT !.state = "Compute"]
      [] slot = gmEngine.slot /\ Summed -> [s EXCEPT !.state = "Pack"]
      [] slot = gmEngine.slot /\ NextGroup -> [s EXCEPT !.state = "Compute"]
      [] slot = gmEngine.slot /\ Finished ->
            [s EXCEPT !.state = "Output", !.cycles = gmEngine.cycles + 1]
      [] OTHER -> s

\* A slot after the assignments of the edge, in the order of the source.
SlotAfter(slot, in, ready, op, d) ==
    LET old == gmSlots[slot]
        submitted == IF Accepts(op, d) /\ slot = gmPtrs.alloc THEN Captured(old, d) ELSE old
        loaded == IF Loaded(in) /\ slot = gmPtrs.load
                  THEN [submitted EXCEPT !.state = "Ready"] ELSE submitted
        drained == IF Completes(ready) /\ slot = gmPtrs.output
                   THEN [loaded EXCEPT !.state = "Empty"] ELSE loaded
    IN  [Computed(drained, slot) EXCEPT !.macs = old.mn * old.k]

Toggled(ptr, when) == IF when THEN OtherSlot(ptr) ELSE ptr

PtrsAfter(in, ready, op, d) ==
    [alloc |-> Toggled(gmPtrs.alloc, Accepts(op, d)), load |-> Toggled(gmPtrs.load, Loaded(in)),
     compute |-> Toggled(gmPtrs.compute, Finished),
     output |-> Toggled(gmPtrs.output, Completes(ready))]

OutAfter(ready) == IF ~Gives(ready) THEN gmOut ELSE IF OutLast THEN 0 ELSE gmOut + 1

(* Mutation: an abort leaves the pointers as they are. *)
PtrsKept == gmPtrs

PtrsDropped == FreshPtrs

\* The override at the end of the block: whatever else the edge did is undone.
Dropped(in, ready, op, d) ==
    /\ gmSlots' = [s \in Slots |-> [SlotAfter(s, in, ready, op, d) EXCEPT !.state = "Empty"]]
    /\ gmPtrs' = PtrsDropped /\ gmLoad' = FreshLoad /\ gmOut' = 0
    /\ gmEngine' = [EngineAfter EXCEPT !.state = "Idle"]
    /\ gmPipe' = EmptyPipe

Advanced(in, ready, op, d) ==
    /\ gmSlots' = [s \in Slots |-> SlotAfter(s, in, ready, op, d)]
    /\ gmPtrs' = PtrsAfter(in, ready, op, d)
    /\ gmLoad' = LoadAfter(in) /\ gmOut' = OutAfter(ready)
    /\ gmEngine' = EngineAfter /\ gmPipe' = PipeAfter

ErrorAfter(in, op, d) ==
    CASE Clears(op) -> "None"
      [] ~Clears(op) /\ BreaksFrame(in) -> FrameError(in)
      [] ~Clears(op) /\ ~BreaksFrame(in) /\ Submits(op) /\ Refusal(d) # "None" -> Refusal(d)
      [] OTHER -> gmStatus.code

(* Mutation: an acknowledgement wipes the completion of the same edge. *)
DoneAfterAckFirst(ready, op) ==
    IF op \in {"Clear", "Ack"} THEN FALSE ELSE Completes(ready) \/ gmStatus.done

DoneAfter(ready, op) ==
    CASE Clears(op) -> FALSE
      [] ~Clears(op) /\ Completes(ready) -> TRUE
      [] op = "Ack" /\ ~Completes(ready) -> FALSE
      [] OTHER -> gmStatus.done

GmClock(in, ready, op, d) ==
    /\ IF BreaksFrame(in) \/ Clears(op) THEN Dropped(in, ready, op, d) ELSE Advanced(in, ready, op, d)
    /\ gmDrop' = (~Clears(op) /\ StillDropping(in))
    /\ gmAcc' = AccAfter /\ gmC' = CAfter
    /\ LET code == ErrorAfter(in, op, d)
       IN  gmStatus' = [done |-> DoneAfter(ready, op), error |-> code # "None", code |-> code]
    /\ IF Completes(ready)
       THEN /\ gmCount' = gmCount + 1
            /\ gmReport' = [tag |-> Draining.tag, macs |-> Draining.macs, cycles |-> Draining.cycles]
       ELSE UNCHANGED <<gmCount, gmReport>>
    /\ gmSubmits' = IF op = "Submit" THEN gmSubmits + 1 ELSE gmSubmits
    /\ gmMid' = (~Clears(op) /\ IF Takes(in) THEN ~in.last ELSE gmMid)

\* The commands of an edge; each submission has a tag of its own.
Commands ==
    {[op |-> op, shape |-> CHOOSE s \in Shapes : TRUE] : op \in {"None", "Ack", "Clear"}}
    \cup IF gmSubmits < MaxSubmits THEN [op : {"Submit"}, shape : Shapes] ELSE {}

Tagged(s) == [m |-> s.m, n |-> s.n, k |-> s.k, flags |-> s.flags, tag |-> gmSubmits]

GmEdge(in, ready) == \E c \in Commands : GmClock(in, ready, c.op, Tagged(c.shape))

\* A word not taken, and the readiness for a word not offered, change nothing.
Offered == IF InReady THEN InputChoices ELSE {NoWord}
Readiness == IF OutValid THEN BOOLEAN ELSE {FALSE}

GmNext == \E in \in Offered, ready \in Readiness : GmEdge(in, ready)

GmSpec == GmInit /\ [][GmNext]_gmVars

\* A source that sends what the engine expects and a sink that takes it, on an
\* edge without a command: a hart does not write the register on every edge.
GoodWord == [valid |-> TRUE, keep |-> TRUE, last |-> LastExpected]
GoodEdge == GmClock(GoodWord, TRUE, "None", Tagged(CHOOSE s \in Shapes : TRUE))
GmFairSpec == GmSpec /\ WF_gmVars(GoodEdge)

-----------------------------------------------------------------------------
(* Properties. *)

(* Every result word offered is of the packet at the head, of the row its   *)
(* place in the packet says, and sums each K position exactly once, though  *)
(* the accumulators, the pipeline and the C memory are shared by the rows   *)
(* and the packets before it.  And docs/M2_ARCHITECTURE.md: after a framing *)
(* error "input is discarded through TLAST when needed": the engine is      *)
(* between two packets exactly when the source is, so the next packet       *)
(* starts with its own first word.                                          *)
GmResults ==
    /\ OutValid =>
        gmC[gmPtrs.output][gmOut] =
            [tag |-> Draining.tag, row |-> gmOut \div WordsPerRow(Draining.wide),
             sum |-> [i \in 1 .. Draining.k |-> i - 1]]
    /\ gmMid <=> gmDrop \/ gmLoad # FreshLoad

\* The words of its packet a slot has taken.
Fed(slot) ==
    LET s == gmSlots[slot] IN
    IF s.state # "Load" THEN InputWords(s.m, s.k)
    ELSE IF slot # gmPtrs.load THEN 0
    ELSE IF gmLoad.phaseB THEN s.m * Stride(s.k) + gmLoad.k * Groups + gmLoad.group
    ELSE gmLoad.row * Stride(s.k) + gmLoad.word

\* docs/M2_ARCHITECTURE.md: "the exact no-stall counter value" of a packet.
NoStallCycles(m, k, wide) ==
    ((m + PhysicalRows - 1) \div PhysicalRows) * (k + PipeDepth) + OutputWords(m, wide)

Packet(m, n, k, wide, tag) ==
    [need |-> InputWords(m, k), gives |-> OutputWords(m, wide),
     report |-> [tag |-> tag, macs |-> m * n * k, cycles |-> NoStallCycles(m, k, wide)]]

\* A slot as an entry of the queue, if it has a packet.
Entry(slot) ==
    LET s == gmSlots[slot] IN
    IF s.state = "Empty" THEN <<>>
    ELSE <<[pkt |-> Packet(s.m, s.n, s.k, s.wide, s.tag), fed |-> Fed(slot),
            sent |-> IF slot = gmPtrs.output THEN gmOut ELSE 0]>>

(* The two slots are a queue, whose head is at the output pointer.  Every   *)
(* packet is taken, computed, given and reported once, in the order of the  *)
(* submissions, with the counts the architecture document gives.            *)
Engine == INSTANCE PacketEngine WITH
    PeCapacity <- 2,
    PePackets <- {Packet(s.m, s.n, s.k, StagedWide(s), t) : s \in Shapes, t \in 0 .. MaxSubmits - 1},
    peQueue <- Entry(gmPtrs.output) \o Entry(OtherSlot(gmPtrs.output)),
    peError <- gmStatus.error, peDone <- gmStatus.done,
    peCount <- gmCount, peReport <- gmReport

GmImplementsEngine == Engine!PeSpec

(* What was accepted comes to an end, completed or dropped, if the source   *)
(* and the sink go on: no pointer waits for a slot that is not its turn.    *)
InFlight(t) == \E s \in Slots : gmSlots[s].state # "Empty" /\ gmSlots[s].tag = t
GmServes == \A t \in 0 .. MaxSubmits - 1 : InFlight(t) ~> ~InFlight(t)
=============================================================================
