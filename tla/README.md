# A TLA+ verification of PocketAI-T

PocketAI-T is a two-hart RISC-V system with an int8 matrix engine (GEMM) and a
scalar-function unit (SFPU), built as RTL for a Zynq board, with bare-metal C
firmware on the harts, a Linux kernel helper that owns the DDR pages the fabric
may touch, and Python host programs.  This directory holds TLA+ modules of its
parts, the TLC configurations that check them, and TLAPS proofs about them.
All paths below are relative to the repository root.

The project is organised around one claim, one service and one record:

* **a DDR page is never given back to the CPU while the fabric may still access
  it** (`docs/M5_ARCHITECTURE.md`).  Every layer has to do its share: the AXI
  engine drains what it has issued, the bridge and the translator lose no table
  read, the arbiter and the clients retire what they were granted, quiescence is
  reported only when all of them have, and the kernel helper waits for it;
* **what hart 0 asks of the accelerators is done once, correctly, and
  reported**: by hart 1, through the mailbox, the transfer control, the packet
  mover and the same memory fabric; or, before the harts run the model, by the
  host program through an AXI DMA;
* **what is written down as PASS was done**: the host programs save an evidence
  file whatever interrupts them, the audits accept or refuse it, and each audit
  stands on the ones before; the numbers they compare are those of an integer
  reference.

## 1. Inventory

| Part | Source | State | Operations and interactions | Hard part; what makes it correct |
|---|---|---|---|---|
| AXI burst engine | `rtl/m5/pa_m5_axi_burst.sv` | state machine, burst RAM, index, abort latch | one command at a time; AXI4 master towards DDR | abort on any clock: never idle with a response owed, no offer withdrawn, whole bursts in order |
| Page translator | `rtl/m5/pa_m5_page_translate.sv` | state machine, PTE cache | one request at a time; reads the table through the bridge; flush | the cache must be invisible; only granted accesses get an address |
| Memory bridge | `rtl/m5/pa_m5_memory_bridge.sv` | state machine, abort latch | one virtual request; drives translator and AXI engine | table words and data words share one engine: they never exchange destinations |
| Memory arbiter | `rtl/m5/pa_m5_memory_arbiter.sv` | owner, round-robin pointer, latched request | grants whole bursts; abort, drain, flush pause | nobody else's word or completion; nobody starves; drain does not depend on a client |
| Memory system | `pa_m5_memory_system.sv`, `pa_m5_obi_router.sv`, `pa_m5_obi_ddr.sv` | per core port a route and an adapter | OBI from the harts, local bus or DDR, stop and quiescence | stop, abort and reset on any clock: responses go to whom they belong; quiescence is true |
| Packet mover | `rtl/m5/pa_m5_stream_transfer.sv` | state machine, address, counters, deadline | up to three source segments into an engine, its output to DDR | page splitting, deadline, accelerator or memory fault, abort: completion means stored |
| Transfer control | `rtl/m5/pa_m5_transfer_control.sv` | staged registers, credit counters, rejection | MMIO from hart 1; start, acknowledge, abort | one credit; a refused access changes nothing |
| Accelerator system | `pa_m5_accelerator_system.sv`, `pa_m5_mmio_cancel.sv` | sticky cancel, response shells, stream route | composes control, mover and engines | access answered across a cancellation; the route is held for a packet |
| DMA helper | `zynq/m5_dma_helper/` | page frames, page table, owner, module reference | ioctls, open, release, load, unload; control and status words | a drain that times out; partial allocation; unload and reopen after it |
| Hart service | `runtime/m5/pa_m5_hw.c`, `runtime/m5_context/parallel.c`, `runtime/m5_iterate/mailbox_wait.c.inc` | shared job record, sequence numbers | hart 0 submits, hart 1 serves, both wait on the mailbox | two boots in any order, stale memory, wrap: one answer, to this call |
| Mailbox | `rtl/soc/pa_mailbox.sv` | two words, two pending levels | written by one hart, acknowledged by the other | a level is neither lost nor taken for another |
| Runtime firmware | `firmware/m5/runtime_firmware.c` | control page, committed prefix | validates a request, boots the pair, prefill, generation | what the control page says is what was done, wherever the run stopped |
| M5 host runner | `zynq/m5_run.py` | the request, expectations | loads the scratchpad, starts, polls, stops, compares | reload before every boot; timeout at any point |
| Shared local bus | `rtl/soc/pa_shared_bus.sv` | capture buffers, pipeline, pointer | five hosts, seven devices | back-to-back requests, ordering of answers, starvation |
| AXI4-Lite bridge | `rtl/soc/pa_axi_lite_bridge.sv` | state machine | the host's window onto the local bus | one access at a time, even if the host offers two |
| GEMM engine | `rtl/gemm/pa_gemm.sv` | two packet slots, operand buffers, accumulators, completion registers | stream in, stream out, MMIO | overlap of packets, a framing error that drops both slots, completion against acknowledge |
| SFPU stream engine | `rtl/sfpu/pa_sfpu.sv` | packet state, planes, route, completion | as GEMM, plus the stream route | drain after an error, completion against acknowledge |
| SFPU compute core | `rtl/sfpu/pa_sfpu_compute.sv`, `pa_sfpu_alu.sv` | iteration state | layer norm, softmax, GELU over planes | fixed-point ranges |
| Console, scratchpad | `rtl/soc/pa_console.sv` | byte FIFO, overflow, done | local-bus devices | overflow is sticky; done survives until reset |
| Model runtime and operators | `runtime/m5/`, `runtime/m5_context/` | workspace, caches | sequential integer tensor code on hart 0 | bounds, workspace rewinding, cache validity |
| M4 host driver | `zynq/m4_driver.py` | DMA session, route, counters, buffers | AXI DMA to the engines: execute, recover, close | half-failed transfers, late answers, Ctrl-C; the session and the board agree again |
| M4 offload | `zynq/m4_offload.py` | KV cache, length, failed flag | the model's steps on the driver or on the CPU, save and restore | rows written before a failure; the cache is the one of the tokens fed |
| Board programs | `zynq/m1_boot.py` ... `m5_*.py` | evidence file, what they hold of the board | load, run, compare, give back, save; one program calls or launches another | an exception, Ctrl-C or an alarm in the cleanup: no PASS for a board not given back |
| Numeric reference | `ref/` | none | rounding, operators, packets, model file and arena, forward pass | every implementation must give the same integer; nothing saturates unseen |
| Audits and collectors | `scripts/audit_m5*.py`, `collect_m5*.py`, `export_m5*.py`, `prepare_m5*.py` | evidence files, bound by digests | policy, references, campaign, audit, closure; each audit runs the earlier ones | a report that was cut short, edited or omitted is refused |
| Builders, ASIC port, tests | rest of `scripts/`, `asic/`, `tests/` | none that outlives a run | generators, expected data | read as claims, not modelled |

How they interact: hart 0 -> shared record and mailbox -> hart 1 -> local bus ->
transfer control and engine registers -> packet mover -> memory arbiter <- OBI
adapters of both harts; arbiter -> bridge -> {translator, AXI engine} -> DDR.
The kernel helper drives the whole fabric by one control word (cluster reset,
core release, mapping, abort, flush) and one status word (busy, quiesced,
poisoned, flush ready, cancelled, done).  Above it, campaign (`m5_sweep.py`) ->
trial (`m5_run.py` and its variants) -> helper; and campaign -> evidence ->
audit -> closure.

## 2. The modules

| Module | Models | Built on / relation |
|---|---|---|
| `M5Params` | burst, page and space limits and their arithmetic | |
| `AxiBurst` | the AXI engine | EXTENDS `M5Params` |
| `PageTranslate` | the translator and the host's table and mapping registers | EXTENDS `M5Params` |
| `MemoryBridge` | bridge + translator + engine, one clock | EXTENDS both; implements `MemoryPort` |
| `MemoryPort` | what the bridge promises the arbiter | abstract |
| `MemoryArbiter` | arbiter over the promised port, one clock | EXTENDS `MemoryPort` |
| `MemoryClient` | what the fabric expects of its bulk client | abstract |
| `MemorySystem` | routers, adapters, bulk client, arbiter, port | EXTENDS `MemoryArbiter`, `MemoryClient` |
| `StreamTransfer` | the packet mover | implements `MemoryClient` and `PacketMover` |
| `PacketMover` | what the mover promises the control | abstract |
| `TransferControl` | the MMIO registers of a transfer | EXTENDS `PacketMover` |
| `AcceleratorSystem` | control, mover, shells, route, cancellation | EXTENDS `TransferControl` |
| `DmaArena` | who owns the frames | abstract |
| `DmaOwner` | the kernel helper against the fabric | implements `DmaArena` |
| `HartCalls` | a call from hart 0 to hart 1 | abstract |
| `HartService` | both harts, record, mailbox, console, runner | implements `HartCalls` |
| `PacketEngine` | what a packet engine promises its driver | abstract |
| `GemmEngine` | the GEMM engine | implements `PacketEngine` |
| `SharedBus` | the local bus with its hosts and devices | |
| `AxiLiteBridge` | the host's bridge with host and bus | |
| `LocalBus` | the bridge as host 0 of the bus, one clock | EXTENDS both; implements both with their environments |
| `M4Session` | what a session with the accelerators promises the runtime | abstract |
| `M4Driver` | the DMA session, the DMA and the engines as the driver sees them | |
| `M4Offload` | the runtime with its cache, and its user | EXTENDS `M4Driver`; implements `M4Session` |
| `BoardPrograms` | every board program as its operations and its try, except, finally | |
| `BoardScript` | how a program runs: operations, exceptions, Ctrl-C, alarm, child process | EXTENDS `BoardPrograms` |
| `FixedPoint` | roundings, requantization, SFPU operators | pure |
| `SfpuPackets` | descriptors, packet words, packet files | EXTENDS `FixedPoint`, pure |
| `ModelArena` | the model's arrays, the arena, the file that fills it and its check | pure |
| `CausalModel` | the forward passes and their caches, over terms | pure |
| `NumericChecks` | facts about these four, evaluated by TLC, and the descriptors of the run `gemm_engine` | EXTENDS them and `GemmEngine` |
| `CampaignAudit` | policies, references, campaigns and what the audits accept | pure, facts evaluated by TLC |
| `EvidenceChain` | the ten closures of M5 and the audits that hold them together | EXTENDS `CampaignAudit` and `BoardScript`, whose run evaluates it |
| `MemoryBridge_proofs` | theorems about the engine and the translator, each alone, then about the bridge with both in it, and that it implements `MemoryPort` | |
| `MemorySystem_proofs` | theorems about the fabric over that port | |
| `TransferPath_proofs` | theorems about the packet mover, the contracts it implements, and the control and shells over it | |
| `LocalBus_proofs` | theorems about the local bus, the bridge, and the two together | |
| `GemmEngine_proofs` | theorems about the GEMM engine, and that it implements `PacketEngine` | |
| `DmaOwner_proofs`, `HartService_proofs` | theorems about the helper and the harts | |
| `M4Runtime_proofs` | theorems about the M4 session and runtime, and about the arithmetic | EXTENDS `M4Offload`, `FixedPoint` |
| `MC...` | the instances TLC checks, where definitions are needed | |

The chain of the memory side is closed by refinement: `MemoryBridge` (with the
real translator and engine) implements `MemoryPort`, on which `MemorySystem` is
built; `StreamTransfer` implements the `MemoryClient` that `MemorySystem` takes
for its bulk client, and the `PacketMover` that `AcceleratorSystem` is built on.
What `MemorySystem` shows about quiescence is what `DmaOwner` assumes of the
fabric, and `DmaOwner` implements `DmaArena`, the claim itself.

### How state and actions correspond to the code

*RTL.*  A variable is a register (or a record of registers) of the module, named
after it in a comment; an input that somebody else drives is a parameter of the
action or, when it must be remembered, a variable named for its driver
(`hostAbort`).  One step is one clock edge.  A state of the machine is one
action, with the priorities of the `always_ff` block as its disjuncts;
combinational outputs are state functions (`AwValid`, `ReqValid`).  Where
several machines share the clock, the step is the conjunction of one step of
each, with the wires of the enclosing module as arguments.  Address bits,
payloads and byte lanes are kept only where something depends on them.

*Kernel helper.*  Calls hold one mutex, so one call runs at a time, but the
fabric moves between its steps: a step is the code between two writes of the
control word, or one poll of the status word.

*Firmware.*  A step is one access of one hart to the shared record, the mailbox
or the console, in program order.  The hart is in-order and the code fences
around its publications, so nothing is reordered.  Writes to the control page,
which is read only after both harts have been stopped, are taken together.

*Host programs.*  In `M4Driver` a step is what the driver does between two
accesses of a device register, so that faults and late completions of the board
fall between any two of them.  In `BoardScript` a step is one operation of a
program on the board or on its evidence file; it may raise instead, with half of
it done, or be struck by `KeyboardInterrupt` or by the campaign's `SIGALRM`.
`BoardPrograms` gives each program as data: what stands before the `try`, in it,
in its `except` and in its `finally`.

*Pure code.*  The reference and the audits are operators over records and
sequences.  In `CausalModel` a value is the term that computes it, so that equal
values are equal computations.  In the audits a digest is what it digests,
wrapped: two digests agree when the contents do.

Variables marked *history* do not exist in the code; they record what the
properties compare (what was taken, granted, carried out).  They never enable or
disable an action.

## 3. The runs

Each run has a mutant per property: a mutated definition, in the module next to
the original with a comment that says what bug it stands for, under which TLC
finds the property violated.

| Run | What it asks | Bounds, and why they are enough |
|---|---|---|
| `page_translate` | `TrCorrect`: the answer is the one the table gives, cached or not | 3 pages on 2 cache lines (a collision, a survivor), 2 tables that disagree everywhere, every bad configuration and request |
| `memory_bridge` | `BrConfined`, `BrHonest`, `BrAnswers`, `BrImplementsPort`, and of the AXI engine in it `AxiDrained`, `AxiOffersStand` | 2 pages of 2 words, one cache line (every page evicts), a remap that turns a grant into a denial and back; an abort on any edge, a slave that stalls, errs or breaks the protocol |
| `memory_system` | `SysResponsesOwned`, `SysHonest`, `SysQuiescedClean`, `SysAnswers`, `SysQuiesces` | one core port and the bulk client (every pairing of a single-word and a burst client), 2-word bursts; abort, stop and flush change on any edge |
| `stream_transfer` | `StGathers`, `StImplementsClient`, `StImplementsMover`, `StSettles` | pages and bursts of 2 words, segments that start in mid-page and need 1 to 3 bursts, one invalid descriptor per rule, deadlines that end at every stage; a memory port that also breaks its protocol |
| `accelerator_system` | `AccCredit`, `AccAnswers` | one staging register of two byte lanes, one access of each kind the control tells apart, counters modulo 3 so that they wrap and two commands are told from none |
| `dma_owner` | `DmaTablesAgree`, `DmaCoherent`, `DmaResetsDrained`, `DmaFailsClosed`, `DmaImplementsArena` | 3 pages and 3 frames: a region fails after its first page beside one that is there |
| `gemm_engine` | `GmResults`, `GmImplementsEngine`, `GmServes`; and the facts of `NumericChecks` | 3 submissions for 2 slots (a slot is used again), a wide packet of two row groups with a short last one and a row of A in two words, a narrow packet of one row, a descriptor refused for each reason; 3 pipeline stages instead of 6 and 2 words of B for a K instead of 4, so that a packet is still longer than the pipeline |
| `hart_service` | `HsReport`, `HsImplementsCalls`, `HsFinishes` | 3 kinds of job, sequence numbers modulo 3 and 4 calls (past the wrap), a context of 3 positions with prompts and generations of one or two tokens, of which one request is too long; run after run, stopped anywhere |
| `local_bus` | `SbIssuesHeld`, `SbAnswersInOrder`, `SbNoStarvation`, `AlExchange`, `LbComposes` | the bridge and 3 other hosts, one device and an unmapped address; the bus's own properties are proved for any number of hosts and devices |
| `axi_lite_concurrent` | `AlOneOutstanding`, expected to be violated (section 6) | 2 addresses, 2 words: enough to tell requests apart |
| `m4_session` | `DrvInStep`, `RtCacheSound`, `DrvBuffersQuiet`, `DrvImplementsSession` | one fault (a transfer, a reset or a packet that fails or never ends) and any delay; 3 positions in blocks of one; two calls of the user, so that a prompt meets a failed step, a restore or the other backend, and mending and closing at any time besides; a third call multiplies the states by ten and was checked once |
| `board_programs` | `BoardEvidence`, `BoardMemory`; and the facts of `CampaignAudit` and `EvidenceChain` | every program, on every board an earlier one may leave; 3 rounds of its loop (a first, a last and one between), one Ctrl-C beside the alarm and any number of failures |

`LbComposes` states that `LocalBus` is a behaviour of `SharedBus` and of
`AxiLiteBridge` with the environment each was written for: what the runs and the
theorems show of either by itself holds of the two together.

Deadlock is checked everywhere but in `dma_owner` (a device whose file was
closed without a drain is, by the helper's contract, out of use for good) and in
`m4_session` (a program that has used its calls and closed has ended).

Bounds that are guards of the models: `MaxAwaited` (answers a host of the bus
may wait for), `MaxCalls` (calls of one run), `MaxSubmits` (submissions to the GEMM
engine, each with a tag of its own), `MaxFaults` and `MaxOps` (faults of the board
and calls of the user of a session), `Counts` (the engines' completion counters
wrap), `Rounds` and `MaxInterrupts` (board programs).  Everything else is bounded by the
code's own limits, given small values.

### Fairness

* `BrFairSpec`: the clock ticks, and the AXI slave (the hardened DDR controller)
  eventually accepts what is offered and answers what it owes, unless it has
  broken the protocol, after which the engine is poisoned by design.
* `SysFairSpec`: the clock ticks, the port below answers (which is what
  `BrAnswers` shows of it), local targets answer.  The harts get no fairness:
  nothing may depend on a hart taking part.
* `StFairSpec`: the clock ticks and the memory answers (`SysAnswers`).  The
  accelerator gets none: the deadline must do.
* `GmFairSpec`: edges come, again and again, on which the source offers the word
  the engine expects, the sink takes one, and no command is written.  Source and
  sink are the packet mover, which sends what the descriptor counts and takes what
  it was promised; the hart does not write the command register on every edge, and
  nothing depends on its clearing the engine.
* `HsSpec`: each hart takes its next step, because it is clocked and the local
  bus does not starve it (`SbNoStarvation`); `execute` ends because the mover
  settles (`StSettles`).  The runner gets none.
* `Spec` of `M4Offload`: the interpreter goes on, in the driver and in the
  runtime.  The board gets none: a DMA or an engine that never answers is met by
  the driver's timeouts, which is what `M4Session`'s liveness asks.

### Facts about the pure modules

TLC evaluates each as a named `ASSUME`; none is a hypothesis of a proof.  Where
the ranges of the source do not fit, they are scaled and the comment says how
(31-bit multipliers to 6 bits; in the audits a second to a hundred units and a
fabric cycle to two of them).

* *One arithmetic, several implementations.*  `RoundingsAgree`, `BridgesAgree`,
  `CenteringIsInvisible`, `NormCarriesGain`, `GemmPacketsAgree`,
  `LinearIsItsPackets`: the shift of the vectorised reference, the host's own
  reduction, the packers and the packet path compute what the operators define.
* *Nothing saturates unseen.*  `AffineMetadataFits`, `ResidualsFit`,
  `AccumulatorsHold`, `SoftmaxKeepsMass`, `SoftmaxKeepsOrder`, `GeluIsOdd`,
  `NormIsCentred`, `StaticUsesRange`.
* *Layouts.*  `SfpuPacketsHold`, `FilesReadWhole`, `PatchKeepsTheRest`,
  `ArenaIsSound`, `HeaderIsSound`, `PackIsPlaced`, `TilesKeepColumns`: at the
  source's own numbers, regions tile the arena, arrays do not overlap, what the
  fabric writes has unmapped pages on both sides; `VerifyIsExact`: the check of a
  file accepts that file and no other (exhaustively, on a file of ten bytes).
* *The cache.*  `CachedIsWhole`, `GenerateIsPrefill`: however a prompt is cut, the
  rows computed on a cache, and the cache left, are those of the whole prompt.
* *Campaigns.*  `SweepRequiredFit`, `SweepCloses`, `SweepFailureStays`,
  `StartupFits`, `FailureIsNotSuccess`, `ContextGoalHolds`, `NoAverageWaiver`: an
  honest campaign closes, one that failed or was cut short does not, no average
  hides a slow repetition.  `SweepRefusesForgery`, `StartupRefusesForgery`,
  `StageRefusesOthers`, `HardwareGates`: of a list of single changes to accepted
  evidence, none is accepted.  `ParserAgrees`, `DetailsAgree`,
  `ContinuationComplete`: what the runner lets through the audit accepts.
* *The chain.*  `ChainCloses`, `ChangeNoticed`, `AdditionNoticed`,
  `NoGainNotRetained`, `FalsifiedNotCollected`, `EvidenceStays`,
  `NoCampaignOmitted`, and the one gap, `FirstLinkOpen` (section 6).

## 4. The properties, and what they are for

The list of hazards in `PROJECT.json` names the source line at which each
hazard bites and the properties that cover it.  In short:

* *Abort at any clock.*  `AxiDrained`, `AxiOffersStand`, `SysQuiescedClean`,
  `StImplementsClient`: every layer keeps the obligations it had when the abort
  came.  On the host, `DrvBuffersQuiet` and `BoardEvidence` for Ctrl-C and the
  alarm.
* *Two users of one resource.*  `BrHonest`/`BrConfined` (table walk and data on
  one engine), `SysResponsesOwned` (clients on one port), `AccCredit` (engines on
  one stream), `SbAnswersInOrder` (hosts on one bus), `GmResults` (packets and row
  groups on one set of accumulators).
* *Stale state.*  `TrCorrect` (cached entries), `BrHonest` (words of an earlier
  burst in the RAM), `DmaCoherent` (CPU caches), `HsFinishes` (the record of an
  earlier run in the scratchpad), `SbIssuesHeld` (a captured request),
  `GmImplementsEngine` (the rest of a broken frame), `RtCacheSound` (rows of a
  step that failed), `BoardMemory` (the arena of an earlier trial).
* *Success must be true.*  `BrHonest`, `SysHonest`, `StGathers`,
  `AccCredit`, `GmImplementsEngine`, `HsReport`, `HsImplementsCalls`,
  `DrvImplementsSession`, `BoardEvidence`: a completion, a credit, a status or a
  PASS is given only for work that was done, for this very request.
* *Partial failure.*  `DmaTablesAgree` (an allocation that fails half-way),
  `DmaFailsClosed` (a drain that never ends), `GmImplementsEngine` (a framing error
  drops all packets in flight and reports none), `DrvInStep` (a session mended
  after a transfer that failed), `BoardEvidence` (a cleanup that fails).
* *Something must happen.*  `BrAnswers`, `SysAnswers`, `SysQuiesces`,
  `StSettles`, `GmServes`, `SbNoStarvation` (as a bound, so it is a safety property and can
  be proved), `HsFinishes`, `DrvImplementsSession`.

`BoardEvidence` has one exemption, `Unrecorded`: when a release fails and a
second strike hits the very clause that would record it, the file keeps what it
said.  Section 6 names where the code leaves that window open.

## 5. What is proved, and how

The theorems hold for every value of the constants that satisfies the named
`ASSUME`s, which TLC evaluates in the runs.  What they assume:

* `M5Assumption`: the sizes are naturals, pages are a positive multiple of four
  bytes, the arena lies in the address space (`pa_m5_pkg.sv`).
* `TrAssumption`, `TableAssumption`: requests and mapping registers are made of
  naturals, and a mapped table has an entry for every page of the mapping, as the
  kernel helper allocates it.
* `SbAssumption`, `NClientsAssumption`: there is a host, a client; "nothing" is not
  a device.
* `SysAssumption`: the fabric's requests are those of its own adapters and bulk
  client, and no fault code is 0.
* `StAssumption`: there is a command, and the fields of commands are naturals (they
  are 32-bit words; the descriptor checks are the code's).
* `TcAssumption`, `AccAssumption`: the counters count to two at least (the code has
  2^32), the names of the staging registers are not those of the other registers, and
  write-enable and alignment of an access are bits.
* `GmAssumption`: the largest dimensions and the number of submissions are naturals;
  the rows computed together, K positions per word, groups, words per row and stages of
  the pipeline are positive, as the parameters of `pa_gemm.sv` are.
* `HsAssumption`: at least three sequence numbers (the code has 2^32), kinds of jobs
  are disjoint.
* `CountsAssumption`, `ContextAssumption`, `ProgramAssumption`: the engines count to
  two at least, the cache has room for a block, and the programs use the vocabulary
  (the last is explained with its theorems).
* `DynamicAssumption`: 2^24 is the one of the format.

Each component's safety follows from one inductive invariant, a conjunction of
named parts; an invariant was first checked by TLC on the run's instance.  In
short, what each had to add to the property, and why:

**`MemoryBridge_proofs`**, the AXI engine: for every longest burst, page size, space, set of words
and every slave.  The type is not inductive by itself: that `index_q` stays in the
RAM depends on the command having passed the length check.  `BurstInv` (the
invariant, over the words the slave may return) says where the index stands, what
is owed in which state, and that the buffer holds the words of this burst and no
others.  From it `AxiTypeCorrect`, `AxiDrainedCorrect`, `AxiStreamCorrect` (the
beats of a write are the client's words in order, a read hands on its words in
order, all of them having arrived without an error) and the action property
`AxiOffersStandCorrect`.

**`MemoryBridge_proofs`**, the page translator: for any page size, arena, number of cache lines,
tables and mapping registers.  `TrInv` says that outside a flush every valid line
agrees with the table of the moment, that table and registers change only around a
flush, and that a walk in progress is the one of the latched request; with it
`TrCorrectAlways`.  The work is in the arithmetic: a burst stays in its page
exactly if its bytes have one quotient (`OneQuotient`, `BytesInPage`), it is inside
the mapping exactly if the first address and the end are (`BytesInside`), so the
comparisons of the RTL are the quantified `TrLegal`; and a page's cache line has the
tag of that page alone.

**`MemoryBridge_proofs`**, the bridge, puts the two together: `BrInv` has both invariants and
says that the engine runs the walk or the burst the bridge waits for, that what
was granted is still granted when the burst runs (a flush waits for a bridge that
is not busy), and what was exchanged so far.  `BrConfinedCorrect`: every burst on
the bus is one word of the page table, or the client's whole request where and as
the table allows it.  `BrHonestCorrect`: fault 0 only if every word went where the
tables say.  `GrantedCommand` shows that the engine has nothing to object to in an
address a table grants, so that an engine error is one of DDR.  `BrDrained`,
`BrOffersStand`: the engine's properties still hold when the bridge drives it.
`BrPort`: the refinement of `MemoryPort`, one lemma per state of the bridge, each
step of bridge, translator and engine together being one of the port's or a
stutter.

**`MemorySystem_proofs`** continues above that port, for any number of core ports
and bulk bursts of any length; the run has one core port.  `FabricInv` keeps the
router, the adapter, the bulk client, the arbiter and the port in step with the one
request that is served.  The proof goes through what an edge of the arbiter and the
port together can be (`ArbEdge`: a grant, work for the owner, a completion, or
rest), what a client sees of it (`EdgeSeen`), and one edge of an adapter, a router
and the bulk client each; `SelectedIsValid` shows that the round-robin choice exists
for any number of clients.  `Carried` follows success on its way from the port
through the arbiter to the router of the owner, and `Awaited` says that a running
hart awaits exactly what its router works on; the latter holds over a core reset
because the host releases the harts only when nothing is busy.  From these
`SysResponsesOwnedCorrect`, `SysHonestCorrect`, `SysQuiescedCleanCorrect`.

**`TransferPath_proofs`** goes from there to hart 1.  First the packet mover on its
own, for any commands, page size (a multiple of four bytes), longest burst and largest
packet, with an accelerator and a memory port that behave as they like within the
port's protocol, or outside it when `Unruly`.  What one clock edge can do is first cut
down to eleven kinds of edge (`MoverEdgeKinds`: accept, rest, halt, judge, prepare, issue,
a beat of data, finish, a finished read or write burst), each with exactly the registers
it writes; everything else is argued over these.  `StInv` has the pointers at what
remains of one segment (`Within`, `Pointed`), the counters of words at the sum of what
lies before it, the burst inside the segment, the longest burst and the page (`Bursts`,
which rests on `BurstFits`: addresses and pages are multiples of four, so the page has
room for a whole word), the beats of a write equal to the words the port moved
(`PortInStep`), and what was fed equal to a beginning of the concatenated source words
(`Fed`, with `SourceAt` for the n-th word of the concatenation).  The descriptor checks
are needed: without "no gap in the sources" the last segment would not end the packet.
From it `StGathersCorrect`, and the two refinements step by step: `StClient` (the
`MemoryClient` of `MemorySystem`) and `StMover` (the `PacketMover` of
`AcceleratorSystem`).  Then the control and the shells over that contract:
`AccInv` says where the two counters stand in each state of the mover (`Credit`), that
the route taken stands while the mover is busy, and what a shell remembers of the access
it passed on; from it `AccCreditCorrect` and `AccAnswersCorrect`, for any size of the
counters, staging registers, accesses and commands.

**`GemmEngine_proofs`**: for any largest dimensions, rows computed together, groups, K
positions per word, pipeline depth, shapes and number of submissions (the run has small
matrices and a pipeline of its own length).  `GmInv` has eight parts.  `GmPointers` is the one the others
lean on: each of the pointers of load, compute and output stands past as many packets
from the head as have got so far, so the two slots are a queue although each is driven
by three machines at once; `SlotStep` shows that an edge gives a slot at most one of
the assignments the `always_ff` block can make.  `GmBusy` says that the engine works on
the slot at the compute pointer and on none when idle, `GmPackets` that captured sizes,
products and cycles are those of the submission, `GmLoading` that the load counters lie
in the matrix being loaded and that nothing is loaded while a broken frame is dropped,
`GmOutput` where the words sent stand.  `GmSums` is about time: after t cycles of a
row group, stage i of the pipeline holds the read of i cycles ago and the
accumulators the positions below t less the depth of the pipeline (`First`), in order
and each once, and the cycle counter is the closed form at that point.  `GmMemory` says
that the words packed so far carry the elements of their places, and that work on the
other slot does not disturb them.  From these `GmResultsCorrect`.  That a packet takes
exactly `NoStallCycles` (`FinishCycles`) is proved for every shape: once started the
engine waits for nothing.  `GmRefinesPacketEngine` is the refinement of `PacketEngine`: `FedStep` shows that the
words taken, a sum over the load counters of three matrices, grow by one with every
accepted word, `QueueTakes` and `QueueAfter` that submission, completion and delivery
on the same edge are what the queue allows together, `EdgeDrops` that a broken frame
or a clear empties it and still reports a packet that ends on the same edge.

**`DmaOwner_proofs`**: for any number of pages and any frames, everything the
run `dma_owner` checks, and the type invariant `DmaTypeCorrect`:
`DmaTablesAgreeCorrect`, `DmaCoherentCorrect`, `DmaResetsDrainedCorrect`,
`DmaFailsClosedCorrect`, and the refinement `DmaRefinesArena`.  The invariant
`IInv` adds four parts: the pages behind the allocation loop have frames and
those ahead have none (`RegionInv`); which steps of a call run under which
owner, and that the module's reference is held exactly while the owner is not
the CPU (`PhaseInv`); that an unpoisoned fabric knows all its transfers, and that
under the CPU there is none (`DrainInv`); what may be dirty and stale under
either owner (`CacheInv`).  `DrainInv` is where quiescence is used: it turns "the
fabric reports nothing outstanding" into "nothing is in flight", which the reset
of `START`, the return of the pages and the refinement all rest on.

**`LocalBus_proofs`**: of the bus, for any number of hosts and devices,
`SbIssuesHeldCorrect`, `SbAnswersInOrderCorrect`, `SbNoStarvationCorrect`.  `SbInv`
says that a captured request is still what its host asks for, that the re-arm guard
is up for exactly the host being granted, where the pointer stands after an issue,
that the response stage and the devices agree, and that what has passed a waiting
host plus its distance from the pointer is at most the number of hosts.  The last is
the starvation argument: each issue to another host either uses up one of the places
between the pointer and the waiting host, or was already in the pipeline.  Of the
bridge, `AlExchangeCorrect` for either kind of host, and
`AlOneOutstandingCorrect` for a host with one access in progress at a time: the very
property that run `axi_lite_concurrent` finds violated for the others.
`LbComposition`: the bridge on the bus is one of the hosts the bus allows, and the
bus the one the bridge allows, so (`LbKeepsBoth`) all of these hold of the two
together.

**`HartService_proofs`**: for any jobs, any size of the sequence numbers from three
on, any context and any number of calls.  `HsInv` gives the stations of a call
(`Asked`, `Taken`, `Completed`, `Returned`) and says at which of them hart 1 is when
hart 0 stands at a given instruction; `Boots` that hart 1 does not pass the magic
word before hart 0 has written it; `Counts` and `Generates` tie the control page to
the calls made.  From it `HsReportCorrect`: the control page tells the truth wherever
the harts are stopped; and `HsCallsCorrect`: the two programs implement `HartCalls`,
where a call is served exactly once, on the job it was made for, and returns how it
went.  Three sequence numbers are needed because 0 is skipped and two successive
calls must differ.

**`M4Runtime_proofs`**, the session and the cache: for any vocabulary, capacity,
block of the prefill, jobs, number of operations and number of faults.  `DrvInv` is
about the driver and the board.  `DrvAtRest` is what a session between two packets
rests on: channels idle, both engines at rest, their completion counters and the
route those the driver remembers.  It is not inductive by itself, for a packet
breaks and restores it and so does a failure: `DrvInMotion` says what is true while
a packet moves (only its own engine moves, that one holds this packet or nothing,
and once the receive channel is idle the packet has been processed and delivered),
`DrvControl` which calls a failed, interrupted or closed session can be in, and
`DrvResets` what a recovery has halted or restarted so far.  `DrvTiles` carries the
tiles already returned.
`RtInv` is about the runtime: `RtCache` (the cells within the length are those of
the tokens fed) needs `RtRows`, that the rows beyond the length are already those of
the step in progress when the length grows over them, `RtRoom`, that prompt and
count fit the capacity at every point of a generation, and `RtSaved` for the
snapshots; `RtCalls` says that a step that waits, waits for the request it made.
From `M4Invariant`: `DrvInStepCorrect`, `RtCacheSoundCorrect`,
`DrvBuffersQuietCorrect` (a property of steps), and `DrvSession`, the safety of
`DrvImplementsSession`: every step of driver, board, runtime and program is a step
of `M4Session` or a stutter.
`ProgramAssumption` is what these rest on besides the capacity.  The tokens of the
programs and what `argmax` returns are tokens of the vocabulary, a prompt is not empty
and at least one token is asked for (`generate` and `step` refuse the others,
`zynq/m4_offload.py:273, 323, 331`); the rest of it tells the model's own values apart (a
request from the marks for no request, an error and a stale buffer).

**`M4Runtime_proofs`**, the arithmetic: for every integer, vector and scale in the
source's ranges (not the small ranges of `NumericChecks`),

* `RneNearest`, `RneTiesToEven`, `RneOdd`, `RneMonotone`: the one rounding of the
  system is to the nearest integer, ties to even, symmetric and monotone.
* `RuntimeMultiplierAgrees`: the quotient the host builds with `divmod` is the
  reference's.
* `DynamicBound`, `RequantNeverSaturates`, `BatchedIsRequant`: with the dynamic
  multiplier the clamps of REQUANT8 and AFFINE never act, which is the comment's
  "proven int8 bound" (`zynq/m4_offload.py`) and why the batched bridge may use
  AFFINE in place of REQUANT8.  The argument: the multiplier is the nearest integer
  to 127 * 2^24 / a, so a value of magnitude at most a times it is within a/2 of
  127 * 2^24 in magnitude, less than half a unit over, and rounds to at most 127.
* `ResidualNeverClamps`: under the exponent of `storage_exponent`, the headroom
  pays for the three roundings and no clamp of the sum acts.  The provers know no
  powers of two; that the two powers are positive naturals is a hypothesis.

**Only model-checked.**  Liveness (`BrAnswers`, `SysAnswers`, `SysQuiesces`,
`StSettles`, `GmServes`, `HsFinishes`, the fairness of `DrvImplementsSession`) and
everything with `ENABLED` are outside what the prover handles.  What `BoardScript` says (`BoardEvidence`,
`BoardMemory`) is not proved either.  The programs are data, lists of operations, and
an inductive invariant is an annotation of every position of every list with the board
as it may be there; a loop is its steps repeated `Rounds` times (`FlattenSeq`), and
which operation stands at a position for any number of rounds is itself an induction.
The constants bound only these rounds and the interrupts; the run goes through every
program and every position.  What
recursive definitions compute on all inputs would need induction over data, which
the prover does not offer.

## 6. Where the code and its documentation disagree

`axi_lite_concurrent`: `rtl/soc/pa_axi_lite_bridge.sv` promises at most one
outstanding transaction, and that a read is not accepted while a write is in
flight.  In its idle state it raises `awready` and `arready` together.  A host
that offers a write address and a read address on the same edge has both
accepted; the bridge carries out the write, and the read is never answered.
With a host that has one access in progress at a time (the processing system's
port as the Python drivers use it) the exchange is right: `AlExchange` in run
`local_bus`.

Smaller observations, which the models follow and no run is about:

* `zynq/m4_benchmark.py:365` catches `Exception` alone, so Ctrl-C during
  `hardware.close()` leaves the PASS saved though the DMA was not released, which
  `m4_cold_start.py:179` reads as success.  More generally, a second strike inside
  an `except` that was recording a failed release leaves the PASS of before
  (`Unrecorded`).
* `zynq/m5_run.py:401`: an exception after the status was set leaves PASS beside
  an `error` key.
* `zynq/m5_sweep.py`: Ctrl-C or the alarm at the entry of `finally` skips the
  release; the kernel helper's release of the closed file then acts.  The alarm of
  `m5_fast_complete.py` can strike inside the `finally` of the runner it calls.
* `ref/sfpu_ref.py:143` says that each softmax entry differs from its exact value by
  less than one unit: an entry that was exact and receives the correction differs
  by exactly one (`SoftmaxKeepsMass` states at most one).
* The sweep and the context collectors write their evidence over what is there,
  and before they run the earlier audits; the others refuse an existing file.
  The audits of M5 and of `opt` do not list the tree again, and `opt` records no
  digest of M5's evidence (`FirstLinkOpen`), so a file nobody recorded, or another
  acceptable M5 evidence, goes unnoticed there.
* The bounds of all trials of the sweep exceed the measuring window; the required
  ones come first and fit with up to 1449 s of provisioning (`SweepRequiredFit`).

## 7. What is not modelled, and why

* *Data.*  Payloads, addresses and tensors are model values or small sets.  What
  the arithmetic of the engines has to give is `FixedPoint`; the C operators are
  sequential integer code that the repository compares bit for bit with it.
* *The engines in `AcceleratorSystem`* appear as what the composition needs: they
  answer in one cycle and hold the route.  `GemmEngine` models the packet pipeline
  of the one by itself; of the SFPU only what its driver sees is modelled
  (`M4Driver`).
* *In `GemmEngine`*: which K positions reach which sum is kept, the products and
  their saturation are not; the operand memories are not variables, since the load
  counters name the place of every word and a slot is written only in its `Load`
  state; a submission finds any descriptor in the staging registers; register reads
  and the interrupt enable are left out.  After a clear the source is taken to
  start a new frame, because the driver resets the DMA first (the comment at
  `pa_gemm.sv:781`).
* *Ibex* is not in the repository; the harts are environments of the fabric, and
  programs in `HartService`.  The patched load-store unit of
  `rtl/m5/lsu_patch` is outside the scope for the same reason.
* *Clocks, resets inside a clock cycle, metastability, and the tools' pragmas.*
  The design has one clock.
* *mmap and page permissions in the helper*: while the device owns the pages the
  runner could still write through its mapping; the runner does not, and the
  helper cannot prevent it.
* *In `M4Driver` and `M4Offload`*: a tensor is the sequence of tokens it was
  computed from, a packet the request it was packed for; report counters and
  timings are left out.
* *In `BoardScript`*: of a comparison only that it was made; measurements and the
  fields of the reports are the audits' matter.
* *In the audits*: probes and precision screens, the counters inside a phase,
  router and reset reviews, CSV files and tables, medians and deviations, ISA
  attributes, the numerical foundation and allocation reports of M5; a time is a
  number of hundredths.  The audits of M1 to M4, which read logs of finished work.
* *In the reference*: calibration, tokenizer, floating-point values, the tables of
  the transcendental functions (an operator takes its table).
* *Context caches and firmware variants*: incremental caches with validity tags in
  C, and speed rewrites that must return the same integers.
* *Build scripts, source generators, figures, ASIC port, tests*: no
  state that outlives a run; their claims are what the models are held against.
* *`memory_system` has one core port* beside the bulk client; the four ports of
  the cluster differ in nothing but their index.  Its safety is proved for any
  number; fairness among more clients is by the same pointer as that of the bus,
  for which `SbNoStarvationCorrect` gives the bound.

## 8. Plan

Done: the memory fabric from the AXI bus to the OBI ports and the packet mover,
the transfer control, the kernel helper, the local bus composed with the host
bridge, the hart service with the firmware's run, the GEMM engine, the M4 session
and runtime, the board programs, the numeric reference and the campaign audits;
theorems about the memory side from the AXI engine to the routers of the harts,
the packet mover and the control of its one credit, the kernel
helper, the local bus, the hart service, the GEMM engine, the M4 session and runtime,
and the fixed-point arithmetic.

Next, in this order:

1. Theorems: `BoardEvidence` and `BoardMemory` of the board programs, for any number of
   rounds and interrupts, over programs whose loops are positions of a control flow
   instead of repeated lists.
2. `SfpuEngine`: packet, drain, route and completion of `pa_sfpu.sv` by the clock,
   held against `PacketEngine` where it makes the same promise.
3. The incremental caches of `runtime/m5_context` and the workspace of
   `runtime/m5/pa_m5_ops.c`.
