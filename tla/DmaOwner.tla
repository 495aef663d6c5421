------------------------------ MODULE DmaOwner ------------------------------
(***************************************************************************)
(* zynq/m5_dma_helper/pa_m5_dma.c: the kernel module that owns the page    *)
(* frames of the DDR arena, their mappings, and the supervisor's control   *)
(* word.  Calls hold pa_m5_lock, so one runs at a time, but the fabric     *)
(* runs on between its steps: a step is the code between two writes of the *)
(* control word, or one poll of the status word.                           *)
(*                                                                         *)
(* Of the fabric this module keeps what the control word does to it        *)
(* (pa_cluster_m5_board.v, pa_m5_cluster_top.sv) and what MemorySystem     *)
(* shows of it: cancelled, it issues nothing new, and it reports           *)
(* quiescence only once what it issued is done.                            *)
(***************************************************************************)
EXTENDS Naturals, FiniteSets, Functions

CONSTANTS
    PageCount, \* PA_M5_PAGE_COUNT: pages of the arena
    Frames,    \* the kernel's page frames
    NoFrame    \* an arena page without one

ASSUME DmaAssumption == PageCount \in Nat /\ NoFrame \notin Frames

Pages == 0 .. PageCount - 1

VARIABLES
    owner,     \* pa_m5.owner
    pages,     \* pa_m5.pages: the frame mapped for each page
    ptes,      \* pa_m5.ptes: the frame each entry of the page table names
    allocated, \* pa_m5.allocated_pages
    unsafeRef, \* pa_m5.unsafe_ref: a reference to the module itself
    opened, loaded, \* pa_m5_opened; the module is loaded
    call, step,     \* the call that holds the lock, and where it stands
    region,    \* the region ALLOC_REGION works on: [first, count, done]
    taken,     \* the frames the kernel has handed out
    control,   \* control_regs, as the set of its bits that are one
    live,      \* harts or mover may still issue transfers
    cancelled, poisoned, \* transfer_cancel_o, memory_poisoned_o
    outstanding, \* frames of the transfers the fabric knows it issued
    inFlight,    \* frames of the transfers on the bus, which no reset recalls
    dirty, stale \* frames with data only in, or out of date in, the CPU's caches

helper == <<owner, pages, ptes, allocated, unsafeRef, opened, loaded, region, taken>>
fabric == <<control, live, cancelled, poisoned, outstanding, inFlight>>
caches == <<dirty, stale>>
vars == <<helper, call, step, fabric, caches>>

Owners == {"CPU", "DEVICE", "UNSAFE"}
Bits == {"Cluster", "Core", "Map", "Flush", "Abort"}
NoRegion == [first |-> 0, count |-> 0, done |-> 0]
Unmapped == [p \in Pages |-> NoFrame]

HelperReset ==
    /\ owner = "CPU" /\ pages = Unmapped /\ ptes = Unmapped /\ allocated = 0
    /\ unsafeRef = FALSE /\ opened = FALSE

DmaInit ==
    /\ HelperReset /\ loaded = FALSE
    /\ call = "None" /\ step = "None" /\ region = NoRegion /\ taken = {}
    /\ control = {} /\ live = FALSE /\ cancelled = FALSE /\ poisoned = FALSE
    /\ outstanding = {} /\ inFlight = {} /\ dirty = {} /\ stale = {}

Mapped == Range(pages) \ {NoFrame}

-----------------------------------------------------------------------------
(* The fabric and the CPU's caches. *)

\* The control word is written: reset, cancellation and release of the harts.
SetControl(bits) ==
    /\ control' = bits
    /\ IF "Cluster" \notin bits
       THEN /\ live' = FALSE /\ cancelled' = FALSE /\ poisoned' = FALSE /\ outstanding' = {}
       ELSE /\ cancelled' = (cancelled \/ "Abort" \in bits)
            /\ live' = ((live \/ "Core" \in bits) /\ ~cancelled')
            /\ UNCHANGED <<poisoned, outstanding>>
    /\ UNCHANGED inFlight

\* A hart or the mover starts a transfer; one is in flight at a time.
FabricIssues ==
    /\ live /\ "Map" \in control /\ ~poisoned /\ outstanding = {}
    /\ \E f \in Range(ptes) \ {NoFrame} :
        outstanding' = {f} /\ inFlight' = inFlight \cup {f}
    /\ UNCHANGED <<control, live, cancelled, poisoned, helper, call, step, caches>>

\* The memory completes a transfer, which may have written the frame.
BusCompletes ==
    \E f \in inFlight :
        /\ inFlight' = inFlight \ {f}
        /\ outstanding' = IF poisoned THEN outstanding ELSE outstanding \ {f}
        /\ stale' \in {stale, stale \cup {f}}
        /\ UNCHANGED <<control, live, cancelled, poisoned, dirty, helper, call, step>>

\* A fatal fault stops the fabric, or a broken bus protocol poisons it.
FabricFails ==
    /\ outstanding # {} /\ ~poisoned
    /\ cancelled' = TRUE /\ live' = FALSE /\ poisoned' \in BOOLEAN
    /\ UNCHANGED <<control, outstanding, inFlight, helper, call, step, caches>>

Busy == outstanding # {} \/ live
Quiesced == cancelled /\ ~Busy /\ ~poisoned
FlushReady == "Flush" \in control /\ ~Busy /\ ~poisoned

Idle == call = "None"

\* The runner writes a frame of the arena.  It does so only in its own phase.
CpuWrites ==
    /\ Idle /\ opened /\ owner = "CPU"
    /\ \E f \in Mapped : dirty' = dirty \cup {f}
    /\ UNCHANGED <<stale, helper, call, step, fabric>>

-----------------------------------------------------------------------------
(* Helpers of the calls. *)

Enter(c, s) == Idle /\ opened /\ call' = c /\ step' = s
Goto(s) == step' = s /\ UNCHANGED call
Leave == call' = "None" /\ step' = "None"

(* Mutation: a wait that times out is taken for one that succeeded. *)
WaitIgnored(good, next) == Goto(next)

\* pa_m5_wait_status: goes on once the status is good, gives up while it is not.
WaitStatus(good, next) == IF good THEN Goto(next) ELSE step' = "TimedOut" /\ UNCHANGED call

\* A timeout ends an ioctl; release goes on to see what it may free.
TimedOut ==
    /\ step = "TimedOut"
    /\ IF call = "Release" THEN Goto("Free") ELSE Leave
    /\ UNCHANGED <<helper, fabric, caches>>

-----------------------------------------------------------------------------
(* PREPARE: a reset, released with the abort up. *)

(* Mutation: PREPARE resets the fabric whoever owns the memory. *)
MayPrepareAlways == TRUE

MayPrepare == owner = "CPU"

Prepare ==
    /\ MayPrepare /\ Enter("Prepare", "Reset")
    /\ UNCHANGED <<helper, fabric, caches>>

PrepareResets ==
    /\ step = "Reset" /\ SetControl({"Abort"}) /\ Goto("Release")
    /\ UNCHANGED <<helper, caches>>

PrepareReleases ==
    /\ step = "Release" /\ SetControl({"Abort", "Cluster"}) /\ Goto("PrepareWait")
    /\ UNCHANGED <<helper, caches>>

PrepareWaits ==
    /\ step = "PrepareWait"
    /\ WaitStatus(Quiesced, IF call = "Start" THEN "Give" ELSE "Done")
    /\ UNCHANGED <<helper, fabric, caches>>

-----------------------------------------------------------------------------
(* START: the memory is given to the fabric, then the harts are released. *)

Start ==
    /\ owner = "CPU" /\ allocated > 0 /\ Enter("Start", "Reset")
    /\ UNCHANGED <<helper, fabric, caches>>

(* Mutation: START does not write the CPU's caches back. *)
NothingCleaned == dirty

\* What is left in the caches by pa_m5_sync_for_device_locked.
Cleaned == dirty \ Mapped

StartGives ==
    /\ step = "Give"
    /\ dirty' = Cleaned
    /\ owner' = "DEVICE" /\ unsafeRef' = TRUE
    /\ Goto("StartReset")
    /\ UNCHANGED <<stale, pages, ptes, allocated, opened, loaded, region, taken, fabric>>

StartControl ==
    /\ \/ step = "StartReset" /\ SetControl({"Map"}) /\ Goto("StartFlush")
       \/ step = "StartFlush" /\ SetControl({"Cluster", "Map", "Flush"}) /\ Goto("StartWait")
       \/ step = "StartMap" /\ SetControl({"Cluster", "Map"}) /\ Goto("StartCores")
       \/ step = "StartCores" /\ SetControl({"Cluster", "Core", "Map"}) /\ Goto("Done")
    /\ UNCHANGED <<helper, caches>>

StartWaits ==
    /\ step = "StartWait" /\ WaitStatus(FlushReady, "StartMap")
    /\ UNCHANGED <<helper, fabric, caches>>

-----------------------------------------------------------------------------
(* RETURN_CPU: cancel, drain, take the memory back. *)

\* It returns 0 at once when the CPU is the owner.
ReturnCpu ==
    /\ owner # "CPU" /\ Enter("Return", "Cancel")
    /\ UNCHANGED <<helper, fabric, caches>>

ReturnCancels ==
    /\ step = "Cancel"
    /\ owner' = "UNSAFE" /\ SetControl({"Cluster", "Map", "Abort"}) /\ Goto("ReturnWait")
    /\ UNCHANGED <<pages, ptes, allocated, unsafeRef, opened, loaded, region, taken, caches>>

ReturnWaits ==
    /\ step = "ReturnWait" /\ WaitStatus(Quiesced, "Unmap")
    /\ UNCHANGED <<helper, fabric, caches>>

ReturnUnmaps ==
    /\ step = "Unmap" /\ SetControl({"Cluster", "Abort"}) /\ Goto("TakeBack")
    /\ UNCHANGED <<helper, caches>>

ReturnTakesBack ==
    /\ step = "TakeBack"
    /\ stale' = stale \ Mapped
    /\ owner' = "CPU" /\ unsafeRef' = FALSE
    /\ Goto(IF call = "Release" THEN "Free" ELSE "Done")
    /\ UNCHANGED <<dirty, pages, ptes, allocated, opened, loaded, region, taken, fabric>>

-----------------------------------------------------------------------------
(* ALLOC_REGION, a page at a time; a failure undoes the whole region. *)

AllocRegion(first, count) ==
    /\ owner = "CPU"
    /\ \A n \in 0 .. count - 1 : pages[first + n] = NoFrame
    /\ Enter("Alloc", "Page") /\ region' = [first |-> first, count |-> count, done |-> 0]
    /\ UNCHANGED <<owner, pages, ptes, allocated, unsafeRef, opened, loaded, taken, fabric, caches>>

AllocPage ==
    LET p == region.first + region.done IN
    /\ step = "Page" /\ region.done < region.count
    /\ \E f \in Frames \ taken :
        /\ taken' = taken \cup {f}
        /\ pages' = [pages EXCEPT ![p] = f] /\ ptes' = [ptes EXCEPT ![p] = f]
    /\ allocated' = allocated + 1
    /\ region' = [region EXCEPT !.done = @ + 1]
    /\ UNCHANGED <<owner, unsafeRef, opened, loaded, call, step, fabric, caches>>

AllocEnds ==
    /\ step = "Page" /\ region.done = region.count
    /\ Leave /\ region' = NoRegion
    /\ UNCHANGED <<owner, pages, ptes, allocated, unsafeRef, opened, loaded, taken, fabric, caches>>

\* The pages the rollback gives up: while (done--).
Undone == region.first .. region.first + region.done - 1

(* Mutation: the page table keeps the entries of the frames given up. *)
PtesKept == ptes

PtesAfterUndo == [p \in Pages |-> IF p \in Undone THEN NoFrame ELSE ptes[p]]

AllocatedAfterUndo == allocated - Cardinality(Undone)

\* alloc_page or dma_map_page fails.
AllocFails ==
    /\ step = "Page" /\ region.done < region.count
    /\ pages' = [p \in Pages |-> IF p \in Undone THEN NoFrame ELSE pages[p]]
    /\ ptes' = PtesAfterUndo
    /\ taken' = taken \ {pages[p] : p \in Undone}
    /\ allocated' = AllocatedAfterUndo
    /\ Leave /\ region' = NoRegion
    /\ UNCHANGED <<owner, unsafeRef, opened, loaded, fabric, caches>>

-----------------------------------------------------------------------------
(* open, release, and the module's own life. *)

(* Mutation: the device opens again after a drain that failed. *)
MayOpenUnsafe == ~opened

MayOpen == ~opened /\ owner = "CPU"

Open ==
    /\ Idle /\ loaded /\ MayOpen
    /\ opened' = TRUE
    /\ UNCHANGED <<owner, pages, ptes, allocated, unsafeRef, loaded, region, taken,
                   call, step, fabric, caches>>

Release ==
    /\ Enter("Release", IF owner = "CPU" THEN "Free" ELSE "Cancel")
    /\ UNCHANGED <<helper, fabric, caches>>

MayFree == owner = "CPU"

\* pa_m5_free_locked: all frames go back, with what the caches hold of them.
FreeAll ==
    IF MayFree
    THEN /\ taken' = taken \ Mapped /\ dirty' = dirty \ Mapped /\ stale' = stale \ Mapped
         /\ pages' = Unmapped /\ ptes' = Unmapped /\ allocated' = 0
    ELSE UNCHANGED <<taken, caches, pages, ptes, allocated>>

ReleaseFrees ==
    /\ step = "Free" /\ FreeAll
    /\ opened' = FALSE /\ Leave
    /\ UNCHANGED <<owner, unsafeRef, loaded, region, fabric>>

Done ==
    /\ step = "Done" /\ Leave
    /\ UNCHANGED <<helper, fabric, caches>>

\* The module's statics start as zero, whatever an earlier life left.
LoadModule ==
    /\ ~loaded /\ loaded' = TRUE
    /\ owner' = "CPU" /\ pages' = Unmapped /\ ptes' = Unmapped /\ allocated' = 0
    /\ unsafeRef' = FALSE /\ opened' = FALSE
    /\ UNCHANGED <<region, taken, call, step, fabric, caches>>

\* rmmod, never forced: not while the device is open or a reference is held.
UnloadModule ==
    /\ loaded /\ Idle /\ ~opened /\ ~unsafeRef
    /\ FreeAll /\ loaded' = FALSE
    /\ UNCHANGED <<owner, unsafeRef, opened, region, call, step, fabric>>

-----------------------------------------------------------------------------
PrepareSteps == Prepare \/ PrepareResets \/ PrepareReleases \/ PrepareWaits
StartSteps == Start \/ StartGives \/ StartControl \/ StartWaits
ReturnSteps == ReturnCpu \/ ReturnCancels \/ ReturnWaits \/ ReturnUnmaps \/ ReturnTakesBack
AllocSteps ==
    \/ \E first \in Pages : \E count \in 1 .. PageCount - first : AllocRegion(first, count)
    \/ AllocPage \/ AllocEnds \/ AllocFails
FileSteps == Open \/ Release \/ ReleaseFrees \/ LoadModule \/ UnloadModule
FabricSteps == FabricIssues \/ BusCompletes \/ FabricFails

DmaNext ==
    \/ PrepareSteps \/ StartSteps \/ ReturnSteps \/ AllocSteps \/ FileSteps
    \/ TimedOut \/ Done \/ FabricSteps \/ CpuWrites

DmaSpec == DmaInit /\ [][DmaNext]_vars

-----------------------------------------------------------------------------
(* Properties. *)

Steps == {"None", "TimedOut", "Done", "Reset", "Release", "PrepareWait", "Give", "StartReset",
          "StartFlush", "StartWait", "StartMap", "StartCores", "Cancel", "ReturnWait", "Unmap",
          "TakeBack", "Page", "Free"}

Calls == {"None", "Prepare", "Start", "Return", "Alloc", "Release"}

HelperTypes ==
    /\ owner \in Owners /\ call \in Calls /\ step \in Steps
    /\ unsafeRef \in BOOLEAN /\ opened \in BOOLEAN /\ loaded \in BOOLEAN

TableTypes ==
    /\ pages \in [Pages -> Frames \cup {NoFrame}] /\ ptes \in [Pages -> Frames \cup {NoFrame}]
    /\ allocated \in 0 .. PageCount /\ taken \subseteq Frames
    /\ region \in [first : Nat, count : Nat, done : Nat]
    /\ region.first + region.count <= PageCount /\ region.done <= region.count

FabricTypes ==
    /\ control \subseteq Bits
    /\ live \in BOOLEAN /\ cancelled \in BOOLEAN /\ poisoned \in BOOLEAN
    /\ outstanding \subseteq Frames /\ inFlight \subseteq Frames
    /\ dirty \subseteq Frames /\ stale \subseteq Frames

(* Types of the state; of a region, that it lies in the arena and that the  *)
(* loop of ALLOC_REGION stays inside it.                                    *)
DmaTypeOK == HelperTypes /\ TableTypes /\ FabricTypes

(* The page table the fabric walks, the helper's own record and the count   *)
(* it reports agree at every step of every call, also when an allocation    *)
(* fails half-way; each page has a frame of its own and none is lost.       *)
DmaTablesAgree ==
    /\ ptes = pages
    /\ allocated = Cardinality({p \in Pages : pages[p] # NoFrame})
    /\ \A p, q \in Pages : pages[p] = pages[q] /\ pages[p] # NoFrame => p = q
    /\ taken = Mapped

(* The caches change hands with the memory: once the harts can issue        *)
(* transfers nothing they should read is still in the CPU's caches, and     *)
(* when a call has returned the memory the runner reads what they wrote.    *)
DmaCoherent ==
    /\ live => dirty \cap Mapped = {}
    /\ Idle /\ owner = "CPU" => stale \cap Mapped = {}

(* docs/M5_TRANSFER_ABI.md: "Missing physical AXI responses remain busy":   *)
(* "An isolated mover reset is not an AXI cancellation", so the cluster is  *)
(* never reset while a transfer is in flight.                               *)
DmaResetsDrained ==
    [][(outstanding # {} \/ "Cluster" \in control) /\ "Cluster" \notin control' => inFlight = {}]_vars

(* m5_dma_helper/README.md: "A failed drain is a terminal ownership         *)
(* problem": once the file is closed without a drain nobody opens it,       *)
(* unloads the module, frees a frame or touches the fabric again.           *)
DmaFailsClosed ==
    [][owner # "CPU" /\ ~opened =>
        UNCHANGED <<owner, opened, loaded, unsafeRef, pages, ptes, control>>]_vars

\* The helper keeps the arena's promise.
Arena == INSTANCE DmaArena WITH
    ArenaFrames <- Frames, daFrames <- Mapped, daTouched <- inFlight,
    daOwner <- IF owner = "CPU" THEN "Cpu" ELSE "Device"

DmaImplementsArena == Arena!DaSpec
=============================================================================
