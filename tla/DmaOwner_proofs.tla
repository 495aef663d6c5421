--------------------------- MODULE DmaOwner_proofs ---------------------------
(***************************************************************************)
(* Theorems about the kernel helper, for every number of pages and frames: *)
(* the tables agree, the caches change hands with the memory, the cluster  *)
(* is reset only when it has drained, a failed drain is final, and so the  *)
(* arena's promise is kept.                                                *)
(***************************************************************************)
EXTENDS DmaOwner, FiniteSetTheorems, TLAPS

\* The pages that have a frame.
Filled == {p \in Pages : pages[p] # NoFrame}

(* ALLOC_REGION in its loop: the pages behind it have frames, those ahead  *)
(* have none.                                                              *)
RegionInv ==
    step = "Page" =>
        \A n \in 0 .. region.count - 1 :
            pages[region.first + n] # NoFrame <=> n < region.done

\* The steps of a call at which the CPU, or the fabric, owns the memory.
CpuSteps == {"Reset", "Release", "PrepareWait", "Give", "Page"}
DeviceSteps ==
    {"StartReset", "StartFlush", "StartWait", "StartMap", "StartCores",
     "Cancel", "ReturnWait", "Unmap", "TakeBack"}

(* Who owns the memory, step by step.  The reference to the module is held *)
(* exactly while it is not the CPU, and a module that is not loaded has    *)
(* nothing left.                                                           *)
PhaseInv ==
    /\ unsafeRef <=> owner # "CPU"
    /\ step = "None" <=> Idle
    /\ ~opened => Idle
    /\ ~loaded => ~opened /\ owner = "CPU" /\ pages = Unmapped
    /\ step \in CpuSteps => owner = "CPU"
    /\ step \in DeviceSteps => owner # "CPU"

(* Until a broken protocol poisons it, the fabric knows of every transfer  *)
(* in flight; the CPU owns the memory only when there is none and nothing  *)
(* may issue one.                                                          *)
DrainInv ==
    /\ ~poisoned => inFlight = outstanding
    /\ "Cluster" \notin control => outstanding = {} /\ ~live
    /\ owner = "CPU" => inFlight = {} /\ ~live
    /\ step \in {"StartReset", "StartFlush", "StartWait", "StartMap", "StartCores"} =>
        inFlight = {} /\ ~live
    /\ step \in {"Unmap", "TakeBack"} => inFlight = {} /\ outstanding = {} /\ ~live

\* What may be dirty and stale under either owner.
CacheInv ==
    /\ inFlight \subseteq Mapped /\ stale \subseteq Mapped
    /\ owner # "CPU" => dirty \cap Mapped = {}
    /\ owner = "CPU" => stale = {}

IInv == DmaTypeOK /\ DmaTablesAgree /\ RegionInv /\ PhaseInv /\ DrainInv /\ CacheInv

-----------------------------------------------------------------------------
(* Facts about the tables. *)

LEMMA InitIInv == ASSUME DmaInit PROVE IInv
<1>1. Mapped = {} /\ Filled = {}
  BY DEF DmaInit, HelperReset, Mapped, Range, Unmapped, Filled
<1>2. DmaTypeOK
  <2>1. HelperTypes
    BY DEF DmaInit, HelperReset, HelperTypes, Owners, Calls, Steps
  <2>2. TableTypes
    BY DmaAssumption DEF DmaInit, HelperReset, TableTypes, Unmapped, NoRegion
  <2>3. FabricTypes
    BY DEF DmaInit, FabricTypes
  <2> QED  BY <2>1, <2>2, <2>3 DEF DmaTypeOK
<1>3. DmaTablesAgree
  BY <1>1, FS_EmptySet DEF DmaInit, HelperReset, DmaTablesAgree, Unmapped, Filled
<1>4. RegionInv /\ PhaseInv /\ DrainInv /\ CacheInv
  BY DEF DmaInit, HelperReset, RegionInv, PhaseInv, DrainInv, CacheInv, Idle, CpuSteps,
     DeviceSteps
<1> QED  BY <1>2, <1>3, <1>4 DEF IInv

LEMMA PagesFinite ==
  ASSUME NEW S, S \subseteq Pages
  PROVE  IsFiniteSet(S) /\ Cardinality(S) \in 0 .. PageCount
<1>1. IsFiniteSet(Pages) /\ Cardinality(Pages) = PageCount
  BY DmaAssumption, FS_Interval DEF Pages
<1>2. IsFiniteSet(S) /\ Cardinality(S) <= Cardinality(Pages)
  BY <1>1, FS_Subset
<1>3. Cardinality(S) \in Nat
  BY <1>2, FS_CardinalityType
<1> QED  BY <1>1, <1>2, <1>3, DmaAssumption

\* A frame is mapped exactly if some page has it.
LEMMA MappedPage ==
  ASSUME TableTypes, NEW f
  PROVE  f \in Mapped <=> f # NoFrame /\ \E p \in Pages : pages[p] = f
  BY DEF TableTypes, Mapped, Range

LEMMA MappedFrames == ASSUME TableTypes PROVE Mapped \subseteq Frames
  BY DEF TableTypes, Mapped, Range

(* What leaves the tables alone keeps all that is said of them. *)
tables == <<pages, ptes, allocated, taken>>

LEMMA TablesKept ==
  ASSUME TableTypes, DmaTablesAgree, UNCHANGED tables
  PROVE  Mapped' = Mapped /\ DmaTablesAgree' /\ (UNCHANGED region => TableTypes')
<1>1. Mapped' = Mapped
  BY DEF tables, Mapped
<1> QED  BY <1>1 DEF tables, DmaTablesAgree, TableTypes

-----------------------------------------------------------------------------
(* Each group of actions preserves the invariant. *)

LEMMA PrepareIInv == ASSUME IInv, PrepareSteps PROVE IInv'
<1> USE DEF helper, caches
<1>1. Mapped' = Mapped /\ DmaTablesAgree' /\ TableTypes'
  BY TablesKept DEF IInv, DmaTypeOK, PrepareSteps, Prepare, PrepareResets, PrepareReleases,
     PrepareWaits, tables
<1>2. HelperTypes'
  BY DEF IInv, DmaTypeOK, HelperTypes, Calls, Steps, PrepareSteps, Prepare, PrepareResets,
     PrepareReleases, PrepareWaits, Enter, Goto, WaitStatus
<1>3. FabricTypes'
  BY DEF IInv, DmaTypeOK, FabricTypes, PrepareSteps, Prepare, PrepareResets,
     PrepareReleases, PrepareWaits, fabric, SetControl, Bits
<1>4. RegionInv'
  BY DEF RegionInv, PrepareSteps, Prepare, PrepareResets, PrepareReleases, PrepareWaits, Enter,
     Goto, WaitStatus
<1>5. PhaseInv'
  BY DEF IInv, PhaseInv, PrepareSteps, Prepare, PrepareResets, PrepareReleases, PrepareWaits,
     Enter, Goto, WaitStatus, Idle, MayPrepare, CpuSteps, DeviceSteps
<1>6. DrainInv'
  <2> USE DEF IInv, PhaseInv, DrainInv, CpuSteps
  <2>1. CASE Prepare
    BY <2>1 DEF Prepare, MayPrepare, Enter, Idle, fabric
  <2>2. CASE PrepareResets
    BY <2>2 DEF PrepareResets, Goto, SetControl
  <2>3. CASE PrepareReleases
    BY <2>3 DEF PrepareReleases, Goto, SetControl
  <2>4. CASE PrepareWaits
    BY <2>4 DEF PrepareWaits, Goto, WaitStatus, fabric
  <2> QED  BY <2>1, <2>2, <2>3, <2>4 DEF PrepareSteps
<1>7. CacheInv'
  BY <1>1 DEF IInv, CacheInv, PrepareSteps, Prepare, PrepareResets, PrepareReleases,
     PrepareWaits, fabric, SetControl
<1> QED  BY <1>1, <1>2, <1>3, <1>4, <1>5, <1>6, <1>7 DEF IInv, DmaTypeOK

LEMMA StartIInv == ASSUME IInv, StartSteps PROVE IInv'
<1> USE DEF helper, caches
<1>1. Mapped' = Mapped /\ DmaTablesAgree' /\ TableTypes'
  BY TablesKept DEF IInv, DmaTypeOK, StartSteps, Start, StartGives, StartControl, StartWaits,
     tables
<1>2. HelperTypes'
  BY DEF IInv, DmaTypeOK, HelperTypes, Owners, Calls, Steps, StartSteps, Start, StartGives,
     StartControl, StartWaits, Enter, Goto, WaitStatus
<1>3. FabricTypes'
  BY DEF IInv, DmaTypeOK, FabricTypes, StartSteps, Start, StartGives, StartControl, StartWaits,
     fabric, SetControl, Bits, Cleaned
<1>4. RegionInv'
  BY DEF RegionInv, StartSteps, Start, StartGives, StartControl, StartWaits, Enter, Goto,
     WaitStatus
<1>5. PhaseInv'
  BY DEF IInv, PhaseInv, StartSteps, Start, StartGives, StartControl, StartWaits,
     Enter, Goto, WaitStatus, Idle, CpuSteps, DeviceSteps
<1>6. DrainInv'
  <2> USE DEF IInv, PhaseInv, DrainInv, CpuSteps, DeviceSteps
  <2>1. CASE Start
    BY <2>1 DEF Start, Enter, Idle, fabric
  <2>2. CASE StartGives
    BY <2>2 DEF StartGives, Goto, fabric
  <2>3. CASE StartControl
    BY <2>3 DEF StartControl, Goto, SetControl
  <2>4. CASE StartWaits
    BY <2>4 DEF StartWaits, Goto, WaitStatus, fabric
  <2> QED  BY <2>1, <2>2, <2>3, <2>4 DEF StartSteps
<1>7. CacheInv'
  BY <1>1 DEF IInv, PhaseInv, CacheInv, CpuSteps, StartSteps, Start, StartGives, StartControl,
     StartWaits, Cleaned, fabric, SetControl
<1> QED  BY <1>1, <1>2, <1>3, <1>4, <1>5, <1>6, <1>7 DEF IInv, DmaTypeOK

LEMMA ReturnIInv == ASSUME IInv, ReturnSteps PROVE IInv'
<1> USE DEF helper, caches
<1>1. Mapped' = Mapped /\ DmaTablesAgree' /\ TableTypes'
  BY TablesKept DEF IInv, DmaTypeOK, ReturnSteps, ReturnCpu, ReturnCancels, ReturnWaits,
     ReturnUnmaps, ReturnTakesBack, tables
<1>2. HelperTypes'
  BY DEF IInv, DmaTypeOK, HelperTypes, Owners, Calls, Steps, ReturnSteps, ReturnCpu,
     ReturnCancels, ReturnWaits, ReturnUnmaps, ReturnTakesBack, Enter, Goto, WaitStatus
<1>3. FabricTypes'
  BY DEF IInv, DmaTypeOK, FabricTypes, ReturnSteps, ReturnCpu, ReturnCancels, ReturnWaits,
     ReturnUnmaps, ReturnTakesBack, fabric, SetControl, Bits
<1>4. RegionInv'
  BY DEF RegionInv, ReturnSteps, ReturnCpu, ReturnCancels, ReturnWaits, ReturnUnmaps,
     ReturnTakesBack, Enter, Goto, WaitStatus
<1>5. PhaseInv'
  BY DEF IInv, PhaseInv, ReturnSteps, ReturnCpu, ReturnCancels, ReturnWaits, ReturnUnmaps,
     ReturnTakesBack, Enter, Goto, WaitStatus, Idle, CpuSteps, DeviceSteps
<1>6. DrainInv'
  <2> USE DEF IInv, DmaTypeOK, FabricTypes, PhaseInv, DrainInv, CpuSteps, DeviceSteps
  <2>1. CASE ReturnCpu
    BY <2>1 DEF ReturnCpu, Enter, Idle, fabric
  <2>2. CASE ReturnCancels
    BY <2>2 DEF ReturnCancels, Goto, SetControl
  <2>3. CASE ReturnWaits
    BY <2>3 DEF ReturnWaits, Goto, WaitStatus, Quiesced, Busy, fabric
  <2>4. CASE ReturnUnmaps
    BY <2>4 DEF ReturnUnmaps, Goto, SetControl
  <2>5. CASE ReturnTakesBack
    BY <2>5 DEF ReturnTakesBack, Goto, fabric
  <2> QED  BY <2>1, <2>2, <2>3, <2>4, <2>5 DEF ReturnSteps
<1>7. CacheInv'
  BY <1>1 DEF IInv, PhaseInv, CacheInv, DeviceSteps, ReturnSteps, ReturnCpu, ReturnCancels,
     ReturnWaits, ReturnUnmaps, ReturnTakesBack, fabric, SetControl
<1> QED  BY <1>1, <1>2, <1>3, <1>4, <1>5, <1>6, <1>7 DEF IInv, DmaTypeOK

LEMMA FabricIInv == ASSUME IInv, FabricSteps \/ CpuWrites \/ TimedOut \/ Done PROVE IInv'
<1> USE DEF helper, caches, FabricSteps
<1>1. Mapped' = Mapped /\ DmaTablesAgree' /\ TableTypes'
  BY TablesKept DEF IInv, DmaTypeOK, FabricIssues, BusCompletes, FabricFails, CpuWrites, TimedOut,
     Done, tables
<1>2. HelperTypes'
  BY DEF IInv, DmaTypeOK, HelperTypes, Calls, Steps, FabricIssues, BusCompletes, FabricFails,
     CpuWrites, TimedOut, Done, Goto, Leave
<1>3. Range(ptes) \ {NoFrame} = Mapped /\ Mapped \subseteq Frames
  BY MappedFrames DEF IInv, DmaTypeOK, DmaTablesAgree, Mapped
<1>4. FabricTypes'
  BY <1>3 DEF IInv, DmaTypeOK, FabricTypes, FabricIssues, BusCompletes, FabricFails, CpuWrites,
     TimedOut, Done, fabric
<1>5. RegionInv'
  BY DEF IInv, RegionInv, FabricIssues, BusCompletes, FabricFails, CpuWrites, TimedOut,
     Done, Goto, Leave
<1>6. PhaseInv'
  BY DEF IInv, PhaseInv, FabricIssues, BusCompletes, FabricFails, CpuWrites, TimedOut,
     Done, Goto, Leave, Idle, CpuSteps, DeviceSteps
<1>7. DrainInv'
  BY DEF IInv, DmaTypeOK, FabricTypes, DrainInv, FabricIssues, BusCompletes, FabricFails,
     CpuWrites, TimedOut, Done, Goto, Leave, fabric
<1>8. CacheInv'
  BY <1>1, <1>3 DEF IInv, DrainInv, CacheInv, FabricIssues, BusCompletes, FabricFails, CpuWrites,
     TimedOut, Done, fabric
<1> QED  BY <1>1, <1>2, <1>4, <1>5, <1>6, <1>7, <1>8 DEF IInv, DmaTypeOK

-----------------------------------------------------------------------------
(* ALLOC_REGION: the tables change, the fabric does not. *)

LEMMA AllocRegionIInv ==
  ASSUME IInv, NEW first \in Pages, NEW count \in 1 .. PageCount - first,
         AllocRegion(first, count)
  PROVE  IInv'
<1> USE DEF AllocRegion, Enter
<1>1. Mapped' = Mapped /\ DmaTablesAgree'
  BY TablesKept DEF IInv, DmaTypeOK, tables
<1>2. TableTypes'
  BY DmaAssumption DEF IInv, DmaTypeOK, TableTypes, Pages
<1>3. HelperTypes' /\ FabricTypes'
  BY DEF IInv, DmaTypeOK, HelperTypes, FabricTypes, Calls, Steps, fabric, caches
<1>4. RegionInv'
  BY DEF RegionInv
<1>5. PhaseInv'
  BY DEF IInv, PhaseInv, Idle, CpuSteps, DeviceSteps
<1>6. DrainInv' /\ CacheInv'
  BY <1>1 DEF IInv, DrainInv, CacheInv, fabric, caches
<1> QED  BY <1>1, <1>2, <1>3, <1>4, <1>5, <1>6 DEF IInv, DmaTypeOK

LEMMA AllocPageIInv == ASSUME IInv, AllocPage PROVE IInv'
<1> DEFINE p == region.first + region.done
<1>1. PICK f \in Frames \ taken :
        /\ taken' = taken \cup {f}
        /\ pages' = [pages EXCEPT ![p] = f] /\ ptes' = [ptes EXCEPT ![p] = f]
  BY DEF AllocPage
<1>2. step = "Page" /\ owner = "CPU" /\ region.done < region.count
  BY DEF AllocPage, IInv, PhaseInv, CpuSteps
<1>3. p \in Pages /\ pages[p] = NoFrame /\ f # NoFrame
  BY <1>2, DmaAssumption DEF IInv, DmaTypeOK, TableTypes, RegionInv, Pages
<1>4. Filled' = Filled \cup {p} /\ p \notin Filled
  BY <1>1, <1>3 DEF IInv, DmaTypeOK, TableTypes, Filled
<1>5. allocated' = Cardinality(Filled')
  <2>1. Filled \subseteq Pages /\ allocated = Cardinality(Filled)
    BY DEF Filled, IInv, DmaTablesAgree
  <2>2. Cardinality(Filled \cup {p}) = Cardinality(Filled) + 1
    BY <2>1, <1>4, PagesFinite, FS_AddElement
  <2> QED  BY <2>1, <2>2, <1>4 DEF AllocPage
<1>6. TableTypes'
  <2>1. allocated' \in 0 .. PageCount
    <3>1. Filled' \subseteq Pages
      BY DEF Filled
    <3> QED  BY <3>1, <1>5, PagesFinite
  <2>2. region' \in [first : Nat, count : Nat, done : Nat]
        /\ region'.first + region'.count <= PageCount /\ region'.done <= region'.count
    BY <1>2 DEF AllocPage, IInv, DmaTypeOK, TableTypes
  <2>3. taken' \subseteq Frames /\ {pages', ptes'} \subseteq [Pages -> Frames \cup {NoFrame}]
    BY <1>1, <1>3 DEF IInv, DmaTypeOK, TableTypes
  <2> QED  BY <2>1, <2>2, <2>3 DEF TableTypes
<1>7. Mapped' = Mapped \cup {f}
  BY <1>1, <1>3, <1>6 DEF IInv, DmaTypeOK, TableTypes, Mapped, Range
<1>8. DmaTablesAgree'
  <2>1. ptes' = pages' /\ taken' = Mapped'
    BY <1>1, <1>7 DEF IInv, DmaTablesAgree
  <2>2. \A q, r \in Pages : pages'[q] = pages'[r] /\ pages'[q] # NoFrame => q = r
    BY <1>1, <1>3, MappedPage DEF IInv, DmaTypeOK, TableTypes, DmaTablesAgree
  <2> QED  BY <2>1, <2>2, <1>5 DEF DmaTablesAgree, Filled
<1>9. HelperTypes' /\ FabricTypes'
  BY DEF AllocPage, IInv, DmaTypeOK, HelperTypes, FabricTypes, fabric, caches
<1>10. RegionInv'
  <2> SUFFICES ASSUME NEW n \in 0 .. region.count - 1
               PROVE  pages'[region.first + n] # NoFrame <=> n < region.done + 1
    BY <1>2 DEF AllocPage, IInv, DmaTypeOK, TableTypes, RegionInv
  <2>1. region.first + n \in Pages /\ (pages[region.first + n] # NoFrame <=> n < region.done)
    BY <1>2, DmaAssumption DEF IInv, DmaTypeOK, TableTypes, RegionInv, Pages
  <2>2. CASE n = region.done
    BY <2>2, <1>1, <1>3 DEF IInv, DmaTypeOK, TableTypes
  <2>3. CASE n # region.done
    BY <2>1, <2>3, <1>1, <1>3 DEF IInv, DmaTypeOK, TableTypes
  <2> QED  BY <2>2, <2>3
<1>11. PhaseInv'
  BY <1>2 DEF AllocPage, IInv, PhaseInv, Idle, CpuSteps, DeviceSteps
<1>12. DrainInv' /\ CacheInv'
  BY <1>2, <1>7 DEF AllocPage, IInv, DrainInv, CacheInv, fabric, caches
<1> QED  BY <1>6, <1>8, <1>9, <1>10, <1>11, <1>12 DEF IInv, DmaTypeOK

LEMMA AllocEndsIInv == ASSUME IInv, AllocEnds PROVE IInv'
<1> USE DEF AllocEnds, Leave
<1>1. Mapped' = Mapped /\ DmaTablesAgree'
  BY TablesKept DEF IInv, DmaTypeOK, tables
<1>2. TableTypes'
  BY DmaAssumption DEF IInv, DmaTypeOK, TableTypes, NoRegion
<1>3. HelperTypes' /\ FabricTypes'
  BY DEF IInv, DmaTypeOK, HelperTypes, FabricTypes, Calls, Steps, fabric, caches
<1>4. RegionInv'
  BY DEF RegionInv
<1>5. PhaseInv'
  BY DEF IInv, PhaseInv, Idle, CpuSteps, DeviceSteps
<1>6. DrainInv' /\ CacheInv'
  BY <1>1 DEF IInv, DrainInv, CacheInv, fabric, caches
<1> QED  BY <1>1, <1>2, <1>3, <1>4, <1>5, <1>6 DEF IInv, DmaTypeOK

LEMMA AllocFailsIInv == ASSUME IInv, AllocFails PROVE IInv'
<1>1. step = "Page" /\ owner = "CPU"
  BY DEF AllocFails, IInv, PhaseInv, CpuSteps
<1>2. Undone \subseteq Filled
  <2> SUFFICES ASSUME NEW p \in Undone PROVE p \in Filled
    OBVIOUS
  <2> DEFINE n == p - region.first
  <2>1. n \in 0 .. region.count - 1 /\ n < region.done /\ p = region.first + n /\ p \in Pages
    BY DmaAssumption DEF IInv, DmaTypeOK, TableTypes, Undone, Pages
  <2>2. pages[region.first + n] # NoFrame
    BY <1>1, <2>1 DEF IInv, RegionInv
  <2> QED  BY <2>1, <2>2 DEF Filled
<1>3. /\ pages' = [p \in Pages |-> IF p \in Undone THEN NoFrame ELSE pages[p]]
      /\ ptes' = pages'
  BY DEF AllocFails, PtesAfterUndo, IInv, DmaTablesAgree
<1>4. Filled' = Filled \ Undone
  BY <1>3 DEF Filled
<1>5. allocated' = Cardinality(Filled')
  <2>1. Filled \subseteq Pages /\ allocated = Cardinality(Filled) /\ Filled \cap Undone = Undone
    BY <1>2 DEF Filled, IInv, DmaTablesAgree
  <2>2. Cardinality(Filled \ Undone) = Cardinality(Filled) - Cardinality(Undone)
    BY <2>1, PagesFinite, FS_Difference
  <2> QED  BY <2>1, <2>2, <1>4 DEF AllocFails, AllocatedAfterUndo
<1>6. Mapped' = Mapped \ {pages[p] : p \in Undone}
  <2>1. \A p, q \in Pages : pages[p] = pages[q] /\ pages[p] # NoFrame => p = q
    BY DEF IInv, DmaTablesAgree
  <2>2. \A p \in Undone : p \in Pages /\ pages[p] # NoFrame
    BY <1>2 DEF Filled
  <2> QED  BY <1>3, <2>1, <2>2 DEF IInv, DmaTypeOK, TableTypes, Mapped, Range
<1>7. TableTypes'
  <2>1. Filled' \subseteq Pages
    BY DEF Filled
  <2>2. allocated' \in 0 .. PageCount
    BY <2>1, <1>5, PagesFinite
  <2> QED  BY <2>2, <1>3, DmaAssumption DEF AllocFails, NoRegion, IInv, DmaTypeOK, TableTypes
<1>8. DmaTablesAgree'
  <2>1. taken' = Mapped'
    BY <1>6 DEF AllocFails, IInv, DmaTablesAgree
  <2>2. \A p, q \in Pages : pages'[p] = pages'[q] /\ pages'[p] # NoFrame => p = q
    BY <1>3 DEF IInv, DmaTablesAgree
  <2> QED  BY <2>1, <2>2, <1>3, <1>5 DEF DmaTablesAgree, Filled
<1>9. HelperTypes' /\ FabricTypes'
  BY DEF AllocFails, Leave, IInv, DmaTypeOK, HelperTypes, FabricTypes, Calls, Steps, fabric,
     caches
<1>10. RegionInv' /\ PhaseInv'
  BY <1>1 DEF AllocFails, Leave, IInv, RegionInv, PhaseInv, Idle, CpuSteps, DeviceSteps
<1>11. DrainInv' /\ CacheInv'
  BY <1>1 DEF AllocFails, Leave, IInv, DrainInv, CacheInv, fabric, caches
<1> QED  BY <1>7, <1>8, <1>9, <1>10, <1>11 DEF IInv, DmaTypeOK

-----------------------------------------------------------------------------
(* The file and the module. *)

\* The tables of a helper that holds no frame.
LEMMA EmptyTables ==
  ASSUME TableTypes, pages' = Unmapped, ptes' = Unmapped, allocated' = 0, taken' = {},
         UNCHANGED region
  PROVE  Mapped' = {} /\ DmaTablesAgree' /\ TableTypes'
<1>1. Mapped' = {} /\ {p \in Pages : pages'[p] # NoFrame} = {}
  BY DEF Mapped, Range, Unmapped
<1>2. DmaTablesAgree'
  BY <1>1, FS_EmptySet DEF DmaTablesAgree, Unmapped
<1>3. TableTypes'
  BY DmaAssumption DEF TableTypes, Unmapped
<1> QED  BY <1>1, <1>2, <1>3

LEMMA FreeAllKeeps ==
  ASSUME IInv, FreeAll, UNCHANGED region
  PROVE  /\ DmaTablesAgree' /\ TableTypes'
         /\ owner = "CPU" => Mapped' = {} /\ pages' = Unmapped /\ stale' = {}
         /\ owner # "CPU" => UNCHANGED <<pages, ptes, caches>> /\ Mapped' = Mapped
         /\ dirty' \subseteq Frames /\ stale' \subseteq Frames
<1>1. CASE owner = "CPU"
  <2>1. taken' = {} /\ pages' = Unmapped /\ ptes' = Unmapped /\ allocated' = 0
    BY <1>1 DEF FreeAll, MayFree, IInv, DmaTablesAgree
  <2>2. dirty' \subseteq Frames /\ stale' = {}
    BY <1>1 DEF FreeAll, MayFree, IInv, CacheInv, DmaTypeOK, FabricTypes
  <2> QED  BY <1>1, <2>1, <2>2, EmptyTables DEF IInv, DmaTypeOK
<1>2. CASE owner # "CPU"
  BY <1>2, TablesKept DEF FreeAll, MayFree, IInv, DmaTypeOK, FabricTypes, caches, tables
<1> QED  BY <1>1, <1>2

LEMMA OpenReleaseIInv == ASSUME IInv, Open \/ Release PROVE IInv'
<1> USE DEF helper
<1>1. Mapped' = Mapped /\ DmaTablesAgree' /\ TableTypes'
  BY TablesKept DEF IInv, DmaTypeOK, Open, Release, tables
<1>2. HelperTypes' /\ FabricTypes'
  BY DEF IInv, DmaTypeOK, HelperTypes, FabricTypes, Open, Release, Enter, Calls, Steps, fabric,
     caches
<1>3. RegionInv'
  BY DEF IInv, RegionInv, Open, Release, Enter
<1>4. PhaseInv'
  BY DEF IInv, PhaseInv, Open, MayOpen, Release, Enter, Idle, CpuSteps, DeviceSteps
<1>5. DrainInv' /\ CacheInv'
  BY <1>1 DEF IInv, DrainInv, CacheInv, Open, Release, Enter, fabric, caches
<1> QED  BY <1>1, <1>2, <1>3, <1>4, <1>5 DEF IInv, DmaTypeOK

LEMMA ReleaseFreesIInv == ASSUME IInv, ReleaseFrees PROVE IInv'
<1> USE DEF ReleaseFrees, Leave
<1>1. HelperTypes' /\ FabricTypes'
  BY FreeAllKeeps DEF IInv, DmaTypeOK, HelperTypes, FabricTypes, Calls, Steps, fabric
<1>2. RegionInv'
  BY DEF RegionInv
<1>3. PhaseInv'
  BY DEF IInv, PhaseInv, Idle, CpuSteps, DeviceSteps
<1>4. DrainInv'
  BY DEF IInv, DrainInv, fabric
<1>5. CacheInv'
  BY FreeAllKeeps DEF IInv, DrainInv, CacheInv, fabric, caches
<1> QED  BY <1>1, <1>2, <1>3, <1>4, <1>5, FreeAllKeeps DEF IInv, DmaTypeOK

LEMMA LoadModuleIInv == ASSUME IInv, LoadModule PROVE IInv'
<1> USE DEF LoadModule
<1>1. owner = "CPU" /\ pages = Unmapped /\ Idle /\ step = "None"
  BY DEF IInv, PhaseInv
<1>2. taken = {} /\ Mapped = {}
  BY <1>1 DEF IInv, DmaTablesAgree, Mapped, Range, Unmapped
<1>3. Mapped' = {} /\ DmaTablesAgree' /\ TableTypes'
  BY <1>2, EmptyTables DEF IInv, DmaTypeOK
<1>4. HelperTypes' /\ FabricTypes'
  BY DEF IInv, DmaTypeOK, HelperTypes, FabricTypes, Owners, fabric, caches
<1>5. RegionInv' /\ PhaseInv'
  BY <1>1 DEF RegionInv, PhaseInv, Idle, CpuSteps, DeviceSteps
<1>6. DrainInv' /\ CacheInv'
  BY <1>1, <1>2, <1>3 DEF IInv, DrainInv, CacheInv, fabric, caches
<1> QED  BY <1>3, <1>4, <1>5, <1>6 DEF IInv, DmaTypeOK

LEMMA UnloadModuleIInv == ASSUME IInv, UnloadModule PROVE IInv'
<1> USE DEF UnloadModule
<1>1. owner = "CPU"
  BY DEF IInv, PhaseInv
<1>2. HelperTypes' /\ FabricTypes'
  BY FreeAllKeeps DEF IInv, DmaTypeOK, HelperTypes, FabricTypes, fabric
<1>3. RegionInv' /\ PhaseInv'
  BY <1>1, FreeAllKeeps DEF IInv, RegionInv, PhaseInv, Idle, CpuSteps, DeviceSteps
<1>4. DrainInv' /\ CacheInv'
  BY <1>1, FreeAllKeeps DEF IInv, DrainInv, CacheInv, fabric
<1> QED  BY <1>2, <1>3, <1>4, FreeAllKeeps DEF IInv, DmaTypeOK

-----------------------------------------------------------------------------
LEMMA NextIInv == ASSUME IInv, [DmaNext]_vars PROVE IInv'
<1>1. CASE UNCHANGED vars
  <2>1. Mapped' = Mapped /\ Idle' = Idle
    BY <1>1 DEF vars, helper, Mapped, Idle
  <2> QED
    BY <1>1, <2>1 DEF vars, helper, fabric, caches, IInv, DmaTypeOK, HelperTypes, TableTypes,
       FabricTypes, DmaTablesAgree, RegionInv, PhaseInv, DrainInv, CacheInv
<1>2. CASE AllocSteps
  BY <1>2, AllocRegionIInv, AllocPageIInv, AllocEndsIInv, AllocFailsIInv DEF AllocSteps
<1>3. CASE FileSteps
  BY <1>3, OpenReleaseIInv, ReleaseFreesIInv, LoadModuleIInv, UnloadModuleIInv DEF FileSteps
<1> QED
  BY <1>1, <1>2, <1>3, PrepareIInv, StartIInv, ReturnIInv, FabricIInv DEF DmaNext

LEMMA Invariance == DmaSpec => []IInv
<1>1. DmaInit => IInv
  BY InitIInv
<1>2. IInv /\ [DmaNext]_vars => IInv'
  BY NextIInv
<1> QED  BY <1>1, <1>2, PTL DEF DmaSpec

(* The helper's state is well typed in every reachable state, and the loop *)
(* of ALLOC_REGION never leaves the arena.                                 *)
THEOREM DmaTypeCorrect == DmaSpec => []DmaTypeOK
<1>1. IInv => DmaTypeOK
  BY DEF IInv
<1> QED  BY <1>1, Invariance, PTL

(* After any allocations, failures half-way, and releases, the page table, *)
(* the helper's record and its count agree, no two pages share a frame and *)
(* no frame is lost.                                                       *)
THEOREM DmaTablesAgreeCorrect == DmaSpec => []DmaTablesAgree
<1>1. IInv => DmaTablesAgree
  BY DEF IInv
<1> QED  BY <1>1, Invariance, PTL

(* What START writes back and RETURN_CPU discards of the CPU's caches is   *)
(* enough, in whatever order calls and transfers come.                     *)
THEOREM DmaCoherentCorrect == DmaSpec => []DmaCoherent
<1>1. IInv => DmaCoherent
  BY DEF IInv, DrainInv, CacheInv, DmaCoherent
<1> QED  BY <1>1, Invariance, PTL

(* No step of any call puts the cluster into reset while a transfer it     *)
(* issued is on the bus.                                                   *)
THEOREM DmaResetsDrainedCorrect == DmaSpec => DmaResetsDrained
<1>1. ASSUME IInv, [DmaNext]_vars,
             outstanding # {} \/ "Cluster" \in control, "Cluster" \notin control'
      PROVE  inFlight = {}
  <2>1. CASE PrepareResets
    BY <1>1, <2>1 DEF PrepareResets, IInv, PhaseInv, DrainInv, CpuSteps
  <2>2. CASE StartControl
    BY <1>1, <2>2 DEF StartControl, SetControl, IInv, DrainInv
  <2>3. CASE PrepareReleases \/ ReturnCancels \/ ReturnUnmaps
    BY <1>1, <2>3 DEF PrepareReleases, ReturnCancels, ReturnUnmaps, SetControl
  <2>4. CASE UNCHANGED control
    BY <1>1, <2>4 DEF IInv, DrainInv
  <2> QED
    BY <1>1, <2>1, <2>2, <2>3, <2>4 DEF DmaNext, vars, fabric, PrepareSteps, Prepare,
       PrepareWaits,
       StartSteps, Start, StartGives, StartWaits, ReturnSteps, ReturnCpu, ReturnWaits,
       ReturnTakesBack, AllocSteps, AllocRegion, AllocPage, AllocEnds, AllocFails, FileSteps, Open,
       Release, ReleaseFrees, LoadModule, UnloadModule, TimedOut, Done, FabricSteps, FabricIssues,
       BusCompletes, FabricFails, CpuWrites
<1>2. IInv /\ [DmaNext]_vars =>
        [(outstanding # {} \/ "Cluster" \in control) /\ "Cluster" \notin control' => inFlight = {}]_vars
  BY <1>1
<1> QED  BY <1>2, Invariance, PTL DEF DmaSpec, DmaResetsDrained

(* Closed without a drain, the device is never opened or unloaded again and *)
(* no call touches its frames, its tables or the fabric's control word.     *)
THEOREM DmaFailsClosedCorrect == DmaSpec => DmaFailsClosed
<1>1. ASSUME IInv, [DmaNext]_vars, owner # "CPU", ~opened
      PROVE  UNCHANGED <<owner, opened, loaded, unsafeRef, pages, ptes, control>>
  <2>1. Idle /\ step = "None" /\ loaded /\ unsafeRef
    BY <1>1 DEF IInv, PhaseInv, DmaTypeOK, HelperTypes
  <2>2. CASE FabricSteps
    BY <2>2 DEF FabricSteps, FabricIssues, BusCompletes, FabricFails, helper
  <2>3. CASE UNCHANGED vars
    BY <2>3 DEF vars, helper, fabric
  <2> QED
    BY <1>1, <2>1, <2>2, <2>3 DEF DmaNext, PrepareSteps, Prepare, PrepareResets, PrepareReleases,
       PrepareWaits, StartSteps, Start, StartGives, StartControl, StartWaits, ReturnSteps,
       ReturnCpu,
       ReturnCancels, ReturnWaits, ReturnUnmaps, ReturnTakesBack, AllocSteps, AllocRegion, AllocPage,
       AllocEnds, AllocFails, FileSteps, Open, MayOpen, Release, ReleaseFrees, LoadModule,
       UnloadModule, TimedOut, Done, CpuWrites, Enter
<1>2. IInv /\ [DmaNext]_vars =>
        [owner # "CPU" /\ ~opened =>
            UNCHANGED <<owner, opened, loaded, unsafeRef, pages, ptes, control>>]_vars
  BY <1>1
<1> QED  BY <1>2, Invariance, PTL DEF DmaSpec, DmaFailsClosed

-----------------------------------------------------------------------------
(* The refinement: every step of the helper, the fabric or the runner is a  *)
(* step of the arena or changes nothing of it.                              *)

LEMMA StepRefines == ASSUME IInv, IInv', [DmaNext]_vars PROVE [Arena!DaNext]_(Arena!daVars)
<1> USE DEF Arena!DaNext, Arena!daVars
<1>1. CASE FabricIssues
  <2>1. Range(ptes) \ {NoFrame} = Mapped /\ Mapped' = Mapped /\ owner # "CPU"
    BY <1>1 DEF FabricIssues, helper, IInv, DmaTablesAgree, DrainInv, Mapped
  <2> QED  BY <1>1, <2>1 DEF FabricIssues, helper, Arena!DaTouch
<1>2. CASE BusCompletes
  BY <1>2 DEF BusCompletes, helper, Mapped, Arena!DaFinish
<1>3. CASE StartGives
  BY <1>3 DEF StartGives, fabric, Mapped, IInv, PhaseInv, CpuSteps, Arena!DaGive
<1>4. CASE ReturnTakesBack
  BY <1>4 DEF ReturnTakesBack, fabric, Mapped, IInv, PhaseInv, DrainInv, DeviceSteps,
     Arena!DaTakeBack
<1>5. Mapped' \subseteq Frames
  BY DEF IInv, DmaTypeOK, TableTypes, Mapped, Range
<1>6. CASE AllocPage \/ AllocFails
  BY <1>5, <1>6 DEF AllocPage, AllocFails, fabric, IInv, PhaseInv, CpuSteps, Arena!DaResize
<1>7. CASE ReleaseFrees \/ UnloadModule
  BY <1>5, <1>7 DEF ReleaseFrees, UnloadModule, FreeAll, MayFree, fabric, Mapped, Arena!DaResize
<1>8. CASE LoadModule
  BY <1>5, <1>8 DEF LoadModule, fabric, IInv, PhaseInv, Arena!DaResize
<1>9. CASE UNCHANGED vars
  BY <1>9 DEF vars, helper, fabric, Mapped
<1> DEFINE Unseen == UNCHANGED <<pages,
inFlight>> /\ (owner' = owner \/ (owner # "CPU" /\ owner' # "CPU"))
<1>10. Unseen => UNCHANGED Arena!daVars
  BY DEF Mapped
<1>11. PrepareSteps => Unseen
  BY DEF PrepareSteps, Prepare, PrepareResets, PrepareReleases, PrepareWaits, helper,
     fabric, caches, SetControl
<1>12. Start \/ StartControl \/ StartWaits => Unseen
  BY DEF Start, StartControl, StartWaits, helper, fabric, caches, SetControl
<1>13. ReturnCpu \/ ReturnCancels \/ ReturnWaits \/ ReturnUnmaps => Unseen
  BY DEF ReturnCpu, ReturnCancels, ReturnWaits, ReturnUnmaps, helper, fabric,
     caches, SetControl, IInv, PhaseInv, DeviceSteps
<1>14. FabricFails \/ CpuWrites \/ TimedOut \/ Done \/ AllocEnds \/ Open \/ Release => Unseen
  BY DEF FabricFails, CpuWrites, TimedOut, Done, AllocEnds, Open, Release, helper, fabric, caches
<1>15. ASSUME NEW first, NEW count, AllocRegion(first, count) PROVE Unseen
  BY <1>15 DEF AllocRegion, fabric, caches
<1> HIDE DEF Unseen
<1> QED
  BY <1>1, <1>2, <1>3, <1>4, <1>6, <1>7, <1>8, <1>9, <1>10, <1>11, <1>12, <1>13, <1>14, <1>15
     DEF DmaNext, StartSteps, ReturnSteps, AllocSteps, FileSteps, FabricSteps

(* The helper keeps the arena's promise: a frame is touched by a transfer   *)
(* only while the fabric owns it, and given up only while the CPU does.     *)
THEOREM DmaRefinesArena == DmaSpec => DmaImplementsArena
<1>1. DmaInit => Arena!DaInit
  BY DEF DmaInit, HelperReset, Unmapped, Mapped, Range, Arena!DaInit
<1>2. IInv /\ IInv' /\ [DmaNext]_vars => [Arena!DaNext]_(Arena!daVars)
  BY StepRefines
<1> QED  BY <1>1, <1>2, Invariance, PTL DEF DmaSpec, DmaImplementsArena, Arena!DaSpec
=============================================================================
