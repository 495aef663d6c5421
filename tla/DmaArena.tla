------------------------------ MODULE DmaArena ------------------------------
(***************************************************************************)
(* What the kernel helper promises: the frames of the arena belong either  *)
(* to the CPU or to the fabric, the fabric's transfers touch only frames   *)
(* of the arena and only while it owns them, and the set of frames changes *)
(* only while the CPU does.  DmaOwner implements this specification.       *)
(***************************************************************************)
CONSTANT ArenaFrames \* the page frames there are

VARIABLES
    daOwner,  \* "Cpu" or "Device"
    daFrames, \* the frames in the arena
    daTouched \* the frames a transfer in flight reads or writes

daVars == <<daOwner, daFrames, daTouched>>

DaInit == daOwner = "Cpu" /\ daFrames = {} /\ daTouched = {}

DaResize ==
    /\ daOwner = "Cpu"
    /\ daFrames' \in SUBSET ArenaFrames
    /\ UNCHANGED <<daOwner, daTouched>>

DaGive == daOwner = "Cpu" /\ daOwner' = "Device" /\ UNCHANGED <<daFrames, daTouched>>

DaTouch ==
    /\ daOwner = "Device"
    /\ \E f \in daFrames : daTouched' = daTouched \cup {f}
    /\ UNCHANGED <<daOwner, daFrames>>

DaFinish == \E f \in daTouched : daTouched' = daTouched \ {f} /\ UNCHANGED <<daOwner, daFrames>>

DaTakeBack ==
    /\ daOwner = "Device" /\ daTouched = {}
    /\ daOwner' = "Cpu" /\ UNCHANGED <<daFrames, daTouched>>

DaNext == DaResize \/ DaGive \/ DaTouch \/ DaFinish \/ DaTakeBack

DaSpec == DaInit /\ [][DaNext]_daVars
=============================================================================
