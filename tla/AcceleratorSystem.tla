-------------------------- MODULE AcceleratorSystem --------------------------
(***************************************************************************)
(* rtl/m5/pa_m5_accelerator_system.sv: the transfer control, the packet    *)
(* mover, the two engines with their cancel-safe response shells           *)
(* (pa_m5_mmio_cancel.sv), the stream route and the sticky cancellation.   *)
(* A step is one clock edge.  The shared bus delivers at most one access   *)
(* per cycle: [dev, op], op a TransferControl access or an engine access.  *)
(* Of the engines only what the composition depends on is kept: that they  *)
(* answer in one cycle, forget all on reset, and hold the route register.  *)
(***************************************************************************)
EXTENDS TransferControl

CONSTANTS
    TransferAccesses, \* the accesses a core may make to the control
    EngineAccesses    \* to an engine: a route to select, or "Other"

ASSUME AccAssumption == \A r \in TransferAccesses : r.we \in BOOLEAN /\ r.aligned \in BOOLEAN

VARIABLES
    accAbort,   \* abort_i during the cycle that begins, from the supervisor
    accCancelQ, \* cancel_q
    accRoute,   \* stream_route_o of the SFPU, as the engine it selects
    shRvalid,   \* rvalid_o of each engine's shell
    shCancelled, \* cancelled_q, the same in both shells
    engRvalid,  \* rvalid_o of each engine
    \* history: the route when the mover took its command, the last engine
    \* access and whether the engines were being cancelled when it came
    accRouteTaken, accAsked

accOwn == <<accAbort, accCancelQ, accRoute, shRvalid, shCancelled, engRvalid>>
accVars == <<pmVars, tcVars, accOwn, accRouteTaken, accAsked>>

Engines == {"Gemm", "Sfpu"}
None == [dev |-> "None", op |-> "Other"]
NotAsked == [dev |-> "None", cancelled |-> FALSE]
Accesses ==
    {None} \cup [dev : {"Transfer"}, op : TransferAccesses] \cup [dev : Engines, op : EngineAccesses]

AccInit ==
    /\ PmInit /\ TcInit
    /\ accAbort = FALSE /\ accCancelQ = FALSE /\ accRoute = "Gemm"
    /\ shRvalid = [e \in Engines |-> FALSE] /\ shCancelled = FALSE
    /\ engRvalid = [e \in Engines |-> FALSE]
    /\ accRouteTaken = "Gemm" /\ accAsked = NotAsked

\* cancel_o
AccCancel == accAbort \/ accCancelQ \/ pmFaultAbort \/ tcAbort

\* The access, if it is for the device.
For(access, dev) == IF access.dev = dev THEN {access.op} ELSE {}

-----------------------------------------------------------------------------
(* The engines behind their shells. *)

\* engine_req_o: the access reaches the engine.
ReachesEngine(access, e) == access.dev = e /\ ~AccCancel

(* Mutation: the shell answers for an engine that is just being cancelled. *)
ShErrBefore(e) == shRvalid[e] /\ (shCancelled \/ ~engRvalid[e])

\* err_o of a shell.
ShErr(e) == shRvalid[e] /\ (AccCancel \/ shCancelled \/ ~engRvalid[e])

Shells(access) ==
    /\ shRvalid' = [e \in Engines |-> access.dev = e]
    /\ shCancelled' = AccCancel
    /\ engRvalid' = [e \in Engines |-> ReachesEngine(access, e)]

RouteLocked(engineBusy) == engineBusy \/ PmBusy

Routes(access, engineBusy) ==
    accRoute' = IF AccCancel THEN "Gemm"
                ELSE IF access.dev = "Sfpu" /\ access.op \in Engines /\ ~RouteLocked(engineBusy)
                THEN access.op ELSE accRoute

-----------------------------------------------------------------------------
(* One clock edge. *)

AccHistory(access) ==
    /\ accRouteTaken' = IF pmState = "Idle" /\ pmState' = "Working" THEN accRoute ELSE accRouteTaken
    /\ accAsked' = IF access.dev \in Engines
                   THEN [dev |-> access.dev, cancelled |-> AccCancel] ELSE NotAsked

AccClock(access, engineBusy) ==
    LET requests == For(access, "Transfer") IN
    /\ TcTick(requests, AccCancel)
    /\ PmTick(AccCancel, TcStarts(requests, AccCancel), tcStaging, TcAcks(requests, AccCancel))
    /\ Shells(access) /\ Routes(access, engineBusy)
    /\ accCancelQ' = (accCancelQ \/ AccCancel)
    /\ accAbort' \in BOOLEAN
    /\ AccHistory(access)

\* The supervisor resets the cluster once its memory system is drained.
AccReset ==
    /\ ~PmBusy
    /\ pmState' = "Idle" /\ pmCmd' = NoPmCommand /\ pmFaultAbort' = FALSE
    /\ tcStaging' = ZeroStaging /\ tcIrqEnable' = FALSE /\ tcDonePrevious' = FALSE
    /\ tcAbort' = FALSE /\ tcRejection' = 0
    /\ tcAccepted' = 0 /\ tcCompleted' = 0 /\ tcRejected' = 0
    /\ tcRvalid' = FALSE /\ tcErr' = FALSE
    /\ accAbort' = FALSE /\ accCancelQ' = FALSE /\ accRoute' = "Gemm"
    /\ shRvalid' = [e \in Engines |-> FALSE] /\ shCancelled' = FALSE
    /\ engRvalid' = [e \in Engines |-> FALSE]
    /\ accRouteTaken' = "Gemm" /\ accAsked' = NotAsked

AccEdge == \E access \in Accesses, engineBusy \in BOOLEAN : AccClock(access, engineBusy)
AccNext == AccEdge \/ AccReset

AccSpec == AccInit /\ [][AccNext]_accVars

-----------------------------------------------------------------------------
(* Properties. *)

AccOutstanding == (tcAccepted + CounterSize - tcCompleted) % CounterSize

(* The one credit is one packet.  The counters the runtime reads tell the   *)
(* truth about it: accepted runs ahead of completed by one exactly while a  *)
(* command is owned whose completion has not been counted, and a command    *)
(* stopped half-way stays visible as accepted and never completed.  And     *)
(* docs/M5_TRANSFER_ABI.md: "Route selection must be held for the entire    *)
(* packet, through output and completion": as long as words can move, they  *)
(* move between the mover and the engine that was selected when it started. *)
AccCredit ==
    /\ CASE pmState = "Idle"     -> AccOutstanding = 0
         [] pmState = "Working"  -> AccOutstanding = 1
         [] pmState = "Complete" -> AccOutstanding = IF tcDonePrevious THEN 0 ELSE 1
         [] pmState = "Stopped"  -> AccOutstanding \in {0, 1}
    /\ PmBusy /\ ~AccCancel => accRoute = accRouteTaken

(* docs/M5_TRANSFER_ABI.md: "an accelerator access whose response overlaps  *)
(* cancellation returns an explicit bus error, even if the underlying       *)
(* accelerator has just been reset": every access is answered a cycle       *)
(* later, with an error if and only if it met a cancellation.               *)
AccAnswers ==
    \A e \in Engines :
        /\ shRvalid[e] <=> accAsked.dev = e
        /\ shRvalid[e] => (ShErr(e) <=> accAsked.cancelled \/ AccCancel)
=============================================================================
