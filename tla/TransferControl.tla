-------------------------- MODULE TransferControl --------------------------
(***************************************************************************)
(* rtl/m5/pa_m5_transfer_control.sv: the MMIO registers through which hart *)
(* 1 gives the packet mover a command and collects its completion.  There  *)
(* is a single credit: one command, its completion included.               *)
(*                                                                         *)
(* An access is a record: the register, whether it writes, the byte lanes  *)
(* enabled, the data, and whether the address is aligned.  The data of the *)
(* COMMAND register is the doorbell's name; a word elsewhere is a function *)
(* from the lanes to the bytes.                                            *)
(***************************************************************************)
EXTENDS Naturals, PacketMover

CONSTANTS
    StagingRegs, \* src_addr0 .. deadline: ten registers
    Lanes,       \* 1 .. 4, the byte lanes of a word
    CounterSize  \* 2^32: the counters wrap

ASSUME TcAssumption ==
    /\ CounterSize \in Nat \ {0, 1} /\ Lanes \subseteq Nat /\ 1 \in Lanes
    /\ StagingRegs \cap {"Command", "Irq", "ReadOnly", "Nowhere"} = {}

VARIABLES
    tcStaging,   \* staging_q
    tcIrqEnable, \* irq_enable_q
    tcDonePrevious, \* done_previous_q
    tcAbort,     \* abort_request_o
    tcRejection, \* rejection_q
    tcAccepted, tcCompleted, tcRejected, \* accepted_q, completed_q, rejected_q
    tcRvalid, tcErr \* rvalid_o, err_o

tcVars == <<tcStaging, tcIrqEnable, tcDonePrevious, tcAbort, tcRejection,
            tcAccepted, tcCompleted, tcRejected, tcRvalid, tcErr>>

ZeroWord == [l \in Lanes |-> 0]
ZeroStaging == [r \in StagingRegs |-> ZeroWord]

TcInit ==
    /\ tcStaging = ZeroStaging /\ tcIrqEnable = FALSE /\ tcDonePrevious = FALSE
    /\ tcAbort = FALSE /\ tcRejection = 0
    /\ tcAccepted = 0 /\ tcCompleted = 0 /\ tcRejected = 0
    /\ tcRvalid = FALSE /\ tcErr = FALSE

MergeBytes(old, new, be) == [l \in Lanes |-> IF l \in be THEN new[l] ELSE old[l]]

IrqWord == [ZeroWord EXCEPT ![1] = IF tcIrqEnable THEN 1 ELSE 0]
IrqNew(r) == MergeBytes(IrqWord, r.data, r.be)

Doorbells == {"Start", "Ack", "Abort", "ClearRejection"}
IsCommand(r) == r.we /\ r.reg = "Command"

TcReady(abort) == PmReady(abort) /\ ~abort /\ ~tcAbort

\* access_fault: 0 none, 1 no credit or no completion, 2 doorbell, 3 access.
AccessFault(r, abort) ==
    CASE ~r.aligned -> 3
      [] r.aligned /\ r.reg \in StagingRegs -> 0
      [] r.aligned /\ IsCommand(r) ->
            IF r.be # Lanes \/ r.data \notin Doorbells THEN 2
            ELSE IF (r.data = "Start" /\ ~TcReady(abort)) \/ (r.data = "Ack" /\ ~PmDone(abort))
            THEN 1 ELSE 0
      [] r.aligned /\ r.we /\ r.reg = "Irq" ->
            IF IrqNew(r) \in {ZeroWord, [ZeroWord EXCEPT ![1] = 1]} THEN 0 ELSE 3
      [] r.aligned /\ r.we /\ r.reg \in {"ReadOnly", "Nowhere"} -> 3
      [] r.aligned /\ ~r.we /\ r.reg = "Nowhere" -> 3
      [] OTHER -> 0

\* The accesses of this edge, at most one, that ring the given doorbell.
Rings(requests, doorbell, abort) ==
    \E r \in requests : IsCommand(r) /\ r.data = doorbell /\ AccessFault(r, abort) = 0

TcStarts(requests, abort) == Rings(requests, "Start", abort)
TcAcks(requests, abort) == Rings(requests, "Ack", abort)

Count(counter, event) == IF event THEN (counter + 1) % CounterSize ELSE counter

(* Mutation: every cycle in which a completion waits is counted. *)
CompletionLevel(abort) == PmDone(abort)

CompletionEdge(abort) == PmDone(abort) /\ ~tcDonePrevious

TcWrites(r, abort) == r.we /\ AccessFault(r, abort) = 0

\* What an access does to the registers it can write.
TcAccess(r, abort) ==
    LET refused == AccessFault(r, abort) # 0 IN
    /\ tcRejection' = IF refused THEN AccessFault(r, abort)
                      ELSE IF IsCommand(r) /\ r.data = "ClearRejection" THEN 0 ELSE tcRejection
    /\ tcStaging' = IF TcWrites(r, abort) /\ r.reg \in StagingRegs
                    THEN [tcStaging EXCEPT ![r.reg] = MergeBytes(@, r.data, r.be)] ELSE tcStaging
    /\ tcIrqEnable' = IF TcWrites(r, abort) /\ r.reg = "Irq" THEN IrqNew(r)[1] = 1 ELSE tcIrqEnable

\* One clock edge of the control: requests holds the access, or is empty.
TcTick(requests, abort) ==
    LET refused == \E r \in requests : AccessFault(r, abort) # 0 IN
    /\ tcRvalid' = (requests # {}) /\ tcErr' = refused
    /\ tcDonePrevious' = PmDone(abort)
    /\ tcCompleted' = Count(tcCompleted, CompletionEdge(abort))
    /\ tcAccepted' = Count(tcAccepted, TcStarts(requests, abort))
    /\ tcRejected' = Count(tcRejected, refused)
    /\ tcAbort' = (tcAbort \/ Rings(requests, "Abort", abort))
    /\ \/ requests = {} /\ UNCHANGED <<tcRejection, tcStaging, tcIrqEnable>>
       \/ \E r \in requests : TcAccess(r, abort)

\* irq_o
TcIrq(abort) == tcIrqEnable /\ (PmDone(abort) \/ pmState = "Stopped" \/ tcRejection # 0)
=============================================================================
