----------------------------- MODULE HartService -----------------------------
(***************************************************************************)
(* How the two harts share the accelerators: runtime/m5/pa_m5_hw.c and     *)
(* runtime/m5_context/parallel.c over the mailbox of                       *)
(* rtl/soc/pa_mailbox.sv, driven by firmware/m5/runtime_firmware.c and     *)
(* started and stopped by zynq/m5_run.py.                                  *)
(* A step is one access of one hart to the shared record, the mailbox or   *)
(* the console, in program order, or one step of the runner.  The control  *)
(* page is read by the runner only when the harts are stopped, so several  *)
(* writes to it make one step.  Of a job only its identity is kept.        *)
(***************************************************************************)
EXTENDS Naturals

CONSTANTS
    Transfers,  \* jobs for the accelerators: hardware_gemm, hardware_sfpu
    Leaves,     \* jobs the harts split: pa_context_parallel
    NoJob,
    SeqSize,    \* 2^32: the sequence numbers wrap
    MaxContext, \* 1024
    Prompts, Generations, \* the counts the runner asks for
    MaxCalls    \* bound: calls of one run

ASSUME HsAssumption ==
    /\ SeqSize \in Nat \ 0 .. 2 /\ MaxContext \in Nat /\ MaxCalls \in Nat
    /\ Prompts \subseteq Nat /\ Generations \subseteq Nat
    /\ Transfers \cap Leaves = {} /\ NoJob \notin Transfers \cup Leaves

Jobs == Transfers \cup Leaves
Requests == [prompt : Prompts, generation : Generations]

VARIABLES
    hsHost,    \* where the runner is: "Idle", "Loaded" or "Running"
    hsRequest, \* what it asked for
    hsCancel,  \* transfer_cancel_o: the fabric has failed and holds the harts
    hsControl, \* pa_m5_control, and the error as the step that failed
    hsDone,    \* done_q of the console
    hsShared,  \* pa_m5_hw_shared, in the scratchpad
    mbData, mbPend, \* the mailbox: [0] from hart 0 to 1, [1] back
    h0pc, h0seq, h0returned, \* hart 0: where it is, sequence, returned
    h0committed, h0step,     \* committed and step of run_hart0
    h1pc, h1seq, h1status,   \* hart 1: where it is, sequence, status
    \* history: the job hart 1 read, and the calls and transfers of this run
    h1job, hsCalls, hsMoves

hostVars == <<hsHost, hsRequest, hsCancel>>
mbVars == <<mbData, mbPend>>
h0Locals == <<h0seq, h0returned, h0committed, h0step>>
h0Vars == <<h0pc, h0Locals>>
h1Vars == <<h1pc, h1seq, h1status, h1job>>
countVars == <<hsCalls, hsMoves>>
hsVars == <<hostVars, hsControl, hsDone, hsShared, mbVars, h0Vars, h1Vars, countVars>>

BlankShared ==
    [magic |-> FALSE, ready |-> FALSE, request |-> 0, completion |-> 0,
     status |-> "Ok", transfers |-> 0, job |-> NoJob]

\* A cache of 0 stands for what the runner left there: the hart writes more.
FreshControl ==
    [state |-> 0, error |-> "None", cache |-> 0, generated |-> 0, transfers |-> 0]

-----------------------------------------------------------------------------
(* The mailbox: a pending bit is a level until it is acknowledged. *)

Silent == [d \in 0 .. 1 |-> 0]
NonePending == [d \in 0 .. 1 |-> FALSE]

MbSend(d, value) == mbData' = [mbData EXCEPT ![d] = value] /\ mbPend' = [mbPend EXCEPT ![d] = TRUE]

MbAck(d) == mbPend' = [mbPend EXCEPT ![d] = FALSE] /\ UNCHANGED mbData

-----------------------------------------------------------------------------
(* The runner. *)

Stopped == h0pc' = "Off" /\ h1pc' = "Off"

Forgotten ==
    /\ h0seq' = 0 /\ h0returned' = 0 /\ h0committed' = 0 /\ h0step' = 0
    /\ h1seq' = 0 /\ h1status' = "Ok" /\ h1job' = NoJob

HsInit ==
    /\ hsHost = "Idle" /\ hsRequest \in Requests /\ hsCancel = FALSE
    /\ hsControl = FreshControl /\ hsDone = FALSE
    /\ hsShared = BlankShared /\ mbData = Silent /\ mbPend = NonePending
    /\ h0pc = "Off" /\ h1pc = "Off"
    /\ h0seq = 0 /\ h0returned = 0 /\ h0committed = 0 /\ h0step = 0
    /\ h1seq = 0 /\ h1status = "Ok" /\ h1job = NoJob
    /\ hsCalls = 0 /\ hsMoves = 0

(* Mutation: the scratchpad keeps the shared record of the run before. *)
LoadsNothing == hsShared

\* load_firmware writes all of the scratchpad, the zeroed variables included.
Loaded == BlankShared

HostLoads ==
    /\ hsHost = "Idle" /\ hsHost' = "Loaded" /\ hsShared' = Loaded
    /\ UNCHANGED <<hsRequest, hsCancel, hsControl, hsDone, mbVars, h0Vars, h1Vars, countVars>>

\* IOC_START resets the devices and then lets both harts go.
HostStarts ==
    /\ hsHost = "Loaded" /\ hsHost' = "Running"
    /\ hsRequest' \in Requests /\ hsCancel' = FALSE
    /\ hsControl' = FreshControl /\ hsDone' = FALSE
    /\ mbData' = Silent /\ mbPend' = NonePending
    /\ h0pc' = "Validate" /\ h1pc' = "Begin" /\ Forgotten
    /\ hsCalls' = 0 /\ hsMoves' = 0
    /\ UNCHANGED hsShared

\* IOC_RETURN, after the done bit, a failure, or the runner's own timeout.
HostReturns ==
    /\ hsHost = "Running" /\ hsHost' = "Idle" /\ Stopped /\ Forgotten
    /\ UNCHANGED <<hsRequest, hsCancel, hsControl, hsDone, hsShared, mbVars, countVars>>

\* A cancellation of the fabric holds both harts in reset.
FabricFails ==
    /\ hsHost = "Running" /\ ~hsCancel /\ hsCancel' = TRUE /\ Stopped
    /\ UNCHANGED <<hsHost, hsRequest, hsControl, hsDone, hsShared, mbVars, countVars>>
    /\ UNCHANGED <<h0Locals, h1seq, h1status, h1job>>

-----------------------------------------------------------------------------
(* Hart 0: run_hart0. *)

H0Frame == UNCHANGED <<hostVars, h1Vars>>
H0At(pc, next) == h0pc = pc /\ h0pc' = next

FailsWith(error) ==
    /\ hsControl' = [hsControl EXCEPT !.state = 5, !.error = error]
    /\ h0pc' = "Finish"

\* validate_request
Valid(r) == r.prompt \in 1 .. MaxContext /\ r.generation \in 1 .. MaxContext - r.prompt

H0Validates ==
    /\ h0pc = "Validate"
    /\ IF Valid(hsRequest)
       THEN h0pc' = "Open" /\ hsControl' = [hsControl EXCEPT !.state = 1]
       ELSE FailsWith("Request")
    /\ H0Frame /\ UNCHANGED <<hsDone, hsShared, mbVars, countVars, h0Locals>>

\* pa_m5_model_open accepts the model in the arena, or does not.
H0Opens ==
    /\ h0pc = "Open"
    /\ (h0pc' = "ClearMagic" /\ UNCHANGED hsControl) \/ FailsWith("Model")
    /\ H0Frame /\ UNCHANGED <<hsDone, hsShared, mbVars, countVars, h0Locals>>

\* pa_m5_hw_prepare_hart0, one write after the other.
PrepareWrites ==
    [ClearMagic      |-> [field |-> "magic",      value |-> FALSE, next |-> "ClearReady"],
     ClearReady      |-> [field |-> "ready",      value |-> FALSE, next |-> "ClearRequest"],
     ClearRequest    |-> [field |-> "request",    value |-> 0,     next |-> "ClearCompletion"],
     ClearCompletion |-> [field |-> "completion", value |-> 0,     next |-> "ClearStatus"],
     ClearStatus     |-> [field |-> "status",     value |-> "Ok",  next |-> "ClearCount"],
     ClearCount      |-> [field |-> "transfers",  value |-> 0,     next |-> "ClearAnswer"],
     SetMagic        |-> [field |-> "magic",      value |-> TRUE,  next |-> "WaitReady"]]

H0Prepares ==
    /\ h0pc \in DOMAIN PrepareWrites
    /\ LET write == PrepareWrites[h0pc] IN
       hsShared' = [hsShared EXCEPT ![write.field] = write.value] /\ h0pc' = write.next
    /\ H0Frame /\ UNCHANGED <<hsControl, hsDone, mbVars, countVars, h0Locals>>

H0ClearsAnswer ==
    /\ H0At("ClearAnswer", "SetMagic") /\ MbAck(1)
    /\ H0Frame /\ UNCHANGED <<hsControl, hsDone, hsShared, countVars, h0Locals>>

H0SeesReady ==
    /\ H0At("WaitReady", "Chunk") /\ hsShared.ready
    /\ hsControl' = [hsControl EXCEPT !.state = 3]
    /\ H0Frame /\ UNCHANGED <<hsDone, hsShared, mbVars, countVars, h0Locals>>

-----------------------------------------------------------------------------
(* Hart 0: one call, of hardware_gemm, hardware_sfpu or pa_context_parallel. *)

(* Mutation: the sequence number may be zero. *)
NextSeqPlain(n) == (n + 1) % SeqSize

NextSeq(n) == IF (n + 1) % SeqSize = 0 THEN 1 ELSE (n + 1) % SeqSize

H0Fills ==
    /\ H0At("Chunk", "Publish") /\ hsCalls < MaxCalls
    /\ \E job \in Jobs :
        /\ hsShared' = [hsShared EXCEPT !.job = job, !.status = "Failed"]
        /\ hsMoves' = IF job \in Transfers THEN hsMoves + 1 ELSE hsMoves
    /\ h0seq' = NextSeq(hsShared.request) /\ hsCalls' = hsCalls + 1
    /\ H0Frame /\ UNCHANGED <<hsControl, hsDone, mbVars, h0returned, h0committed, h0step>>

H0Publishes ==
    /\ H0At("Publish", "Ring")
    /\ hsShared' = [hsShared EXCEPT !.request = h0seq]
    /\ H0Frame /\ UNCHANGED <<hsControl, hsDone, mbVars, countVars, h0Locals>>

\* Of a job that is split, hart 0 then does its own part.
H0Rings ==
    /\ H0At("Ring", "Await") /\ MbSend(0, h0seq)
    /\ H0Frame /\ UNCHANGED <<hsControl, hsDone, hsShared, countVars, h0Locals>>

\* pa_iter_wait_mailbox: a hart that finds nothing may sleep until the level.
H0Awaits ==
    /\ \/ H0At("Await", "Read") /\ mbPend[1]
       \/ H0At("Await", "Sleep") /\ ~mbPend[1]
       \/ H0At("Sleep", "Await") /\ mbPend[1]
    /\ H0Frame /\ UNCHANGED <<hsControl, hsDone, hsShared, mbVars, countVars, h0Locals>>

H0Reads ==
    /\ H0At("Read", "Collect") /\ h0returned' = mbData[1]
    /\ H0Frame /\ UNCHANGED <<hsControl, hsDone, hsShared, mbVars, countVars, h0seq, h0committed, h0step>>

H0Collects ==
    /\ H0At("Collect", "Compare") /\ MbAck(1)
    /\ H0Frame /\ UNCHANGED <<hsControl, hsDone, hsShared, countVars, h0Locals>>

CallSucceeded ==
    h0returned = h0seq /\ hsShared.completion = h0seq /\ hsShared.status = "Ok"

\* A failure is reported with the part of the run it happened in.
PartError == IF h0step = 0 THEN "Prefill" ELSE "Decode"

H0Compares ==
    /\ h0pc = "Compare"
    /\ IF CallSucceeded THEN h0pc' = "Chunk" /\ UNCHANGED hsControl ELSE FailsWith(PartError)
    /\ H0Frame /\ UNCHANGED <<hsDone, hsShared, mbVars, countVars, h0Locals>>

-----------------------------------------------------------------------------
(* Hart 0: the generation loop. *)

\* An operator fails without a call: an operand outside the arena, no room.
H0GivesUp ==
    /\ h0pc = "Chunk" /\ FailsWith(PartError)
    /\ H0Frame /\ UNCHANGED <<hsDone, hsShared, mbVars, countVars, h0Locals>>

\* The prompt, or one more token, has been through the model.
H0Commits ==
    /\ H0At("Chunk", "Select")
    /\ h0committed' = IF h0step = 0 THEN hsRequest.prompt ELSE h0committed + 1
    /\ hsControl' = [hsControl EXCEPT !.cache = h0committed']
    /\ H0Frame /\ UNCHANGED <<hsDone, hsShared, mbVars, countVars, h0seq, h0returned, h0step>>

(* Mutation: the last token selected is run through the model as well. *)
AlwaysMore(step) == step <= hsRequest.generation

MoreTokens(step) == step < hsRequest.generation

H0Selects ==
    /\ h0pc = "Select" /\ h0step' = h0step + 1
    /\ hsControl' = [hsControl EXCEPT !.generated = h0step']
    /\ h0pc' = IF MoreTokens(h0step') THEN "Chunk" ELSE "Report"
    /\ H0Frame /\ UNCHANGED <<hsDone, hsShared, mbVars, countVars, h0seq, h0returned, h0committed>>

H0Reports ==
    /\ H0At("Report", "Finish")
    /\ hsControl' = [hsControl EXCEPT !.state = 4, !.transfers = hsShared.transfers]
    /\ H0Frame /\ UNCHANGED <<hsDone, hsShared, mbVars, countVars, h0Locals>>

\* The console's done bit, after which the hart sleeps for ever.
H0Finishes ==
    /\ H0At("Finish", "Halt") /\ hsDone' = TRUE
    /\ H0Frame /\ UNCHANGED <<hsControl, hsShared, mbVars, countVars, h0Locals>>

\* m5_memory_trap, from an access to DDR.
H0Traps ==
    /\ h0pc \in {"Validate", "Open", "Chunk", "Select"} /\ h0pc' = "Halt" /\ hsDone' = TRUE
    /\ H0Frame /\ UNCHANGED <<hsControl, hsShared, mbVars, countVars, h0Locals>>

H0Step ==
    \/ H0Validates \/ H0Opens \/ H0Prepares \/ H0ClearsAnswer \/ H0SeesReady
    \/ H0Fills \/ H0Publishes \/ H0Rings \/ H0Awaits \/ H0Reads \/ H0Collects \/ H0Compares
    \/ H0GivesUp \/ H0Commits \/ H0Selects \/ H0Reports \/ H0Finishes \/ H0Traps

-----------------------------------------------------------------------------
(* Hart 1: pa_m5_hw_service_hart1. *)

H1Frame == UNCHANGED <<hostVars, hsControl, hsDone, h0Vars, countVars>>
H1At(pc, next) == h1pc = pc /\ h1pc' = next

H1Begins ==
    /\ H1At("Begin", "WaitMagic") /\ MbAck(0)
    /\ H1Frame /\ UNCHANGED <<hsShared, h1seq, h1status, h1job>>

H1SeesMagic ==
    /\ H1At("WaitMagic", "SetReady") /\ hsShared.magic
    /\ H1Frame /\ UNCHANGED <<hsShared, mbVars, h1seq, h1status, h1job>>

H1SetsReady ==
    /\ H1At("SetReady", "Wait") /\ hsShared' = [hsShared EXCEPT !.ready = TRUE]
    /\ H1Frame /\ UNCHANGED <<mbVars, h1seq, h1status, h1job>>

H1Waits ==
    /\ \/ H1At("Wait", "Take") /\ mbPend[0]
       \/ H1At("Wait", "Sleep") /\ ~mbPend[0]
       \/ H1At("Sleep", "Wait") /\ mbPend[0]
    /\ H1Frame /\ UNCHANGED <<hsShared, mbVars, h1seq, h1status, h1job>>

H1Takes ==
    /\ H1At("Take", "AckRequest") /\ h1seq' = mbData[0]
    /\ H1Frame /\ UNCHANGED <<hsShared, mbVars, h1status, h1job>>

H1Acks ==
    /\ H1At("AckRequest", "Check") /\ MbAck(0)
    /\ H1Frame /\ UNCHANGED <<hsShared, h1seq, h1status, h1job>>

H1Checks ==
    /\ h1pc = "Check"
    /\ IF h1seq # 0 /\ h1seq = hsShared.request
       THEN h1pc' = "Execute" /\ h1job' = hsShared.job /\ UNCHANGED h1status
       ELSE h1pc' = "SetStatus" /\ h1job' = NoJob /\ h1status' = "Failed"
    /\ H1Frame /\ UNCHANGED <<hsShared, mbVars, h1seq>>

\* execute, to its end: it reads the record again for what it reports.  A
\* transfer the engine has started is counted whether it succeeds or not.
H1Executes ==
    /\ H1At("Execute", "SetStatus")
    /\ h1status' \in {"Ok", "Failed"}
    /\ h1job' = IF hsShared.job = h1job THEN h1job ELSE NoJob
    /\ \/ h1job \in Transfers /\ hsShared' = [hsShared EXCEPT !.transfers = @ + 1]
       \/ (h1job \in Leaves \/ h1status' = "Failed") /\ UNCHANGED hsShared
    /\ H1Frame /\ UNCHANGED <<mbVars, h1seq>>

H1SetsStatus ==
    /\ H1At("SetStatus", "SetCompletion") /\ hsShared' = [hsShared EXCEPT !.status = h1status]
    /\ H1Frame /\ UNCHANGED <<mbVars, h1seq, h1status, h1job>>

H1SetsCompletion ==
    /\ H1At("SetCompletion", "Answer") /\ hsShared' = [hsShared EXCEPT !.completion = h1seq]
    /\ H1Frame /\ UNCHANGED <<mbVars, h1seq, h1status, h1job>>

H1Answers ==
    /\ H1At("Answer", "Wait") /\ MbSend(1, h1seq)
    /\ H1Frame /\ UNCHANGED <<hsShared, h1seq, h1status, h1job>>

\* m5_memory_trap, from an access to DDR or to an engine that is cancelled.
H1Traps ==
    /\ H1At("Execute", "Halt") /\ hsDone' = TRUE
    /\ UNCHANGED <<hostVars, hsControl, hsShared, mbVars, h0Vars, countVars, h1seq, h1status, h1job>>

H1Step ==
    \/ H1Begins \/ H1SeesMagic \/ H1SetsReady \/ H1Waits \/ H1Takes \/ H1Acks \/ H1Checks
    \/ H1Executes \/ H1SetsStatus \/ H1SetsCompletion \/ H1Answers \/ H1Traps

-----------------------------------------------------------------------------
HsNext == HostLoads \/ HostStarts \/ HostReturns \/ FabricFails \/ H0Step \/ H1Step

\* Each hart is clocked and its accesses are answered; execute ends because
\* the packet mover settles.  Nothing is assumed of the runner.
HsSpec == HsInit /\ [][HsNext]_hsVars /\ WF_hsVars(H0Step) /\ WF_hsVars(H1Step)

-----------------------------------------------------------------------------
(* Properties. *)

InCall == h0pc \in {"Publish", "Ring", "Await", "Sleep", "Read", "Collect", "Compare"}
HasRun == InCall /\ (h1pc \in {"SetStatus", "SetCompletion"} \/ hsShared.completion = h0seq)

\* The call as hart 0's operators see it.
CallPhase == IF ~InCall THEN "None" ELSE IF HasRun THEN "Served" ELSE "Called"
CallJob == IF InCall THEN hsShared.job ELSE NoJob
JobServed == IF HasRun THEN h1job ELSE NoJob
CallOutcome == IF ~HasRun THEN "None" ELSE IF h1pc = "SetStatus" THEN h1status ELSE hsShared.status
CallResult ==
    IF h0pc = "Off" THEN "Off"
    ELSE IF h0pc \in {"Finish", "Halt"} /\ hsControl.error \in {"Prefill", "Decode"} THEN "Failed" ELSE "Ok"

(* A call of hart 0 is served exactly once, on the record it filled, and    *)
(* returns what became of that job, through two sequence numbers, two       *)
(* pending bits and a wrap of the numbers: never an answer to an earlier    *)
(* call, never an answer before the job is done.                            *)
Calls == INSTANCE HartCalls WITH
    hcPhase <- CallPhase, hcJob <- CallJob, hcServed <- JobServed,
    hcOutcome <- CallOutcome, hcResult <- CallResult

HsImplementsCalls == Calls!HcSpec

(* What the runner reads in the control page after the harts have stopped,  *)
(* whatever stopped them: the cache is said to hold exactly the prompt and  *)
(* every selected token but the last, a refused request has touched         *)
(* nothing, and a finished run has generated what was asked for and counts  *)
(* the transfers that were made for it.                                     *)
HsReport ==
    LET c == hsControl IN
    /\ c.cache # 0 =>
        c.cache + 1 - hsRequest.prompt \in {c.generated, c.generated + 1} /\ c.cache < MaxContext
    /\ c.error = "Request" => c.cache = 0 /\ c.generated = 0 /\ hsCalls = 0
    /\ c.state = 4 => /\ c.generated = hsRequest.generation
                      /\ c.cache = hsRequest.prompt + hsRequest.generation - 1
                      /\ c.transfers = hsMoves

(* The harts wait for each other with no timeout of their own: a run that   *)
(* the runner starts still comes to its done bit unless the fabric fails,   *)
(* however the two boots interleave and whatever the run before, stopped    *)
(* anywhere, has left in the scratchpad, which no reset clears.             *)
HsFinishes == hsHost = "Running" ~> hsDone \/ hsCancel \/ hsHost # "Running"
=============================================================================
