---------------------------- MODULE AxiLiteBridge ----------------------------
(***************************************************************************)
(* rtl/soc/pa_axi_lite_bridge.sv: the host's AXI4-Lite port onto the local *)
(* bus.  AW and then W, or AR, make one request; it is held to the bus     *)
(* until granted, and answered on B or R when the bus has answered.  A     *)
(* step is one clock edge.  A channel whose VALID is low is the empty set. *)
(***************************************************************************)
EXTENDS Naturals, FiniteSets

CONSTANTS
    Addrs, Words, \* addresses and data of the host's accesses
    Concurrent    \* the host may have a write and a read in progress at a time

ASSUME AlAssumption == Concurrent \in BOOLEAN

VARIABLES
    alState, \* state_q
    alReq,   \* we_q, addr_q, wdata_q
    alRdata, \* rdata_q
    alErr,   \* err_q
    \* the host's AW, W and AR channels, and the bus's request in service
    mAw, mW, mAr, alBus,
    \* history: the requests accepted and not yet answered, the data accepted
    \* with the write, and what the bus last answered
    alOwed, alData, alDone

alRegs == <<alState, alReq, alRdata, alErr>>
alVars == <<alRegs, mAw, mW, mAr, alBus, alOwed, alData, alDone>>

AlStates == {"IDLE", "WAIT_W", "XFER", "WWAIT", "BRESP", "RWAIT", "RRESP"}

AwReady == alState = "IDLE"
ArReady == alState = "IDLE"
WReady  == alState = "WAIT_W"
BValid  == alState = "BRESP"
RValid  == alState = "RRESP"
BusReq  == alState = "XFER"

TakesAw == mAw # {} /\ AwReady
TakesAr == mAr # {} /\ ArReady
TakesW  == mW # {} /\ WReady

-----------------------------------------------------------------------------
(* One action per arm of case (state_q). *)

AlIdle ==
    /\ alState = "IDLE"
    /\ alErr' = FALSE
    /\ \/ \E addr \in mAw : alReq' = [alReq EXCEPT !.addr = addr] /\ alState' = "WAIT_W"
       \/ mAw = {} /\ \E addr \in mAr :
             alReq' = [alReq EXCEPT !.addr = addr, !.we = FALSE] /\ alState' = "XFER"
       \/ mAw = {} /\ mAr = {} /\ UNCHANGED <<alReq, alState>>
    /\ UNCHANGED alRdata

AlWaitW ==
    /\ alState = "WAIT_W"
    /\ \/ \E data \in mW : alReq' = [alReq EXCEPT !.data = data, !.we = TRUE] /\ alState' = "XFER"
       \/ mW = {} /\ UNCHANGED <<alReq, alState>>
    /\ UNCHANGED <<alRdata, alErr>>

(* Mutation: a write is answered as soon as the bus grants it. *)
GrantedPosted == IF alReq.we THEN "BRESP" ELSE "RWAIT"

GrantedTo == IF alReq.we THEN "WWAIT" ELSE "RWAIT"

(* Mutation: the request is dropped after one cycle, granted or not. *)
AlXferAtOnce(gnt) == BusReq /\ alState' = GrantedTo /\ UNCHANGED <<alReq, alRdata, alErr>>

AlXfer(gnt) ==
    /\ BusReq
    /\ alState' = IF gnt THEN GrantedTo ELSE alState
    /\ UNCHANGED <<alReq, alRdata, alErr>>

\* rsp: the bus's answer on this edge, if there is one.
AlWWait(rsp) ==
    /\ alState = "WWAIT"
    /\ \/ \E r \in rsp : alErr' = r.err /\ alState' = "BRESP"
       \/ rsp = {} /\ UNCHANGED <<alErr, alState>>
    /\ UNCHANGED <<alReq, alRdata>>

AlRWait(rsp) ==
    /\ alState = "RWAIT"
    /\ \/ \E r \in rsp : alErr' = r.err /\ alRdata' = r.data /\ alState' = "RRESP"
       \/ rsp = {} /\ UNCHANGED <<alErr, alRdata, alState>>
    /\ UNCHANGED alReq

AlResp(ready) ==
    /\ BValid \/ RValid
    /\ alState' = IF ready THEN "IDLE" ELSE alState
    /\ UNCHANGED <<alReq, alRdata, alErr>>

AlStep(gnt, rsp, ready) ==
    AlIdle \/ AlWaitW \/ AlXfer(gnt) \/ AlWWait(rsp) \/ AlRWait(rsp) \/ AlResp(ready)

-----------------------------------------------------------------------------
(* The host and the bus.  AXI4-Lite's channels are independent: the host    *)
(* keeps VALID up until it meets READY and has at most one write and one    *)
(* read in progress, at a time if it is Concurrent.  The bus grants and     *)
(* answers each request once, when it likes.                                *)

OwedKind(we) == \E r \in alOwed : r.we = we
WriteInProgress == mAw # {} \/ mW # {} \/ OwedKind(TRUE)
ReadInProgress  == mAr # {} \/ OwedKind(FALSE)

One(S) == {{x} : x \in S}
Offers(S) == {{}} \cup One(S)

\* bready_i or rready_i, where it is looked at.
Readies == IF BValid \/ RValid THEN BOOLEAN ELSE {FALSE}

HostMoves ==
    \E aw, ar \in Offers(Addrs), w \in Offers(Words) :
        /\ (aw = {}) = (w = {})
        /\ aw # {} => ~WriteInProgress /\ (Concurrent \/ ~ReadInProgress)
        /\ ar # {} => ~ReadInProgress /\ (Concurrent \/ (~WriteInProgress /\ aw = {}))
        /\ mAw' = IF aw # {} THEN aw ELSE IF TakesAw THEN {} ELSE mAw
        /\ mW' = IF w # {} THEN w ELSE IF TakesW THEN {} ELSE mW
        /\ mAr' = IF ar # {} THEN ar ELSE IF TakesAr THEN {} ELSE mAr

BusMay(gnt, rsp) ==
    /\ gnt => BusReq /\ alBus = {}
    /\ rsp # {} => alBus # {}

BusHistory(gnt, rsp) ==
    /\ alBus' = IF gnt THEN {alReq} ELSE IF rsp # {} THEN {} ELSE alBus
    /\ \/ \E r \in rsp, q \in alBus : alDone' = [req |-> q, rsp |-> r]
       \/ (rsp = {} \/ alBus = {}) /\ UNCHANGED alDone

BusMoves(gnt, rsp) == BusMay(gnt, rsp) /\ BusHistory(gnt, rsp)

\* The accepted request that a completed B or R handshake answers.
AlAnswered(ready) == {r \in alOwed : ready /\ ((BValid /\ r.we) \/ (RValid /\ ~r.we))}

AlHistory(ready) ==
    /\ alOwed' = (alOwed \ AlAnswered(ready))
                   \cup {[we |-> TRUE, addr |-> x] : x \in IF TakesAw THEN mAw ELSE {}}
                   \cup {[we |-> FALSE, addr |-> x] : x \in IF TakesAr THEN mAr ELSE {}}
    /\ alData' = IF TakesW THEN mW ELSE alData

Responses == Offers([err : BOOLEAN, data : Words])

AlNext ==
    \E gnt \in BOOLEAN, ready \in Readies, rsp \in Responses :
        AlStep(gnt, rsp, ready) /\ BusMoves(gnt, rsp) /\ HostMoves /\ AlHistory(ready)

AlInit ==
    /\ alState = "IDLE" /\ alErr = FALSE
    /\ \E addr \in Addrs, data \in Words :
          /\ alReq = [we |-> FALSE, addr |-> addr, data |-> data] /\ alRdata = data
          /\ alDone = [req |-> alReq, rsp |-> [err |-> FALSE, data |-> data]]
    /\ mAw = {} /\ mW = {} /\ mAr = {} /\ alBus = {}
    /\ alOwed = {} /\ alData = {}

AlSpec == AlInit /\ [][AlNext]_alVars

-----------------------------------------------------------------------------
(* Properties. *)

(* What the host is told is what happened: an answer on B or R belongs to a *)
(* request it made, the bus carried out that very request, with its address *)
(* and its data, and the error and the data are the bus's own.              *)
AlExchange ==
    /\ BValid => /\ [we |-> TRUE, addr |-> alDone.req.addr] \in alOwed
                 /\ alDone.req.we /\ {alDone.req.data} = alData
                 /\ alErr = alDone.rsp.err
    /\ RValid => /\ [we |-> FALSE, addr |-> alDone.req.addr] \in alOwed
                 /\ ~alDone.req.we
                 /\ alErr = alDone.rsp.err /\ alRdata = alDone.rsp.data

(* pa_axi_lite_bridge.sv:9: "at most one outstanding transaction", and      *)
(* :15-16: "while a write is in flight the AR channel is not accepted, and  *)
(* vice versa".  A host that is Concurrent finds that a read offered on the *)
(* edge that accepts a write is accepted with it, and then forgotten.       *)
AlOneOutstanding == Cardinality(alOwed) <= 1
=============================================================================
