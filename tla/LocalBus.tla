------------------------------ MODULE LocalBus ------------------------------
(***************************************************************************)
(* rtl/m5/pa_m5_cluster_top.sv: the host's AXI4-Lite bridge is host 0 of   *)
(* the shared local bus, next to the harts' ports.  A step is one clock    *)
(* edge of both: the bridge's req_o and addr_o are the bus's host_req_i    *)
(* and host_addr_i, and its gnt_i, rvalid_i and err_i the bus's outputs.   *)
(***************************************************************************)
EXTENDS SharedBus, AxiLiteBridge

ASSUME LbAssumption == Addrs \subseteq Requests

AxI == 0

lbVars == <<sbVars, alVars>>

\* host_req_i[AxI] and host_addr_i[AxI]
BridgePort == IF BusReq THEN alReq.addr ELSE NoRequest

\* The answer on the bridge's port: a device gives some word and no error,
\* the bus itself answers a decode error with an error.
BridgeAnswers ==
    IF ~Answered(AxI) THEN {{}}
    ELSE One([err : {AnswerTo(AxI).req = Nowhere}, data : Words])

\* The harts' ports raise requests as any host of the bus may.
HartsRaise ==
    sbReq' \in {r \in [Hosts -> Requests \cup {NoRequest}] :
        /\ r[AxI] = BridgePort'
        /\ \A h \in Hosts \ {AxI} :
            IF sbReq[h] # NoRequest /\ ~Granted(h) THEN r[h] = sbReq[h]
            ELSE r[h] # NoRequest => Len(sbAwaited[h]) < MaxAwaited}

LbNext ==
    \E ready \in Readies, rsp \in BridgeAnswers :
        /\ AlStep(Granted(AxI), rsp, ready) /\ HostMoves
        /\ AlHistory(ready) /\ BusHistory(Granted(AxI), rsp)
        /\ SbBuffer /\ SbIssue /\ sbResp' = RespOf
        /\ DevicesAnswer /\ SbHistory /\ HartsRaise

LbInit == SbInit /\ AlInit

LbSpec == LbInit /\ [][LbNext]_lbVars

-----------------------------------------------------------------------------
(* Properties. *)

(* pa_axi_lite_bridge.sv:9 and pa_shared_bus.sv:48-52: each keeps to what    *)
(* the other was written for.  The bridge holds a request until its grant    *)
(* and asks for nothing more until the answer, so the bus's capture buffer   *)
(* never issues one of its requests twice; the bus grants and answers the    *)
(* bridge only when asked, once, and not before the grant.                   *)
LbComposes == SbSpec /\ AlSpec
=============================================================================
