---------------------------- MODULE MemorySystem ----------------------------
(***************************************************************************)
(* rtl/m5/pa_m5_memory_system.sv: per core port an OBI router and a        *)
(* one-word DDR adapter, the bulk client, the arbiter and the translated   *)
(* port.  Everything advances on one clock edge; the harts, the local bus, *)
(* the host and the port below choose their inputs freely on each of them. *)
(***************************************************************************)
EXTENDS MemoryArbiter, MemoryClient

CONSTANTS
    Accesses, \* what a hart may request: "local", "read", "write"
    BulkWords \* the lengths of the bulk client's bursts

Cores == 0 .. NClients - 2
Bulk == NClients - 1

\* What the bulk client asks for, and what reaches the port.
BulkRequests == [client : {Bulk}, words : BulkWords, write : BOOLEAN]
SysRequests == BulkRequests \cup [client : Cores, words : {1}, write : BOOLEAN]

\* 0 is the completion code of a request that was served.
ASSUME SysAssumption ==
    /\ PortRequests = SysRequests /\ ClientRequests = BulkRequests
    /\ BulkWords \subseteq Nat \ {0} /\ Accesses \subseteq {"local", "read", "write"}
    /\ Refusals \subseteq 1 .. 12 /\ BusFaults \subseteq 1 .. 12

VARIABLES
    router,  \* per core: state_q, route_q, we_q and error_q of pa_m5_obi_router
    adapter, \* per core: the flags of pa_m5_obi_ddr
    hostAbort, hostStop, \* abort_i, and stop_i: the harts are held in reset
    \* history
    sysWaits,  \* per core: the hart was granted a request and awaits the response
    sysDone    \* per core: that request was carried out by its target

sysMachine == <<router, adapter, mcVars, arbRegs, mpVars>>
sysVars == <<sysMachine, hostAbort, hostStop, sysWaits, sysDone>>

RouterStates == {"Idle", "Send", "WaitResponse", "Respond"}
Routes == {"local", "ddr"}
NoAccess == [active |-> FALSE, write |-> FALSE, sent |-> FALSE, received |-> FALSE, bad |-> FALSE]

\* Inputs of a core port: the hart's request, or what its local target does.
Drives == {"none", "local", "read", "write", "ok", "err"}

-----------------------------------------------------------------------------
(* pa_m5_obi_router. *)

\* stop_i of the routers.
RtStops == hostStop \/ hostAbort

RtBusy(c) == router[c].state # "Idle"
RtGrants(c, drive) == router[c].state = "Idle" /\ drive \in {"local", "read", "write"} /\ ~RtStops
RtSends(c, route) == router[c].state = "Send" /\ router[c].route = route

-----------------------------------------------------------------------------
(* pa_m5_obi_ddr. *)

AdValid(c) == RtSends(c, "ddr") /\ ~adapter[c].active
AdInValid(c) == adapter[c].active /\ adapter[c].write /\ ~adapter[c].sent
AdDone(c) == adapter[c].active /\ ArbDoneValid(c)

(* Mutation: a missing word is an error, a fault code is not. *)
AdErrMissing(c) ==
    \/ adapter[c].bad
    \/ ~adapter[c].write /\ ~adapter[c].received
    \/ adapter[c].write /\ ~adapter[c].sent

AdErr(c) ==
    \/ arbFault # 0 \/ adapter[c].bad
    \/ ~adapter[c].write /\ ~adapter[c].received
    \/ adapter[c].write /\ ~adapter[c].sent

-----------------------------------------------------------------------------
(* The arbiter's clients: the adapters, and the bulk client. *)

ReqValid == [c \in Clients |-> IF c = Bulk THEN McValid ELSE AdValid(c)]
Req == [c \in Clients |->
          IF c = Bulk THEN mcReq
          ELSE [client |-> c, words |-> 1, write |-> router[c].write]]
DoneReady == [c \in Clients |-> IF c = Bulk THEN McDoneReady ELSE adapter[c].active]
\* The bulk client has data, or takes data, when it pleases.
InValid(bulk)  == [c \in Clients |-> IF c = Bulk THEN McDoneReady /\ bulk ELSE AdInValid(c)]
OutReady(bulk) == [c \in Clients |-> IF c = Bulk THEN McDoneReady /\ bulk ELSE adapter[c].active]

Granted(pause, c) == ArbReady(hostAbort, pause, ReqValid, c)

\* A core port's local target grants, or answers.
RtTargetGrants(c, pause, drive) ==
    IF router[c].route = "ddr" THEN Granted(pause, c) ELSE drive # "none"
RtTargetAnswers(c, drive) ==
    IF router[c].route = "ddr" THEN AdDone(c) ELSE drive # "none"
RtTargetErr(c, drive) ==
    IF router[c].route = "ddr" THEN AdErr(c) ELSE drive = "err"

-----------------------------------------------------------------------------
(* Next values of the router and the adapter of core c. *)

RtNext(c, pause, drive) ==
    CASE RtGrants(c, drive) ->
           [router[c] EXCEPT !.state = "Send", !.write = (drive = "write"),
                             !.route = IF drive = "local" THEN "local" ELSE "ddr"]
      [] router[c].state = "Send" /\ RtTargetGrants(c, pause, drive) ->
           [router[c] EXCEPT !.state = "WaitResponse"]
      [] router[c].state = "WaitResponse" /\ RtTargetAnswers(c, drive) ->
           [router[c] EXCEPT !.state = "Respond", !.err = RtTargetErr(c, drive)]
      [] router[c].state = "Respond" -> [router[c] EXCEPT !.state = "Idle"]
      [] OTHER -> router[c]

AdNext(c, pause) ==
    CASE AdValid(c) /\ Granted(pause, c) ->
           [NoAccess EXCEPT !.active = TRUE, !.write = router[c].write]
      [] adapter[c].active ->
           [adapter[c] EXCEPT
              !.active = ~AdDone(c),
              !.sent = @ \/ (AdInValid(c) /\ ArbInReady(hostAbort, c)),
              !.received = @ \/ ArbOutValid(hostAbort, c),
              !.bad = @ \/ (/\ ArbOutValid(hostAbort, c)
                            /\ adapter[c].write \/ adapter[c].received \/ ~MpLast)]
      [] OTHER -> adapter[c]

(* Mutation: a router that waits for its target does not count as busy. *)
AdaptersBusy == \E c \in Cores : adapter[c].active

CoresBusy == \E c \in Cores : RtBusy(c) \/ adapter[c].active
SysBusy == CoresBusy \/ ArbBusy \/ McBusy
SysQuiesced == hostAbort /\ ~CoresBusy /\ ArbQuiesced(hostAbort, ReqValid) /\ ~McBusy

\* What a core port may be driven with: a held hart requests nothing.
DrivesOf(c) ==
    CASE ~RtBusy(c) -> IF hostStop THEN {"none"} ELSE {"none"} \cup Accesses
      [] RtSends(c, "local") -> {"none", "ok"}
      [] router[c].state = "WaitResponse" /\ router[c].route = "local" -> {"none", "ok", "err"}
      [] OTHER -> {"none"}

\* One clock edge of the whole fabric.
SysTick(pause, drives, bulk) ==
    /\ router'  = [c \in Cores |-> RtNext(c, pause, drives[c])]
    /\ adapter' = [c \in Cores |-> AdNext(c, pause)]
    /\ McTick(hostAbort, Granted(pause, Bulk), ArbDoneValid(Bulk))
    /\ ArbTick(hostAbort, pause, ReqValid, Req, InValid(bulk), OutReady(bulk), DoneReady)

-----------------------------------------------------------------------------
(* Around the fabric. *)

(* The host may raise and lower the abort and the core reset at any time,   *)
(* but releases the harts only once the fabric reports that it is idle.     *)
HostInputs ==
    /\ hostAbort' \in BOOLEAN
    /\ hostStop' \in IF hostStop /\ SysBusy THEN {TRUE} ELSE BOOLEAN

\* The port answers client c's request: all of its words moved, and no fault.
Completes(c) ==
    /\ mpState = "Closing" /\ mpState' = "Answer"
    /\ mpReq.client = c /\ mpCount = mpReq.words /\ mpFault' = 0

SysHistory(pause, drives) ==
    /\ sysWaits' = [c \in Cores |->
         ~hostStop' /\ (RtGrants(c, drives[c]) \/ (sysWaits[c] /\ router[c].state # "Respond"))]
    /\ sysDone' = [c \in Cores |->
         /\ router[c].state = "WaitResponse"
         /\ \/ sysDone[c]
            \/ IF router[c].route = "ddr" THEN Completes(c) ELSE drives[c] = "ok"]

SysClock(pause, drives, bulk) ==
    /\ \A c \in Cores : drives[c] \in DrivesOf(c)
    /\ SysTick(pause, drives, bulk)
    /\ HostInputs
    /\ SysHistory(pause, drives)

SysNext == \E pause, bulk \in BOOLEAN, drives \in [Cores -> Drives] : SysClock(pause, drives, bulk)

SysStart ==
    /\ router = [c \in Cores |-> [state |-> "Idle", route |-> "local", write |-> FALSE, err |-> FALSE]]
    /\ adapter = [c \in Cores |-> NoAccess]
    /\ McInit /\ ArbInit /\ MpInit
    /\ hostAbort = FALSE /\ hostStop = FALSE
    /\ sysWaits = [c \in Cores |-> FALSE] /\ sysDone = [c \in Cores |-> FALSE]

SysSpec == SysStart /\ [][SysNext]_sysVars

(* Again and again there is an edge on which no flush is pending, the local *)
(* targets and the bulk client respond and the port makes progress, as      *)
(* BrAnswers shows of the bridge.  The host and the harts promise nothing.  *)
SysFairness ==
    WF_sysMachine(\E drives \in [Cores -> Drives] :
        /\ \A c \in Cores : RtBusy(c) /\ DrivesOf(c) # {"none"} => drives[c] # "none"
        /\ SysClock(FALSE, drives, TRUE)
        /\ MpAdvances)

SysFairSpec == SysSpec /\ SysFairness

-----------------------------------------------------------------------------
(* Properties. *)

\* Types of the fabric's registers.
SysTypeOK ==
    /\ router \in [Cores -> [state : RouterStates, route : Routes, write : BOOLEAN, err : BOOLEAN]]
    /\ adapter \in [Cores -> [active : BOOLEAN, write : BOOLEAN, sent : BOOLEAN,
                              received : BOOLEAN, bad : BOOLEAN]]
    /\ arbState \in ArbStates /\ arbOwner \in Clients /\ arbRr \in Clients /\ arbFault \in 0 .. 12
    /\ mcState \in McStates /\ hostAbort \in BOOLEAN /\ hostStop \in BOOLEAN

\* A client holds an access exactly while the arbiter serves it, and the
\* port works on nothing but the owner's request.
SysInStep ==
    /\ SysTypeOK
    /\ \A c \in Cores :
         /\ adapter[c].active <=> arbState # "Idle" /\ arbOwner = c
         /\ adapter[c].active => /\ router[c].state = "WaitResponse" /\ router[c].route = "ddr"
                                 /\ adapter[c].write = arbReq.write
    /\ mcState = "Owned" <=> arbState # "Idle" /\ arbOwner = Bulk
    /\ MpBusy => arbState \in {"Active", "Drain"} /\ mpReq = arbReq /\ mpReq.client = arbOwner

(* docs/M5_ARCHITECTURE.md: "payload/completion routing uses that           *)
(* registered owner": no word and no completion reaches another client.  A  *)
(* response pulse lasts one clock edge and names no request, and is right   *)
(* only because a running hart always awaits exactly the one that its       *)
(* router is serving, also after aborts and after a drained core reset.     *)
SysResponsesOwned ==
    /\ SysInStep
    /\ \A c \in Cores : /\ RtBusy(c) /\ ~hostStop => sysWaits[c]
                        /\ sysWaits[c] => RtBusy(c)

(* A hart is told that its access succeeded only if its target carried it   *)
(* out: for DDR, the word crossed the port for that very request and the    *)
(* port completed it without a fault.                                       *)
SysHonest ==
    \A c \in Cores : router[c].state = "Respond" /\ ~router[c].err => sysDone[c]

(* docs/M5_ARCHITECTURE.md: quiescence "must include all routers/adapters,  *)
(* the bulk engine, arbiter, translator and AXI bridge, and exclude pending *)
(* requests".  This is the kernel's authority to take the pages back.       *)
SysQuiescedClean ==
    SysQuiesced => /\ ~mpOwed
                   /\ \A c \in Clients : ~ReqValid[c]
                   /\ \A c \in Cores : ~sysWaits[c]

(* Every access a router took is answered, unless the port died: it is not  *)
(* starved by clients that compete for the port for ever, nor left behind   *)
(* by an abort, a flush or a core reset that comes in the meantime.         *)
SysAnswers ==
    \A c \in Cores : (router[c].state = "Send") ~> (router[c].state = "Respond" \/ mpState = "Dead")

(* While the abort is held the fabric comes to rest, although the harts may *)
(* be stopped with their requests pending and take no part in it.           *)
SysQuiesces == <>[]hostAbort => <>[](SysQuiesced \/ mpState = "Dead")
=============================================================================
