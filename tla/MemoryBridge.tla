---------------------------- MODULE MemoryBridge ----------------------------
(***************************************************************************)
(* rtl/m5/pa_m5_memory_bridge.sv: one virtual request at a time is handed  *)
(* to the page translator, the translator's table reads and then the data  *)
(* burst itself are run on the one AXI engine.  The three state machines   *)
(* advance on the same clock edge, so a step of the bridge is the          *)
(* conjunction of one step of each, wired as the source wires them.        *)
(***************************************************************************)
EXTENDS AxiBurst, PageTranslate

VARIABLES
    brState,   \* state_q
    brReq,     \* addr_q, words_q, write_q
    brPhys,    \* physical_q
    brPte,     \* pte_q
    brAborted, \* aborted_q
    brFault,   \* fault_q
    hostAbort  \* abort_i, which may change on any clock edge

brRegs == <<brState, brReq, brPhys, brPte, brAborted, brFault>>
brMachine == <<brRegs, trVars, axiVars>>
brVars == <<brMachine, hostAbort>>

BrStates == {"Idle", "StartTranslate", "WaitTranslate", "ReadPte", "StartData", "Data", "Respond"}

BrInit ==
    /\ brState = "Idle"
    /\ brReq = [addr |-> 0, words |-> 0, write |-> FALSE]
    /\ brPhys = 0 /\ brPte = NoPte /\ brAborted = FALSE /\ brFault = 0

-----------------------------------------------------------------------------
(* Combinational signals. *)

BrAborting(abort) == abort \/ brAborted
BrBusy == brState # "Idle" \/ TrBusy \/ AxiBusy
BrQuiesced(abort) == abort /\ ~BrBusy
BrReqReady(abort, flush) == ~BrBusy /\ ~abort /\ ~flush
BrFlushReady == ~BrBusy /\ trState = "Idle"

\* A PTE read is never aborted: its response must reach the translator.
BusAbort(abort) == brState = "Data" /\ BrAborting(abort)

(* Mutation: nobody takes the completion of a table read. *)
BusDoneReadyData == brState = "Data"

BusDoneReady == brState \in {"ReadPte", "Data"}

TableReady == brState = "WaitTranslate" /\ AxiCmdReady(FALSE)
BusCmdValid(abort) ==
    \/ brState = "WaitTranslate" /\ TrTableValid
    \/ brState = "StartData" /\ ~BrAborting(abort)
BusCmd ==
    IF brState = "WaitTranslate"
    THEN [addr |-> TrTableAddr, words |-> 1, write |-> FALSE]
    ELSE [addr |-> brPhys, words |-> brReq.words, write |-> brState = "StartData" /\ brReq.write]

BrInReady(abort)  == brState = "Data" /\ ~BrAborting(abort) /\ AxiInReady(BusAbort(abort))
BrOutValid(abort) == brState = "Data" /\ ~BrAborting(abort) /\ AxiOutValid(BusAbort(abort))
BrDoneValid == brState = "Respond"

-----------------------------------------------------------------------------
(* The bridge's own registers: one action per arm of case (state_q). *)

BrLatchAbort(abort) == brAborted' = (brAborted \/ (brState # "Idle" /\ abort))

\* The next content of pte_q while a table word is awaited.
BrPteCapture == IF AxiOutValid(FALSE) THEN axiBuffer ELSE brPte

(* Mutation: the engine's fault is not passed on. *)
BrDataFaultLost(abort) == IF BrAborting(abort) THEN 11 ELSE 0

BrDataFault(abort) == IF BrAborting(abort) THEN 11 ELSE axiFault

BrRefuse(fault) == brFault' = fault /\ brState' = "Respond"

BrAccept(abort, flush, req) ==
    /\ brState = "Idle" /\ BrReqReady(abort, flush)
    /\ brReq' = req /\ brAborted' = FALSE /\ brFault' = 0
    /\ brState' = "StartTranslate"
    /\ UNCHANGED <<brPhys, brPte>>

BrStartTranslate(abort) ==
    /\ brState = "StartTranslate"
    /\ BrLatchAbort(abort)
    /\ \/ BrAborting(abort) /\ BrRefuse(11)
       \/ /\ ~BrAborting(abort) /\ UNCHANGED brFault
          /\ brState' = IF TrReqReady(FALSE) THEN "WaitTranslate" ELSE brState
    /\ UNCHANGED <<brReq, brPhys, brPte>>

BrWaitTranslate(abort) ==
    /\ brState = "WaitTranslate"
    /\ BrLatchAbort(abort)
    /\ \/ /\ TrTableValid /\ TableReady
          /\ brState' = "ReadPte" /\ UNCHANGED <<brPhys, brFault>>
       \/ /\ TrRspValid /\ (BrAborting(abort) \/ trFault # 0)
          /\ BrRefuse(IF BrAborting(abort) THEN 11 ELSE trFault) /\ UNCHANGED brPhys
       \/ /\ TrRspValid /\ ~BrAborting(abort) /\ trFault = 0
          /\ brPhys' = trPhys /\ brState' = "StartData" /\ UNCHANGED brFault
       \/ ~(TrTableValid /\ TableReady) /\ ~TrRspValid /\ UNCHANGED <<brState, brPhys, brFault>>
    /\ UNCHANGED <<brReq, brPte>>

BrReadPte(abort) ==
    /\ brState = "ReadPte"
    /\ BrLatchAbort(abort)
    /\ brPte' = BrPteCapture
    /\ brState' = IF AxiDoneValid THEN "WaitTranslate" ELSE brState
    /\ UNCHANGED <<brReq, brPhys, brFault>>

BrStartData(abort) ==
    /\ brState = "StartData"
    /\ BrLatchAbort(abort)
    /\ \/ BrAborting(abort) /\ BrRefuse(11)
       \/ /\ ~BrAborting(abort) /\ UNCHANGED brFault
          /\ brState' = IF AxiCmdReady(FALSE) THEN "Data" ELSE brState
    /\ UNCHANGED <<brReq, brPhys, brPte>>

BrData(abort) ==
    /\ brState = "Data"
    /\ BrLatchAbort(abort)
    /\ IF AxiDoneValid THEN BrRefuse(BrDataFault(abort))
                       ELSE UNCHANGED <<brState, brFault>>
    /\ UNCHANGED <<brReq, brPhys, brPte>>

BrRespond(abort) ==
    /\ BrDoneValid
    /\ BrLatchAbort(abort)
    /\ brState' = "Idle"
    /\ UNCHANGED <<brReq, brPhys, brPte, brFault>>

BrWait(abort, flush, reqValid, doneReady) ==
    /\ \/ brState = "Idle" /\ ~(reqValid /\ BrReqReady(abort, flush))
       \/ brState = "Respond" /\ ~doneReady /\ ~abort
    /\ UNCHANGED brRegs

BrStep(abort, flush, reqValid, req, doneReady) ==
    \/ reqValid /\ BrAccept(abort, flush, req)
    \/ BrStartTranslate(abort)
    \/ BrWaitTranslate(abort)
    \/ BrReadPte(abort)
    \/ BrStartData(abort)
    \/ BrData(abort)
    \/ (doneReady \/ abort) /\ BrRespond(abort)
    \/ BrWait(abort, flush, reqValid, doneReady)

\* DDR as a read beat sees it: a word of the page table, or some data word.
DdrWord(word) ==
    LET addr == axiCmd.addr + Bytes(axiIndex)
    IN  IF addr \in DOMAIN hostTable THEN hostTable[addr] ELSE word

\* One clock edge of the bridge, its translator and its AXI engine.
BrTick(abort, flush, reqValid, req, inValid, word, outReady, doneReady, rword) ==
    /\ BrStep(abort, flush, reqValid, req, doneReady)
    /\ TrTick(flush /\ ~BrBusy,
              brState = "StartTranslate" /\ ~BrAborting(abort), hostCfg, brReq,
              TableReady, brState = "ReadPte" /\ AxiDoneValid, brPte, axiFault # 0,
              brState = "WaitTranslate")
    /\ AxiTick(BusAbort(abort), BusCmdValid(abort), BusCmd,
               brState = "Data" /\ inValid /\ ~BrAborting(abort), word,
               brState = "ReadPte" \/ (brState = "Data" /\ outReady /\ ~BrAborting(abort)),
               BusDoneReady, DdrWord(rword))

-----------------------------------------------------------------------------
(* The bridge on its own: one client, the host, and DDR behind the engine.  *)
(* The client's inputs matter in different states, so one "valid", "ready"  *)
(* and word stand for the request's, the data's and the response's.         *)

BrHostRemap == ~BrBusy /\ HostRemap /\ UNCHANGED <<brRegs, trRegs, axiVars, hostAbort>>

BrHostKeeps ==
    IF BrFlushReady THEN HostRelease ELSE UNCHANGED hostVars

BrClock(valid, ready, word) ==
    /\ \E req \in (IF BrBusy THEN {brReq} ELSE Requests) :
          BrTick(hostAbort, hostFlush, valid, req, valid, word, ready, ready, word)
    /\ hostAbort' \in BOOLEAN
    /\ BrHostKeeps

\* The inputs a state looks at take every value, the others one.
Seen(values, seen) == IF seen THEN values ELSE {CHOOSE x \in values : TRUE}

BrNext ==
    \/ BrHostRemap
    \/ \E valid \in Seen(BOOLEAN, brState \in {"Idle", "Data"}),
          ready \in Seen(BOOLEAN, brState \in {"Data", "Respond"}),
          word \in Seen(Words, brState = "Data") : BrClock(valid, ready, word)

BrStart == BrInit /\ TrInit /\ AxiInit /\ HostInit /\ hostAbort = FALSE

BrSpec == BrStart /\ [][BrNext]_brVars

\* The slave answers on this clock edge if it is being waited for.
SlaveAnswers ==
    axiState \in {"WriteAddr", "WriteData", "WriteResp", "ReadAddr", "ReadData"} =>
        <<axiState, axiBeats>>' # <<axiState, axiBeats>>

(* Again and again there is a clock edge on which DDR answers, the client   *)
(* has its data ready and takes what it is offered.  Nothing is assumed of  *)
(* the abort input: it may stay up, stay down or change on every edge.      *)
BrFairness ==
    WF_brMachine(\E word \in Words : BrClock(TRUE, TRUE, word) /\ SlaveAnswers)

BrFairSpec == BrSpec /\ BrFairness

-----------------------------------------------------------------------------
(* Properties. *)

BrPage == (brReq.addr - ArenaBase) \div PageBytes

\* What the table in DDR makes of the client's request.
BrGranted(write) == TrLegal(hostCfg, brReq) /\ TrGrants(TrEntry(BrPage), write)
BrPhysical == TrEntry(BrPage).frame * PageBytes + (brReq.addr % PageBytes)

\* The three state machines keep step: the translator waits for a table
\* word exactly while the engine fetches one, and the engine runs only for
\* the bridge state that will take its completion.
BrInStep ==
    /\ TrBusy <=> brState \in {"WaitTranslate", "ReadPte"}
    /\ trState = "TableWait" <=> brState = "ReadPte"
    /\ AxiBusy <=> brState \in {"ReadPte", "Data"}
    /\ AxiBusy => axiCmd = IF brState = "Data"
                           THEN [addr |-> brPhys, words |-> brReq.words, write |-> brReq.write]
                           ELSE [addr |-> TrTableAddr, words |-> 1, write |-> FALSE]

(* docs/M5_ARCHITECTURE.md: "All physical data access follows translation". *)
(* Every burst on the bus is one word of the page table, or is the client's *)
(* whole request at the physical address, and with the permission, that the *)
(* page table gives it.                                                     *)
BrConfined ==
    /\ AwValid \/ WValid => BrGranted(TRUE) /\ axiCmd.addr = BrPhysical
                            /\ axiCmd.words = brReq.words
    /\ ArValid =>
         \/ /\ brState = "ReadPte" /\ axiCmd.words = 1 /\ TrLegal(hostCfg, brReq)
            /\ axiCmd.addr = hostCfg.root + 4 * BrPage
         \/ /\ brState = "Data" /\ axiCmd.words = brReq.words
            /\ BrGranted(FALSE) /\ axiCmd.addr = BrPhysical

\* The client's answer is what happened to its own burst.
BrExchanged ==
    BrDoneValid =>
        /\ brFault = 0 =>
             /\ ~axiError /\ BrGranted(brReq.write)
             /\ axiCmd = [addr |-> BrPhysical, words |-> brReq.words, write |-> brReq.write]
             /\ Len(axiBeats) = brReq.words
             /\ axiBeats = IF brReq.write THEN axiTaken ELSE axiGiven
        /\ brFault \in 1 .. 8 => ~BrGranted(brReq.write)
        /\ brFault \notin {10, 13}

(* The client is told what happened: fault 0 means all its words were       *)
(* exchanged, in order, with the memory its page maps to and DDR accepted   *)
(* them; a translation fault means the request was not allowed; and neither *)
(* a table walk nor an abort takes or leaves a word of the payload.         *)
BrHonest == BrInStep /\ AxiStream /\ BrExchanged

\* Every request is answered, unless the slave breaks the protocol.
BrAnswers == (brState = "StartTranslate") ~> (BrDoneValid \/ AxiPoisoned)

-----------------------------------------------------------------------------
(* The bridge implements MemoryPort.  The words that crossed the port are   *)
(* the words the engine took from, or gave to, the client in state Data.    *)

PortState ==
    CASE AxiPoisoned -> "Dead"
      [] brState = "Respond" -> "Answer"
      [] brState = "Idle" -> "Idle"
      [] brState = "Data" /\ axiState \in {"LoadWrite", "ReadOut"} -> "Moving"
      [] brState = "Data" /\ axiState \in {"WriteAddr", "WriteData", "WriteResp", "Respond"} -> "Closing"
      [] OTHER -> "Open"

PortReq ==
    IF brState = "Idle" THEN [words |-> 0, write |-> FALSE]
    ELSE [words |-> brReq.words, write |-> brReq.write]

PortCount ==
    IF brState # "Data" THEN 0 ELSE IF brReq.write THEN Len(axiTaken) ELSE Len(axiGiven)

Port == INSTANCE MemoryPort WITH
    Refusals <- 1 .. 9, BusFaults <- {10, 12},
    PortRequests <- {[words |-> r.words, write |-> r.write] : r \in Requests},
    mpState <- PortState,
    mpReq <- PortReq,
    mpAborted <- brState # "Idle" /\ brAborted,
    mpCount <- PortCount,
    mpFault <- IF brState = "Respond" THEN brFault ELSE 0,
    mpOwed <- AwValid \/ ArValid \/ axiOwed # {}

(* What the fabric above relies on: at most one request at a time, all of   *)
(* its words or an abort's 11, and no access on the bus outside a request.  *)
BrImplementsPort == Port!MpSpec
=============================================================================
