----------------------------- MODULE MemoryPort -----------------------------
(***************************************************************************)
(* What rtl/m5/pa_m5_memory_bridge.sv promises the arbiter above it,       *)
(* without addresses, tables or AXI: a request is checked, its words cross *)
(* the port in one go, and it is answered; an abort makes the answer 11;   *)
(* the bus may be in use only while the request is being served; and after *)
(* a protocol error on the bus the port is dead for good.  MemoryBridge    *)
(* implements this specification; the fabric above is checked against it.  *)
(***************************************************************************)
EXTENDS Naturals

CONSTANTS
    PortRequests, \* records with fields words and write: the requests presented
    Refusals,     \* the completion codes of a request that is not translated
    BusFaults     \* those of a burst that failed

VARIABLES
    mpState,   \* see MpStates
    mpReq,     \* the request being served
    mpAborted, \* an abort was seen since it was accepted
    mpCount,   \* the words that crossed the port so far
    mpFault,   \* the completion code
    mpOwed     \* an access of this request is on the bus

\* What the request registers hold after reset.
mpNoReq == [words |-> 0, write |-> FALSE]

mpVars == <<mpState, mpReq, mpAborted, mpCount, mpFault, mpOwed>>

\* Open: translation and, for a read, the DDR burst.  Moving: the client's
\* words cross the port.  Closing: the write burst, or the engine's completion.
MpStates == {"Idle", "Open", "Moving", "Closing", "Answer", "Dead"}

MpInit ==
    /\ mpState = "Idle" /\ mpReq = mpNoReq
    /\ mpAborted = FALSE /\ mpCount = 0 /\ mpFault = 0 /\ mpOwed = FALSE

MpAborting(abort) == abort \/ mpAborted
MpBusy == mpState # "Idle"
MpQuiesced(abort) == abort /\ ~MpBusy
MpReady(abort, flush) == mpState = "Idle" /\ ~abort /\ ~flush
MpInReady(abort)  == mpState = "Moving" /\ mpReq.write /\ ~MpAborting(abort)
MpOutValid(abort) == mpState = "Moving" /\ ~mpReq.write /\ ~MpAborting(abort)
MpDoneValid == mpState = "Answer"
MpLast == mpCount + 1 = mpReq.words

MpLatch(abort) == mpAborted' = (mpAborted \/ (MpBusy /\ abort))

MpAccept(abort, flush, req) ==
    /\ MpReady(abort, flush)
    /\ mpState' = "Open" /\ mpReq' = req
    /\ mpAborted' = FALSE /\ mpCount' = 0 /\ mpFault' = 0 /\ mpOwed' = FALSE

\* The request was refused, or an abort was seen before its words moved.
MpRefuse(abort) ==
    /\ mpState = "Open"
    /\ MpLatch(abort)
    /\ mpState' = "Answer" /\ mpOwed' = FALSE
    /\ mpFault' \in IF MpAborting(abort) THEN {11} ELSE Refusals
    /\ UNCHANGED <<mpReq, mpCount>>

\* Work on the bus: a table walk, or the burst of a read.
MpWork(abort) ==
    /\ mpState = "Open"
    /\ MpLatch(abort)
    /\ mpOwed' \in BOOLEAN
    /\ mpState' \in {"Open", "Moving", "Closing"}
    /\ mpState' = "Moving" => ~mpOwed'
    /\ UNCHANGED <<mpReq, mpCount, mpFault>>

MpMove(abort) ==
    /\ MpInReady(abort) \/ MpOutValid(abort)
    /\ mpCount' = mpCount + 1
    /\ mpState' = IF MpLast THEN "Closing" ELSE "Moving"
    /\ mpOwed' = (MpLast /\ mpReq.write)
    /\ UNCHANGED <<mpReq, mpAborted, mpFault>>

\* An abort while words are moving: what did not cross never will.
MpCut(abort) ==
    /\ mpState = "Moving" /\ MpAborting(abort)
    /\ MpLatch(abort)
    /\ mpState' = "Closing"
    /\ UNCHANGED <<mpReq, mpCount, mpFault, mpOwed>>

MpClose(abort) ==
    /\ mpState = "Closing"
    /\ MpLatch(abort)
    /\ mpOwed' \in BOOLEAN
    /\ \/ mpState' = "Closing" /\ UNCHANGED <<mpFault, mpCount>>
       \/ /\ mpState' = "Answer" /\ ~mpOwed' /\ mpCount' = 0
          /\ mpFault' \in IF MpAborting(abort) THEN {11}
                          ELSE IF mpCount = mpReq.words THEN {0} \cup BusFaults ELSE BusFaults
    /\ UNCHANGED mpReq

MpRetire(abort) ==
    /\ MpDoneValid
    /\ mpState' = "Idle" /\ mpReq' = mpNoReq /\ mpAborted' = FALSE /\ mpFault' = 0
    /\ UNCHANGED <<mpCount, mpOwed>>

\* A wrong ID or RLAST: busy for good, and nobody knows what is on the bus.
MpDie(abort) ==
    /\ mpState \in {"Open", "Closing"} /\ mpOwed
    /\ MpLatch(abort)
    /\ mpState' = "Dead"
    /\ mpOwed' \in BOOLEAN
    /\ UNCHANGED <<mpReq, mpCount, mpFault>>

MpDead(abort) ==
    /\ mpState = "Dead"
    /\ MpLatch(abort)
    /\ mpOwed' \in {mpOwed, FALSE}
    /\ UNCHANGED <<mpState, mpReq, mpCount, mpFault>>

\* The client does not present what the port waits for.
MpWait(abort, reqValid, flush, inValid, outReady, doneReady) ==
    /\ \/ mpState = "Idle" /\ ~(reqValid /\ MpReady(abort, flush))
       \/ mpState = "Moving" /\ ~MpAborting(abort) /\ ~(IF mpReq.write THEN inValid ELSE outReady)
       \/ mpState = "Answer" /\ ~(doneReady \/ abort)
    /\ UNCHANGED mpVars

\* One clock edge of the port with the given inputs.
MpTick(abort, flush, reqValid, req, inValid, outReady, doneReady) ==
    \/ reqValid /\ MpAccept(abort, flush, req)
    \/ MpRefuse(abort)
    \/ MpWork(abort)
    \/ (IF mpReq.write THEN inValid ELSE outReady) /\ MpMove(abort)
    \/ MpCut(abort)
    \/ MpClose(abort)
    \/ (doneReady \/ abort) /\ MpRetire(abort)
    \/ MpDie(abort)
    \/ MpDead(abort)
    \/ MpWait(abort, reqValid, flush, inValid, outReady, doneReady)

MpNext ==
    \E abort, flush, reqValid, inValid, outReady, doneReady \in BOOLEAN, req \in PortRequests :
        MpTick(abort, flush, reqValid, req, inValid, outReady, doneReady)

MpSpec == MpInit /\ [][MpNext]_mpVars

\* The port answered or it died: it does not stand still on its own account.
MpAdvances == mpState \in {"Open", "Closing"} => mpState' # mpState
=============================================================================
