--------------------------- MODULE MemoryArbiter ----------------------------
(***************************************************************************)
(* rtl/m5/pa_m5_memory_arbiter.sv: whole-burst, round-robin ownership of   *)
(* the translated memory port below it.  A step is one clock edge of the   *)
(* arbiter and of the port, wired as pa_m5_memory_system.sv wires them.    *)
(* The clients' signals are functions over Clients.                        *)
(***************************************************************************)
EXTENDS MemoryPort

CONSTANT NClients

ASSUME NClientsAssumption == NClients \in Nat /\ NClients >= 1

Clients == 0 .. NClients - 1

VARIABLES
    arbState, \* state_q
    arbOwner, \* owner_q
    arbRr,    \* rr_q
    arbReq,   \* addr_q, words_q, write_q
    arbFault  \* fault_q

arbRegs == <<arbState, arbOwner, arbRr, arbReq, arbFault>>

ArbStates == {"Idle", "Issue", "Active", "Drain", "Respond"}

ArbInit ==
    /\ arbState = "Idle" /\ arbOwner = 0 /\ arbRr = 0
    /\ arbReq = mpNoReq /\ arbFault = 0

-----------------------------------------------------------------------------
(* Combinational signals. *)

ArbPending(valid) == \E c \in Clients : valid[c]

\* How far client c is from the head of the round-robin order.
ArbTurn(c) == IF c >= arbRr THEN c - arbRr ELSE c + NClients - arbRr

\* The requesting client nearest to the head.
ArbSelected(valid) ==
    CHOOSE c \in Clients :
        /\ valid[c]
        /\ \A d \in Clients : valid[d] => ArbTurn(c) <= ArbTurn(d)

ArbBusy == arbState # "Idle" \/ MpBusy

\* m_abort_o: an owner that saw the abort keeps the port aborted until it drains.
ArbAbort(abort) == abort \/ arbState = "Drain"

ArbQuiesced(abort, valid) ==
    abort /\ ~ArbBusy /\ MpQuiesced(ArbAbort(abort)) /\ ~ArbPending(valid)

(* Mutation: an abort, like a flush, leaves the clients' requests pending. *)
ArbAdmitsOrdinary(abort, pause) == ~pause /\ ~abort

\* Requests are taken unless a flush is due; under an abort they always are.
ArbAdmits(abort, pause) == ~pause \/ abort

ArbReady(abort, pause, valid, c) ==
    /\ arbState = "Idle" /\ ~MpBusy
    /\ ArbPending(valid) /\ c = ArbSelected(valid)
    /\ ArbAdmits(abort, pause)

ArbOwns(abort, c) == arbState = "Active" /\ ~abort /\ arbOwner = c
ArbInReady(abort, c)  == ArbOwns(abort, c) /\ MpInReady(ArbAbort(abort))
ArbOutValid(abort, c) == ArbOwns(abort, c) /\ MpOutValid(ArbAbort(abort))
ArbDoneValid(c) == arbState = "Respond" /\ arbOwner = c
ArbMpDoneReady == arbState \in {"Active", "Drain"}

-----------------------------------------------------------------------------
(* One action per arm of case (state_q). *)

(* Mutation: the pointer stays on the client that was just served. *)
ArbNextStays(c) == c

\* The head of the round-robin order after a grant to c.
ArbNext(c) == IF c = NClients - 1 THEN 0 ELSE c + 1

ArbGrant(abort, pause, valid, req) ==
    /\ arbState = "Idle"
    /\ \E c \in Clients :
         /\ ArbReady(abort, pause, valid, c)
         /\ arbOwner' = c /\ arbRr' = ArbNext(c) /\ arbReq' = req[c]
    /\ arbFault' = IF abort THEN 11 ELSE 0
    /\ arbState' = IF abort THEN "Respond" ELSE "Issue"

ArbIssue(abort) ==
    /\ arbState = "Issue"
    /\ \/ abort /\ arbFault' = 11 /\ arbState' = "Respond"
       \/ /\ ~abort /\ UNCHANGED arbFault
          /\ arbState' = IF MpReady(FALSE, FALSE) THEN "Active" ELSE arbState
    /\ UNCHANGED <<arbOwner, arbRr, arbReq>>

\* An abort under an active owner: wait for the port to drain.
ArbAbortedActive == arbState' = "Drain" /\ UNCHANGED arbFault

ArbActive(abort) ==
    /\ arbState = "Active"
    /\ \/ abort /\ ArbAbortedActive
       \/ ~abort /\ MpDoneValid /\ arbFault' = mpFault /\ arbState' = "Respond"
       \/ ~abort /\ ~MpDoneValid /\ UNCHANGED <<arbState, arbFault>>
    /\ UNCHANGED <<arbOwner, arbRr, arbReq>>

ArbDrain(abort) ==
    /\ arbState = "Drain"
    /\ IF MpQuiesced(ArbAbort(abort)) THEN arbFault' = 11 /\ arbState' = "Respond"
                                    ELSE UNCHANGED <<arbState, arbFault>>
    /\ UNCHANGED <<arbOwner, arbRr, arbReq>>

ArbRespond(abort, doneReady) ==
    /\ arbState = "Respond"
    /\ doneReady[arbOwner] \/ abort
    /\ arbState' = "Idle"
    /\ UNCHANGED <<arbOwner, arbRr, arbReq, arbFault>>

ArbWait(abort, pause, valid, doneReady) ==
    /\ \/ arbState = "Idle" /\ ~\E c \in Clients : ArbReady(abort, pause, valid, c)
       \/ arbState = "Respond" /\ ~(doneReady[arbOwner] \/ abort)
    /\ UNCHANGED arbRegs

ArbStep(abort, pause, valid, req, doneReady) ==
    \/ ArbGrant(abort, pause, valid, req)
    \/ ArbIssue(abort)
    \/ ArbActive(abort)
    \/ ArbDrain(abort)
    \/ ArbRespond(abort, doneReady)
    \/ ArbWait(abort, pause, valid, doneReady)

\* One clock edge of the arbiter and the port.
ArbTick(abort, pause, valid, req, inValid, outReady, doneReady) ==
    /\ ArbStep(abort, pause, valid, req, doneReady)
    /\ MpTick(ArbAbort(abort), pause /\ ~ArbBusy,
              arbState = "Issue" /\ ~abort, arbReq,
              arbState = "Active" /\ ~abort /\ inValid[arbOwner],
              arbState = "Active" /\ ~abort /\ outReady[arbOwner],
              ArbMpDoneReady)
=============================================================================
