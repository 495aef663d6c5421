------------------------------ MODULE AxiBurst ------------------------------
(***************************************************************************)
(* rtl/m5/pa_m5_axi_burst.sv: the only AXI4 master of the M5 fabric.  It   *)
(* takes one command (address, word count, direction), buffers the whole   *)
(* burst, and owns the bus from address acceptance to the last response.   *)
(* A step is one clock edge.  The registers are the variables axi..., the  *)
(* client-side inputs are the parameters of the actions, and the AXI slave *)
(* (PS7 DDR, not under this repository's control) is the choice among the  *)
(* actions: it may stall, answer with an error, or break the protocol with *)
(* a wrong ID or a wrong RLAST.                                            *)
(***************************************************************************)
EXTENDS M5Params

CONSTANTS
    Commands,   \* the commands a client may present
    Words,      \* values of a 36-bit {strobe, data} word
    NoWord      \* content of a RAM word nothing was written to since power-up

ASSUME AxiAssumption ==
    /\ Commands \subseteq [addr : Nat, words : Nat, write : BOOLEAN]
    /\ NoWord \notin Words

VARIABLES
    axiState,   \* state_q
    axiCmd,     \* addr_q, words_q, write_q
    axiAborted, \* aborted_q
    axiIndex,   \* index_q
    axiFault,   \* fault_q
    axiMem,     \* data_mem
    axiBuffer,  \* buffer_q, the RAM's output register
    axiOwed,    \* the responses the slave still owes: "B", "R" (not a register)
    axiTaken,   \* history: the words the client loaded for this command
    axiBeats,   \* history: the data beats this command exchanged with the slave
    axiGiven,   \* history: the words handed to the client
    axiError    \* history: the slave answered this command with an error

axiRegs == <<axiState, axiCmd, axiAborted, axiIndex, axiFault, axiMem, axiBuffer>>
axiHistory == <<axiTaken, axiBeats, axiGiven, axiError>>
axiVars == <<axiRegs, axiOwed, axiHistory>>

AxiStates ==
    {"Idle", "Validate", "LoadWrite", "WriteAddr", "WriteData", "WriteResp",
     "ReadAddr", "ReadData", "ReadPrepare", "ReadOut", "Respond", "Poisoned"}

AxiInit ==
    /\ axiState = "Idle"
    /\ axiCmd = [addr |-> 0, words |-> 0, write |-> FALSE]
    /\ axiAborted = FALSE
    /\ axiIndex = 0
    /\ axiFault = 0
    /\ axiMem = [i \in 0 .. MaxWords - 1 |-> NoWord]
    /\ axiBuffer = NoWord
    /\ axiOwed = {}
    /\ axiTaken = <<>> /\ axiBeats = <<>> /\ axiGiven = <<>> /\ axiError = FALSE

-----------------------------------------------------------------------------
(* Combinational signals. *)

(* Mutation: the last word is recognised one word early. *)
AxiFinalWordEarly == axiIndex + 2 >= axiCmd.words

AxiFinalWord == axiIndex + 1 = axiCmd.words

AxiAborting(abort) == abort \/ axiAborted

AxiBadCommand ==
    \/ BadLength(axiCmd.words)
    \/ Misaligned(axiCmd.addr)
    \/ CrossesPage(axiCmd.addr, axiCmd.words)
    \/ PastSpace(axiCmd.addr, Bytes(axiCmd.words))

(* Mutations: a burst is abandoned after its address was issued, or an      *)
(* address that was offered is withdrawn.                                   *)
AxiAbandonsIssued == {"LoadWrite", "ReadPrepare", "ReadOut", "WriteResp"}
AxiAbandonsOffer == {"LoadWrite", "ReadPrepare", "ReadOut", "ReadAddr"}

\* The states in which an abort ends the command: nothing is on the bus.
AxiAbandons == {"LoadWrite", "ReadPrepare", "ReadOut"}

AxiReadFault(okay) == IF okay THEN axiFault ELSE 12

AxiCmdReady(abort) == axiState = "Idle" /\ ~abort
AxiInReady(abort)  == axiState = "LoadWrite" /\ ~AxiAborting(abort)
AxiOutValid(abort) == axiState = "ReadOut" /\ ~AxiAborting(abort)
AxiDoneValid == axiState = "Respond"
AxiBusy      == axiState # "Idle"
AxiPoisoned  == axiState = "Poisoned"

\* The VALID outputs of the address and write-data channels.
AwValid == axiState = "WriteAddr"
WValid  == axiState = "WriteData"
ArValid == axiState = "ReadAddr"

-----------------------------------------------------------------------------
(* One action per arm of case (state_q); the abort latch is set by all of  *)
(* them but the acceptance of a command, which clears it.                  *)

LatchAbort(abort) == axiAborted' = (axiAborted \/ (AxiBusy /\ abort))

AxiAccept(abort, cmd) ==
    /\ AxiCmdReady(abort)
    /\ axiCmd' = cmd
    /\ axiAborted' = FALSE
    /\ axiIndex' = 0
    /\ axiFault' = 0
    /\ axiState' = "Validate"
    /\ axiTaken' = <<>> /\ axiBeats' = <<>> /\ axiGiven' = <<>> /\ axiError' = FALSE
    /\ UNCHANGED <<axiMem, axiBuffer, axiOwed>>

AxiValidate(abort) ==
    /\ axiState = "Validate"
    /\ LatchAbort(abort)
    /\ IF AxiAborting(abort) \/ AxiBadCommand
       THEN /\ axiFault' = IF AxiAborting(abort) THEN 11 ELSE 10
            /\ axiState' = "Respond"
       ELSE /\ axiState' = IF axiCmd.write THEN "LoadWrite" ELSE "ReadAddr"
            /\ UNCHANGED axiFault
    /\ UNCHANGED <<axiCmd, axiIndex, axiMem, axiBuffer, axiOwed, axiHistory>>

\* The abort branch of LoadWrite, ReadPrepare and ReadOut.
AxiGiveUp(abort) ==
    /\ axiState \in AxiAbandons
    /\ AxiAborting(abort)
    /\ LatchAbort(abort)
    /\ axiFault' = 11
    /\ axiState' = "Respond"
    /\ axiBuffer' = IF axiState = "ReadPrepare" THEN axiMem[0] ELSE axiBuffer
    /\ UNCHANGED <<axiCmd, axiIndex, axiMem, axiOwed, axiHistory>>

AxiLoadWrite(abort, word) ==
    /\ AxiInReady(abort)
    /\ LatchAbort(abort)
    /\ axiMem' = [axiMem EXCEPT ![axiIndex] = word]
    /\ axiTaken' = Append(axiTaken, word)
    /\ IF AxiFinalWord
       THEN axiIndex' = 0 /\ axiState' = "WriteAddr"
       ELSE axiIndex' = axiIndex + 1 /\ UNCHANGED axiState
    /\ UNCHANGED <<axiCmd, axiFault, axiBuffer, axiOwed, axiBeats, axiGiven, axiError>>

AxiWriteAddr(abort) ==
    /\ AwValid
    /\ LatchAbort(abort)
    /\ axiState' = "WriteData"
    /\ axiBuffer' = axiMem[0]
    /\ axiOwed' = axiOwed \cup {"B"}
    /\ UNCHANGED <<axiCmd, axiIndex, axiFault, axiMem, axiHistory>>

AxiWriteData(abort) ==
    /\ WValid
    /\ LatchAbort(abort)
    /\ axiBeats' = Append(axiBeats, axiBuffer)
    /\ IF AxiFinalWord
       THEN axiState' = "WriteResp" /\ UNCHANGED <<axiIndex, axiBuffer>>
       ELSE /\ axiIndex' = axiIndex + 1
            /\ axiBuffer' = axiMem[axiIndex + 1]
            /\ UNCHANGED axiState
    /\ UNCHANGED <<axiCmd, axiFault, axiMem, axiOwed, axiTaken, axiGiven, axiError>>

AxiWriteResp(abort, ownId, okay) ==
    /\ axiState = "WriteResp"
    /\ LatchAbort(abort)
    /\ IF ~ownId
       THEN axiFault' = 13 /\ axiState' = "Poisoned" /\ UNCHANGED <<axiOwed, axiError>>
       ELSE /\ axiFault' = IF AxiAborting(abort) THEN 11 ELSE IF okay THEN 0 ELSE 12
            /\ axiState' = "Respond"
            /\ axiOwed' = axiOwed \ {"B"}
            /\ axiError' = ~okay
    /\ UNCHANGED <<axiCmd, axiIndex, axiMem, axiBuffer, axiTaken, axiBeats, axiGiven>>

AxiReadAddr(abort) ==
    /\ ArValid
    /\ LatchAbort(abort)
    /\ axiState' = "ReadData"
    /\ axiOwed' = axiOwed \cup {"R"}
    /\ UNCHANGED <<axiCmd, axiIndex, axiFault, axiMem, axiBuffer, axiHistory>>

\* A beat of the slave's read data: the word is stored before it is judged.
AxiReadData(abort, word, ownId, last, okay) ==
    /\ axiState = "ReadData"
    /\ LatchAbort(abort)
    /\ axiMem' = [axiMem EXCEPT ![axiIndex] = word]
    /\ axiBeats' = Append(axiBeats, word)
    /\ axiError' = (axiError \/ ~okay)
    /\ axiOwed' = IF ownId /\ last THEN axiOwed \ {"R"} ELSE axiOwed
    /\ IF ~ownId \/ last # AxiFinalWord
       THEN axiFault' = 13 /\ axiState' = "Poisoned" /\ UNCHANGED axiIndex
       ELSE IF ~AxiFinalWord
       THEN /\ axiIndex' = axiIndex + 1
            /\ axiFault' = AxiReadFault(okay)
            /\ UNCHANGED axiState
       ELSE /\ axiIndex' = 0
            /\ axiFault' = IF AxiAborting(abort) THEN 11 ELSE AxiReadFault(okay)
            /\ axiState' = IF axiFault' # 0 THEN "Respond" ELSE "ReadPrepare"
    /\ UNCHANGED <<axiCmd, axiBuffer, axiTaken, axiGiven>>

AxiReadPrepare(abort) ==
    /\ axiState = "ReadPrepare" /\ ~AxiAborting(abort)
    /\ axiState' = "ReadOut"
    /\ axiBuffer' = axiMem[0]
    /\ UNCHANGED <<axiCmd, axiAborted, axiIndex, axiFault, axiMem, axiOwed, axiHistory>>

AxiReadOut(abort) ==
    /\ AxiOutValid(abort)
    /\ axiGiven' = Append(axiGiven, axiBuffer)
    /\ IF AxiFinalWord
       THEN axiState' = "Respond" /\ UNCHANGED <<axiIndex, axiBuffer>>
       ELSE /\ axiIndex' = axiIndex + 1
            /\ axiBuffer' = axiMem[axiIndex + 1]
            /\ UNCHANGED axiState
    /\ UNCHANGED <<axiCmd, axiAborted, axiFault, axiMem, axiOwed, axiTaken, axiBeats, axiError>>

AxiRetire(abort) ==
    /\ AxiDoneValid
    /\ LatchAbort(abort)
    /\ axiState' = "Idle"
    /\ UNCHANGED <<axiCmd, axiIndex, axiFault, axiMem, axiBuffer, axiOwed, axiHistory>>

\* A poisoned engine accepts and ignores whatever the slave still sends.
AxiPoison(abort) ==
    /\ AxiPoisoned
    /\ LatchAbort(abort)
    /\ axiOwed' \in SUBSET axiOwed
    /\ UNCHANGED <<axiState, axiCmd, axiIndex, axiFault, axiMem, axiBuffer, axiHistory>>

\* A clock edge on which the party being waited for does not answer.
AxiWait(abort, cmdValid, inValid, outReady, doneReady) ==
    /\ \/ axiState = "Idle" /\ ~(cmdValid /\ ~abort)
       \/ axiState = "LoadWrite" /\ ~AxiAborting(abort) /\ ~inValid
       \/ axiState = "ReadOut" /\ ~AxiAborting(abort) /\ ~outReady
       \/ axiState = "Respond" /\ ~(doneReady \/ abort)
       \/ axiState \in {"WriteAddr", "WriteData", "WriteResp", "ReadAddr", "ReadData"}
    /\ LatchAbort(abort)
    /\ UNCHANGED <<axiState, axiCmd, axiIndex, axiFault, axiMem, axiBuffer, axiOwed, axiHistory>>

\* One clock edge with the given client inputs; rword is what DDR would return.
AxiTick(abort, cmdValid, cmd, inValid, word, outReady, doneReady, rword) ==
    \/ cmdValid /\ AxiAccept(abort, cmd)
    \/ AxiValidate(abort)
    \/ AxiGiveUp(abort)
    \/ inValid /\ AxiLoadWrite(abort, word)
    \/ AxiWriteAddr(abort)
    \/ AxiWriteData(abort)
    \/ \E ownId, okay \in BOOLEAN : AxiWriteResp(abort, ownId, okay)
    \/ AxiReadAddr(abort)
    \/ \E ownId, last, okay \in BOOLEAN : AxiReadData(abort, rword, ownId, last, okay)
    \/ AxiReadPrepare(abort)
    \/ outReady /\ AxiReadOut(abort)
    \/ (doneReady \/ abort) /\ AxiRetire(abort)
    \/ AxiPoison(abort)
    \/ AxiWait(abort, cmdValid, inValid, outReady, doneReady)

-----------------------------------------------------------------------------
(* The engine on its own, driven by an arbitrary client. *)

AxiNext ==
    \E abort \in BOOLEAN :
        \/ \E cmd \in Commands : AxiAccept(abort, cmd)
        \/ AxiValidate(abort)
        \/ AxiGiveUp(abort)
        \/ \E word \in Words : AxiLoadWrite(abort, word)
        \/ AxiWriteAddr(abort)
        \/ AxiWriteData(abort)
        \/ \E ownId, okay \in BOOLEAN : AxiWriteResp(abort, ownId, okay)
        \/ AxiReadAddr(abort)
        \/ \E rword \in Words, ownId, last, okay \in BOOLEAN :
                AxiReadData(abort, rword, ownId, last, okay)
        \/ AxiReadPrepare(abort)
        \/ AxiReadOut(abort)
        \/ AxiRetire(abort)
        \/ AxiPoison(abort)
        \/ AxiWait(abort, FALSE, FALSE, FALSE, FALSE)

AxiSpec == AxiInit /\ [][AxiNext]_axiVars

-----------------------------------------------------------------------------
(* Properties. *)

AxiControlTypes ==
    /\ axiState \in AxiStates
    /\ axiCmd \in [addr : Nat, words : Nat, write : BOOLEAN]
    /\ axiAborted \in BOOLEAN
    /\ axiFault \in {0, 10, 11, 12, 13}
    /\ axiOwed \in SUBSET {"B", "R"}
    /\ axiError \in BOOLEAN

AxiStorageTypes ==
    /\ axiIndex \in 0 .. MaxWords - 1
    /\ axiMem \in [0 .. MaxWords - 1 -> Words \cup {NoWord}]
    /\ axiBuffer \in Words \cup {NoWord}

AxiHistoryTypes ==
    /\ axiTaken \in Seq(Words)
    /\ axiBeats \in Seq(Words \cup {NoWord})
    /\ axiGiven \in Seq(Words \cup {NoWord})

(* Types of the registers: index_q never leaves the 256-word RAM, and       *)
(* fault_q only ever holds the codes of this engine.                        *)
AxiTypeOK == AxiControlTypes /\ AxiStorageTypes /\ AxiHistoryTypes

(* docs/M5_ARCHITECTURE.md: reset is not cancellation of a live transaction. *)
(* Whatever was aborted, the engine is not idle (so the fabric does not      *)
(* report quiescence and the pages are not given back) while the slave owes  *)
(* a response; and an answer it waits for is one the slave does owe.         *)
AxiDrained ==
    /\ "B" \in axiOwed => axiState \in {"WriteData", "WriteResp", "Poisoned"}
    /\ "R" \in axiOwed => axiState \in {"ReadData", "Poisoned"}
    /\ axiState \in {"WriteData", "WriteResp"} => "B" \in axiOwed
    /\ axiState = "ReadData" => "R" \in axiOwed

(* The beats of a write are the client's words in order, none is offered     *)
(* before the whole burst is buffered, and none is a leftover of an earlier  *)
(* burst in the RAM; the words of a read reach the client in order and only  *)
(* after the whole burst arrived without an error.                           *)
AxiStream ==
    /\ axiCmd.write =>
        /\ axiBeats = SubSeq(axiTaken, 1, Len(axiBeats))
        /\ AwValid \/ WValid => Len(axiTaken) = axiCmd.words
        /\ WValid => axiBuffer = axiTaken[Len(axiBeats) + 1]
    /\ ~axiCmd.write =>
        /\ axiGiven = SubSeq(axiBeats, 1, Len(axiGiven))
        /\ axiGiven # <<>> \/ axiState = "ReadOut" => Len(axiBeats) = axiCmd.words /\ ~axiError

(* AXI4 forbids withdrawing VALID: an offer the slave has not accepted stays, *)
(* with the same payload, whatever the abort input does.                      *)
AxiOffersStand ==
    [][/\ AwValid /\ axiOwed' = axiOwed => AwValid' /\ axiCmd' = axiCmd
       /\ ArValid /\ axiOwed' = axiOwed => ArValid' /\ axiCmd' = axiCmd
       /\ WValid /\ axiBeats' = axiBeats =>
              WValid' /\ axiBuffer' = axiBuffer /\ axiIndex' = axiIndex]_axiVars
=============================================================================
