------------------------------ MODULE M4Session ------------------------------
(***************************************************************************)
(* What the scheduler of the fourth milestone relies on: a session with    *)
(* the accelerators answers each request once, with the result of that     *)
(* request or with an error; after an error nothing is served until the    *)
(* session has been mended, and a closed session serves nothing.  Ctrl-C   *)
(* takes the pending request away, and only closing is possible after it.  *)
(***************************************************************************)
CONSTANTS Operands, NoRequest, Error

VARIABLES
    msState,  \* "Absent", "Ready", "Failed", "Interrupted" or "Closed"
    msAsked,  \* the pending request, or NoRequest
    msAnswer  \* the last answer

msVars == <<msState, msAsked, msAnswer>>

MsInit == msState = "Absent" /\ msAsked = NoRequest /\ msAnswer = NoRequest

MsOpen == msState = "Absent" /\ msState' = "Ready" /\ UNCHANGED <<msAsked, msAnswer>>

MsAsk ==
    /\ msState # "Absent" /\ msAsked = NoRequest
    /\ msAsked' \in Operands /\ msAnswer' = NoRequest
    /\ UNCHANGED msState

Settled(state, answer) ==
    msAsked # NoRequest /\ msAsked' = NoRequest /\ msState' = state /\ msAnswer' = answer

MsServe == msState = "Ready" /\ Settled("Ready", msAsked)

MsBreak == msState = "Ready" /\ Settled("Failed", Error)

MsRefuse == msState # "Ready" /\ Settled(msState, Error)

\* Mending declares the session failed first; closing may find it cannot.
MsFail ==
    /\ msAsked = NoRequest /\ msState \in {"Ready", "Interrupted"}
    /\ msState' = "Failed" /\ UNCHANGED <<msAsked, msAnswer>>

MsMend ==
    /\ msAsked = NoRequest /\ msState = "Failed"
    /\ msState' = "Ready" /\ UNCHANGED <<msAsked, msAnswer>>

MsInterrupt ==
    /\ msState \in {"Ready", "Failed"}
    /\ msState' \in {msState, "Interrupted"}
    /\ msAsked' = NoRequest /\ UNCHANGED msAnswer

MsClose ==
    /\ msAsked = NoRequest /\ msState \notin {"Absent", "Closed"}
    /\ msState' = "Closed" /\ UNCHANGED <<msAsked, msAnswer>>

MsNext ==
    \/ MsOpen \/ MsAsk \/ MsServe \/ MsBreak \/ MsRefuse
    \/ MsFail \/ MsMend \/ MsInterrupt \/ MsClose

\* A pending request is settled, whatever the hardware does.
MsSpec ==
    /\ MsInit /\ [][MsNext]_msVars
    /\ WF_msVars(MsServe \/ MsBreak \/ MsRefuse)
=============================================================================
