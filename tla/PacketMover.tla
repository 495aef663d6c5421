---------------------------- MODULE PacketMover ----------------------------
(***************************************************************************)
(* What the packet mover promises the transfer control: it owns at most    *)
(* one command, completes it or stops, and keeps a completion until it is  *)
(* acknowledged.  Once it has stopped it never starts again.               *)
(* StreamTransfer implements this specification; AcceleratorSystem is      *)
(* built on it.                                                            *)
(***************************************************************************)
CONSTANTS
    PmCommands, \* the commands there are, for PmSpec
    NoPmCommand \* what the command registers hold before the first

VARIABLES
    pmState,     \* see PmStates
    pmCmd,       \* the command owned, or owned last
    pmFaultAbort \* the mover asks for the global abort

pmVars == <<pmState, pmCmd, pmFaultAbort>>

PmStates == {"Idle", "Working", "Complete", "Stopped"}

PmInit == pmState = "Idle" /\ pmCmd = NoPmCommand /\ pmFaultAbort = FALSE

PmCancelled(abort) == abort \/ pmFaultAbort
PmBusy == pmState \in {"Working", "Complete"}
PmReady(abort) == pmState = "Idle" /\ ~PmCancelled(abort)
PmDone(abort) == pmState = "Complete" /\ ~PmCancelled(abort)

PmIdle(abort, start, cmd) ==
    /\ pmState = "Idle"
    /\ CASE PmCancelled(abort) -> pmState' = "Stopped" /\ UNCHANGED pmCmd
         [] ~PmCancelled(abort) /\ start -> pmState' = "Working" /\ pmCmd' = cmd
         [] OTHER -> UNCHANGED <<pmState, pmCmd>>
    /\ UNCHANGED pmFaultAbort

\* A fault asks for the abort; what is owned may have to be drained first.
PmWorking(abort) ==
    /\ pmState = "Working"
    /\ \/ ~PmCancelled(abort) /\ pmState' \in {"Working", "Complete"} /\ UNCHANGED pmFaultAbort
       \/ /\ pmState' \in {"Working", "Stopped"}
          /\ pmFaultAbort' \in IF PmCancelled(abort) THEN {pmFaultAbort} ELSE {TRUE}
    /\ UNCHANGED pmCmd

PmComplete(abort, ack) ==
    /\ pmState = "Complete"
    /\ pmState' = IF PmCancelled(abort) THEN "Stopped" ELSE IF ack THEN "Idle" ELSE "Complete"
    /\ UNCHANGED <<pmCmd, pmFaultAbort>>

PmStopped == pmState = "Stopped" /\ UNCHANGED pmVars

\* One clock edge of the mover.
PmTick(abort, start, cmd, ack) ==
    PmIdle(abort, start, cmd) \/ PmWorking(abort) \/ PmComplete(abort, ack) \/ PmStopped

PmNext == \E abort, start, ack \in BOOLEAN, cmd \in PmCommands : PmTick(abort, start, cmd, ack)

PmSpec == PmInit /\ [][PmNext]_pmVars
=============================================================================
