------------------------------ MODULE HartCalls ------------------------------
(***************************************************************************)
(* What hart 0's operators rely on when they hand a job to hart 1: a call  *)
(* is served exactly once, with the job that was called, it returns how    *)
(* that job went and not before, and after a failure no further call is    *)
(* made.  The harts may be stopped at any time.                            *)
(***************************************************************************)
CONSTANTS Jobs, NoJob

VARIABLES
    hcPhase,   \* "None", "Called" or "Served"
    hcJob,     \* the job called
    hcServed,  \* the job that was executed for it
    hcOutcome, \* how that went: "Ok" or "Failed", "None" before
    hcResult   \* what the last call returned; "Off" while the harts are stopped

hcVars == <<hcPhase, hcJob, hcServed, hcOutcome, hcResult>>

NotCalling ==
    hcPhase = "None" /\ hcJob = NoJob /\ hcServed = NoJob /\ hcOutcome = "None"

HcInit == NotCalling /\ hcResult = "Off"

HcStart == hcResult = "Off" /\ hcResult' = "Ok" /\ UNCHANGED <<hcPhase, hcJob, hcServed, hcOutcome>>

HcCall ==
    /\ hcPhase = "None" /\ hcResult = "Ok"
    /\ hcPhase' = "Called" /\ hcJob' \in Jobs
    /\ UNCHANGED <<hcServed, hcOutcome, hcResult>>

HcServe ==
    /\ hcPhase = "Called"
    /\ hcPhase' = "Served" /\ hcServed' = hcJob /\ hcOutcome' \in {"Ok", "Failed"}
    /\ UNCHANGED <<hcJob, hcResult>>

HcReturn == hcPhase = "Served" /\ NotCalling' /\ hcResult' = hcOutcome

\* Something else than a call fails.
HcGiveUp ==
    /\ NotCalling /\ hcResult = "Ok"
    /\ hcResult' = "Failed"
    /\ UNCHANGED <<hcPhase, hcJob, hcServed, hcOutcome>>

HcStop == NotCalling' /\ hcResult' = "Off"

HcNext == HcStart \/ HcCall \/ HcServe \/ HcReturn \/ HcGiveUp \/ HcStop

HcSpec == HcInit /\ [][HcNext]_hcVars
=============================================================================
