--------------------------- MODULE BoardPrograms ---------------------------
(***************************************************************************)
(* The programs under zynq/ that drive the board, each as the order of its *)
(* operations and the try, except and finally they stand in.  What an      *)
(* operation does, and what an exception does to the order, is BoardScript.*)
(*                                                                         *)
(*    before                        \* outside every try                   *)
(*    try:      body                                                       *)
(*    except    catches:  handler   \* and raise                           *)
(*    finally:  enter                                                      *)
(*              try:     try: cleanup finally: close                       *)
(*              except   cleanupCatches: fault   \* and raise              *)
(*              finally: last            \* or merely next: ~lastAlways    *)
(*    after                                                                *)
(***************************************************************************)
EXTENDS SequencesExt

\* Rounds: how often the loop over cases, trials or tiles is taken.
CONSTANT Rounds

Words == {"RUNNING", "FAIL", "INTERRUPTED", "FAIL_DMA_CLEANUP", "PASS"}

Exception     == {"Error"}
BaseException == {"Error", "Interrupt"}

Plain ==
    [before |-> <<>>, body |-> <<>>, catches |-> {}, handler |-> <<>>, enter |-> <<>>,
     cleanup |-> <<>>, close |-> <<>>, cleanupCatches |-> {}, fault |-> <<>>,
     last |-> <<>>, lastAlways |-> FALSE, after |-> <<>>, callees |-> {}]

Loop(steps) == FlattenSeq([i \in 1 .. Rounds |-> steps])

-----------------------------------------------------------------------------
(* M1 to M3: the host itself owns the accelerator's DMA. *)

m1_boot ==
    [Plain EXCEPT
        !.before = <<"Verify", "Overlay", "HoldHarts", "LoadFirmware", "Release", "PollConsole",
                     "Check", "Acknowledge", "PollConsole", "Say">>]

Feed == <<"WriteInput", "Send", "WaitSend">>
Take == <<"WaitReceive", "ReadOutput", "Compare">>

\* Both slots are reserved and fed before the first result is waited for.
m2_pair ==
    <<"Submit", "Submit", "Occupied", "Arm">> \o Feed \o Feed
        \o Take \o <<"Counters", "Arm">> \o Take \o <<"Counters">>

m2_run ==
    [Plain EXCEPT
        !.before  = <<"Verify", "Overlay", "HoldHarts", "Verify", "AllocateBuffers">>,
        !.body    = Loop(m2_pair) \o <<"Counters">>,
        !.catches = Exception,
        !.cleanup = <<"ResetDma", "FreeBuffers">>,
        !.after   = <<"Say">>]

\* Driver.execute; Driver.check compares.
m3_execute ==
    <<"WriteInput", "Submit", "Arm", "Send", "WaitSend", "WaitReceive", "ReadOutput">>

\* A chain feeds each result into the next packet and compares them all at the end.
m3_chain == m3_execute \o m3_execute \o <<"Compare", "Compare">>

m3_run ==
    [Plain EXCEPT
        !.before  = <<"Verify", "Overlay", "HoldHarts", "AllocateBuffers", "RUNNING">>,
        !.body    = <<"ControlChecks">> \o Loop(m3_execute \o <<"Compare">>) \o m3_chain
                        \o <<"Counters", "PASS">>,
        !.cleanup = <<"ResetDma", "FreeBuffers">>,
        !.after   = <<"Save", "Say">>]

\* A pair of tiles under one policy; results are compared once both are assembled.
m3_policy ==
    <<"Submit", "Submit", "Arm">> \o Feed \o Feed
        \o <<"WaitReceive", "ReadOutput", "Arm", "WaitReceive", "ReadOutput",
             "Compare", "Compare", "Counters">>

m3_benchmark ==
    [Plain EXCEPT
        !.before  = <<"Verify", "Overlay", "HoldHarts", "Verify">>,
        !.body    = <<"AllocateBuffers">> \o Loop(m3_policy) \o <<"PASS">>,
        !.cleanup = <<"ResetDma", "FreeBuffers">>,
        !.after   = <<"Save", "Say">>]

-----------------------------------------------------------------------------
(* M4: FpgaBackend owns the DMA.                                            *)

\* One use of the backend, whose result is compared with the reference.
Execute == <<"Transfer", "Deliver", "Compare">>

CloseBackend == <<"ResetDma", "FreeBuffers">>

m4_control_checks ==
    [Plain EXCEPT
        !.before  = <<"RefuseOld", "OpenBackend">>,
        !.body    = <<"RouteInterlock", "Recover", "RouteInterlock", "Recover",
                      "RejectDescriptor", "Recover">> \o Execute \o <<"Starve", "RefuseRetry", "Recover">>
                        \o Execute \o Execute \o CloseBackend \o <<"PASS", "Save", "Say">>,
        !.cleanup = CloseBackend]

m4_run ==
    [Plain EXCEPT
        !.before  = <<"RefuseOld", "Verify", "RUNNING">>,
        !.body    = <<"ChooseBackend">> \o Loop(Execute)
                        \o <<"Verify", "PASS">>,
        !.catches = BaseException, !.handler = <<"Blame">>,
        !.cleanup = CloseBackend,
        !.cleanupCatches = Exception, !.fault = <<"FAIL_DMA_CLEANUP", "Save">>,
        !.last    = <<"Save">>]

\* run_primitives, run_fixed, run_generation: every trial is compared, then recorded.
m4_trial == <<"RestoreCache">> \o Execute \o <<"Save">>

m4_benchmark ==
    [Plain EXCEPT
        !.before  = <<"RefuseOld", "Verify", "RUNNING", "Save">>,
        !.body    = <<"Verify", "OpenBackend", "Save">> \o Loop(m4_trial) \o <<"Save", "PASS">>,
        !.catches = BaseException, !.handler = <<"Blame">>,
        !.cleanup = CloseBackend,
        !.cleanupCatches = Exception, !.fault = <<"FAIL_DMA_CLEANUP">>,
        !.last    = <<"Save">>, !.lastAlways = TRUE]

\* One observation per backend.
m4_cold_start ==
    [Plain EXCEPT
        !.before  = <<"RefuseOld", "RUNNING">>,
        !.body    = <<"Verify", "Call", "Save", "Call", "Save", "PASS">>,
        !.catches = BaseException, !.handler = <<"FAIL">>,
        !.cleanup = <<"Save">>,
        !.callees = {"measure_process"}]

measure_process ==
    [Plain EXCEPT
        !.before  = <<"Launch">>,
        !.body    = <<"Observe", "Judge">>,
        !.catches = BaseException, !.handler = <<"Signal", "AwaitExit">>,
        !.cleanup = <<"ClosePipes">>]

m4_cold_child ==
    [Plain EXCEPT
        !.before  = <<"RUNNING">>,
        !.body    = <<"Verify", "ChooseBackend", "Transfer", "Deliver", "TellToken", "AwaitAck", "Compare",
                      "PASS">>,
        !.catches = BaseException, !.handler = <<"FAIL">>,
        !.cleanup = CloseBackend,
        !.cleanupCatches = Exception, !.fault = <<"FAIL_DMA_CLEANUP">>,
        !.last    = <<"TellResult">>, !.lastAlways = TRUE]

-----------------------------------------------------------------------------
(* M5: the harts run alone between START and RETURN. *)

Provision == <<"Overlay", "Prepare", "Allocate", "LoadModel">>
RunCase   == <<"Control", "Start", "Poll", "Return", "Check">>

m5_run ==
    [Plain EXCEPT
        !.before  = <<"Verify", "FAIL", "Open">>,
        !.body    = Provision \o <<"LoadFirmware">> \o RunCase
                        \o Loop(<<"Prepare", "LoadFirmware">> \o RunCase) \o <<"PASS", "Info">>,
        !.catches = BaseException,
        !.cleanup = <<"ReturnIfOwned", "ReadFailure">>, !.close = <<"CloseArena">>,
        !.cleanupCatches = BaseException, !.fault = <<"FAIL">>,
        !.last    = <<"Save">>, !.lastAlways = TRUE,
        !.after   = <<"Say">>]

\* m5_opt_profile.run_one
SeededCase == <<"Prepare", "LoadFirmware", "RestoreSeed">> \o RunCase

\* What m5_opt_profile, m5_fast_profile and m5_iterate_profile close with.
Profile ==
    [Plain EXCEPT
        !.before  = <<"RefuseOld", "Verify", "FAIL", "Open">>,
        !.catches = BaseException,
        !.cleanup = <<"ReturnIfOwned", "ReadFailure", "Info", "CloseArena">>,
        !.cleanupCatches = BaseException, !.fault = <<"FAIL">>,
        !.last    = <<"Save">>, !.lastAlways = TRUE,
        !.after   = <<"Say">>]

(* Mutation: the verdict is set before the runs. *)
ProfilePassesFirst == [Profile EXCEPT !.body = Provision \o <<"PASS">> \o Loop(SeededCase)]

m5_opt_profile == [Profile EXCEPT !.body = Provision \o Loop(SeededCase) \o <<"PASS">>]

\* The fine mode reads one more table of counters after each run.
m5_fast_profile ==
    [Profile EXCEPT !.body = Provision \o Loop(SeededCase \o <<"ReadArena">>) \o <<"PASS">>]

m5_iterate_profile ==
    [Profile EXCEPT !.before = <<"RefuseOld", "Verify", "Verify", "FAIL", "Open">>,
                    !.body   = Provision \o Loop(SeededCase) \o <<"PASS">>]

\* The probes report from the finally itself: no report without the release.
m5_opt_probe ==
    [Plain EXCEPT
        !.before  = <<"RefuseOld", "FAIL", "Open">>,
        !.body    = <<"Overlay", "Prepare", "Allocate", "LoadFirmware">> \o RunCase \o <<"PASS">>,
        !.cleanup = <<"ReturnIfOwned", "Info", "ReadFailure", "CloseArena", "Save">>,
        !.after   = <<"Say">>]

m5_fast_probe == m5_opt_probe

m5_startup_check ==
    [Plain EXCEPT
        !.before  = <<"FAIL", "Open">>,
        !.body    = <<"Prepare", "Allocate", "LoadModel", "LoadFirmware">> \o RunCase \o <<"PASS">>,
        !.catches = BaseException,
        !.cleanup = <<"ReturnIfOwned", "Info", "CloseArena">>,
        !.cleanupCatches = BaseException, !.fault = <<"FAIL">>,
        !.last    = <<"Save">>, !.lastAlways = TRUE]

m5_dma_check ==
    [Plain EXCEPT
        !.before  = <<"FAIL", "Open">>,
        !.body    = <<"Prepare", "Info", "RefusedStart", "Allocate", "ReadArena", "PASS">>,
        !.catches = BaseException,
        !.cleanup = <<"CloseArena", "Reopen">>,
        !.cleanupCatches = BaseException, !.fault = <<"FAIL">>,
        !.last    = <<"Save">>, !.lastAlways = TRUE]

m5_opt_release_check ==
    [Plain EXCEPT
        !.before  = <<"RefuseOld", "Open">>,
        !.body    = <<"WordOfInfo">>,
        !.cleanup = <<"CloseArena">>,
        !.after   = <<"Save", "RequirePass", "Say">>]

m5_fast_complete ==
    [Plain EXCEPT
        !.before  = <<"RefuseOld", "FAIL", "ArmAlarm">>,
        !.body    = <<"Call", "PASS">>,
        !.cleanup = <<"DisarmAlarm", "Save">>,
        !.after   = <<"Say">>,
        !.callees = {"m5_run"}]

\* Drain, make sure, release, look again from a fresh handle, and only then unload.
SafeRelease ==
    <<"ReturnIfOwned", "MustBeReturned", "CloseArena", "Reopen", "Rmmod">>

m5_sweep ==
    [Plain EXCEPT
        !.before  = <<"RefuseOld", "FAIL">>,
        !.body    = <<"ArmAlarm", "Verify", "Insmod", "Open">> \o Provision \o <<"LoadFirmware">>
                        \o RunCase \o <<"Checkpoint">> \o Loop(<<"CallOrSkip", "Checkpoint">>)
                        \o <<"PASS">>,
        !.catches = BaseException,
        !.enter   = <<"DisarmAlarm">>,
        !.cleanup = SafeRelease,
        !.cleanupCatches = BaseException, !.fault = <<"FAIL">>,
        !.last    = <<"Budget", "Checkpoint">>, !.lastAlways = TRUE,
        !.callees = {"full_trial", "seeded_trial"}]

m5_context_run == [m5_sweep EXCEPT !.callees = {"full_trial", "detailed_trial"}]

m5_context_ready_run == [m5_sweep EXCEPT !.callees = {"full_trial", "ready_trial"}]

m5_startup_run == [m5_sweep EXCEPT !.callees = {"startup_full_trial", "startup_trial"}]

\* One trial inside the sweep: recorded FAIL first, and again however it ends.
Trial(steps) ==
    [Plain EXCEPT
        !.before  = <<"FAIL", "Checkpoint">>,
        !.body    = steps \o <<"PASS">>,
        !.catches = BaseException,
        !.cleanup = <<"Checkpoint">>]

FullCase == <<"Prepare", "LoadFirmware">> \o RunCase

full_trial     == Trial(FullCase)
seeded_trial   == Trial(SeededCase)
detailed_trial == Trial(SeededCase \o <<"ReadArena">>)

\* A continued forward may find the caches the one before it has left.
ready_trial ==
    Trial(<<"Prepare", "LoadFirmware", "RestoreOrContinue">> \o RunCase \o <<"ReadArena", "Remember">>)

\* The image that records traces is loaded over the primary one.
startup_full_trial ==
    Trial(<<"Prepare", "LoadFirmware", "LoadFirmware">> \o RunCase)

startup_trial ==
    Trial(<<"Verify", "Prepare", "LoadFirmware", "PrefillOrContinue">> \o RunCase
              \o <<"ReadArena", "Remember">>)

Programs ==
    [m1_boot |-> m1_boot, m2_run |-> m2_run, m3_run |-> m3_run, m3_benchmark |-> m3_benchmark,
     m4_control_checks |-> m4_control_checks, m4_run |-> m4_run, m4_benchmark |-> m4_benchmark,
     m4_cold_start |-> m4_cold_start, m5_run |-> m5_run, m5_opt_profile |-> m5_opt_profile,
     m5_fast_profile |-> m5_fast_profile, m5_iterate_profile |-> m5_iterate_profile,
     m5_opt_probe |-> m5_opt_probe, m5_fast_probe |-> m5_fast_probe,
     m5_startup_check |-> m5_startup_check, m5_dma_check |-> m5_dma_check,
     m5_opt_release_check |-> m5_opt_release_check, m5_fast_complete |-> m5_fast_complete,
     m5_sweep |-> m5_sweep, m5_context_run |-> m5_context_run,
     m5_context_ready_run |-> m5_context_ready_run, m5_startup_run |-> m5_startup_run]

\* Programs that run only inside another.
Callees ==
    [measure_process |-> measure_process, m4_cold_child |-> m4_cold_child,
     full_trial |-> full_trial, seeded_trial |-> seeded_trial,
     detailed_trial |-> detailed_trial, ready_trial |-> ready_trial,
     startup_full_trial |-> startup_full_trial, startup_trial |-> startup_trial]
=============================================================================
