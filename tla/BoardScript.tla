---------------------------- MODULE BoardScript ----------------------------
(***************************************************************************)
(* How the board programs run.  One operation is one action; it may raise  *)
(* instead, or be struck by Ctrl-C or by the campaign's alarm, and what    *)
(* has been done by then stays done.  The board itself (overlay, harts,    *)
(* DMA, kernel helper) is what the operations find and leave; its own      *)
(* steps are in M4Driver, DmaOwner and the hardware modules.               *)
(*                                                                         *)
(* A program runs as "main"; what it calls in its own process runs as      *)
(* "callee" and raises into it; a process it launches runs as "child".     *)
(***************************************************************************)
EXTENDS BoardPrograms, Integers

CONSTANT MaxInterrupts  \* how often the operator presses Ctrl-C

ASSUME BoardAssumption == Rounds \in Nat \ {0} /\ MaxInterrupts \in Nat

VARIABLES
    frame,    \* frame[p]: the program p runs, where it is, and what it propagates
    file,     \* the evidence file main, or the runner it calls, writes
    printed,  \* the final PASS line is out
    owed,     \* results asked of the board and not yet compared with the reference
    board,    \* what the operations touch
    pipe,     \* between the cold-start parent and its child
    strikes   \* Ctrl-C, the alarm, the parent's SIGINT

vars == <<frame, file, printed, owed, board, pipe, strikes>>

Procs == {"main", "callee", "child"}

Script(name) == IF name \in DOMAIN Programs THEN Programs[name] ELSE Callees[name]

Fresh(name) ==
    [prog |-> name, phase |-> "before", at |-> 1, pending |-> "none", broken |-> "no",
     status |-> "None"]
Unstarted == [Fresh("m1_boot") EXCEPT !.phase = "idle"]

Live(p) == frame[p].phase \notin {"idle", "done"}
Calling(p) == p = "main" /\ frame["callee"].phase # "idle"

\* The operation p stands at; "end" past the last one of a block.
Now(p) ==
    LET block == Script(frame[p].prog)[frame[p].phase]
    IN  IF Live(p) /\ frame[p].at <= Len(block) THEN block[frame[p].at] ELSE "end"

At(p, op) == Live(p) /\ ~Calling(p) /\ Now(p) = op

NoPipe == [open |-> FALSE, events |-> <<>>, ack |-> FALSE, token |-> FALSE, result |-> "None"]

OpsOf(name) == ToSet(Script(name).before) \cup ToSet(Script(name).body)

BoardInit ==
    /\ \E name \in DOMAIN Programs :
        /\ frame = [p \in Procs |-> IF p = "main" THEN Fresh(name) ELSE Unstarted]
        \* A program that does not refuse an old report overwrites it.
        /\ \E report \in {"Old"} \cup {"None" : r \in OpsOf(name) \cap {"RefuseOld"}} :
            file = [p \in {"main", "callee"} |-> report]
    /\ printed = FALSE /\ owed = 0
    \* What an earlier program may have left: the helper loaded, or a region it could not free.
    /\ \E module, retained \in BOOLEAN :
        /\ retained => module
        /\ module => OpsOf(frame["main"].prog) \cap {"Open", "Call"} # {}
        /\ board =
            [harts |-> "any", image |-> "none", control |-> FALSE,
             module |-> module, mine |-> FALSE, arena |-> "none", pages |-> retained, mapped |-> FALSE,
             owner |-> IF retained THEN "UNSAFE" ELSE "CPU", kv |-> "none", prev |-> FALSE,
             bufs |-> FALSE, tx |-> FALSE, rx |-> FALSE, queue |-> 0, failed |-> FALSE]
    /\ pipe = NoPipe
    /\ strikes = [pressed |-> 0, alarm |-> FALSE, sigint |-> FALSE]

-----------------------------------------------------------------------------
(* Control: the end of a block, and an exception.                           *)

Moved(f, phase) == [f EXCEPT !.phase = phase, !.at = 1]

\* The block after the release, when it has raised and when it has not.
AfterRelease(f) ==
    LET s == Script(f.prog) IN
    IF f.broken = "no" THEN Moved(f, "last")
    ELSE IF f.pending \in s.cleanupCatches THEN Moved(f, "fault")
    ELSE Moved(f, IF s.lastAlways THEN "last" ELSE "done")

AfterFault(f) == Moved(f, IF Script(f.prog).lastAlways THEN "last" ELSE "done")

ToRelease(f) == Moved(f, IF Script(f.prog).enter = <<>> THEN "cleanup" ELSE "enter")

ToClose(f) == IF Script(f.prog).close = <<>> THEN AfterRelease(f) ELSE Moved(f, "close")

Left(f) ==
    CASE f.phase = "before"              -> Moved(f, "body")
      [] f.phase \in {"body", "handler"} -> ToRelease(f)
      [] f.phase = "enter"               -> Moved(f, "cleanup")
      [] f.phase = "cleanup"             -> ToClose(f)
      [] f.phase = "close"               -> AfterRelease(f)
      [] f.phase = "fault"               -> AfterFault(f)
      [] f.phase = "last" /\ f.pending = "none" -> Moved(f, "after")
      [] OTHER                           -> Moved(f, "done")

Thrown(f, e) ==
    LET s == Script(f.prog)
        g == [f EXCEPT !.pending = e]
    IN CASE f.phase = "body" /\ e \in s.catches /\ s.handler # <<>> -> Moved(g, "handler")
         [] f.phase \in {"body", "handler"} -> ToRelease(g)
         [] f.phase = "cleanup" -> ToClose([g EXCEPT !.broken = "yes"])
         [] f.phase = "close"   -> AfterRelease([g EXCEPT !.broken = "yes"])
         [] f.phase = "fault"   -> AfterFault([g EXCEPT !.broken = "unrecorded"])
         [] OTHER               -> Moved(g, "done")

Step(p) == frame' = [frame EXCEPT ![p].at = @ + 1]
Raise(p, e) == frame' = [frame EXCEPT ![p] = Thrown(@, e)]

\* An operation on the board alone.
Sets(p, b) == Step(p) /\ board' = b /\ UNCHANGED <<file, printed, owed, pipe, strikes>>

Leave(p) ==
    /\ At(p, "end")
    /\ frame' = [frame EXCEPT ![p] = Left(@)]
    /\ UNCHANGED <<file, printed, owed, board, pipe, strikes>>

\* Assignments, which do not fail on their own; a pipe is waited on until it closes.
Silent == Words \cup {"Blame", "Budget", "DisarmAlarm", "Remember", "end"}
PipeOpen == pipe.open /\ Live("main")
CanFail(op) == op \notin Silent /\ ~(op = "AwaitAck" /\ PipeOpen)

\* The boards an operation may leave behind when e cuts it short.
HalfDone(op, e) ==
    CASE op \in {"Transfer", "Deliver", "Starve"} /\ board.bufs ->
            {[board EXCEPT !.failed = @ \/ e = "Error", !.rx = @ \/ op = "Starve"]}
      [] op = "LoadFirmware" -> {[board EXCEPT !.image = "none"]}
      [] op = "Allocate" /\ board.owner = "CPU" -> {board, [board EXCEPT !.pages = TRUE]}
      [] op = "Start" /\ board.owner = "CPU" /\ board.pages ->
            {board, [board EXCEPT !.owner = "DEVICE", !.image = "used", !.control = FALSE]}
      [] op \in {"Return", "ReturnIfOwned"} /\ board.owner # "CPU" ->
            {board, [board EXCEPT !.owner = "UNSAFE"]}
      [] OTHER -> {board}

\* write_text truncates the report before it writes it; a checkpoint replaces it whole.
TornFiles(p) ==
    {file} \cup {[file EXCEPT ![q] = "Torn"] : q \in IF Now(p) = "Save" THEN {p} ELSE {}}

Strike(p, e) ==
    /\ Live(p) /\ ~Calling(p)
    /\ Raise(p, e)
    /\ board' \in HalfDone(Now(p), e)
    /\ file' \in TornFiles(p)
    /\ UNCHANGED <<printed, owed, pipe>>

Fails(p) == CanFail(Now(p)) /\ Strike(p, "Error") /\ UNCHANGED strikes

\* Ctrl-C strikes the innermost frame of the process, between any two operations or in one.
CtrlC(p) ==
    /\ p # "child" /\ strikes.pressed < MaxInterrupts
    /\ Strike(p, "Interrupt")
    /\ strikes' = [strikes EXCEPT !.pressed = @ + 1]

\* The cold-start child has a session of its own: only the parent's SIGINT reaches it.
ChildStruck ==
    /\ strikes.sigint /\ Strike("child", "Interrupt")
    /\ strikes' = [strikes EXCEPT !.sigint = FALSE]

\* The one-shot campaign timer: its handler raises TimeoutError wherever the process is.
AlarmStrikes(p) ==
    /\ p # "child" /\ strikes.alarm
    /\ Strike(p, "Error")
    /\ strikes' = [strikes EXCEPT !.alarm = FALSE]

-----------------------------------------------------------------------------
(* Verdict and evidence.                                                    *)

SetsStatus(p, word) ==
    /\ frame' = [frame EXCEPT ![p].at = @ + 1, ![p].status = word]
    /\ UNCHANGED <<file, printed, owed, board, pipe, strikes>>

SayWord(p) == \E word \in Words : At(p, word) /\ SetsStatus(p, word)

Blame(p) ==
    /\ At(p, "Blame")
    /\ SetsStatus(p, IF frame[p].pending = "Interrupt" THEN "INTERRUPTED" ELSE "FAIL")

\* elapsed_seconds is over or under the board's budget.
Budget(p) == At(p, "Budget") /\ \E word \in {frame[p].status, "FAIL"} : SetsStatus(p, word)

WordOfInfo(p) ==
    /\ At(p, "WordOfInfo")
    /\ SetsStatus(p, IF board.pages \/ board.owner # "CPU" THEN "FAIL" ELSE "PASS")

RefuseOld(p) == At(p, "RefuseOld") /\ file["main"] = "None" /\ Sets(p, board)

Writes(p, q, word) ==
    /\ Step(p) /\ file' = [file EXCEPT ![q] = word]
    /\ UNCHANGED <<printed, owed, board, pipe, strikes>>

Save(p) == At(p, "Save") /\ Writes(p, p, frame[p].status)

\* The sweep's report, which a trial only adds its own record to.
Checkpoint(p) == At(p, "Checkpoint") /\ Writes(p, "main", frame["main"].status)

Say(p) ==
    /\ At(p, "Say") /\ Step(p) /\ printed' = TRUE
    /\ UNCHANGED <<file, owed, board, pipe, strikes>>

\* owed counts what the reference has not been held against.
Owes(p, n, b) == Step(p) /\ owed' = owed + n /\ board' = b /\ UNCHANGED <<file, printed, pipe, strikes>>

Compare(p) == At(p, "Compare") /\ Owes(p, -1, board)

-----------------------------------------------------------------------------
(* Calls, in one process.                                                   *)

Call(p) ==
    /\ At(p, "Call") \/ At(p, "CallOrSkip")
    /\ \E name \in Script(frame[p].prog).callees : frame' = [frame EXCEPT !["callee"] = Fresh(name)]
    /\ UNCHANGED <<file, printed, owed, board, pipe, strikes>>

\* A trial that is not admitted, or has no reference, is recorded as skipped.
Skip(p) == At(p, "CallOrSkip") /\ Sets(p, board)

Returns ==
    /\ frame["callee"].phase = "done"
    /\ LET e == frame["callee"].pending
           f == frame["main"]
       IN frame' = [frame EXCEPT !["callee"] = [Unstarted EXCEPT !.broken = frame["callee"].broken],
                                 !["main"] = IF e = "none" THEN [f EXCEPT !.at = @ + 1] ELSE Thrown(f, e)]
    /\ UNCHANGED <<file, printed, owed, board, pipe, strikes>>

-----------------------------------------------------------------------------
(* Operations that only look, and those whose step needs nothing.           *)

Looks == {"Verify", "ControlChecks", "Counters", "Info", "Acknowledge", "PollConsole",
          "RouteInterlock", "LoadModel", "ReadArena", "ReadFailure", "WriteInput", "ReadOutput",
          "Poll", "AwaitExit", "AwaitAck"}

\* What must be found for an operation that checks; otherwise it raises.
Finds(p, op) ==
    CASE op = "Occupied"       -> board.queue = 2
      [] op = "RequirePass"    -> frame[p].status = "PASS"
      [] op = "RestoreCache"   -> ~board.failed
      [] op = "RefuseRetry"    -> board.failed
      [] op = "MustBeReturned" -> board.owner = "CPU"
      [] op = "Reopen"         -> board.module /\ board.owner = "CPU" /\ ~board.pages
      [] op = "AwaitAck"       -> pipe.ack
      [] OTHER                 -> op \in Looks

\* The conditions under which a release does not take a step of its own.
Needless(p, op) ==
    CASE op = "ReturnIfOwned" -> board.arena # "open" \/ board.owner = "CPU"
      [] op \in {"MustBeReturned", "CloseArena", "Reopen"} -> board.arena = "none"
      [] op = "Rmmod"                      -> ~board.mine
      [] op \in {"ResetDma", "FreeBuffers"} -> ~board.bufs
      [] op = "ReadFailure" ->
            ~board.mapped \/ (frame[p].status = "PASS" /\ Script(frame[p].prog).catches # {})
      [] OTHER                             -> FALSE

Look(p) ==
    /\ Live(p) /\ ~Calling(p)
    /\ Finds(p, Now(p)) \/ Needless(p, Now(p))
    /\ Sets(p, board)

Does(p, op) == At(p, op) /\ ~Needless(p, op)

-----------------------------------------------------------------------------
(* The host's own DMA: M1 to M4. *)

\* A new bitstream: nothing of the old fabric is left.
Blank == [board EXCEPT !.harts = "any", !.image = "none", !.queue = 0, !.tx = FALSE, !.rx = FALSE]

Overlay(p) == At(p, "Overlay") /\ Sets(p, Blank)

HoldHarts(p) == At(p, "HoldHarts") /\ Sets(p, [board EXCEPT !.harts = "held"])

AllocateBuffers(p) == At(p, "AllocateBuffers") /\ Sets(p, [board EXCEPT !.bufs = TRUE])

Submit(p) == At(p, "Submit") /\ board.queue < 2 /\ Sets(p, [board EXCEPT !.queue = @ + 1])

Arm(p) == At(p, "Arm") /\ ~board.rx /\ Sets(p, [board EXCEPT !.rx = TRUE])

Send(p) == At(p, "Send") /\ ~board.tx /\ Sets(p, [board EXCEPT !.tx = TRUE])

WaitSend(p) == At(p, "WaitSend") /\ Sets(p, [board EXCEPT !.tx = FALSE])

WaitReceive(p) ==
    /\ At(p, "WaitReceive") /\ board.queue > 0
    /\ Owes(p, 1, [board EXCEPT !.rx = FALSE, !.queue = @ - 1])

\* After the soft reset no channel touches a buffer.
ResetDma(p) == Does(p, "ResetDma") /\ Sets(p, [board EXCEPT !.tx = FALSE, !.rx = FALSE])

FreeBuffers(p) == Does(p, "FreeBuffers") /\ Sets(p, [board EXCEPT !.bufs = FALSE])

\* m1_boot: both harts run from the image just written, and report in the scratchpad.
Release(p) == At(p, "Release") /\ Owes(p, 1, [board EXCEPT !.harts = "run", !.image = "used"])

Check(p) == At(p, "Check") /\ Owes(p, -1, board)

-----------------------------------------------------------------------------
(* The backend of M4; M4Driver has its inside. *)

OpenBackend(p) ==
    At(p, "OpenBackend") /\ Sets(p, [Blank EXCEPT !.harts = "held", !.bufs = TRUE])

\* --backend
ChooseBackend(p) ==
    /\ At(p, "ChooseBackend")
    /\ \E b \in {board, [Blank EXCEPT !.harts = "held", !.bufs = TRUE]} : Sets(p, b)

Transfer(p) ==
    /\ At(p, "Transfer") /\ ~board.failed
    /\ Sets(p, [board EXCEPT !.tx = board.bufs, !.rx = board.bufs])

Deliver(p) == At(p, "Deliver") /\ Owes(p, 1, [board EXCEPT !.tx = FALSE, !.rx = FALSE])

\* The suppressed producer: the receive side stays armed.
Starve(p) == At(p, "Starve") /\ ~board.failed /\ Sets(p, [board EXCEPT !.failed = TRUE, !.rx = TRUE])

RejectDescriptor(p) == At(p, "RejectDescriptor") /\ Sets(p, [board EXCEPT !.failed = TRUE])

Recover(p) ==
    At(p, "Recover") /\ Sets(p, [board EXCEPT !.failed = FALSE, !.tx = FALSE, !.rx = FALSE])

-----------------------------------------------------------------------------
(* The arena of M5; DmaOwner has the inside of its ioctls. *)

Insmod(p) ==
    /\ At(p, "Insmod") /\ ~board.module
    /\ Sets(p, [board EXCEPT !.module = TRUE, !.mine = TRUE])

Rmmod(p) ==
    /\ Does(p, "Rmmod") /\ board.arena # "open" /\ board.owner = "CPU"
    /\ Sets(p, [board EXCEPT !.module = FALSE, !.mine = FALSE, !.pages = FALSE])

Open(p) ==
    /\ At(p, "Open") /\ board.module /\ board.owner = "CPU" /\ board.arena # "open"
    /\ Sets(p, [board EXCEPT !.arena = "open"])

Prepare(p) ==
    /\ At(p, "Prepare") /\ board.owner = "CPU"
    /\ Sets(p, [board EXCEPT !.harts = "held"])

Allocate(p) ==
    /\ At(p, "Allocate") /\ board.owner = "CPU" /\ ~board.pages
    /\ Sets(p, [board EXCEPT !.pages = TRUE, !.mapped = TRUE])

\* m5_dma_check asks for a START it must not be given; otherwise the fabric has the memory.
RefusedStart(p) == At(p, "RefusedStart") /\ ~board.pages /\ Sets(p, board)

\* The whole scratchpad, which a reset does not clear, is written and read back.
LoadFirmware(p) == At(p, "LoadFirmware") /\ Sets(p, [board EXCEPT !.image = "fresh"])

RestoreSeed(p) == At(p, "RestoreSeed") /\ Sets(p, [board EXCEPT !.kv = "prefix"])

(* Mutation: a warm forward trusts what the host remembers, not the caches. *)
FollowsUnchecked == board.prev

\* The caches in the arena are the ones the forward before this one has left.
Follows == board.prev /\ board.kv = "next"

Cold(p) == Sets(p, [board EXCEPT !.kv = "prefix", !.prev = FALSE])
Warm(p) == Follows /\ Sets(p, [board EXCEPT !.kv = IF @ = "next" THEN "prefix" ELSE @])

RestoreOrContinue(p) ==
    (At(p, "RestoreOrContinue") \/ At(p, "PrefillOrContinue")) /\ (Cold(p) \/ Warm(p))

\* An actual prompt is prefilled by the harts from an empty cache.
Prefill(p) ==
    At(p, "PrefillOrContinue") /\ Sets(p, [board EXCEPT !.kv = "empty", !.prev = FALSE])

Remember(p) == At(p, "Remember") /\ Sets(p, [board EXCEPT !.prev = TRUE])

Control(p) == At(p, "Control") /\ Sets(p, [board EXCEPT !.control = TRUE])

\* The harts work on the caches until RETURN; a full case writes them anew.
Start(p) ==
    /\ At(p, "Start") /\ board.owner = "CPU" /\ board.pages
    /\ Owes(p, 1, [board EXCEPT !.owner = "DEVICE", !.harts = "run", !.image = "used",
                                !.control = FALSE,
                                !.kv = IF @ \in {"prefix", "empty"} THEN "next" ELSE "other"])

Return(p) ==
    /\ At(p, "Return") \/ Does(p, "ReturnIfOwned")
    /\ Sets(p, [board EXCEPT !.owner = "CPU", !.harts = "held"])

\* The file is closed: the kernel drains, or keeps pages it could not make safe.
Released(b, drained) ==
    [b EXCEPT !.arena = "closed", !.mapped = FALSE,
              !.pages = IF drained THEN FALSE ELSE @,
              !.owner = IF drained THEN "CPU" ELSE "UNSAFE"]

Closes(b) == {Released(b, TRUE)} \cup {Released(b, FALSE) : o \in {b.owner} \ {"CPU"}}

CloseArena(p) == Does(p, "CloseArena") /\ \E b \in Closes(board) : Sets(p, b)

\* The process ends with the file open.
KernelCloses ==
    /\ frame["main"].phase = "done" /\ board.arena = "open"
    /\ board' \in Closes(board)
    /\ UNCHANGED <<frame, file, printed, owed, pipe, strikes>>

ArmAlarm(p) ==
    /\ At(p, "ArmAlarm") /\ Step(p) /\ strikes' = [strikes EXCEPT !.alarm = TRUE]
    /\ UNCHANGED <<file, printed, owed, board, pipe>>

DisarmAlarm(p) ==
    /\ At(p, "DisarmAlarm") /\ Step(p) /\ strikes' = [strikes EXCEPT !.alarm = FALSE]
    /\ UNCHANGED <<file, printed, owed, board, pipe>>

-----------------------------------------------------------------------------
(* The cold start: a child in a session of its own, and what it tells.      *)

Pipes(s) == pipe' = s /\ UNCHANGED <<file, printed, owed, board, strikes>>

Launch ==
    /\ At("callee", "Launch")
    /\ frame' = [frame EXCEPT !["callee"].at = @ + 1, !["child"] = Fresh("m4_cold_child")]
    /\ Pipes([NoPipe EXCEPT !.open = TRUE])

Tells(event) == PipeOpen /\ Step("child") /\ Pipes([pipe EXCEPT !.events = Append(@, event)])

TellToken == At("child", "TellToken") /\ Tells("token")

TellResult == At("child", "TellResult") /\ Tells(frame["child"].status)

\* Delivery is timed before the child is acknowledged.
HearToken ==
    /\ At("callee", "Observe") /\ pipe.events # <<>> /\ Head(pipe.events) = "token"
    /\ Pipes([pipe EXCEPT !.events = Tail(@), !.token = TRUE, !.ack = TRUE])
    /\ UNCHANGED frame

HearResult ==
    /\ At("callee", "Observe") /\ pipe.events # <<>> /\ Head(pipe.events) # "token"
    /\ Pipes([pipe EXCEPT !.events = Tail(@), !.result = Head(pipe.events)])
    /\ UNCHANGED frame

\* End of the stream: everything is read, and the child is gone.
EndOfStream == pipe.events = <<>> /\ ~Live("child")

HearEnd == At("callee", "Observe") /\ EndOfStream /\ Sets("callee", board)

Judge ==
    /\ At("callee", "Judge")
    /\ frame["child"].pending = "none" /\ pipe.token /\ pipe.result = "PASS"
    /\ Sets("callee", board)

\* One graceful abort, and nothing harder: a child that owns the DMA is never killed.
Signal ==
    /\ At("callee", "Signal") /\ Step("callee")
    /\ strikes' = [strikes EXCEPT !.sigint = Live("child")]
    /\ UNCHANGED <<file, printed, owed, board, pipe>>

ClosePipes ==
    /\ At("callee", "ClosePipes") /\ Step("callee")
    /\ Pipes(NoPipe)

-----------------------------------------------------------------------------
Finished ==
    /\ frame["main"].phase = "done" /\ ~Live("child") /\ board.arena # "open"
    /\ UNCHANGED vars

Verdict(p) ==
    \/ SayWord(p) \/ Blame(p) \/ Budget(p) \/ WordOfInfo(p) \/ RefuseOld(p)
    \/ Save(p) \/ Checkpoint(p) \/ Say(p) \/ Compare(p)

HostDma(p) ==
    \/ Overlay(p) \/ HoldHarts(p) \/ AllocateBuffers(p) \/ Submit(p) \/ Arm(p) \/ Send(p)
    \/ WaitSend(p) \/ WaitReceive(p) \/ ResetDma(p) \/ FreeBuffers(p) \/ Release(p) \/ Check(p)

Backend(p) ==
    \/ OpenBackend(p) \/ ChooseBackend(p) \/ Transfer(p) \/ Deliver(p) \/ Starve(p)
    \/ RejectDescriptor(p) \/ Recover(p)

Arena(p) ==
    \/ Insmod(p) \/ Rmmod(p) \/ Open(p) \/ Prepare(p) \/ Allocate(p) \/ RefusedStart(p)
    \/ LoadFirmware(p) \/ RestoreSeed(p) \/ RestoreOrContinue(p) \/ Prefill(p) \/ Remember(p)
    \/ Control(p) \/ Start(p) \/ Return(p) \/ CloseArena(p) \/ ArmAlarm(p) \/ DisarmAlarm(p)

ColdStart ==
    \/ Launch \/ TellToken \/ TellResult \/ HearToken \/ HearResult \/ HearEnd \/ Judge
    \/ Signal \/ ClosePipes

BoardNext ==
    \/ \E p \in Procs :
        \/ Leave(p) \/ Fails(p) \/ CtrlC(p) \/ AlarmStrikes(p)
        \/ Verdict(p) \/ Call(p) \/ Skip(p) \/ Look(p) \/ HostDma(p) \/ Backend(p) \/ Arena(p)
    \/ ChildStruck \/ Returns \/ ColdStart \/ KernelCloses \/ Finished

BoardSpec == BoardInit /\ [][BoardNext]_vars

-----------------------------------------------------------------------------
(* Properties. *)

\* Nothing the program took is in use: no transfer, no buffer, no arena, no page of one.
Idle ==
    /\ ~board.bufs /\ ~board.tx /\ ~board.rx
    /\ board.arena = "none" \/ (board.arena = "closed" /\ ~board.pages /\ board.owner = "CPU")

\* A release that failed may go unrecorded: a second strike hits the except clause that
\* was about to record it, or a Ctrl-C hits hardware.close() in m4_benchmark, which
\* catches Exception alone there.
Unrecorded ==
    \E p \in {"main", "callee"} :
        \/ frame[p].broken = "unrecorded"
        \/ /\ frame[p].prog = "m4_benchmark"
           /\ frame[p].broken = "yes" /\ frame[p].pending = "Interrupt"

(* A report or a last line that says PASS is only there when every result the     *)
(* program asked of the board has been compared and everything it took has been   *)
(* given back, whatever raised, and wherever Ctrl-C and the campaign's alarm      *)
(* struck, but for the failed release no except clause could record; a watchdog's *)
(* PASS stands on the report of the runner it called, and a cold start's on       *)
(* children that have ended (m5_run, m5_sweep, m4_benchmark, m5_fast_complete,    *)
(* m4_cold_start: main and its finally).                                          *)
BoardEvidence ==
    /\ (\E p \in DOMAIN file : file[p] = "PASS") => owed = 0 /\ (Idle \/ Unrecorded)
    /\ printed => owed = 0 /\ Idle
    /\ file["main"] = "PASS" =>
        CASE frame["main"].prog = "m5_fast_complete" -> file["callee"] = "PASS"
          [] frame["main"].prog = "m4_cold_start"    -> ~Live("child")
          [] OTHER                                   -> TRUE

Touches == {"LoadModel", "ReadArena", "RestoreSeed", "RestoreOrContinue", "PrefillOrContinue",
            "Control", "Check"}
Continued == {"seeded_trial", "detailed_trial", "ready_trial", "startup_trial", "m5_opt_profile",
              "m5_fast_profile", "m5_iterate_profile"}

(* The host touches the arena only while the CPU owns it, and starts the harts    *)
(* only on an image written since they last ran, a request of their own and the   *)
(* caches the request assumes; it fills and reads a DMA buffer only when the      *)
(* channel is done with it, frees none that a channel may still touch, and        *)
(* reloads the fabric or unloads the helper only when no page is out; no child    *)
(* is launched beside a live one (run_case, run_one, restore_or_continue,         *)
(* load_firmware, reset_dma, safe_close, measure_process).                        *)
BoardMemory ==
    \A p \in Procs :
        LET op == Now(p)
            does == Live(p) /\ ~Calling(p) /\ ~Needless(p, op)
        IN does =>
            /\ op \in Touches \cup {"ReadFailure"} /\ frame[p].prog # "m1_boot" =>
                board.mapped /\ board.owner = "CPU"
            /\ op = "LoadFirmware" => board.harts = "held"
            /\ op \in {"Release", "Start"} => board.image = "fresh"
            /\ op = "Start" =>
                board.control /\ (frame[p].prog \in Continued => board.kv \in {"prefix", "empty"})
            /\ op = "WriteInput" => ~board.tx
            /\ op = "ReadOutput" => ~board.rx
            /\ op \in {"Transfer", "FreeBuffers"} /\ board.bufs /\ ~(board.failed /\ op = "Transfer") =>
                ~board.tx /\ ~board.rx
            /\ op = "Overlay" /\ board.arena = "open" => board.owner = "CPU" /\ ~board.pages
            /\ op = "Rmmod" => board.owner = "CPU" /\ ~board.pages /\ board.arena # "open"
            /\ op = "Launch" => ~Live("child")
=============================================================================
