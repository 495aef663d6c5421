------------------------------ MODULE M4Driver ------------------------------
(***************************************************************************)
(* The DMA session of the fourth milestone (zynq/m4_driver.py): one        *)
(* process owns the two accelerators, the AXI DMA and two buffers, and     *)
(* runs one packet at a time.  The board's side is modelled with it: the   *)
(* channels of the DMA, which may finish at any time, fail, deliver short  *)
(* or never finish, and what the engines do with a descriptor.             *)
(*                                                                         *)
(* A request is the operand it computes on; a packet is one tile of it,    *)
(* and its result is known by the tile that was read for it.               *)
(***************************************************************************)
EXTENDS Naturals, Sequences

CONSTANTS
    Operands,     \* what may be asked for
    BadOperand,   \* one that makes a descriptor the engine rejects
    Stale,        \* a buffer content that belongs to no request
    NoRequest, Error,
    Counts,       \* completion counters and tags are modulo Counts
    MaxFaults     \* faults of the board in one behaviour

ASSUME CountsAssumption == Counts \in Nat \ {0, 1}

Gemm == 0
Sfpu == 1
Routes == {Gemm, Sfpu}
Channels == {"mm2s", "s2mm"}

VARIABLES
    chan,      \* channel -> "halted", "starting", "idle", "busy", "short" or "error"
    resetting, \* the reset bit of the DMA is set
    engine,    \* route -> busy, error, the packet taken in, tags, completions
    hwRoute,   \* the engine the streams are routed to
    faults,    \* faults so far
    tx, rx,    \* the contents of the buffers
    drv,       \* the session object
    call       \* the call in progress

hwVars == <<chan, resetting, engine, hwRoute, faults>>
drvVars == <<chan, resetting, engine, hwRoute, faults, tx, rx, drv, call>>

NoCall == [pc |-> "none", route |-> Gemm, value |-> NoRequest, tiles |-> 0, got |-> << >>]

FreshEngine == [busy |-> FALSE, error |-> FALSE, input |-> Stale, latched |-> 0, tag |-> 0, count |-> 0]

DrvInit ==
    /\ chan = [c \in Channels |-> "halted"] /\ resetting = FALSE
    /\ engine = [r \in Routes |-> FreshEngine] /\ hwRoute = Gemm /\ faults = 0
    /\ tx = Stale /\ rx = Stale
    /\ drv = [state |-> "none", failed |-> FALSE, route |-> Gemm, tag |-> 0,
              completed |-> [r \in Routes |-> 0], buffers |-> "none", answer |-> NoRequest,
              interrupted |-> FALSE]
    /\ call = NoCall

------------------------------------------------------------------------------
(* The board.  A channel that is asked for more data than there is waits.   *)

MayFault == faults < MaxFaults
Faulted == MayFault /\ faults' = faults + 1

\* The input channel hands the packet to the engine the route selects; what is
\* in the buffer then is what the engine works on.
EngineTakes(r) ==
    /\ chan["mm2s"] = "busy" /\ hwRoute = r /\ engine[r].busy /\ engine[r].input = Stale
    /\ chan' = [chan EXCEPT !["mm2s"] = "idle"]
    /\ engine' = [engine EXCEPT ![r].input = tx]
    /\ UNCHANGED <<resetting, hwRoute, faults, tx, rx, drv, call>>

\* The result is stored, the completion registers are written.
EngineDelivers(r) ==
    /\ engine[r].busy /\ engine[r].input # Stale /\ hwRoute = r /\ chan["s2mm"] = "busy"
    /\ rx' = engine[r].input
    /\ engine' = [engine EXCEPT ![r].busy = FALSE, ![r].input = Stale,
                                    ![r].tag = engine[r].latched, ![r].count = (@ + 1) % Counts]
    /\ \/ chan' = [chan EXCEPT !["s2mm"] = "idle"] /\ UNCHANGED faults
       \/ chan' = [chan EXCEPT !["s2mm"] = "short"] /\ Faulted
    /\ UNCHANGED <<resetting, hwRoute, tx, drv, call>>

ChannelFails(c) ==
    /\ chan[c] = "busy" /\ Faulted
    /\ chan' = [chan EXCEPT ![c] = "error"]
    /\ UNCHANGED <<resetting, engine, hwRoute, tx, rx, drv, call>>

\* An engine drops a packet it finds wrong and keeps the error.
EngineFails(r) ==
    /\ engine[r].busy /\ Faulted
    /\ engine' = [engine EXCEPT ![r].busy = FALSE, ![r].input = Stale, ![r].error = TRUE]
    /\ UNCHANGED <<chan, resetting, hwRoute, tx, rx, drv, call>>

\* A reset stops both channels, when it ends.  It may not.
ResetEnds ==
    /\ resetting
    /\ resetting' = FALSE /\ chan' = [c \in Channels |-> "halted"]
    /\ UNCHANGED <<engine, hwRoute, faults, tx, rx, drv, call>>

ChannelStarts(c) ==
    /\ chan[c] = "starting"
    /\ chan' = [chan EXCEPT ![c] = "idle"]
    /\ UNCHANGED <<resetting, engine, hwRoute, faults, tx, rx, drv, call>>

BoardStep ==
    \/ \E r \in Routes : EngineTakes(r) \/ EngineDelivers(r) \/ EngineFails(r)
    \/ \E c \in Channels : ChannelFails(c) \/ ChannelStarts(c)
    \/ ResetEnds

Idle(c) == chan[c] \in {"idle", "short"}
AnyBusy == \E r \in Routes : engine[r].busy
AnyError == \E r \in Routes : engine[r].error
------------------------------------------------------------------------------
(* The calls.  A call that raises leaves the session failed if the packet   *)
(* had begun (the except clause of execute), and as it was otherwise.       *)

Open == drv.state = "open"
Ready == Open /\ ~drv.failed
Calling(pc) == call.pc = pc
Goto(pc) == call' = [call EXCEPT !.pc = pc]

Ask(route, value, tiles) ==
    /\ Calling("none") /\ drv.state \in {"open", "closed"}
    /\ call' = [pc |-> "pack", route |-> route, value |-> value, tiles |-> tiles, got |-> << >>]
    /\ drv' = [drv EXCEPT !.answer = NoRequest]
    /\ UNCHANGED <<hwVars, tx, rx>>

Return(answer) == call' = NoCall /\ drv' = [drv EXCEPT !.answer = answer]
\* Mutation: the session stays usable after a packet failed.
RaiseOnly == call' = NoCall /\ drv' = [drv EXCEPT !.answer = Error]
Raise == call' = NoCall /\ drv' = [drv EXCEPT !.failed = TRUE, !.answer = Error]

\* require_ready, before anything is touched.
Refuse ==
    /\ Calling("pack") /\ ~Ready
    /\ Return(Error)
    /\ UNCHANGED <<hwVars, tx, rx>>

Tile == <<call.value, Len(call.got) + 1>>

Pack ==
    /\ Calling("pack") /\ Ready
    /\ tx' = Tile /\ Goto("select")
    /\ UNCHANGED <<hwVars, rx, drv>>

\* A route is only written when it changes, and never under a busy engine.
Select ==
    /\ Calling("select")
    /\ IF call.route = drv.route THEN Goto("start") /\ UNCHANGED <<hwRoute, drv>>
       ELSE IF AnyBusy THEN Raise /\ UNCHANGED hwRoute
       ELSE hwRoute' = call.route /\ Goto("selected") /\ UNCHANGED drv
    /\ UNCHANGED <<chan, resetting, engine, faults, tx, rx>>

Selected ==
    /\ Calling("selected")
    /\ IF hwRoute # call.route \/ engine[Sfpu].error THEN Raise
       ELSE drv' = [drv EXCEPT !.route = call.route] /\ Goto("start")
    /\ UNCHANGED <<hwVars, tx, rx>>

\* Descriptor, tag and start.  An engine with an error ignores the start, and
\* one that finds the descriptor wrong or is busy takes an error.
Start ==
    /\ Calling("start")
    /\ LET r == call.route
           tag == (drv.tag + 1) % Counts
           taken == ~engine[r].error /\ ~engine[r].busy /\ call.value # BadOperand
       IN /\ engine' = [engine EXCEPT
                 ![r] = IF taken THEN [@ EXCEPT !.busy = TRUE, !.latched = tag] ELSE [@ EXCEPT !.error = TRUE]]
          /\ IF taken THEN Goto("receive") /\ drv' = [drv EXCEPT !.tag = tag]
             ELSE call' = NoCall /\ drv' = [drv EXCEPT !.tag = tag, !.failed = TRUE, !.answer = Error]
    /\ UNCHANGED <<chan, resetting, hwRoute, faults, tx, rx>>

\* A channel accepts a transfer when it runs and has none.
Submit(pc, c, next) ==
    /\ Calling(pc)
    /\ IF Idle(c) THEN chan' = [chan EXCEPT ![c] = "busy"] /\ Goto(next) /\ UNCHANGED drv
       ELSE Raise /\ UNCHANGED chan
    /\ UNCHANGED <<resetting, engine, hwRoute, faults, tx, rx>>

\* The wait for a channel ends with the transfer, on an error or at the
\* deadline, which may pass before the board has done its part.
Await(pc, c, next) ==
    /\ Calling(pc)
    /\ \/ Idle(c) /\ Goto(next) /\ UNCHANGED drv
       \/ ~Idle(c) /\ Raise
    /\ UNCHANGED <<hwVars, tx, rx>>

\* Byte counts, then the completion registers against what this session has
\* counted, then the copy, before the buffer is used again.
Collect ==
    /\ Calling("check")
    /\ LET r == call.route
           count == (drv.completed[r] + 1) % Counts
           counted == [drv EXCEPT !.completed[r] = count]
           good == ~engine[r].error /\ engine[r].tag = drv.tag /\ engine[r].count = count
           got == Append(call.got, rx)
       IN IF chan["s2mm"] = "short" THEN Raise
          ELSE IF ~good THEN call' = NoCall /\ drv' = [counted EXCEPT !.failed = TRUE, !.answer = Error]
          ELSE IF Len(got) < call.tiles
               THEN call' = [call EXCEPT !.pc = "pack", !.got = got] /\ drv' = counted
          ELSE call' = NoCall /\ drv' = [counted EXCEPT !.answer =
                  IF got = [t \in 1..call.tiles |-> <<call.value, t>>] THEN call.value ELSE Stale]
    /\ UNCHANGED <<hwVars, tx, rx>>

\* The last tile of a product came with words that should be zero.
BadPadding ==
    /\ Calling("check") /\ call.route = Gemm /\ Len(call.got) + 1 = call.tiles
    /\ Faulted /\ Raise
    /\ UNCHANGED <<chan, resetting, engine, hwRoute, tx, rx>>

Execute ==
    \/ Refuse \/ Pack \/ Select \/ Selected \/ Start
    \/ Submit("receive", "s2mm", "send") \/ Submit("send", "mm2s", "sent")
    \/ Await("sent", "mm2s", "received") \/ Await("received", "s2mm", "check")
    \/ Collect \/ BadPadding
------------------------------------------------------------------------------
(* Opening, mending and closing.                                            *)

\* The overlay is loaded, which resets the board; the counters are read.
Load ==
    /\ drv.state = "none" /\ Calling("none")
    /\ chan' = [c \in Channels |-> "idle"]
    /\ drv' = [drv EXCEPT !.state = "opening", !.route = hwRoute,
                          !.completed = [r \in Routes |-> engine[r].count]]
    /\ UNCHANGED <<resetting, engine, hwRoute, faults, tx, rx, call>>

\* The second buffer may be refused: the first one is given back.
Allocate ==
    /\ drv.state = "opening"
    /\ \/ drv.buffers = "none" /\ drv' = [drv EXCEPT !.buffers = "tx"] /\ UNCHANGED faults
       \/ drv.buffers = "tx" /\ drv' = [drv EXCEPT !.buffers = "held", !.state = "open"] /\ UNCHANGED faults
       \/ /\ Faulted
          /\ drv' = [drv EXCEPT !.buffers = IF @ = "tx" THEN "freed" ELSE @, !.state = "gone"]
    /\ UNCHANGED <<chan, resetting, engine, hwRoute, tx, rx, call>>

WriteReset(pc, failed) ==
    /\ resetting' = TRUE /\ call' = [NoCall EXCEPT !.pc = pc]
    /\ drv' = [drv EXCEPT !.failed = @ \/ failed]
    /\ UNCHANGED <<chan, engine, hwRoute, faults, tx, rx>>

Recover == Calling("none") /\ Open /\ WriteReset("recovering", TRUE)

GiveUp == call' = NoCall /\ UNCHANGED drv   \* it has been declared failed

\* A reset that does not end raises; one that has is followed by an abort and
\* a clear of both engines and the restart of the input channel.
AwaitReset ==
    /\ Calling("recovering")
    /\ \/ resetting /\ GiveUp /\ UNCHANGED <<chan, engine>>
       \/ /\ ~resetting
          /\ engine' = [r \in Routes |-> [engine[r] EXCEPT !.busy = FALSE, !.error = FALSE, !.input = Stale]]
          /\ chan' = [chan EXCEPT !["mm2s"] = "starting"]
          /\ Goto("startSend") /\ UNCHANGED drv
    /\ UNCHANGED <<resetting, hwRoute, faults, tx, rx>>

AwaitSend ==
    /\ Calling("startSend")
    /\ IF chan["mm2s"] = "idle"
       THEN chan' = [chan EXCEPT !["s2mm"] = "starting"] /\ Goto("startReceive") /\ UNCHANGED drv
       ELSE GiveUp /\ UNCHANGED chan
    /\ UNCHANGED <<resetting, engine, hwRoute, faults, tx, rx>>

\* Mutation: the counters are not read again.
AwaitReceiveOnly ==
    /\ Calling("startReceive")
    /\ IF chan["s2mm"] = "idle" /\ ~AnyBusy /\ ~AnyError
       THEN call' = NoCall /\ drv' = [drv EXCEPT !.failed = FALSE, !.route = hwRoute]
       ELSE GiveUp
    /\ UNCHANGED <<hwVars, tx, rx>>

\* The counters and the route are read again before the session is ready.
AwaitReceive ==
    /\ Calling("startReceive")
    /\ IF chan["s2mm"] = "idle" /\ ~AnyBusy /\ ~AnyError
       THEN /\ call' = NoCall
            /\ drv' = [drv EXCEPT !.failed = FALSE, !.route = hwRoute,
                                  !.completed = [r \in Routes |-> engine[r].count]]
       ELSE GiveUp
    /\ UNCHANGED <<hwVars, tx, rx>>

Close == Calling("none") /\ Open /\ WriteReset("closing", FALSE)

\* Mutation: the buffers are given back whether the reset ended or not.
FinishCloseAnyway ==
    /\ Calling("closing")
    /\ call' = NoCall /\ drv' = [drv EXCEPT !.state = "closed", !.buffers = "freed"]
    /\ UNCHANGED <<hwVars, tx, rx>>

\* The buffers are given back only if the DMA has been reset; otherwise they
\* are kept for the life of the process.
FinishClose ==
    /\ Calling("closing")
    /\ call' = NoCall
    /\ \/ resetting /\ drv' = [drv EXCEPT !.failed = TRUE, !.buffers = "retained"]
       \/ ~resetting /\ drv' = [drv EXCEPT !.state = "closed", !.buffers = "freed"]
    /\ UNCHANGED <<hwVars, tx, rx>>

DriverStep == Execute \/ Allocate \/ AwaitReset \/ AwaitSend \/ AwaitReceive \/ FinishClose

\* Ctrl-C is not caught by the driver: the call is left where it stands.
InterruptCall ==
    /\ Open /\ ~drv.interrupted
    /\ call' = NoCall /\ drv' = [drv EXCEPT !.interrupted = TRUE]
    /\ UNCHANGED <<hwVars, tx, rx>>
=============================================================================
