------------------------------ MODULE M4Offload ------------------------------
(***************************************************************************)
(* The scheduler of the fourth milestone (zynq/m4_offload.py) on a DMA     *)
(* session or on the native operators, with what its programs do to both:  *)
(* prefill and generation, steps measured from a saved cache               *)
(* (zynq/m4_benchmark.py), recovery and closing.                           *)
(*                                                                         *)
(* A number is known by what it was computed from: a cache position holds  *)
(* the tokens that led to it, and so do the logits.  The twelve layers are *)
(* one, and each part of a step makes one request.                         *)
(***************************************************************************)
EXTENDS M4Driver, SequencesExt

CONSTANTS
    Capacity, \* positions of the cache
    Block,    \* of a prefill
    Tokens,   \* the vocabulary
    Jobs,     \* of the programs: a prompt and the number of tokens wanted
    Fed,      \* tokens a program feeds on its own
    Argmax(_), \* the token with the largest logit
    MaxOps    \* operations of a program in one behaviour

ASSUME ContextAssumption == Capacity \in Nat \ {0} /\ Block \in 1..Capacity

\* What a cache can hold.
Contexts == UNION {[1..n -> Tokens] : n \in 1..Capacity}

\* Requests are told from answers and from garbage, a prompt is never empty.
ASSUME ProgramAssumption ==
    /\ Fed \subseteq Tokens /\ \A c \in Contexts : Argmax(c) \in Tokens
    /\ \A job \in Jobs : job.prompt \in Seq(Tokens) \ {<< >>} /\ job.count \in Nat \ {0}
    /\ Contexts \cup {BadOperand} \subseteq Operands
    /\ Stale \notin Contexts \cup {<< >>} /\ {NoRequest, Error} \cap Operands = {} /\ NoRequest # Error
    /\ MaxOps \in Nat

VARIABLES
    rt,     \* the runtime object: length, failed, raw keys, quantised keys, values
    work,   \* the prefill, generation or step in progress
    client  \* the program: its backend, its snapshot, the tokens it has fed since
            \* the cache was reset, the logits it was given, operations left

offVars == <<rt, work, client>>
vars == <<drvVars, rt, work, client>>

Positions == 1..Capacity
NoWork == [phase |-> "none", waiting |-> FALSE, tokens |-> << >>, todo |-> << >>, count |-> 0, data |-> Stale]
NoLogits == << >>

FreshRuntime ==
    [length |-> 0, failed |-> FALSE, k |-> [i \in Positions |-> Stale],
     kq |-> [i \in Positions |-> Stale], v |-> [i \in Positions |-> Stale]]

FreshClient == [backend |-> "cpu", saved |-> << >>, fed |-> << >>, logits |-> NoLogits, ops |-> MaxOps]

OffInit == DrvInit /\ rt = FreshRuntime /\ work = NoWork /\ client = FreshClient

------------------------------------------------------------------------------
(* One step: embedding and projection, quantisation of the new keys,        *)
(* attention and, after the last block, the logits.                         *)

Past == rt.length
End == Past + Len(work.tokens)
Rows == (Past + 1)..End

\* Attention reads every position before its own: it yields that position's
\* tokens if all of them belong to one sequence.
Attended(n) ==
    IF \A i \in 1..n : /\ rt.kq[i] # Stale /\ Len(rt.kq[i]) = i
                       /\ rt.kq[i] = rt.v[i] /\ IsPrefix(rt.kq[i], rt.kq[n])
    THEN IF n = 0 THEN << >> ELSE rt.kq[n]
    ELSE Stale

\* What the projected rows stand for, on top of the cache.
History(i) ==
    IF work.data = Stale \/ Attended(Past) = Stale THEN Stale
    ELSE Attended(Past) \o SubSeq(work.data, 1, i - Past)

Phase(p) == work.phase = p
LastBlock == work.todo = << >>

\* Route, operand and tiles of the request a phase makes.
Request ==
    CASE Phase("project") -> <<Gemm, work.tokens, 1>>
      [] Phase("keys")    -> <<Sfpu, rt.k[End], 1>>
      [] Phase("attend")  -> <<Gemm, Attended(End), 1>>
      [] Phase("logits")  -> <<Gemm, work.data, 2>>

Then(phase, data) ==
    /\ work' = [work EXCEPT !.phase = phase, !.data = data, !.waiting = FALSE]
    /\ UNCHANGED client

\* A block is done: the length grows at last.
EndStep(logits) ==
    /\ rt' = [rt EXCEPT !.length = End]
    /\ client' = [client EXCEPT !.fed = @ \o work.tokens, !.logits = logits]
    /\ work' = IF ~LastBlock THEN [work EXCEPT !.phase = "feed", !.data = Stale, !.waiting = FALSE]
               ELSE IF work.count > 1
               THEN [work EXCEPT !.phase = "greedy", !.data = Stale, !.waiting = FALSE, !.count = @ - 1]
               ELSE NoWork

\* Raw keys and values are stored before the keys are quantised.
Continue(result) ==
    \/ /\ Phase("project")
       /\ work' = [work EXCEPT !.phase = "store", !.data = result, !.waiting = FALSE]
       /\ UNCHANGED <<rt, client>>
    \/ /\ Phase("keys") /\ Then("attend", result)
       /\ rt' = [rt EXCEPT !.kq = [i \in Positions |->
                    IF i \in Rows THEN IF result = Stale THEN Stale ELSE SubSeq(result, 1, i) ELSE @[i]]]
    \/ Phase("attend") /\ LastBlock /\ Then("logits", result) /\ UNCHANGED rt
    \/ Phase("attend") /\ ~LastBlock /\ EndStep(NoLogits)
    \/ Phase("logits") /\ EndStep(result)

Store ==
    /\ Phase("store") /\ Then("keys", work.data)
    /\ LET stored(cells) == [i \in Positions |-> IF i \in Rows THEN History(i) ELSE cells[i]]
       IN rt' = [rt EXCEPT !.k = stored(@), !.v = stored(@)]
    /\ UNCHANGED drvVars

Computing == work.phase \in {"project", "keys", "attend", "logits"}

\* The native operators answer at once.
NativeCall ==
    /\ Computing /\ client.backend = "cpu"
    /\ Continue(Request[2])
    /\ UNCHANGED drvVars

PacketCall ==
    /\ Computing /\ client.backend = "fpga" /\ ~work.waiting
    /\ Ask(Request[1], Request[2], Request[3])
    /\ work' = [work EXCEPT !.waiting = TRUE]
    /\ UNCHANGED <<rt, client>>

PacketAnswer ==
    /\ work.waiting /\ Calling("none")
    /\ IF drv.answer = Error
       THEN rt' = [rt EXCEPT !.failed = TRUE] /\ work' = NoWork /\ UNCHANGED client
       ELSE Continue(drv.answer)
    /\ UNCHANGED drvVars

\* The next block of a prompt; a runtime that has failed refuses it.
Feed ==
    /\ Phase("feed")
    /\ IF rt.failed THEN work' = NoWork
       ELSE LET n == IF Len(work.todo) < Block THEN Len(work.todo) ELSE Block
            IN work' = [work EXCEPT !.phase = "project", !.tokens = SubSeq(work.todo, 1, n),
                                    !.todo = SubSeq(work.todo, n + 1, Len(work.todo))]
    /\ UNCHANGED <<drvVars, rt, client>>

\* The token with the largest logit is fed next.
Greedy ==
    /\ Phase("greedy")
    /\ work' = [work EXCEPT !.phase = "feed", !.todo = <<Argmax(client.logits)>>]
    /\ UNCHANGED <<drvVars, rt, client>>

RuntimeStep == NativeCall \/ PacketCall \/ PacketAnswer \/ Store \/ Feed \/ Greedy
------------------------------------------------------------------------------
(* The programs: any order of the operations, but after Ctrl-C they close.  *)

AtRest == work = NoWork /\ Calling("none") /\ drv.state # "opening"
MayAct == AtRest /\ ~drv.interrupted
Op == client.ops > 0 /\ MayAct
Spent == [client EXCEPT !.ops = @ - 1, !.logits = NoLogits]

\* generate, and prefill alone when one token is asked for.
Generate(job) ==
    /\ Op /\ Len(job.prompt) + job.count <= Capacity
    /\ rt' = [rt EXCEPT !.length = 0, !.failed = FALSE]
    /\ work' = [NoWork EXCEPT !.phase = "feed", !.todo = job.prompt, !.count = job.count]
    /\ client' = [Spent EXCEPT !.fed = << >>]
    /\ UNCHANGED drvVars

\* One more token on the cache as it is.
StepOnce(token) ==
    /\ Op /\ rt.length > 0 /\ rt.length + 1 <= Capacity
    /\ work' = [NoWork EXCEPT !.phase = "feed", !.todo = <<token>>, !.count = 1]
    /\ client' = Spent
    /\ UNCHANGED <<drvVars, rt>>

\* Mutation: the quantised keys are not restored with the others.
CopiedButKeys(cells, saved) ==
    [i \in Positions |-> IF i <= saved.length /\ cells # "kq" THEN saved.cells[cells][i] ELSE rt[cells][i]]

Copied(cells, saved) == [i \in Positions |-> IF i <= saved.length THEN saved.cells[cells][i] ELSE rt[cells][i]]

Snapshot ==
    /\ MayAct /\ rt.length > 0 /\ client.saved = << >>
    /\ client' = [client EXCEPT !.saved = [length |-> rt.length, fed |-> client.fed,
                     cells |-> [c \in {"k", "kq", "v"} |-> SubSeq(rt[c], 1, rt.length)]]]
    /\ UNCHANGED <<drvVars, rt, work>>

\* Restoring clears the runtime's failure, but not under failed hardware.
\* (Restoring what is there already changes nothing.)
Restore ==
    /\ MayAct /\ client.saved # << >> /\ (rt.failed \/ client.fed # client.saved.fed)
    /\ ~(client.backend = "fpga" /\ drv.failed)
    /\ rt' = [length |-> client.saved.length, failed |-> FALSE, k |-> Copied("k", client.saved),
              kq |-> Copied("kq", client.saved), v |-> Copied("v", client.saved)]
    /\ client' = [client EXCEPT !.fed = client.saved.fed, !.logits = NoLogits]
    /\ UNCHANGED <<drvVars, work>>

UseBackend(b) ==
    /\ MayAct /\ client.backend # b /\ (b = "fpga" => Open \/ drv.state = "closed")
    /\ client' = [client EXCEPT !.backend = b]
    /\ UNCHANGED <<drvVars, rt, work>>

OpenSession == Load /\ UNCHANGED offVars

Mend == Op /\ Recover /\ client' = Spent /\ UNCHANGED <<rt, work>>

\* A descriptor no engine accepts (zynq/m4_control_checks.py).
AskBad == Op /\ Ask(Sfpu, BadOperand, 1) /\ client' = Spent /\ UNCHANGED <<rt, work>>

Shut == AtRest /\ Close /\ UNCHANGED offVars

\* The runtime is not used again after Ctrl-C.
Interrupt ==
    /\ InterruptCall
    /\ work' = NoWork /\ rt' = FreshRuntime /\ client' = [FreshClient EXCEPT !.ops = 0]

ClientStep ==
    \/ \E job \in Jobs : Generate(job)
    \/ \E t \in Fed : StepOnce(t)
    \/ \E b \in {"cpu", "fpga"} : UseBackend(b)
    \/ AskBad \/ Snapshot \/ Restore \/ OpenSession \/ Mend \/ Shut \/ Interrupt

Next ==
    \/ (BoardStep \/ DriverStep) /\ UNCHANGED offVars
    \/ RuntimeStep \/ ClientStep

\* The interpreter runs on; the board need not do anything.
Spec == OffInit /\ [][Next]_vars /\ WF_vars(DriverStep /\ UNCHANGED offVars) /\ WF_vars(RuntimeStep)
------------------------------------------------------------------------------
(* Properties                                                               *)

\* The DMA reads one buffer and writes the other without asking: a packet is
\* only rewritten, a result only read and a buffer only given back when no
\* transfer may still use it (pack_gemm_into after require_ready, reset_dma
\* before freebuffer).
DrvBuffersQuiet ==
    [][/\ tx' # tx => chan["mm2s"] # "busy"
       /\ Calling("check") /\ (Calling("pack")' \/ drv'.answer \notin {NoRequest, Error})
              => chan["s2mm"] # "busy"
       /\ drv'.buffers = "freed" /\ drv.buffers \in {"held", "retained"}
              => ~resetting /\ \A c \in Channels : chan[c] # "busy"]_vars

\* A session that will serve the next request agrees with the board: nothing is
\* in flight, and its route and its completion counters are the engines'.
DrvInStep ==
    (Ready /\ Calling("none") /\ ~drv.interrupted) =>
        /\ ~resetting /\ \A c \in Channels : Idle(c)
        /\ ~AnyBusy /\ ~AnyError
        /\ drv.route = hwRoute
        /\ \A r \in Routes : drv.completed[r] = engine[r].count

\* A position within the length holds what the tokens fed so far lead to, on
\* whichever backend they were computed, after failures, restores and resets;
\* logits that were given out belong to exactly these tokens.
RtCacheSound ==
    /\ rt.length = Len(client.fed)
    /\ \A i \in 1..rt.length : \A c \in {"k", "kq", "v"} : rt[c][i] = SubSeq(client.fed, 1, i)
    /\ client.logits # NoLogits => client.logits = client.fed

SessionState ==
    CASE drv.state \in {"none", "opening", "gone"} -> "Absent"
      [] drv.state = "closed" -> "Closed"
      [] Ready /\ ~drv.interrupted -> "Ready"
      [] Ready /\ drv.interrupted -> "Interrupted"
      [] Open /\ drv.failed -> "Failed"

Session == INSTANCE M4Session WITH msState <- SessionState, msAsked <- call.value, msAnswer <- drv.answer

\* The session keeps what the scheduler relies on, and answers.
DrvImplementsSession == Session!MsSpec
=============================================================================
