--------------------------- MODULE StreamTransfer ---------------------------
(***************************************************************************)
(* rtl/m5/pa_m5_stream_transfer.sv: the packet mover.  It reads up to      *)
(* three source segments into the accelerator, then writes what the        *)
(* accelerator returns to one destination, in bursts that respect pages    *)
(* and the longest burst.  A step is one clock edge; the input record i    *)
(* carries the module's inputs on that edge.                               *)
(***************************************************************************)
EXTENDS M5Params, SequencesExt, FiniteSetsExt

CONSTANTS
    MaxPacket,   \* 65535 words
    Descriptors, \* [src, dst, deadline]: the commands a client may give
    Unruly       \* the memory client port may break its own protocol

\* A segment of memory, and the fields of a command.
Segments == [addr : Nat, words : Nat]
CommandRecords == [src : [1 .. 3 -> Segments], dst : Segments, deadline : Nat]

ASSUME StAssumption ==
    /\ MaxPacket \in Nat /\ Unruly \in BOOLEAN
    /\ Descriptors # {} /\ Descriptors \subseteq CommandRecords

VARIABLES
    \* the memory client port above the arbiter, and the abort input
    fbState, fbMoved, fbFault, stAbort,
    \* history: the addresses fed to the accelerator, and words stored for good
    stFed, stStored,
    stState,      \* state_q
    stDesc,       \* src_addr_q, src_words_q, dst_addr_q, dst_words_q
    stLeft,       \* deadline_q
    stAddr, stRemaining, stSource, stTotal, \* address_q, remaining_q, source_q, source_total_q
    stBurst, stBeat,      \* burst_q, beat_q
    stSent, stReceived,   \* sent_words_o, received_words_o
    stFault, stFaultAbort \* fault_o, fault_abort_o

stPointers == <<stAddr, stRemaining, stSource, stTotal>>
stCounters == <<stBurst, stBeat, stSent, stReceived>>
stRegs == <<stState, stDesc, stLeft, stPointers, stCounters, stFault, stFaultAbort>>

StStates == {"Idle", "Validate", "ReadPrepare", "ReadIssue", "ReadData", "ReadFinish",
             "WritePrepare", "WriteIssue", "WriteData", "WriteFinish", "Complete", "Stopped"}

NoSegment == [addr |-> 0, words |-> 0]
NoDescriptor == [src |-> <<NoSegment, NoSegment, NoSegment>>, dst |-> NoSegment]

StInit ==
    /\ stState = "Idle" /\ stDesc = NoDescriptor /\ stLeft = 0
    /\ stAddr = 0 /\ stRemaining = 0 /\ stSource = 0 /\ stTotal = 0
    /\ stBurst = 0 /\ stBeat = 0 /\ stSent = 0 /\ stReceived = 0
    /\ stFault = 0 /\ stFaultAbort = FALSE

-----------------------------------------------------------------------------
(* Arithmetic on descriptors. *)

RangeValid(seg) ==
    /\ seg.words \in 1 .. MaxPacket /\ ~Misaligned(seg.addr)
    /\ seg.addr >= ArenaBase
    /\ seg.addr + Bytes(seg.words) <= ArenaBase + MaxArenaBytes

SourceSum(src) == src[1].words + src[2].words + src[3].words

DescriptorValid ==
    /\ stLeft # 0 /\ RangeValid(stDesc.dst)
    /\ stDesc.src[1].words # 0
    /\ \A n \in 1 .. 3 : IF stDesc.src[n].words = 0 THEN stDesc.src[n].addr = 0
                                                    ELSE RangeValid(stDesc.src[n])
    /\ SourceSum(stDesc.src) <= MaxPacket
    /\ stDesc.src[2].words = 0 => stDesc.src[3].words = 0

\* The words that are left, the longest burst and the end of the page.
BurstWords(addr, words) ==
    LET pageWords == (PageBytes - (addr % PageBytes)) \div 4
    IN  Min({words, MaxWords, pageWords})

\* The segment after this one, or the destination.
MoreSources == stSource < 2 /\ stDesc.src[stSource + 2].words # 0
BurstIsLast == stRemaining = stBurst

-----------------------------------------------------------------------------
(* Combinational signals. *)

StCancelled(i) == i.abort \/ stFaultAbort
StBusy == stState \notin {"Idle", "Stopped"}
StStopped == stState = "Stopped"
StCmdReady(i) == stState = "Idle" /\ ~StCancelled(i)
StDoneValid(i) == stState = "Complete" /\ ~StCancelled(i)
StReqValid == stState \in {"ReadIssue", "WriteIssue"}
StWrites == stState \in {"WriteIssue", "WriteData", "WriteFinish"}
StMemoryOwned == stState \in {"ReadData", "ReadFinish", "WriteData", "WriteFinish"}

StTxValid(i)  == stState = "ReadData" /\ i.outValid /\ ~StCancelled(i)
LastBeat == stBeat + 1 = stBurst

(* Mutation: TLAST marks the end of every burst. *)
StTxLastOfBurst == LastBeat

StTxLast == stSent + 1 = stTotal
StOutReady(i) == stState = "ReadData" /\ (i.txReady \/ StCancelled(i))
StInValid(i)  == stState = "WriteData" /\ i.rxValid /\ ~StCancelled(i)
StReadBeat(i)  == StTxValid(i) /\ i.txReady
StWriteBeat(i) == StInValid(i) /\ i.inReady
StAccepts(i) == i.cmdValid /\ StCmdReady(i)

DeadlineDue == stLeft = 1

\* What the memory's completion says went wrong.
MemoryFault(i) ==
    IF ~(StMemoryOwned /\ i.doneValid) THEN 0
    ELSE IF i.doneFault # 0 THEN 32 + i.doneFault
    ELSE IF stState \in {"ReadData", "WriteData"} THEN 19 ELSE 0

\* What the beat on this edge says went wrong.
BeatFault(i) ==
    CASE StReadBeat(i) /\ i.outLast # LastBeat -> 19
      [] StWriteBeat(i) /\ (~i.rxKeep \/ i.rxLast # (stReceived + 1 = stDesc.dst.words)) -> 18
      [] OTHER -> 0

\* fatal_event, as the fault code it sets; 0 if there is none.
StEvent(i) ==
    IF StCancelled(i) THEN 0
    ELSE IF stState = "ReadFinish" /\ i.outValid THEN 19
    ELSE IF MemoryFault(i) # 0 THEN MemoryFault(i)
    ELSE IF BeatFault(i) # 0 THEN BeatFault(i)
    ELSE IF /\ stState \notin {"Idle", "Complete", "Stopped"} /\ DeadlineDue
            /\ stState = "Validate" => DescriptorValid
    THEN 20 ELSE 0

StDisturbed(i) == StCancelled(i) \/ StEvent(i) # 0

-----------------------------------------------------------------------------
(* state_d and fault_d: one action per arm of case (state_q). *)

StIdle(i) ==
    /\ stState = "Idle"
    /\ stState' = IF StAccepts(i) THEN "Validate" ELSE "Idle"
    /\ stFault' = IF StAccepts(i) THEN 0 ELSE stFault

StValidate ==
    /\ stState = "Validate"
    /\ \/ DescriptorValid /\ stState' = "ReadPrepare" /\ UNCHANGED stFault
       \/ ~DescriptorValid /\ stState' = "Complete" /\ stFault' = 16

StPrepare ==
    /\ \/ stState = "ReadPrepare" /\ stState' = "ReadIssue"
       \/ stState = "WritePrepare" /\ stState' = "WriteIssue"
    /\ UNCHANGED stFault

StGranted == stState' = IF stState = "ReadIssue" THEN "ReadData" ELSE "WriteData"

StIssue(i) ==
    /\ StReqValid
    /\ IF i.reqReady THEN StGranted ELSE UNCHANGED stState
    /\ UNCHANGED stFault

StData(i) ==
    /\ \/ /\ stState = "ReadData"
          /\ stState' = IF StReadBeat(i) /\ LastBeat THEN "ReadFinish" ELSE stState
       \/ /\ stState = "WriteData"
          /\ stState' = IF StWriteBeat(i) /\ LastBeat THEN "WriteFinish" ELSE stState
    /\ UNCHANGED stFault

\* Where a finished read burst leads.
ReadFollows == IF ~BurstIsLast \/ MoreSources THEN "ReadPrepare" ELSE "WritePrepare"

WriteFollows == IF BurstIsLast THEN "Complete" ELSE "WritePrepare"

StFinish(i) ==
    /\ \/ /\ stState = "ReadFinish"
          /\ stState' = IF i.doneValid THEN ReadFollows ELSE stState
       \/ /\ stState = "WriteFinish"
          /\ stState' = IF i.doneValid THEN WriteFollows ELSE stState
    /\ UNCHANGED stFault

StComplete(i) ==
    /\ stState = "Complete"
    /\ stState' = IF i.doneReady THEN "Idle" ELSE stState
    /\ UNCHANGED stFault

(* Mutation: a cancelled mover withdraws the request it offers. *)
UnwindsAtOnce(i) == stState' = "Stopped"

(* Mutation: a cancelled mover is free for the next command. *)
UnwindsToIdle(i) ==
    CASE StReqValid -> IF i.reqReady THEN StGranted ELSE UNCHANGED stState
      [] StMemoryOwned -> stState' = IF i.doneValid THEN "Idle" ELSE stState
      [] OTHER -> stState' = "Idle"

\* Where a cancelled or failed packet goes: what was offered must be retired.
Unwinds(i) ==
    CASE StReqValid -> IF i.reqReady THEN StGranted ELSE UNCHANGED stState
      [] StMemoryOwned -> stState' = IF i.doneValid THEN "Stopped" ELSE stState
      [] OTHER -> stState' = "Stopped"

\* fault_d of a cancelled or failed packet.
FaultFirst(i) ==
    IF StEvent(i) # 0 THEN StEvent(i)
    ELSE IF stState = "Validate" /\ ~DescriptorValid THEN 16
    ELSE IF stFault = 0 THEN 17 ELSE stFault

StUnwind(i) == Unwinds(i) /\ stFault' = FaultFirst(i)

StControl(i) ==
    /\ stFaultAbort' = (stFaultAbort \/ StEvent(i) # 0)
    /\ \/ StDisturbed(i) /\ StUnwind(i)
       \/ /\ ~StDisturbed(i)
          /\ StIdle(i) \/ StValidate \/ StPrepare \/ StIssue(i) \/ StData(i) \/ StFinish(i)
             \/ StComplete(i) \/ (StStopped /\ UNCHANGED <<stState, stFault>>)

-----------------------------------------------------------------------------
(* The other registers. *)

(* Mutation: once the packet has been fed no time is counted. *)
CountsDownFeeding(i) == StBusy /\ stState # "Complete" /\ ~StWrites /\ ~StCancelled(i) /\ stLeft # 0

CountsDown(i) == StBusy /\ stState # "Complete" /\ ~StCancelled(i) /\ stLeft # 0

StCapture(i) ==
    IF StAccepts(i)
    THEN stDesc' = [src |-> i.cmd.src, dst |-> i.cmd.dst] /\ stLeft' = i.cmd.deadline
    ELSE /\ UNCHANGED stDesc
         /\ stLeft' = IF CountsDown(i) THEN stLeft - 1 ELSE stLeft

StCount(i) ==
    /\ stSent' = IF StAccepts(i) THEN 0 ELSE IF StReadBeat(i) THEN stSent + 1 ELSE stSent
    /\ stReceived' = IF StAccepts(i) THEN 0 ELSE IF StWriteBeat(i) THEN stReceived + 1 ELSE stReceived
    /\ IF stState \in {"ReadPrepare", "WritePrepare"}
       THEN stBurst' = BurstWords(stAddr, stRemaining) /\ stBeat' = 0
       ELSE /\ UNCHANGED stBurst
            /\ stBeat' = IF StReadBeat(i) \/ StWriteBeat(i) THEN stBeat + 1 ELSE stBeat

\* address_q and remaining_q move on to a segment, or past a burst.
PointTo(seg) == stAddr' = seg.addr /\ stRemaining' = seg.words
PointPast == stAddr' = stAddr + Bytes(stBurst) /\ stRemaining' = stRemaining - stBurst

StPoint(i) ==
    LET finished(state) == stState = state /\ i.doneValid /\ ~StDisturbed(i)
        nextSource == finished("ReadFinish") /\ BurstIsLast /\ MoreSources
    IN /\ stTotal' = IF stState = "Validate" THEN SourceSum(stDesc.src) ELSE stTotal
       /\ stSource' = CASE StAccepts(i) -> 0
                        [] nextSource   -> stSource + 1
                        [] OTHER        -> stSource
       /\ CASE stState = "Validate" -> PointTo(stDesc.src[1])
            [] nextSource -> PointTo(stDesc.src[stSource + 2])
            [] finished("ReadFinish") /\ BurstIsLast /\ ~MoreSources -> PointTo(stDesc.dst)
            [] \/ finished("ReadFinish") /\ ~BurstIsLast
               \/ finished("WriteFinish") -> PointPast
            [] OTHER -> UNCHANGED <<stAddr, stRemaining>>

\* One clock edge of the mover.
StTick(i) == StControl(i) /\ StCapture(i) /\ StCount(i) /\ StPoint(i)

-----------------------------------------------------------------------------
(* The mover on its own.  Its memory client port behaves as the arbiter     *)
(* does: a grant, the words of the burst, one completion; under the abort   *)
(* no words and a completion 11.  With Unruly it may also break off early,  *)
(* mark the wrong word as last, or offer a word too many.                   *)

fbVars == <<fbState, fbMoved, fbFault, stAbort>>
stVars == <<stRegs, fbVars, stFed, stStored>>

\* The inputs on an edge: whether the accelerator and the memory port are
\* ready, and whether what they present is good.
InputsOf(accel, mem, good, cmd) ==
    LET abort  == stAbort \/ stFaultAbort
        serves == mem /\ fbState = "Owned" /\ ~abort
    IN [abort |-> abort, cmdValid |-> accel, cmd |-> cmd, doneReady |-> accel,
        txReady |-> accel, rxValid |-> accel, rxKeep |-> good \/ fbMoved = 0,
        rxLast |-> (good <=> stReceived + 1 = stDesc.dst.words),
        reqReady |-> mem /\ fbState = "Idle",
        outValid |-> serves /\ ~StWrites /\ (fbMoved < stBurst \/ Unruly),
        outLast |-> ((good \/ ~Unruly) <=> fbMoved + 1 = stBurst),
        inReady |-> serves /\ StWrites /\ fbMoved < stBurst,
        doneValid |-> fbState = "Respond", doneFault |-> fbFault]

FabricMoves(i) == (i.outValid /\ StOutReady(i)) \/ (i.inReady /\ StInValid(i))

FabricAnswer(abort) ==
    IF abort THEN {11}
    ELSE IF fbMoved = stBurst THEN {0, 12} ELSE {1, 12} \cup IF Unruly THEN {0} ELSE {}

Fabric(i) ==
    \/ /\ fbState = "Idle"
       /\ IF StReqValid /\ i.reqReady
          THEN fbMoved' = 0 /\ IF i.abort THEN fbState' = "Respond" /\ fbFault' = 11
                                          ELSE fbState' = "Owned" /\ UNCHANGED fbFault
          ELSE UNCHANGED <<fbState, fbMoved, fbFault>>
    \/ /\ fbState = "Owned"
       /\ IF FabricMoves(i) THEN fbMoved' = fbMoved + 1 /\ UNCHANGED <<fbState, fbFault>>
          ELSE /\ UNCHANGED fbMoved
               /\ \/ UNCHANGED <<fbState, fbFault>>
                  \/ ~i.outValid /\ ~i.inReady
                     /\ fbState' = "Respond" /\ fbFault' \in FabricAnswer(i.abort)
    \/ /\ fbState = "Respond"
       /\ fbState' = "Idle" /\ fbFault' = 0 /\ UNCHANGED fbMoved

StHistory(i) ==
    /\ stFed' = IF StAccepts(i) THEN <<>>
                ELSE IF StReadBeat(i)
                THEN Append(stFed, [addr |-> stAddr + Bytes(stBeat), last |-> StTxLast])
                ELSE stFed
    /\ stStored' = IF StAccepts(i) THEN 0
                   ELSE IF StWrites /\ fbState = "Respond" /\ fbFault = 0 THEN stStored + fbMoved
                   ELSE stStored

StClock(accel, mem, good, cmd) ==
    LET i == InputsOf(accel, mem, good, cmd) IN
    /\ StTick(i) /\ Fabric(i) /\ StHistory(i)
    /\ stAbort' \in {TRUE, stAbort}

\* The command on the bus is looked at in Idle only.
StCommands == IF stState = "Idle" THEN Descriptors ELSE {CHOOSE d \in Descriptors : TRUE}

StNext ==
    \E accel, mem, good \in BOOLEAN, cmd \in StCommands : StClock(accel, mem, good, cmd)

StStart ==
    /\ StInit
    /\ fbState = "Idle" /\ fbMoved = 0 /\ fbFault = 0 /\ stAbort = FALSE
    /\ stFed = <<>> /\ stStored = 0

StSpec == StStart /\ [][StNext]_stVars

(* Clock edges keep coming: a count that can go down does, a state that      *)
(* moves on by itself does, and the memory port does its part, as SysAnswers *)
(* shows of the fabric: it grants and, with all words moved or under the     *)
(* abort, completes.  Nothing is asked of the accelerator: it may hang.      *)
TimePasses == \E accel, mem, good \in BOOLEAN, cmd \in StCommands :
    StClock(accel, mem, good, cmd) /\ stLeft' < stLeft

MovesOn == \E good \in BOOLEAN, cmd \in StCommands :
    StClock(FALSE, TRUE, good, cmd) /\ stState' # stState

PortServes == \E accel, good \in BOOLEAN, cmd \in StCommands :
    /\ StClock(accel, TRUE, good, cmd) /\ fbState' # fbState
    /\ fbState = "Owned" => stAbort \/ stFaultAbort \/ fbMoved = stBurst

StFairness ==
    WF_stVars(TimePasses) /\ WF_stVars(MovesOn /\ fbState # "Owned") /\ WF_stVars(PortServes)

StFairSpec == StSpec /\ StFairness

-----------------------------------------------------------------------------
(* Properties. *)

\* The addresses of a segment's words, in order.
WordsOf(seg) == [n \in 1 .. seg.words |-> seg.addr + Bytes(n - 1)]
SourceWords == WordsOf(stDesc.src[1]) \o WordsOf(stDesc.src[2]) \o WordsOf(stDesc.src[3])
DestinationWords == WordsOf(stDesc.dst)
FedAddresses == [n \in 1 .. Len(stFed) |-> stFed[n].addr]

\* The words fed to the accelerator are those of the source segments in order.
StFeeds ==
    stState \notin {"Idle", "Validate"} =>
        /\ IsPrefix(FedAddresses, SourceWords)
        /\ \A n \in DOMAIN stFed : stFed[n].last <=> n = Len(SourceWords)
        /\ Len(stFed) = stSent

\* A request on offer is one the bridge can accept, for the next words of the command.
StOffers ==
    StReqValid =>
        LET offered == [n \in 1 .. stBurst |-> stAddr + Bytes(n - 1)]
        IN  /\ ~BadLength(stBurst) /\ ~CrossesPage(stAddr, stBurst)
            /\ IF StWrites
               THEN /\ FedAddresses = SourceWords
                    /\ offered = SubSeq(DestinationWords, stReceived + 1, stReceived + stBurst)
               ELSE offered = SubSeq(SourceWords, stSent + 1, stSent + stBurst)

StCompleteIsDone ==
    stState = "Complete" =>
        \/ stFault = 0 /\ FedAddresses = SourceWords /\ stStored = stDesc.dst.words
        \/ stFault = 16 /\ stFed = <<>> /\ stStored = 0

(* docs/M5_TRANSFER_ABI.md: "Segment/burst boundaries are invisible to the  *)
(* accelerator": it is fed the words of the source segments in order, none  *)
(* skipped or repeated at a page or segment boundary, and TLAST only marks  *)
(* the very last one.  No burst on the way there crosses a page, and the    *)
(* destination is written in order and once the whole packet has been fed;  *)
(* and completion occurs "only after the final memory completion, never     *)
(* merely after the accelerator's final output beat".                       *)
StGathers == StFeeds /\ StOffers /\ StCompleteIsDone

(* docs/M5_TRANSFER_ABI.md: "An already-present memory command remains      *)
(* valid until the arbiter accepts it, even after cancellation", and "an    *)
(* accepted memory command stays owned until completion": the mover is a    *)
(* MemoryClient.                                                            *)
ClientState ==
    CASE stState \in {"Idle", "Stopped"} -> "Free"
      [] StReqValid -> "Offer"
      [] StMemoryOwned -> "Owned"
      [] OTHER -> "Between"

ClientReq == IF StReqValid \/ StMemoryOwned THEN [words |-> stBurst, write |-> StWrites] ELSE NoSegment

Client == INSTANCE MemoryClient WITH
    ClientRequests <- [words : 1 .. MaxWords, write : BOOLEAN],
    NoClientRequest <- NoSegment,
    mcState <- ClientState, mcReq <- ClientReq

StImplementsClient == Client!McSpec

(* docs/M5_TRANSFER_ABI.md: the mover "enters sticky STOPPED, drops any      *)
(* abandoned normal completion and admits no new command", captures the     *)
(* fields of a command only when it takes it, and keeps a completion until  *)
(* it is acknowledged: it is the PacketMover AcceleratorSystem relies on.   *)
MoverState == IF stState \in {"Idle", "Complete", "Stopped"} THEN stState ELSE "Working"

Mover == INSTANCE PacketMover WITH
    PmCommands <- {[src |-> d.src, dst |-> d.dst] : d \in Descriptors},
    NoPmCommand <- NoDescriptor,
    pmState <- MoverState, pmCmd <- stDesc, pmFaultAbort <- stFaultAbort

StImplementsMover == Mover!PmSpec

(* Every command ends, completed or stopped, even if the accelerator hangs: *)
(* the deadline sees to that as long as the memory answers.                 *)
StSettles == (stState = "Validate") ~> (stState \in {"Complete", "Stopped"})
=============================================================================
