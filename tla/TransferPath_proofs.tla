------------------------- MODULE TransferPath_proofs -------------------------
(***************************************************************************)
(* Theorems about the path a packet takes from hart 1: the packet mover    *)
(* on its own (StreamTransfer), the two contracts it implements, and the   *)
(* transfer control with the shells of the engines over the mover's        *)
(* contract (AcceleratorSystem).                                           *)
(***************************************************************************)
EXTENDS StreamTransfer, AcceleratorSystem, SequenceTheorems, TLAPS

-----------------------------------------------------------------------------
(* The mover: the inductive invariant. *)

Reading == {"ReadPrepare", "ReadIssue", "ReadData", "ReadFinish"}
Writing == {"WritePrepare", "WriteIssue", "WriteData", "WriteFinish"}
Preparing == {"ReadPrepare", "WritePrepare"}
InData == {"ReadData", "WriteData"}
Finishing == {"ReadFinish", "WriteFinish"}

Live == ~stAbort /\ ~stFaultAbort

StRegTypes ==
    /\ stState \in StStates /\ stDesc \in [src : [1 .. 3 -> Segments], dst : Segments]
    /\ stAbort \in BOOLEAN /\ stFaultAbort \in BOOLEAN
    /\ fbState \in {"Idle", "Owned", "Respond"} /\ fbMoved \in Nat /\ fbFault \in Nat

\* The memory port serves the mover exactly while the mover owns a request,
\* and has moved the words of a write that the mover has counted.
PortInStep ==
    /\ StMemoryOwned <=> fbState # "Idle"
    /\ StMemoryOwned /\ StWrites => fbMoved = stBeat

\* Only a command that was found valid gets beyond Validate.
Checked == stState \in Reading \cup Writing =>
    /\ RangeValid(stDesc.dst) /\ stDesc.src[1].words # 0
    /\ \A n \in 1 .. 3 : stDesc.src[n].words # 0 => RangeValid(stDesc.src[n])
    /\ stDesc.src[2].words = 0 => stDesc.src[3].words = 0

\* The words of the sources before segment n.
Before(n) == IF n = 1 THEN 0 ELSE IF n = 2 THEN stDesc.src[1].words
                                          ELSE stDesc.src[1].words + stDesc.src[2].words

\* The pointers are at what remains of a segment.
Within(seg) ==
    /\ stRemaining \in 1 .. seg.words
    /\ stAddr = seg.addr + 4 * (seg.words - stRemaining)

\* The beats of this burst.
Beats == IF stState \in Preparing THEN 0 ELSE stBeat

\* The counters of words agree with the pointers.
Pointed ==
    /\ stState \in Reading =>
          /\ stSource \in 0 .. 2 /\ Within(stDesc.src[stSource + 1]) /\ stTotal = SourceSum(stDesc.src)
          /\ stSent = Before(stSource + 1) + (stDesc.src[stSource + 1].words - stRemaining) + Beats
          /\ stReceived = 0 /\ stStored = 0
    /\ stState \in Writing =>
          /\ Within(stDesc.dst) /\ stSent = SourceSum(stDesc.src)
          /\ stReceived = stDesc.dst.words - stRemaining + Beats
          /\ stStored = stDesc.dst.words - stRemaining

\* A burst stays within what remains, the longest burst and the page.
Bursts ==
    stState \in (Reading \cup Writing) \ Preparing =>
        /\ stBurst \in 1 .. stRemaining /\ stBurst <= MaxWords /\ ~CrossesPage(stAddr, stBurst)
        /\ stBeat \in 0 .. stBurst
        /\ StReqValid => stBeat = 0
        /\ stState \in Finishing => stBeat = stBurst
        /\ stState \in InData /\ Live => stBeat < stBurst

\* What was fed is a beginning of the source words.
Fed ==
    /\ stFed \in Seq([addr : Nat, last : BOOLEAN]) /\ Len(stFed) = stSent /\ stSent <= SourceSum(stDesc.src)
    /\ \A n \in 1 .. Len(stFed) : /\ stFed[n].addr = SourceWords[n]
                                  /\ stFed[n].last <=> n = SourceSum(stDesc.src)

\* Between packets.
Ends ==
    /\ stState = "Validate" => stSource = 0 /\ stSent = 0 /\ stReceived = 0 /\ stStored = 0
    /\ stState = "Complete" => \/ stFault = 0 /\ stSent = SourceSum(stDesc.src) /\ stStored = stDesc.dst.words
                               \/ stFault = 16 /\ stSent = 0 /\ stStored = 0
    /\ stState \in Reading \cup Writing \cup {"Validate"} /\ Live => stFault = 0

StInv == StRegTypes /\ PortInStep /\ Checked /\ Pointed /\ Bursts /\ Fed /\ Ends

-----------------------------------------------------------------------------
(* One clock edge of the mover and its memory port. *)

\* Nothing is wrong and nothing goes wrong on this edge, or something does.
Calm == Live /\ UNCHANGED stFaultAbort
Upset == IF Live THEN stFaultAbort' = TRUE ELSE UNCHANGED stFaultAbort

Feeding == <<stDesc, stSent, stFed>>
Drained == <<stReceived, stStored>>

AcceptEdge(cmd) ==
    /\ Calm /\ stState = "Idle" /\ stState' = "Validate" /\ fbState' = fbState
    /\ stDesc' = [src |-> cmd.src, dst |-> cmd.dst] /\ stSource' = 0 /\ stFault' = 0
    /\ stSent' = 0 /\ stFed' = <<>> /\ stReceived' = 0 /\ stStored' = 0

\* Idle, with a completion waiting, or stopped.
RestEdge ==
    /\ \/ Calm /\ stState \in {"Idle", "Complete"} /\ stState' \in {"Idle", stState}
       \/ UNCHANGED stFaultAbort /\ stState = "Stopped" /\ stState' = "Stopped"
    /\ stState' = "Complete" => UNCHANGED stFault
    /\ UNCHANGED <<Feeding, Drained, fbState>>

HaltEdge ==
    /\ Upset /\ stState # "Stopped" /\ stState' = "Stopped" /\ fbState' = "Idle"
    /\ stState \in {"Idle", "Complete"} => ~Live
    /\ StMemoryOwned => fbState = "Respond"
    /\ ~StReqValid
    /\ UNCHANGED Feeding

ValidEdge ==
    /\ Calm /\ stState = "Validate" /\ stState' = "ReadPrepare" /\ DescriptorValid
    /\ stAddr' = stDesc.src[1].addr /\ stRemaining' = stDesc.src[1].words /\ stTotal' = SourceSum(stDesc.src)
    /\ UNCHANGED <<Feeding, Drained, fbState, stSource, stFault>>

RefuseEdge ==
    /\ Calm /\ stState = "Validate" /\ stState' = "Complete" /\ stFault' = 16
    /\ UNCHANGED <<Feeding, Drained, fbState>>

PrepareEdge ==
    /\ Calm /\ stState' = IF stState = "ReadPrepare" THEN "ReadIssue" ELSE "WriteIssue"
    /\ stState \in Preparing
    /\ stBurst' = BurstWords(stAddr, stRemaining) /\ stBeat' = 0
    /\ UNCHANGED <<Feeding, Drained, fbState, stPointers, stFault>>

IssueEdge ==
    /\ StReqValid
    /\ (Calm /\ UNCHANGED stFault) \/ Upset
    /\ \/ stState' = stState /\ fbState' = "Idle"
       \/ /\ stState' = IF stState = "ReadIssue" THEN "ReadData" ELSE "WriteData"
          /\ fbState' \in {"Owned", "Respond"} /\ fbMoved' = 0
    /\ UNCHANGED <<Feeding, Drained, stPointers, stBurst, stBeat>>

\* A word is fed to the accelerator, is taken from it, or nothing moves.
FeedBeat ==
    /\ stState = "ReadData" /\ Live
    /\ stSent' = stSent + 1 /\ stBeat' = stBeat + 1
    /\ stFed' = Append(stFed, [addr |-> stAddr + Bytes(stBeat), last |-> StTxLast])
    /\ UNCHANGED <<stDesc, Drained>>
DrainBeat ==
    /\ stState = "WriteData" /\ Live
    /\ stReceived' = stReceived + 1 /\ stBeat' = stBeat + 1 /\ fbMoved' = fbMoved + 1
    /\ UNCHANGED <<Feeding, stStored>>
NoBeat == UNCHANGED <<Feeding, Drained, stBeat>> /\ (StWrites => UNCHANGED fbMoved)

DataEdge ==
    /\ stState \in InData /\ fbState = "Owned" /\ fbState' \in {"Owned", "Respond"}
    /\ UNCHANGED <<stPointers, stBurst>>
    /\ \/ FeedBeat \/ DrainBeat
       \/ NoBeat /\ stState' = stState
    /\ \/ Upset /\ stState' = stState
       \/ /\ Calm /\ UNCHANGED stFault
          /\ stState' = IF stBeat' = stBeat + 1 /\ LastBeat
                        THEN (IF stState = "ReadData" THEN "ReadFinish" ELSE "WriteFinish") ELSE stState

FinishEdge ==
    /\ stState \in Finishing /\ stState' = stState /\ fbState = "Owned" /\ fbState' \in {"Owned", "Respond"}
    /\ (Calm /\ UNCHANGED stFault) \/ Upset
    /\ UNCHANGED <<stPointers, stBurst>> /\ NoBeat

ReadDoneEdge ==
    /\ Calm /\ stState = "ReadFinish" /\ stState' = ReadFollows /\ fbState' = "Idle"
    /\ UNCHANGED <<Feeding, Drained, stTotal, stFault>>
    /\ stSource' = IF BurstIsLast /\ MoreSources THEN stSource + 1 ELSE stSource
    /\ IF ~BurstIsLast THEN PointPast
       ELSE IF MoreSources THEN PointTo(stDesc.src[stSource + 2]) ELSE PointTo(stDesc.dst)

WriteDoneEdge ==
    /\ Calm /\ stState = "WriteFinish" /\ stState' = WriteFollows /\ fbState' = "Idle"
    /\ UNCHANGED <<Feeding, stReceived, stTotal, stSource, stFault>>
    /\ stStored' = stStored + fbMoved /\ PointPast

MoverEdges(cmd) ==
    \/ AcceptEdge(cmd) \/ RestEdge \/ HaltEdge \/ ValidEdge \/ RefuseEdge \/ PrepareEdge
    \/ IssueEdge \/ DataEdge \/ FinishEdge \/ ReadDoneEdge \/ WriteDoneEdge

LEMMA Inputs ==
    ASSUME NEW accel, NEW mem, NEW good, NEW cmd, NEW i, i = InputsOf(accel, mem, good, cmd)
    PROVE  /\ i.abort <=> ~Live
           /\ StCancelled(i) <=> ~Live
           /\ i.reqReady => fbState = "Idle"
           /\ i.outValid => fbState = "Owned" /\ Live /\ ~StWrites
           /\ i.inReady => fbState = "Owned" /\ Live /\ StWrites
           /\ i.doneValid <=> fbState = "Respond"
           /\ i.doneFault = fbFault /\ i.cmd = cmd
  BY DEF InputsOf, Live, StCancelled

\* What the event on an edge tells.
LEMMA Events ==
    ASSUME NEW i, fbFault \in Nat, StCancelled(i) <=> ~Live, i.doneFault = fbFault
    PROVE  /\ ~Live => StEvent(i) = 0 /\ StDisturbed(i)
           /\ StDisturbed(i) /\ stState \in {"Idle", "Complete", "Stopped"} => ~Live
           /\ ~StDisturbed(i) => /\ Live
                                 /\ StMemoryOwned /\ i.doneValid => fbFault = 0 /\ stState \notin InData
  <1>1. StMemoryOwned => stState \notin {"Idle", "Complete", "Stopped"}
    BY DEF StMemoryOwned
  <1>2. MemoryFault(i) # 0 <=> StMemoryOwned /\ i.doneValid /\ (fbFault # 0 \/ stState \in InData)
    BY DEF MemoryFault, InData
  <1>3. StReadBeat(i) \/ StWriteBeat(i) => stState \in InData
    BY DEF StReadBeat, StTxValid, StWriteBeat, StInValid, InData
  <1>4. BeatFault(i) # 0 => stState \in InData
    BY <1>3 DEF BeatFault
  <1>5. StEvent(i) # 0 => Live /\ stState \notin {"Idle", "Complete", "Stopped"}
    BY <1>1, <1>2, <1>4 DEF StEvent, InData
  <1>6. Live /\ MemoryFault(i) # 0 => StEvent(i) # 0
    BY DEF StEvent
  <1> QED BY <1>2, <1>5, <1>6 DEF StDisturbed

LEMMA MoverEdgeKinds ==
    ASSUME StRegTypes, PortInStep, stState \in InData => stBeat \in Nat, NEW accel \in BOOLEAN, NEW mem \in BOOLEAN, NEW good \in BOOLEAN, NEW cmd,
           StClock(accel, mem, good, cmd)
    PROVE  MoverEdges(cmd) /\ stAbort' \in BOOLEAN /\ (stAbort => stAbort') /\ fbMoved' \in Nat /\ fbFault' \in Nat
  <1>1. PICK i : /\ i = InputsOf(accel, mem, good, cmd)
                 /\ StTick(i) /\ Fabric(i) /\ StHistory(i)
    BY DEF StClock
  <1>2. /\ i.abort <=> ~Live
        /\ StCancelled(i) <=> ~Live
        /\ i.reqReady => fbState = "Idle"
        /\ i.outValid => fbState = "Owned" /\ Live /\ ~StWrites
        /\ i.inReady => fbState = "Owned" /\ Live /\ StWrites
        /\ i.doneValid <=> fbState = "Respond"
        /\ i.doneFault = fbFault /\ i.cmd = cmd
    BY <1>1, Inputs
  <1>3. StControl(i) /\ StCapture(i) /\ StCount(i) /\ StPoint(i)
    BY <1>1 DEF StTick
  <1>4. /\ stState \in StStates /\ fbFault \in Nat /\ fbMoved \in Nat /\ fbState \in {"Idle", "Owned", "Respond"}
        /\ StMemoryOwned <=> fbState # "Idle"
        /\ stFaultAbort \in BOOLEAN
        /\ stState \in InData => stBeat \in Nat
    BY DEF StRegTypes, PortInStep
  <1>5. /\ ~Live => StEvent(i) = 0 /\ StDisturbed(i)
        /\ StDisturbed(i) /\ stState \in {"Idle", "Complete", "Stopped"} => ~Live
        /\ ~StDisturbed(i) => /\ Live
                              /\ StMemoryOwned /\ i.doneValid => fbFault = 0 /\ stState \notin InData
    BY <1>2, <1>4, Events
  <1>6. IF StDisturbed(i) THEN Upset /\ Unwinds(i) ELSE Calm
    BY <1>2, <1>3, <1>4, <1>5 DEF StControl, StUnwind, StDisturbed, Upset, Calm
  <1>7. stAbort' \in BOOLEAN /\ (stAbort => stAbort')
    <2>1. stAbort' \in {TRUE, stAbort}
      BY DEF StClock
    <2>2. stAbort \in BOOLEAN
      BY DEF StRegTypes
    <2>3. CASE stAbort' = TRUE
      BY <2>3
    <2>4. CASE stAbort' = stAbort
      BY <2>2, <2>4
    <2> QED BY <2>1, <2>3, <2>4
  <1>8. fbFault' \in Nat /\ fbMoved' \in Nat
    BY <1>1, <1>4 DEF Fabric, FabricAnswer
  <1>9. /\ StReadBeat(i) => stState = "ReadData" /\ i.outValid /\ Live /\ StOutReady(i)
        /\ StWriteBeat(i) => stState = "WriteData" /\ i.inReady /\ Live /\ StInValid(i)
        /\ StAccepts(i) => stState = "Idle" /\ Live
    BY <1>2 DEF StReadBeat, StWriteBeat, StTxValid, StInValid, StAccepts, StCmdReady, StOutReady
  <1>10. ~StDisturbed(i) =>
            \/ StIdle(i) \/ StValidate \/ StPrepare \/ StIssue(i) \/ StData(i) \/ StFinish(i)
            \/ StComplete(i) \/ (StStopped /\ UNCHANGED <<stState, stFault>>)
    BY <1>3 DEF StControl
  <1>11. \* the registers that only some states write
         /\ ~StAccepts(i) => UNCHANGED stDesc
         /\ ~StAccepts(i) /\ ~StReadBeat(i) => UNCHANGED <<stSent, stFed>>
         /\ ~StAccepts(i) /\ ~StWriteBeat(i) => UNCHANGED stReceived
         /\ ~StAccepts(i) /\ ~(StWrites /\ fbState = "Respond" /\ fbFault = 0) => UNCHANGED stStored
         /\ stState \notin Preparing => UNCHANGED stBurst
         /\ stState \notin Preparing /\ ~StReadBeat(i) /\ ~StWriteBeat(i) => UNCHANGED stBeat
         /\ stState # "Validate" => UNCHANGED stTotal
    BY <1>1, <1>3 DEF StCapture, StCount, StHistory, StPoint, Preparing
  <1>12. /\ stState \in StStates \ {"Idle", "Validate", "ReadFinish", "WriteFinish"} => UNCHANGED stPointers
         /\ StDisturbed(i) /\ stState \in Finishing => UNCHANGED stPointers
         /\ ~i.doneValid /\ stState \in Finishing => UNCHANGED stPointers
    BY <1>3, <1>9 DEF StPoint, stPointers, Finishing
  <1>13. fbState = "Idle" /\ ~StReqValid => fbState' = "Idle"
    BY <1>1 DEF Fabric
  <1>14. fbState = "Respond" => fbState' = "Idle" /\ UNCHANGED fbMoved
    BY <1>1, <1>4 DEF Fabric
  <1>15. fbState = "Owned" =>
            /\ fbState' \in {"Owned", "Respond"}
            /\ IF FabricMoves(i) THEN fbMoved' = fbMoved + 1 ELSE UNCHANGED fbMoved
    BY <1>1, <1>4 DEF Fabric
  <1>16. fbState = "Idle" /\ StReqValid =>
            IF i.reqReady THEN fbState' \in {"Owned", "Respond"} /\ fbMoved' = 0
            ELSE UNCHANGED <<fbState, fbMoved>>
    BY <1>1, <1>4 DEF Fabric
  <1>a. CASE stState = "Idle"
    <2>1. ~StReadBeat(i) /\ ~StWriteBeat(i) /\ ~StReqValid /\ ~StMemoryOwned /\ ~StWrites
          /\ fbState = "Idle" /\ fbState' = "Idle"
      BY <1>a, <1>4, <1>9, <1>13 DEF StReqValid, StMemoryOwned, StWrites
    <2>2. CASE StAccepts(i)
      <3>1. Calm /\ StIdle(i)
        BY <1>a, <1>5, <1>6, <1>9, <1>10, <2>2
           DEF StValidate, StPrepare, StIssue, StReqValid, StData, StFinish, StComplete, StStopped
      <3>2. /\ stState' = "Validate" /\ stFault' = 0 /\ stDesc' = [src |-> cmd.src, dst |-> cmd.dst]
            /\ stSent' = 0 /\ stReceived' = 0 /\ stFed' = <<>> /\ stStored' = 0
        BY <1>1, <1>2, <1>3, <2>2, <3>1 DEF StIdle, StCapture, StCount, StHistory
      <3>3. stSource' = 0
        BY <1>3, <1>a, <2>2 DEF StPoint
      <3> QED BY <1>7, <1>8, <1>a, <2>1, <3>1, <3>2, <3>3 DEF MoverEdges, AcceptEdge
    <2>3. CASE ~StAccepts(i)
      <3>1. UNCHANGED <<Feeding, Drained, fbState>>
        BY <1>11, <2>1, <2>3 DEF Feeding, Drained
      <3>2. CASE StDisturbed(i)
        <4>1. Upset /\ ~Live /\ stState' = "Stopped"
          BY <1>5, <1>6, <1>a, <2>1, <3>2 DEF Unwinds
        <4> QED BY <1>7, <1>8, <1>a, <2>1, <3>1, <4>1 DEF MoverEdges, HaltEdge
      <3>3. CASE ~StDisturbed(i)
        <4>1. Calm /\ StIdle(i)
          BY <1>a, <1>6, <1>10, <3>3
             DEF StValidate, StPrepare, StIssue, StReqValid, StData, StFinish, StComplete, StStopped
        <4>2. stState' = "Idle"
          BY <2>3, <4>1 DEF StIdle
        <4> QED BY <1>7, <1>8, <1>a, <3>1, <4>1, <4>2 DEF MoverEdges, RestEdge
      <3> QED BY <3>2, <3>3
    <2> QED BY <2>2, <2>3
  <1>b. CASE stState \in {"Complete", "Stopped"}
    <2>1. ~StReadBeat(i) /\ ~StWriteBeat(i) /\ ~StReqValid /\ ~StMemoryOwned /\ ~StWrites /\ ~StAccepts(i)
          /\ fbState = "Idle" /\ fbState' = "Idle"
      BY <1>b, <1>4, <1>9, <1>13 DEF StReqValid, StMemoryOwned, StWrites
    <2>2. UNCHANGED <<Feeding, Drained, fbState>>
      BY <1>11, <2>1 DEF Feeding, Drained
    <2>3. CASE StDisturbed(i)
      <3>1. Upset /\ ~Live /\ stState' = "Stopped"
        BY <1>5, <1>6, <1>b, <2>1, <2>3 DEF Unwinds
      <3> QED BY <1>7, <1>8, <1>b, <2>1, <2>2, <3>1 DEF MoverEdges, HaltEdge, RestEdge, Upset
    <2>4. CASE ~StDisturbed(i)
      <3>1. Calm /\ (StComplete(i) \/ (StStopped /\ UNCHANGED <<stState, stFault>>))
        BY <1>b, <1>6, <1>10, <2>4
           DEF StIdle, StValidate, StPrepare, StIssue, StReqValid, StData, StFinish
      <3>2. RestEdge
        BY <1>b, <2>2, <3>1 DEF RestEdge, StComplete, StStopped, Calm
      <3> QED BY <1>7, <1>8, <3>2 DEF MoverEdges
    <2> QED BY <2>3, <2>4
  <1>c. CASE stState = "Validate"
    <2>1. ~StReadBeat(i) /\ ~StWriteBeat(i) /\ ~StReqValid /\ ~StMemoryOwned /\ ~StWrites /\ ~StAccepts(i)
          /\ fbState = "Idle" /\ fbState' = "Idle"
      BY <1>c, <1>4, <1>9, <1>13 DEF StReqValid, StMemoryOwned, StWrites
    <2>2. UNCHANGED <<Feeding, Drained, fbState>>
      BY <1>11, <2>1 DEF Feeding, Drained
    <2>3. CASE StDisturbed(i)
      <3>1. Upset /\ stState' = "Stopped"
        BY <1>6, <1>c, <2>1, <2>3 DEF Unwinds
      <3> QED BY <1>7, <1>8, <1>c, <2>1, <2>2, <3>1 DEF MoverEdges, HaltEdge
    <2>4. CASE ~StDisturbed(i)
      <3>1. Calm /\ StValidate
        BY <1>c, <1>6, <1>10, <2>4
           DEF StIdle, StPrepare, StIssue, StReqValid, StData, StFinish, StComplete, StStopped
      <3>2. /\ stTotal' = SourceSum(stDesc.src) /\ PointTo(stDesc.src[1]) /\ UNCHANGED stSource
        BY <1>3, <1>c, <2>1 DEF StPoint
      <3> QED BY <1>7, <1>8, <1>c, <2>2, <3>1, <3>2 DEF MoverEdges, ValidEdge, RefuseEdge, StValidate, PointTo
    <2> QED BY <2>3, <2>4
  <1>d. CASE stState \in Preparing
    <2>1. ~StReadBeat(i) /\ ~StWriteBeat(i) /\ ~StReqValid /\ ~StMemoryOwned /\ ~StAccepts(i)
          /\ fbState = "Idle" /\ fbState' = "Idle"
      BY <1>d, <1>4, <1>9, <1>13 DEF StReqValid, StMemoryOwned, Preparing
    <2>2. UNCHANGED <<Feeding, Drained, fbState>>
      BY <1>11, <2>1 DEF Feeding, Drained
    <2>3. CASE StDisturbed(i)
      <3>1. Upset /\ stState' = "Stopped"
        BY <1>6, <1>d, <2>1, <2>3 DEF Unwinds
      <3> QED BY <1>7, <1>8, <1>d, <2>1, <2>2, <3>1 DEF MoverEdges, HaltEdge, Preparing
    <2>4. CASE ~StDisturbed(i)
      <3>1. Calm /\ StPrepare
        BY <1>d, <1>6, <1>10, <2>4
           DEF StIdle, StValidate, StIssue, StReqValid, StData, StFinish, StComplete, StStopped, Preparing
      <3>2. stBurst' = BurstWords(stAddr, stRemaining) /\ stBeat' = 0
        BY <1>3, <1>d DEF StCount, Preparing
      <3>3. UNCHANGED stPointers
        BY <1>12, <1>d DEF Preparing, StStates
      <3> QED BY <1>7, <1>8, <1>d, <2>2, <3>1, <3>2, <3>3 DEF MoverEdges, PrepareEdge, StPrepare, Preparing
    <2> QED BY <2>3, <2>4
  <1>e. CASE StReqValid
    <2>1. ~StReadBeat(i) /\ ~StWriteBeat(i) /\ ~StMemoryOwned /\ ~StAccepts(i) /\ fbState = "Idle"
          /\ stState \notin Preparing
      BY <1>e, <1>4, <1>9 DEF StReqValid, StMemoryOwned, Preparing
    <2>2. UNCHANGED <<Feeding, Drained, stBurst, stBeat>>
      BY <1>11, <2>1 DEF Feeding, Drained
    <2>3. UNCHANGED stPointers
      BY <1>12, <1>e DEF StReqValid, StStates
    <2>4. IF i.reqReady THEN StGranted ELSE UNCHANGED stState
      <3>1. CASE StDisturbed(i)
        BY <1>6, <1>e, <2>1, <3>1 DEF Unwinds
      <3>2. CASE ~StDisturbed(i)
        BY <1>e, <1>10, <3>2
           DEF StIdle, StValidate, StPrepare, StIssue, StReqValid, StData, StFinish, StComplete, StStopped
      <3> QED BY <3>1, <3>2
    <2>5. (Calm /\ UNCHANGED stFault) \/ Upset
      <3>1. CASE ~StDisturbed(i)
        BY <1>e, <1>6, <1>10, <3>1
           DEF StIdle, StValidate, StPrepare, StIssue, StReqValid, StData, StFinish, StComplete, StStopped
      <3> QED BY <1>6, <3>1
    <2>6. IF i.reqReady THEN fbState' \in {"Owned", "Respond"} /\ fbMoved' = 0 ELSE fbState' = "Idle"
      BY <1>16, <1>e, <2>1
    <2> QED BY <1>7, <1>8, <1>e, <2>2, <2>3, <2>4, <2>5, <2>6 DEF MoverEdges, IssueEdge, StGranted
  <1>f. CASE stState \in InData
    <2>1. StMemoryOwned /\ ~StReqValid /\ ~StAccepts(i) /\ fbState \in {"Owned", "Respond"}
          /\ stState \notin Preparing /\ (stState = "WriteData" <=> StWrites)
      BY <1>f, <1>4, <1>9 DEF StReqValid, StMemoryOwned, InData, Preparing, StWrites
    <2>2. UNCHANGED <<stDesc, stBurst, stPointers>>
      BY <1>11, <1>12, <1>f, <2>1 DEF InData, StStates
    <2>3. CASE fbState = "Respond"
      <3>1. Upset /\ stState' = "Stopped" /\ fbState' = "Idle"
        BY <1>2, <1>5, <1>6, <1>14, <1>f, <2>1, <2>3 DEF Unwinds
      <3>2. UNCHANGED Feeding
        BY <1>2, <1>9, <1>11, <2>1, <2>3 DEF Feeding
      <3> QED BY <1>7, <1>8, <1>f, <2>1, <2>3, <3>1, <3>2 DEF MoverEdges, HaltEdge, InData
    <2>4. CASE fbState = "Owned"
      <3>1. UNCHANGED stStored /\ fbState' \in {"Owned", "Respond"}
        BY <1>11, <1>15, <2>1, <2>4
      <3>2. FabricMoves(i) /\ StWrites <=> StWriteBeat(i)
        BY <1>2, <1>9 DEF FabricMoves, StWriteBeat
      <3>3. \/ StReadBeat(i) /\ FeedBeat
            \/ StWriteBeat(i) /\ DrainBeat
            \/ ~StReadBeat(i) /\ ~StWriteBeat(i) /\ UNCHANGED <<Feeding, Drained, stBeat>>
               /\ (StWrites => UNCHANGED fbMoved)
        <4>1. CASE StReadBeat(i)
          <5>1. stState = "ReadData" /\ Live /\ ~StWriteBeat(i)
            BY <1>9, <4>1
          <5>2. stSent' = stSent + 1 /\ stBeat' = stBeat + 1
            BY <1>3, <2>1, <4>1 DEF StCount, Preparing
          <5>3. stFed' = Append(stFed, [addr |-> stAddr + Bytes(stBeat), last |-> StTxLast])
            BY <1>1, <2>1, <4>1 DEF StHistory
          <5>4. UNCHANGED <<stDesc, Drained>>
            BY <1>11, <2>1, <3>1, <5>1 DEF Drained
          <5> QED BY <4>1, <5>1, <5>2, <5>3, <5>4 DEF FeedBeat
        <4>2. CASE StWriteBeat(i)
          <5>1. stState = "WriteData" /\ Live /\ ~StReadBeat(i)
            BY <1>9, <4>2
          <5>2. stReceived' = stReceived + 1 /\ stBeat' = stBeat + 1
            BY <1>3, <2>1, <4>2 DEF StCount, Preparing
          <5>3. fbMoved' = fbMoved + 1
            BY <1>15, <2>4, <3>2, <4>2
          <5>4. UNCHANGED <<Feeding, stStored>>
            BY <1>11, <2>1, <3>1, <5>1 DEF Feeding
          <5> QED BY <4>2, <5>1, <5>2, <5>3, <5>4 DEF DrainBeat
        <4>3. CASE ~StReadBeat(i) /\ ~StWriteBeat(i)
          <5>1. UNCHANGED <<Feeding, Drained, stBeat>>
            BY <1>11, <2>1, <3>1, <4>3 DEF Feeding, Drained
          <5>2. StWrites => UNCHANGED fbMoved
            BY <1>15, <2>4, <3>2, <4>3
          <5> QED BY <4>3, <5>1, <5>2
        <4> QED BY <4>1, <4>2, <4>3
      <3>4. CASE StDisturbed(i)
        <4>1. Upset /\ stState' = stState
          BY <1>2, <1>6, <2>1, <2>4, <3>4 DEF Unwinds
        <4>2. DataEdge
          BY <1>f, <2>1, <2>2, <2>4, <3>1, <3>3, <4>1 DEF DataEdge, NoBeat
        <4> QED BY <1>7, <1>8, <4>2 DEF MoverEdges
      <3>5. CASE ~StDisturbed(i)
        <4>1. Calm /\ StData(i)
          BY <1>f, <1>6, <1>10, <3>5
             DEF StIdle, StValidate, StPrepare, StIssue, StReqValid, StFinish, StComplete, StStopped, InData
        <4>2. UNCHANGED stFault
              /\ stState' = IF (StReadBeat(i) \/ StWriteBeat(i)) /\ LastBeat
                            THEN (IF stState = "ReadData" THEN "ReadFinish" ELSE "WriteFinish") ELSE stState
          BY <1>9, <4>1 DEF StData
        <4>3. stBeat' = stBeat + 1 <=> StReadBeat(i) \/ StWriteBeat(i)
          BY <1>4, <1>f, <3>3 DEF FeedBeat, DrainBeat
        <4>4. DataEdge
          BY <1>f, <2>1, <2>2, <2>4, <3>1, <3>3, <4>1, <4>2, <4>3 DEF DataEdge, NoBeat
        <4> QED BY <1>7, <1>8, <4>4 DEF MoverEdges
      <3> QED BY <3>4, <3>5
    <2> QED BY <2>1, <2>3, <2>4
  <1>g. CASE stState \in Finishing
    <2>1. StMemoryOwned /\ ~StReqValid /\ ~StAccepts(i) /\ fbState \in {"Owned", "Respond"}
          /\ stState \notin Preparing /\ ~StReadBeat(i) /\ ~StWriteBeat(i) /\ stState # "Validate"
          /\ (stState = "WriteFinish" <=> StWrites)
      BY <1>g, <1>4, <1>9 DEF StReqValid, StMemoryOwned, Finishing, Preparing, StWrites
    <2>2. UNCHANGED <<Feeding, stReceived, stBurst, stBeat, stTotal>>
      BY <1>11, <2>1 DEF Feeding
    <2>3. CASE StDisturbed(i) /\ fbState = "Respond"
      <3>1. Upset /\ stState' = "Stopped" /\ fbState' = "Idle"
        BY <1>2, <1>6, <1>14, <2>1, <2>3 DEF Unwinds
      <3> QED BY <1>7, <1>8, <1>g, <2>1, <2>2, <2>3, <3>1 DEF MoverEdges, HaltEdge, Finishing
    <2>4. CASE fbState = "Owned"
      <3>1. UNCHANGED <<stPointers, stStored>>
        BY <1>2, <1>11, <1>12, <1>g, <2>1, <2>4
      <3>2. stState' = stState /\ ((Calm /\ UNCHANGED stFault) \/ Upset)
        <4>1. CASE StDisturbed(i)
          BY <1>2, <1>6, <2>1, <2>4, <4>1 DEF Unwinds
        <4>2. CASE ~StDisturbed(i)
          <5>1. Calm /\ StFinish(i)
            BY <1>g, <1>6, <1>10, <4>2
               DEF StIdle, StValidate, StPrepare, StIssue, StReqValid, StData, StComplete, StStopped, Finishing
          <5> QED BY <1>2, <2>4, <5>1 DEF StFinish
        <4> QED BY <4>1, <4>2
      <3>3. fbState' \in {"Owned", "Respond"} /\ UNCHANGED fbMoved
        <4>1. ~FabricMoves(i)
          BY <1>2, <1>g, <2>1 DEF FabricMoves, StOutReady, StInValid, Finishing
        <4> QED BY <1>15, <2>4, <4>1
      <3>4. FinishEdge
        BY <1>g, <2>2, <2>4, <3>1, <3>2, <3>3 DEF FinishEdge, NoBeat, Drained
      <3> QED BY <1>7, <1>8, <3>4 DEF MoverEdges
    <2>5. CASE ~StDisturbed(i) /\ fbState = "Respond"
      <3>1. Calm /\ StFinish(i) /\ i.doneValid /\ fbFault = 0 /\ fbState' = "Idle"
        BY <1>2, <1>5, <1>g, <1>6, <1>10, <1>14, <2>1, <2>5
           DEF StIdle, StValidate, StPrepare, StIssue, StReqValid, StData, StComplete, StStopped, Finishing
      <3>2. CASE stState = "ReadFinish"
        <4>1. stState' = ReadFollows /\ UNCHANGED stFault /\ UNCHANGED stStored
          BY <1>11, <2>1, <3>1, <3>2 DEF StFinish
        <4>2. stSource' = IF BurstIsLast /\ MoreSources THEN stSource + 1 ELSE stSource
          BY <1>3, <2>1, <2>5, <3>1, <3>2 DEF StPoint
        <4>3. IF ~BurstIsLast THEN PointPast
              ELSE IF MoreSources THEN PointTo(stDesc.src[stSource + 2]) ELSE PointTo(stDesc.dst)
          BY <1>3, <2>1, <2>5, <3>1, <3>2 DEF StPoint
        <4> QED BY <1>7, <1>8, <2>2, <3>1, <3>2, <4>1, <4>2, <4>3 DEF MoverEdges, ReadDoneEdge, Drained
      <3>3. CASE stState = "WriteFinish"
        <4>1. stState' = WriteFollows /\ UNCHANGED stFault
          BY <3>1, <3>3 DEF StFinish
        <4>2. UNCHANGED stSource /\ PointPast
          BY <1>3, <2>1, <2>5, <3>1, <3>3 DEF StPoint
        <4>3. stStored' = stStored + fbMoved
          BY <1>1, <2>1, <2>5, <3>1, <3>3 DEF StHistory
        <4> QED BY <1>7, <1>8, <2>2, <3>1, <3>3, <4>1, <4>2, <4>3 DEF MoverEdges, WriteDoneEdge
      <3> QED BY <1>g, <3>2, <3>3 DEF Finishing
    <2> QED BY <2>1, <2>3, <2>4, <2>5
  <1> QED BY <1>4, <1>a, <1>b, <1>c, <1>d, <1>e, <1>f, <1>g DEF StStates, Preparing, StReqValid, InData, Finishing

-----------------------------------------------------------------------------
(* Bursts and the words of the segments. *)

\* A burst takes at least one word and ends with the words that are left, the
\* longest burst and the page.
LEMMA BurstFits ==
    ASSUME NEW addr \in Nat, addr % 4 = 0, NEW words \in Nat \ {0}
    PROVE  /\ BurstWords(addr, words) \in 1 .. words /\ BurstWords(addr, words) <= MaxWords
           /\ ~CrossesPage(addr, BurstWords(addr, words))
  <1> DEFINE p == PageBytes
             r == addr % p
             pw == (p - r) \div 4
             b == BurstWords(addr, words)
  <1>1. p \in Nat \ {0} /\ p % 4 = 0 /\ MaxWords \in Nat \ {0}
    BY M5Assumption
  <1>2. r \in 0 .. p - 1 /\ r % 4 = 0
    <2>1. PICK k \in Nat : p = 4 * k
      <3>1. p \div 4 \in Nat /\ p = 4 * (p \div 4)
        BY <1>1, SMT
      <3> QED BY <3>1
    <2>2. PICK q \in Nat : addr = p * q + (addr % p) /\ addr % p \in 0 .. p - 1
      <3>1. addr \div p \in Nat /\ addr = p * (addr \div p) + (addr % p) /\ addr % p \in 0 .. p - 1
        <4> HIDE DEF p
        <4> QED BY <1>1, SMT
      <3> QED BY <3>1
    <2>3. PICK m \in Nat : p * q = 4 * m
      <3>1. k * q \in Nat /\ (4 * k) * q = 4 * (k * q)
        BY <2>1, <2>2, SMT
      <3> QED BY <2>1, <3>1
    <2>4. r \in 0 .. p - 1 /\ addr = 4 * m + r
      BY <2>2, <2>3
    <2> HIDE DEF r, p
    <2> QED BY <2>3, <2>4, <1>1
  <1>3. pw \in Nat \ {0} /\ 4 * pw <= p - r
    <2> HIDE DEF r, p
    <2> QED BY <1>1, <1>2
  <1>4. b = Min({words, MaxWords, pw})
    BY DEF BurstWords
  <1>5. b \in {words, MaxWords, pw} /\ b <= words /\ b <= MaxWords /\ b <= pw
    <2>1. \E m \in {words, MaxWords, pw} : \A y \in {words, MaxWords, pw} : m =< y
      <3> HIDE DEF pw
      <3> QED BY <1>1, <1>3
    <2> HIDE DEF pw
    <2> QED BY <1>4, <2>1 DEF Min
  <1>6. r + 4 * b <= p
    <2> HIDE DEF r, p, b, pw
    <2> QED BY <1>1, <1>2, <1>3, <1>5
  <1>7. ~CrossesPage(addr, b)
    <2>1. p \in Nat /\ r \in Nat /\ b \in Nat
      <3> HIDE DEF r, p, b, pw
      <3> QED BY <1>1, <1>2, <1>3, <1>5
    <2>2. CrossesPage(addr, b) <=> r + 4 * b > p
      BY DEF CrossesPage, Bytes
    <2> HIDE DEF r, p, b
    <2> QED BY <1>6, <2>1, <2>2
  <1> HIDE DEF b, pw
  <1>8. b \in 1 .. words /\ b <= MaxWords
    BY <1>1, <1>3, <1>5
  <1> QED BY <1>7, <1>8 DEF b

\* The words of one segment.
LEMMA SegmentWords ==
    ASSUME NEW seg \in Segments
    PROVE  /\ WordsOf(seg) \in Seq(Nat) /\ Len(WordsOf(seg)) = seg.words
           /\ \A j \in 1 .. seg.words : WordsOf(seg)[j] = seg.addr + 4 * (j - 1)
  BY DEF WordsOf, Segments, Bytes

\* The words of the sources, segment after segment.
LEMMA SourceAt ==
    ASSUME stDesc.src \in [1 .. 3 -> Segments]
    PROVE  /\ SourceWords \in Seq(Nat) /\ Len(SourceWords) = SourceSum(stDesc.src)
           /\ \A n \in 1 .. 3 : \A j \in 1 .. stDesc.src[n].words :
                  SourceWords[Before(n) + j] = stDesc.src[n].addr + 4 * (j - 1)
  <1> DEFINE s == stDesc.src
             a == WordsOf(s[1])
             b == WordsOf(s[2])
             c == WordsOf(s[3])
  <1>1. s[1] \in Segments /\ s[2] \in Segments /\ s[3] \in Segments
    OBVIOUS
  <1>2. s[1].words \in Nat /\ s[2].words \in Nat /\ s[3].words \in Nat
    BY <1>1 DEF Segments
  <1>3. a \in Seq(Nat) /\ Len(a) = s[1].words /\ \A j \in 1 .. s[1].words : a[j] = s[1].addr + 4 * (j - 1)
    BY <1>1, SegmentWords
  <1>4. b \in Seq(Nat) /\ Len(b) = s[2].words /\ \A j \in 1 .. s[2].words : b[j] = s[2].addr + 4 * (j - 1)
    BY <1>1, SegmentWords
  <1>5. c \in Seq(Nat) /\ Len(c) = s[3].words /\ \A j \in 1 .. s[3].words : c[j] = s[3].addr + 4 * (j - 1)
    BY <1>1, SegmentWords
  <1>6. SourceWords = (a \o b) \o c
    BY DEF SourceWords
  <1>7. Before(1) = 0 /\ Before(2) = s[1].words /\ Before(3) = s[1].words + s[2].words
    BY DEF Before
  <1>8. SourceSum(s) = s[1].words + s[2].words + s[3].words
    BY DEF SourceSum
  <1> HIDE DEF a, b, c
  <1> DEFINE ab == a \o b
  <1>9. /\ ab \in Seq(Nat) /\ Len(ab) = Len(a) + Len(b)
        /\ \A j \in 1 .. Len(a) + Len(b) : ab[j] = IF j <= Len(a) THEN a[j] ELSE b[j - Len(a)]
    BY <1>3, <1>4, ConcatProperties
  <1> HIDE DEF ab
  <1> DEFINE abc == ab \o c
  <1>10. /\ abc \in Seq(Nat) /\ Len(abc) = Len(ab) + Len(c)
         /\ \A j \in 1 .. Len(ab) + Len(c) : abc[j] = IF j <= Len(ab) THEN ab[j] ELSE c[j - Len(ab)]
    <2>1. ab \in Seq(Nat) /\ c \in Seq(Nat)
      BY <1>5, <1>9
    <2> QED BY <2>1, ConcatProperties
  <1>11. SourceWords = abc
    BY <1>6 DEF ab
  <1> HIDE DEF abc
  <1> DEFINE na == s[1].words
             nb == s[2].words
             nc == s[3].words
  <1>12. na \in Nat /\ nb \in Nat /\ nc \in Nat /\ Len(a) = na /\ Len(b) = nb /\ Len(c) = nc /\ Len(ab) = na + nb
         /\ Before(1) = 0 /\ Before(2) = na /\ Before(3) = na + nb
    BY <1>2, <1>3, <1>4, <1>5, <1>7, <1>9
  <1> HIDE DEF na, nb, nc
  <1>13. ASSUME NEW j \in 1 .. na
         PROVE  SourceWords[Before(1) + j] = a[j]
    <2>1. j \in 1 .. na + nb /\ j <= na /\ 0 + j = j /\ j \in 1 .. (na + nb) + nc /\ j <= na + nb
      BY <1>12
    <2>2. abc[j] = ab[j] /\ ab[j] = a[j]
      BY <1>9, <1>10, <1>12, <2>1
    <2> QED BY <1>11, <1>12, <2>1, <2>2
  <1>14. ASSUME NEW j \in 1 .. nb
         PROVE  SourceWords[Before(2) + j] = b[j]
    <2>1. PICK m : m = na + j
      OBVIOUS
    <2>2. m \in 1 .. na + nb /\ ~(m <= na) /\ m - na = j /\ m \in 1 .. (na + nb) + nc /\ m <= na + nb
      BY <1>12, <2>1
    <2>3. abc[m] = ab[m] /\ ab[m] = b[j]
      BY <1>9, <1>10, <1>12, <2>2
    <2> QED BY <1>11, <1>12, <2>1, <2>3
  <1>15. ASSUME NEW j \in 1 .. nc
         PROVE  SourceWords[Before(3) + j] = c[j]
    <2>1. PICK m : m = na + nb + j
      OBVIOUS
    <2>2. m \in 1 .. (na + nb) + nc /\ ~(m <= na + nb) /\ m - (na + nb) = j
      BY <1>12, <2>1
    <2>3. abc[m] = c[j]
      BY <1>10, <1>12, <2>2
    <2> QED BY <1>11, <1>12, <2>1, <2>3
  <1>16. SourceWords \in Seq(Nat) /\ Len(SourceWords) = SourceSum(s)
    BY <1>8, <1>10, <1>11, <1>12 DEF na, nb, nc
  <1>17. \A j \in 1 .. s[1].words : SourceWords[Before(1) + j] = s[1].addr + 4 * (j - 1)
    BY <1>3, <1>13 DEF na
  <1>18. \A j \in 1 .. s[2].words : SourceWords[Before(2) + j] = s[2].addr + 4 * (j - 1)
    BY <1>4, <1>14 DEF nb
  <1>19. \A j \in 1 .. s[3].words : SourceWords[Before(3) + j] = s[3].addr + 4 * (j - 1)
    BY <1>5, <1>15 DEF nc
  <1>20. \A n \in 1 .. 3 : n = 1 \/ n = 2 \/ n = 3
    OBVIOUS
  <1> HIDE DEF s
  <1> QED BY <1>16, <1>17, <1>18, <1>19, <1>20 DEF s

-----------------------------------------------------------------------------
(* The invariant holds. *)

\* Once something is wrong it stays wrong.
LEMMA StaysUpset ==
    ASSUME stAbort \in BOOLEAN, stFaultAbort \in BOOLEAN, stAbort' \in BOOLEAN, stAbort => stAbort'
    PROVE  /\ Upset => ~Live' /\ stFaultAbort' \in BOOLEAN
           /\ Calm => Live /\ stFaultAbort' \in BOOLEAN
  BY DEF Upset, Calm, Live

LEMMA SegmentsOfCommand ==
    ASSUME StRegTypes
    PROVE  /\ stDesc.src \in [1 .. 3 -> Segments] /\ stDesc.dst \in Segments
           /\ \A n \in 1 .. 3 : stDesc.src[n] \in Segments /\ stDesc.src[n].words \in Nat /\ stDesc.src[n].addr \in Nat
           /\ stDesc.dst.words \in Nat /\ stDesc.dst.addr \in Nat
  BY DEF StRegTypes, Segments

LEMMA StInvKeeps ==
    ASSUME StInv, NEW cmd \in CommandRecords, MoverEdges(cmd),
           stAbort' \in BOOLEAN, stAbort => stAbort', fbMoved' \in Nat, fbFault' \in Nat
    PROVE  StInv'
  <1>1. StRegTypes /\ PortInStep /\ Checked /\ Pointed /\ Bursts /\ Fed /\ Ends
    BY DEF StInv
  <1>2. /\ Upset => ~Live' /\ stFaultAbort' \in BOOLEAN
        /\ Calm => Live /\ stFaultAbort' \in BOOLEAN
    BY <1>1, StaysUpset DEF StRegTypes
  <1>3. /\ stDesc.src \in [1 .. 3 -> Segments] /\ stDesc.dst \in Segments
        /\ \A n \in 1 .. 3 : stDesc.src[n] \in Segments /\ stDesc.src[n].words \in Nat /\ stDesc.src[n].addr \in Nat
        /\ stDesc.dst.words \in Nat /\ stDesc.dst.addr \in Nat
    BY <1>1, SegmentsOfCommand
  <1>4. UNCHANGED Feeding => Fed'
    BY <1>1 DEF Feeding, Fed, SourceWords
  <1>a. CASE AcceptEdge(cmd)
    <2>1. [src |-> cmd.src, dst |-> cmd.dst] \in [src : [1 .. 3 -> Segments], dst : Segments]
      BY DEF CommandRecords
    <2>2. StRegTypes'
      BY <1>1, <1>2, <1>a, <2>1 DEF StRegTypes, AcceptEdge, StStates
    <2>3. PortInStep'
      BY <1>1, <1>a DEF PortInStep, AcceptEdge, StMemoryOwned
    <2>4. Checked' /\ Pointed' /\ Bursts'
      BY <1>a DEF Checked, Pointed, Bursts, AcceptEdge, Reading, Writing, Preparing
    <2>5. Fed'
      <3>1. stDesc'.src \in [1 .. 3 -> Segments]
        BY <1>a, <2>1 DEF AcceptEdge
      <3>2. SourceSum(stDesc'.src) \in Nat
        BY <3>1 DEF SourceSum, Segments
      <3> QED BY <1>a, <3>2 DEF Fed, AcceptEdge
    <2>6. Ends'
      BY <1>a DEF Ends, AcceptEdge
    <2> QED BY <2>2, <2>3, <2>4, <2>5, <2>6 DEF StInv
  <1>b. CASE RestEdge
    <2>1. stState' \in {"Idle", "Complete", "Stopped"} /\ UNCHANGED <<Feeding, Drained, fbState>>
          /\ stState \in {"Idle", "Complete", "Stopped"} /\ stFaultAbort' \in BOOLEAN
          /\ (stState' = "Complete" => stState = "Complete" /\ UNCHANGED stFault)
      <3>1. stFaultAbort \in BOOLEAN
        BY <1>1 DEF StRegTypes
      <3>2. stFaultAbort' \in BOOLEAN
        BY <1>2, <1>b, <3>1 DEF RestEdge
      <3> QED BY <1>b, <3>2 DEF RestEdge
    <2>2. StRegTypes'
      BY <1>1, <2>1 DEF StRegTypes, StStates, Feeding
    <2>3. PortInStep'
      BY <1>1, <2>1 DEF PortInStep, StMemoryOwned
    <2>4. Checked' /\ Pointed' /\ Bursts'
      BY <2>1 DEF Checked, Pointed, Bursts, Reading, Writing, Preparing
    <2>5. Ends'
      BY <1>1, <2>1 DEF Ends, Feeding, Drained, Reading, Writing
    <2> QED BY <1>4, <2>1, <2>2, <2>3, <2>4, <2>5 DEF StInv
  <1>c. CASE HaltEdge
    <2>1. stState' = "Stopped" /\ UNCHANGED Feeding /\ fbState' = "Idle" /\ stFaultAbort' \in BOOLEAN
      BY <1>2, <1>c DEF HaltEdge
    <2>2. StRegTypes'
      BY <1>1, <2>1 DEF StRegTypes, StStates, Feeding
    <2>3. PortInStep'
      BY <2>1 DEF PortInStep, StMemoryOwned
    <2>4. Checked' /\ Pointed' /\ Bursts' /\ Ends'
      BY <2>1 DEF Checked, Pointed, Bursts, Ends, Reading, Writing, Preparing
    <2> QED BY <1>4, <2>1, <2>2, <2>3, <2>4 DEF StInv
  <1>d. CASE ValidEdge
    <2>1. stState = "Validate" /\ stState' = "ReadPrepare" /\ UNCHANGED <<Feeding, Drained, fbState, stSource, stFault>>
          /\ stFaultAbort' \in BOOLEAN /\ Live /\ DescriptorValid
          /\ stAddr' = stDesc.src[1].addr /\ stRemaining' = stDesc.src[1].words /\ stTotal' = SourceSum(stDesc.src)
      BY <1>2, <1>d DEF ValidEdge
    <2>2. StRegTypes'
      BY <1>1, <2>1 DEF StRegTypes, StStates, Feeding
    <2>3. PortInStep'
      BY <1>1, <2>1 DEF PortInStep, StMemoryOwned
    <2>4. Checked'
      BY <2>1 DEF Checked, DescriptorValid, Feeding
    <2>5. Pointed'
      <3>1. stDesc' = stDesc /\ stSource' = 0 /\ stSent' = 0 /\ stReceived' = 0 /\ stStored' = 0
        BY <1>1, <2>1 DEF Ends, Feeding, Drained
      <3>2. stDesc.src[1].words \in Nat \ {0} /\ stDesc.src[1].addr \in Nat
        BY <1>3, <2>1 DEF DescriptorValid
      <3> QED BY <2>1, <3>1, <3>2 DEF Pointed, Within, Before, Beats, Reading, Writing, Preparing
    <2>6. Bursts'
      BY <2>1 DEF Bursts, Preparing, Reading, Writing
    <2>7. Ends'
      BY <1>1, <2>1 DEF Ends
    <2> QED BY <1>4, <2>1, <2>2, <2>3, <2>4, <2>5, <2>6, <2>7 DEF StInv
  <1>e. CASE RefuseEdge
    <2>1. stState = "Validate" /\ stState' = "Complete" /\ UNCHANGED <<Feeding, Drained, fbState>>
          /\ stFaultAbort' \in BOOLEAN /\ stFault' = 16
      BY <1>2, <1>e DEF RefuseEdge
    <2>2. StRegTypes'
      BY <1>1, <2>1 DEF StRegTypes, StStates, Feeding
    <2>3. PortInStep'
      BY <1>1, <2>1 DEF PortInStep, StMemoryOwned
    <2>4. Checked' /\ Pointed' /\ Bursts'
      BY <2>1 DEF Checked, Pointed, Bursts, Reading, Writing, Preparing
    <2>5. Ends'
      BY <1>1, <2>1 DEF Ends, Feeding, Drained, Reading, Writing
    <2> QED BY <1>4, <2>1, <2>2, <2>3, <2>4, <2>5 DEF StInv
  <1>f. CASE PrepareEdge
    <2>1. /\ stState \in Preparing /\ UNCHANGED <<Feeding, Drained, fbState, stPointers, stFault>>
          /\ stState' = IF stState = "ReadPrepare" THEN "ReadIssue" ELSE "WriteIssue"
          /\ stFaultAbort' \in BOOLEAN /\ Live
          /\ stBurst' = BurstWords(stAddr, stRemaining) /\ stBeat' = 0
      BY <1>2, <1>f DEF PrepareEdge
    <2>2. StRegTypes'
      BY <1>1, <2>1 DEF StRegTypes, StStates, Feeding, Preparing
    <2>3. PortInStep'
      BY <1>1, <2>1 DEF PortInStep, StMemoryOwned, Preparing
    <2>4. Checked'
      BY <1>1, <2>1 DEF Checked, Feeding, Reading, Writing, Preparing
    <2>5. Pointed'
      BY <1>1, <2>1 DEF Pointed, Within, Before, Beats, Feeding, Drained, stPointers, Reading, Writing, Preparing
    <2>6. Bursts'
      <3>1. stAddr \in Nat /\ stAddr % 4 = 0 /\ stRemaining \in Nat \ {0}
        <4>1. PICK seg \in Segments : Within(seg) /\ RangeValid(seg)
          <5>1. CASE stState = "ReadPrepare"
            <6>1. Within(stDesc.src[stSource + 1]) /\ stSource + 1 \in 1 .. 3
              BY <1>1, <5>1 DEF Pointed, Reading
            <6>2. stDesc.src[stSource + 1].words # 0
              BY <1>3, <6>1 DEF Within
            <6> QED BY <1>1, <1>3, <5>1, <6>1, <6>2 DEF Checked, Reading
          <5>2. CASE stState = "WritePrepare"
            BY <1>1, <1>3, <5>2 DEF Checked, Pointed, Writing
          <5> QED BY <2>1, <5>1, <5>2 DEF Preparing
        <4> QED BY <4>1 DEF Within, RangeValid, Misaligned, Segments
      <3>2. /\ stBurst' \in 1 .. stRemaining /\ stBurst' <= MaxWords /\ ~CrossesPage(stAddr, stBurst')
        BY <2>1, <3>1, BurstFits
      <3>3. UNCHANGED <<stAddr, stRemaining>> /\ stState' \in {"ReadIssue", "WriteIssue"}
        BY <2>1 DEF stPointers
      <3> QED BY <2>1, <3>1, <3>2, <3>3 DEF Bursts, Finishing, InData
    <2>7. Ends'
      BY <1>1, <2>1 DEF Ends, Reading, Writing, Preparing
    <2> QED BY <1>4, <2>1, <2>2, <2>3, <2>4, <2>5, <2>6, <2>7 DEF StInv
  <1>g. CASE IssueEdge
    <2>1. /\ StReqValid /\ UNCHANGED <<Feeding, Drained, stPointers, stBurst, stBeat>>
          /\ (Live /\ UNCHANGED stFault) \/ ~Live'
          /\ stFaultAbort' \in BOOLEAN
          /\ \/ stState' = stState /\ fbState' = "Idle"
             \/ /\ stState' = IF stState = "ReadIssue" THEN "ReadData" ELSE "WriteData"
                /\ fbState' \in {"Owned", "Respond"} /\ fbMoved' = 0
      BY <1>2, <1>g DEF IssueEdge
    <2>2. StRegTypes'
      BY <1>1, <2>1 DEF StRegTypes, StStates, Feeding
    <2>3. stBeat = 0 /\ stBurst \in 1 .. stRemaining /\ stRemaining \in Nat
      <3>1. stState \in (Reading \cup Writing) \ Preparing
        BY <2>1 DEF StReqValid, Reading, Writing, Preparing
      <3>2. stRemaining \in Nat
        BY <1>1, <1>3, <3>1 DEF Pointed, Within
      <3> QED BY <1>1, <2>1, <3>1, <3>2 DEF Bursts
    <2>4. PortInStep'
      BY <1>1, <2>1, <2>3 DEF PortInStep, StMemoryOwned, StReqValid
    <2>5. Checked'
      BY <1>1, <2>1 DEF Checked, Feeding, Reading, Writing, StReqValid
    <2>6. Pointed'
      BY <1>1, <2>1
         DEF Pointed, Within, Before, Beats, Feeding, Drained, stPointers, Reading, Writing, Preparing, StReqValid
    <2>7. Bursts'
      BY <1>1, <2>1, <2>3 DEF Bursts, stPointers, Reading, Writing, Preparing, StReqValid, InData, Finishing
    <2>8. Ends'
      BY <1>1, <2>1 DEF Ends, Reading, Writing, StReqValid
    <2> QED BY <1>4, <2>1, <2>2, <2>4, <2>5, <2>6, <2>7, <2>8 DEF StInv
  <1>h. CASE DataEdge
    <2>1. /\ stState \in InData /\ fbState = "Owned" /\ fbState' \in {"Owned", "Respond"}
          /\ UNCHANGED <<stPointers, stBurst>> /\ (FeedBeat \/ DrainBeat \/ (NoBeat /\ stState' = stState))
          /\ stFaultAbort' \in BOOLEAN
      BY <1>2, <1>h DEF DataEdge
    <2>2. /\ \/ ~Live' /\ stState' = stState
             \/ /\ Live /\ UNCHANGED stFault
                /\ stState' = IF stBeat' = stBeat + 1 /\ LastBeat
                              THEN (IF stState = "ReadData" THEN "ReadFinish" ELSE "WriteFinish") ELSE stState
      BY <1>2, <1>h DEF DataEdge
    <2>3. UNCHANGED <<stDesc, stAddr, stRemaining, stSource, stTotal, stBurst, stStored>>
      BY <2>1 DEF FeedBeat, DrainBeat, NoBeat, Feeding, Drained, stPointers
    <2>4. /\ stState \in (Reading \cup Writing) \ Preparing /\ stState \notin Finishing
          /\ stState' \in (Reading \cup Writing) \ Preparing
          /\ (stState \in Reading <=> stState = "ReadData") /\ (stState \in Writing <=> stState = "WriteData")
          /\ (stState' \in Reading <=> stState = "ReadData") /\ (stState' \in Writing <=> stState = "WriteData")
          /\ stState' \in InData \cup Finishing /\ (StWrites <=> stState = "WriteData")
      BY <2>1, <2>2 DEF InData, Reading, Writing, Preparing, Finishing, StWrites
    <2>5. PICK seg \in Segments :
              /\ seg = IF stState = "ReadData" THEN stDesc.src[stSource + 1] ELSE stDesc.dst
              /\ Within(seg)
      BY <1>1, <1>3, <2>1, <2>4 DEF Pointed, InData
    <2>6. /\ stRemaining \in 1 .. seg.words /\ seg.words \in Nat /\ seg.addr \in Nat
          /\ stAddr = seg.addr + 4 * (seg.words - stRemaining) /\ stAddr \in Nat
          /\ stBurst \in 1 .. stRemaining /\ stBeat \in 0 .. stBurst /\ stBurst <= MaxWords
          /\ ~CrossesPage(stAddr, stBurst) /\ (Live => stBeat < stBurst)
      <3>1. stRemaining \in 1 .. seg.words /\ seg.words \in Nat /\ seg.addr \in Nat
            /\ stAddr = seg.addr + 4 * (seg.words - stRemaining)
        BY <2>5 DEF Within, Segments
      <3>2. stBurst \in 1 .. stRemaining /\ stBeat \in 0 .. stBurst /\ stBurst <= MaxWords
            /\ ~CrossesPage(stAddr, stBurst) /\ (Live => stBeat < stBurst)
        BY <1>1, <2>1, <2>4 DEF Bursts
      <3> QED BY <3>1, <3>2
    <2>7. /\ stBeat' \in {stBeat, stBeat + 1} /\ (stBeat' = stBeat + 1 => Live)
          /\ (stBeat' = stBeat => stState' = stState)
      BY <2>1, <2>2, <2>6 DEF FeedBeat, DrainBeat, NoBeat
    <2>8. StRegTypes'
      BY <1>1, <2>1, <2>3, <2>4 DEF StRegTypes, StStates, Reading, Writing
    <2>9. PortInStep'
      <3>1. StMemoryOwned' /\ (StWrites' <=> stState = "WriteData")
        BY <2>1, <2>4 DEF StMemoryOwned, StWrites, InData, Finishing, Writing
      <3>2. stState = "WriteData" => fbMoved = stBeat
        BY <1>1, <2>4 DEF PortInStep, StMemoryOwned
      <3>3. stState = "WriteData" => fbMoved' = stBeat'
        BY <2>1, <2>4, <3>2 DEF FeedBeat, DrainBeat, NoBeat
      <3> QED BY <2>1, <3>1, <3>3 DEF PortInStep
    <2>10. Checked'
      BY <1>1, <2>3, <2>4 DEF Checked
    <2>11. Bursts'
      <3>1. stBeat' \in 0 .. stBurst /\ ~StReqValid'
        BY <2>4, <2>6, <2>7 DEF StReqValid, InData, Finishing
      <3>2. stState' \in Finishing => stBeat' = stBurst
        BY <2>2, <2>4, <2>6, <2>7 DEF LastBeat
      <3>3. stState' \in InData /\ Live' => stBeat' < stBurst
        <4>1. SUFFICES ASSUME stState' \in InData, Live'
                       PROVE  stBeat' < stBurst
          OBVIOUS
        <4>2. Live /\ ~(stBeat' = stBeat + 1 /\ LastBeat)
          BY <2>2, <4>1 DEF InData
        <4> QED BY <2>6, <2>7, <4>2 DEF LastBeat
      <3> QED BY <2>3, <2>6, <3>1, <3>2, <3>3 DEF Bursts
    <2>12. Pointed'
      <3>1. Beats = stBeat /\ Beats' = stBeat'
        BY <2>4 DEF Beats
      <3>2. Within(seg)' /\ (seg = IF stState = "ReadData" THEN stDesc'.src[stSource' + 1] ELSE stDesc'.dst)
        BY <2>3, <2>5 DEF Within
      <3>3. CASE stState = "ReadData"
        <4>1. /\ stSource \in 0 .. 2 /\ stTotal = SourceSum(stDesc.src)
              /\ stSent = Before(stSource + 1) + (seg.words - stRemaining) + stBeat
              /\ stReceived = 0 /\ stStored = 0
          BY <1>1, <2>4, <2>5, <3>1, <3>3 DEF Pointed
        <4>2. stSent' = stSent + (stBeat' - stBeat) /\ stReceived' = stReceived
          BY <1>1, <2>1, <2>6, <3>3, <4>1 DEF FeedBeat, DrainBeat, NoBeat, Feeding, Drained, Fed
        <4>3. Before(stSource + 1) \in Nat /\ Before(stSource + 1)' = Before(stSource + 1)
          BY <1>3, <2>3 DEF Before
        <4>4. stSent' = Before(stSource + 1)' + (seg.words - stRemaining) + stBeat'
          BY <2>6, <2>7, <4>1, <4>2, <4>3
        <4> QED BY <2>3, <2>4, <3>1, <3>2, <3>3, <4>1, <4>2, <4>4 DEF Pointed
      <3>4. CASE stState = "WriteData"
        <4>1. /\ stSent = SourceSum(stDesc.src)
              /\ stReceived = seg.words - stRemaining + stBeat
              /\ stStored = seg.words - stRemaining
          BY <1>1, <2>4, <2>5, <3>1, <3>4 DEF Pointed
        <4>2. stSent' = stSent /\ stReceived' = stReceived + (stBeat' - stBeat)
          BY <2>1, <2>6, <3>4, <4>1 DEF FeedBeat, DrainBeat, NoBeat, Feeding, Drained
        <4>3. stReceived' = seg.words - stRemaining + stBeat'
          BY <2>6, <2>7, <4>1, <4>2
        <4> QED BY <2>3, <2>4, <3>1, <3>2, <3>4, <4>1, <4>2, <4>3 DEF Pointed
      <3> QED BY <2>1, <3>3, <3>4 DEF InData
    <2>13. Ends'
      BY <1>1, <2>2, <2>4 DEF Ends, InData, Finishing
    <2>14. Fed'
      <3>1. CASE FeedBeat
        <4>1. /\ stState = "ReadData" /\ Live /\ stSent' = stSent + 1
              /\ stFed' = Append(stFed, [addr |-> stAddr + 4 * stBeat, last |-> StTxLast])
          BY <3>1 DEF FeedBeat, Bytes
        <4> DEFINE n == stSource + 1
                   j == seg.words - stRemaining + stBeat + 1
        <4>2. /\ n \in 1 .. 3 /\ seg = stDesc.src[n] /\ stTotal = SourceSum(stDesc.src)
              /\ stSent = Before(n) + (seg.words - stRemaining) + stBeat
          BY <1>1, <2>4, <2>5, <4>1 DEF Pointed, Beats
        <4>3. Before(n) \in Nat /\ Before(n) + seg.words <= SourceSum(stDesc.src) /\ SourceSum(stDesc.src) \in Nat
          BY <1>3, <4>2 DEF Before, SourceSum
        <4>4. j \in 1 .. seg.words /\ stSent + 1 = Before(n) + j /\ stSent \in Nat
          <5>1. PICK bn \in Nat : bn = Before(n)
            BY <4>3
          <5>2. stBeat < stBurst /\ stSent = bn + (seg.words - stRemaining) + stBeat
            BY <2>6, <4>1, <4>2, <5>1
          <5> HIDE DEF n
          <5>3. j \in 1 .. seg.words /\ stSent + 1 = bn + j /\ stSent \in Nat
            BY <2>6, <5>2
          <5> QED BY <5>1, <5>3
        <4>5. SourceWords[stSent + 1] = stAddr + 4 * stBeat
          <5>1. SourceWords[Before(n) + j] = seg.addr + 4 * (j - 1)
            BY <1>3, <4>2, <4>4, SourceAt
          <5>2. seg.addr + 4 * (j - 1) = stAddr + 4 * stBeat
            BY <2>6
          <5> QED BY <4>4, <5>1, <5>2
        <4>6. StTxLast <=> stSent + 1 = SourceSum(stDesc.src)
          BY <4>2 DEF StTxLast
        <4> DEFINE beat == [addr |-> stAddr + 4 * stBeat, last |-> StTxLast]
        <4>7. beat \in [addr : Nat, last : BOOLEAN]
          BY <2>6 DEF StTxLast
        <4>8. stSent + 1 <= SourceSum(stDesc.src)
          <5> HIDE DEF n, j
          <5>1. PICK bn \in Nat, sum \in Nat : bn = Before(n) /\ sum = SourceSum(stDesc.src)
            BY <4>3
          <5>2. bn + seg.words <= sum /\ j \in 1 .. seg.words /\ stSent + 1 = bn + j /\ seg.words \in Nat
            BY <2>6, <4>3, <4>4, <5>1
          <5>3. stSent + 1 <= sum
            BY <5>2
          <5> QED BY <5>1, <5>3
        <4>9. UNCHANGED <<SourceWords, SourceSum(stDesc.src)>>
          BY <2>3 DEF SourceWords
        <4>10. /\ stFed \in Seq([addr : Nat, last : BOOLEAN]) /\ Len(stFed) = stSent
               /\ \A m \in 1 .. Len(stFed) : /\ stFed[m].addr = SourceWords[m]
                                             /\ stFed[m].last <=> m = SourceSum(stDesc.src)
          BY <1>1 DEF Fed
        <4>11. beat.addr = SourceWords[stSent + 1] /\ (beat.last <=> stSent + 1 = SourceSum(stDesc.src))
          BY <4>5, <4>6
        <4>12. stFed' = Append(stFed, beat)
          BY <4>1
        <4> HIDE DEF beat
        <4>13. /\ stFed' \in Seq([addr : Nat, last : BOOLEAN]) /\ Len(stFed') = stSent + 1
               /\ \A m \in 1 .. stSent + 1 : stFed'[m] = IF m = stSent + 1 THEN beat ELSE stFed[m]
          BY <4>4, <4>7, <4>10, <4>12
        <4>14. \A m \in 1 .. Len(stFed') : /\ stFed'[m].addr = SourceWords[m]
                                           /\ stFed'[m].last <=> m = SourceSum(stDesc.src)
          <5>1. TAKE m \in 1 .. Len(stFed')
          <5>2. CASE m = stSent + 1
            BY <4>4, <4>11, <4>13, <5>2
          <5>3. CASE m # stSent + 1
            BY <4>4, <4>10, <4>13, <5>3
          <5> QED BY <5>2, <5>3
        <4> QED BY <4>1, <4>8, <4>9, <4>13, <4>14 DEF Fed
      <3>2. CASE ~FeedBeat
        BY <1>4, <2>1, <3>2 DEF DrainBeat, NoBeat
      <3> QED BY <3>1, <3>2
    <2> QED BY <2>8, <2>9, <2>10, <2>11, <2>12, <2>13, <2>14 DEF StInv
  <1>i. CASE FinishEdge
    <2>1. /\ stState \in Finishing /\ stState' = stState /\ UNCHANGED <<Feeding, Drained, stPointers, stBurst, stBeat>>
          /\ (Live /\ UNCHANGED stFault) \/ ~Live'
          /\ stFaultAbort' \in BOOLEAN /\ fbState = "Owned" /\ fbState' \in {"Owned", "Respond"}
          /\ (StWrites => UNCHANGED fbMoved)
      BY <1>2, <1>i DEF FinishEdge, NoBeat
    <2>2. StRegTypes'
      BY <1>1, <2>1 DEF StRegTypes, StStates, Feeding
    <2>3. PortInStep'
      BY <1>1, <2>1 DEF PortInStep, StMemoryOwned, Finishing, StWrites
    <2>4. Checked'
      BY <1>1, <2>1 DEF Checked, Feeding
    <2>5. Pointed'
      BY <1>1, <2>1 DEF Pointed, Within, Before, Beats, Feeding, Drained, stPointers
    <2>6. Bursts'
      BY <1>1, <2>1 DEF Bursts, stPointers, InData, Finishing, StReqValid
    <2>7. Ends'
      BY <1>1, <2>1 DEF Ends, Finishing
    <2> QED BY <1>4, <2>1, <2>2, <2>3, <2>4, <2>5, <2>6, <2>7 DEF StInv
  <1>j. CASE ReadDoneEdge
    <2>1. /\ Live /\ stFaultAbort' \in BOOLEAN /\ stState = "ReadFinish" /\ stState' = ReadFollows /\ fbState' = "Idle"
          /\ UNCHANGED <<Feeding, Drained, stTotal, stFault>>
          /\ stSource' = IF BurstIsLast /\ MoreSources THEN stSource + 1 ELSE stSource
      BY <1>2, <1>j DEF ReadDoneEdge
    <2>2. UNCHANGED <<stDesc, stSent, stReceived, stStored, stTotal, stFault>>
      BY <2>1 DEF Feeding, Drained
    <2>3. stState' \in Preparing /\ (stState' = "ReadPrepare" <=> ~BurstIsLast \/ MoreSources)
      BY <2>1 DEF ReadFollows, Preparing
    <2> DEFINE n == stSource + 1
               seg == stDesc.src[n]
    <2>4. /\ n \in 1 .. 3 /\ stSource \in 0 .. 2 /\ stTotal = SourceSum(stDesc.src)
          /\ stRemaining \in 1 .. seg.words /\ stAddr = seg.addr + 4 * (seg.words - stRemaining)
          /\ stSent = Before(n) + (seg.words - stRemaining) + stBeat
          /\ stReceived = 0 /\ stStored = 0
      BY <1>1, <2>1 DEF Pointed, Within, Beats, Preparing, Reading
    <2>5. seg.words \in Nat /\ seg.addr \in Nat /\ Before(n) \in Nat
      BY <1>3, <2>4 DEF Before
    <2>6. stBurst \in 1 .. stRemaining /\ stBeat = stBurst
      BY <1>1, <2>1 DEF Bursts, Reading, Preparing, Finishing
    <2>7. StRegTypes'
      BY <1>1, <2>1, <2>2, <2>3 DEF StRegTypes, StStates, Preparing
    <2>8. PortInStep'
      BY <2>1, <2>3 DEF PortInStep, StMemoryOwned, Preparing
    <2>9. Checked /\ Checked'
      BY <1>1, <2>1, <2>2, <2>3 DEF Checked, Reading
    <2>10. Bursts'
      BY <2>3 DEF Bursts
    <2>11. Ends'
      <3>1. stFault = 0
        BY <1>1, <2>1 DEF Ends, Reading
      <3> QED BY <2>2, <2>3, <3>1 DEF Ends, Preparing
    <2>12. RangeValid(stDesc.dst) /\ (stDesc.src[2].words = 0 => stDesc.src[3].words = 0)
      BY <1>1, <2>1 DEF Checked, Reading
    <2>13. Beats' = 0
      BY <2>3 DEF Beats
    <2>14. CASE ~BurstIsLast
      <3>1. stState' = "ReadPrepare" /\ stSource' = stSource
            /\ stAddr' = stAddr + 4 * stBurst /\ stRemaining' = stRemaining - stBurst
        BY <1>j, <2>1, <2>3, <2>14 DEF ReadDoneEdge, PointPast, Bytes, Preparing
      <3>2. stRemaining' \in 1 .. seg.words /\ stAddr' = seg.addr + 4 * (seg.words - stRemaining')
            /\ stSent = Before(n) + (seg.words - stRemaining') + 0
        BY <2>4, <2>5, <2>6, <2>14, <3>1 DEF BurstIsLast
      <3>3. Before(n)' = Before(n)
        BY <2>2, <3>1 DEF Before
      <3>4. Pointed'
        BY <2>2, <2>4, <2>13, <3>1, <3>2, <3>3 DEF Pointed, Within, Reading, Writing
      <3> QED BY <1>4, <2>1, <2>7, <2>8, <2>9, <2>10, <2>11, <3>4 DEF StInv
    <2>15. CASE BurstIsLast /\ MoreSources
      <3>1. stState' = "ReadPrepare" /\ stSource' = stSource + 1 /\ stSource < 2 /\ stDesc.src[stSource + 2].words # 0
            /\ stAddr' = stDesc.src[stSource + 2].addr /\ stRemaining' = stDesc.src[stSource + 2].words
        BY <1>j, <2>1, <2>3, <2>15 DEF ReadDoneEdge, PointTo, MoreSources, Preparing
      <3>2. stSource \in 0 .. 1 /\ stSource' \in 1 .. 2 /\ stSource' + 1 = stSource + 2 /\ stSource + 2 \in 1 .. 3
        BY <2>4, <3>1
      <3>3. Before(stSource + 2) = Before(n) + seg.words
        <4>1. stSource = 0 \/ stSource = 1
          BY <3>2
        <4> QED BY <1>3, <4>1 DEF Before
      <3>4. stSent = Before(stSource + 2) + (stDesc.src[stSource + 2].words - stRemaining') + 0
        BY <1>3, <2>4, <2>5, <2>6, <2>15, <3>1, <3>2, <3>3 DEF BurstIsLast
      <3>5. Before(stSource + 1)' = Before(stSource + 2)
        BY <2>2, <3>2 DEF Before
      <3>6. stDesc.src[stSource + 2].words \in Nat \ {0} /\ stDesc.src[stSource + 2].addr \in Nat
        BY <1>3, <3>1, <3>2
      <3>7. Within(stDesc.src[stSource + 1])'
        BY <2>2, <3>1, <3>2, <3>6 DEF Within
      <3>8. Pointed'
        BY <2>2, <2>4, <2>13, <3>1, <3>2, <3>4, <3>5, <3>7 DEF Pointed, Reading, Writing
      <3> QED BY <1>4, <2>1, <2>7, <2>8, <2>9, <2>10, <2>11, <3>8 DEF StInv
    <2>16. CASE BurstIsLast /\ ~MoreSources
      <3>1. stState' = "WritePrepare" /\ stAddr' = stDesc.dst.addr /\ stRemaining' = stDesc.dst.words
        BY <1>j, <2>1, <2>3, <2>16 DEF ReadDoneEdge, PointTo, Preparing
      <3>2. stSent = SourceSum(stDesc.src)
        <4>1. stSent = Before(n) + seg.words
          BY <2>4, <2>5, <2>6, <2>16 DEF BurstIsLast
        <4>2. stSource = 0 \/ stSource = 1 \/ stSource = 2
          BY <2>4
        <4>3. CASE stSource = 0
          BY <1>3, <2>12, <2>16, <4>1, <4>3 DEF Before, SourceSum, MoreSources
        <4>4. CASE stSource = 1
          BY <1>3, <2>16, <4>1, <4>4 DEF Before, SourceSum, MoreSources
        <4>5. CASE stSource = 2
          BY <1>3, <4>1, <4>5 DEF Before, SourceSum
        <4> QED BY <4>2, <4>3, <4>4, <4>5
      <3>3. stDesc.dst.words \in Nat \ {0} /\ stDesc.dst.addr \in Nat
        BY <1>3, <2>12 DEF RangeValid
      <3>4. Within(stDesc.dst)'
        BY <2>2, <3>1, <3>3 DEF Within
      <3>5. Pointed'
        BY <2>2, <2>4, <2>13, <3>1, <3>2, <3>3, <3>4 DEF Pointed, Reading, Writing
      <3> QED BY <1>4, <2>1, <2>7, <2>8, <2>9, <2>10, <2>11, <3>5 DEF StInv
    <2> QED BY <2>14, <2>15, <2>16
  <1>k. CASE WriteDoneEdge
    <2>1. /\ Live /\ stFaultAbort' \in BOOLEAN /\ stState = "WriteFinish" /\ stState' = WriteFollows /\ fbState' = "Idle"
          /\ UNCHANGED <<Feeding, stReceived, stTotal, stSource, stFault>>
          /\ stStored' = stStored + fbMoved
          /\ stAddr' = stAddr + 4 * stBurst /\ stRemaining' = stRemaining - stBurst
      BY <1>2, <1>k DEF WriteDoneEdge, PointPast, Bytes
    <2>2. UNCHANGED <<stDesc, stSent, stReceived, stTotal, stFault>>
      BY <2>1 DEF Feeding
    <2>3. /\ stRemaining \in 1 .. stDesc.dst.words /\ stAddr = stDesc.dst.addr + 4 * (stDesc.dst.words - stRemaining)
          /\ stSent = SourceSum(stDesc.src)
          /\ stReceived = stDesc.dst.words - stRemaining + stBeat
          /\ stStored = stDesc.dst.words - stRemaining
      BY <1>1, <2>1 DEF Pointed, Within, Beats, Preparing, Writing
    <2>4. stBurst \in 1 .. stRemaining /\ stBeat = stBurst /\ fbMoved = stBeat
      BY <1>1, <2>1 DEF Bursts, Writing, Preparing, Finishing, PortInStep, StMemoryOwned, StWrites
    <2>5. stFault = 0
      BY <1>1, <2>1 DEF Ends, Writing
    <2>6. stDesc.dst.words \in Nat /\ stDesc.dst.addr \in Nat
      BY <1>3
    <2>7. stState' \in {"Complete", "WritePrepare"} /\ (stState' = "Complete" <=> BurstIsLast)
      BY <2>1 DEF WriteFollows
    <2>8. StRegTypes'
      BY <1>1, <2>1, <2>2, <2>7 DEF StRegTypes, StStates
    <2>9. PortInStep'
      BY <2>1, <2>7 DEF PortInStep, StMemoryOwned
    <2>10. Checked'
      BY <1>1, <2>1, <2>2, <2>7 DEF Checked, Writing, Reading
    <2>11. Bursts'
      BY <2>7 DEF Bursts, Preparing, Reading, Writing
    <2>12. Pointed'
      <3>1. CASE stState' = "Complete"
        BY <3>1 DEF Pointed, Reading, Writing
      <3>2. CASE stState' = "WritePrepare"
        <4>1. stRemaining' \in 1 .. stDesc.dst.words /\ stAddr' = stDesc.dst.addr + 4 * (stDesc.dst.words - stRemaining')
              /\ stReceived = stDesc.dst.words - stRemaining' + 0 /\ stStored' = stDesc.dst.words - stRemaining'
          BY <2>1, <2>3, <2>4, <2>6, <2>7, <3>2 DEF BurstIsLast
        <4>2. Beats' = 0
          BY <3>2 DEF Beats, Preparing
        <4> QED BY <2>2, <2>3, <3>2, <4>1, <4>2 DEF Pointed, Within, Reading, Writing
      <3> QED BY <2>7, <3>1, <3>2
    <2>13. Ends'
      <3>1. stState' = "Complete" => stStored' = stDesc.dst.words
        BY <2>1, <2>3, <2>4, <2>6, <2>7 DEF BurstIsLast
      <3> QED BY <2>2, <2>3, <2>5, <2>7, <3>1 DEF Ends
    <2> QED BY <1>4, <2>1, <2>8, <2>9, <2>10, <2>11, <2>12, <2>13 DEF StInv
  <1> QED BY <1>a, <1>b, <1>c, <1>d, <1>e, <1>f, <1>g, <1>h, <1>i, <1>j, <1>k DEF MoverEdges

LEMMA StStartInv ==
    ASSUME StStart PROVE StInv
  <1>1. /\ stState = "Idle" /\ stDesc = NoDescriptor /\ stSent = 0 /\ stFed = <<>> /\ stAbort = FALSE
        /\ stFaultAbort = FALSE /\ fbState = "Idle" /\ fbMoved = 0 /\ fbFault = 0
    BY DEF StStart, StInit
  <1>2. NoSegment \in Segments
    BY DEF NoSegment, Segments
  <1>3. NoDescriptor.src \in [1 .. 3 -> Segments] /\ NoDescriptor.dst \in Segments
        /\ NoDescriptor = [src |-> NoDescriptor.src, dst |-> NoDescriptor.dst]
    BY <1>2 DEF NoDescriptor
  <1>4. stDesc \in [src : [1 .. 3 -> Segments], dst : Segments]
    BY <1>1, <1>3
  <1>5. StRegTypes
    BY <1>1, <1>4 DEF StRegTypes, StStates
  <1>6. PortInStep
    BY <1>1 DEF PortInStep, StMemoryOwned
  <1>7. Checked /\ Pointed /\ Bursts /\ Ends
    BY <1>1 DEF Checked, Pointed, Bursts, Ends, Reading, Writing
  <1>8. Fed
    <2>1. SourceSum(stDesc.src) \in Nat
      BY <1>4 DEF SourceSum, Segments
    <2> QED BY <1>1, <2>1 DEF Fed
  <1> QED BY <1>5, <1>6, <1>7, <1>8 DEF StInv

\* A step of the specification is one of the edges, or none.
LEMMA StNextEdges ==
    ASSUME StInv, StNext
    PROVE  \E cmd \in Descriptors : /\ cmd \in CommandRecords /\ MoverEdges(cmd)
                                    /\ stAbort' \in BOOLEAN /\ (stAbort => stAbort')
                                    /\ fbMoved' \in Nat /\ fbFault' \in Nat
  <1>1. PICK accel \in BOOLEAN, mem \in BOOLEAN, good \in BOOLEAN, cmd \in StCommands : StClock(accel, mem, good, cmd)
    BY DEF StNext
  <1>2. cmd \in Descriptors /\ cmd \in CommandRecords
    BY <1>1, StAssumption DEF StCommands
  <1>3. StRegTypes /\ PortInStep
    BY DEF StInv
  <1>4. stState \in InData => stBeat \in Nat
    <2>1. ASSUME stState \in InData PROVE stBeat \in Nat
      <3>1. stState \in (Reading \cup Writing) \ Preparing
        BY <2>1 DEF InData, Reading, Writing, Preparing
      <3>2. stBurst \in 1 .. stRemaining /\ stBeat \in 0 .. stBurst
        BY <3>1 DEF StInv, Bursts
      <3> QED BY <3>2
    <2> QED BY <2>1
  <1> QED BY <1>1, <1>2, <1>3, <1>4, MoverEdgeKinds

LEMMA StStutterKeeps ==
    ASSUME StInv, UNCHANGED stVars PROVE StInv'
  <1>1. /\ UNCHANGED <<stState, stDesc, stAddr, stRemaining, stSource, stTotal, stBurst, stBeat, stSent, stReceived>>
        /\ UNCHANGED <<stFault, stFaultAbort, fbState, fbMoved, fbFault, stAbort, stFed, stStored>>
    BY DEF stVars, stRegs, stPointers, stCounters, fbVars
  <1>2. StRegTypes' /\ PortInStep' /\ Ends'
    BY <1>1 DEF StInv, StRegTypes, PortInStep, Ends, StMemoryOwned, StWrites, SourceSum, Live
  <1>3. Checked' /\ Fed'
    BY <1>1 DEF StInv, Checked, Fed, SourceWords
  <1>4. Pointed'
    BY <1>1 DEF StInv, Pointed, Within, Before, Beats
  <1>5. Bursts'
    BY <1>1 DEF StInv, Bursts, StReqValid, Live
  <1> QED BY <1>2, <1>3, <1>4, <1>5 DEF StInv

\* pa_m5_stream_transfer.sv keeps its pointers, counters and the memory port in step.
THEOREM StInvariant == StSpec => []StInv
  <1>1. StStart => StInv
    BY StStartInv
  <1>2. StInv /\ [StNext]_stVars => StInv'
    <2> SUFFICES ASSUME StInv, [StNext]_stVars PROVE StInv'
      OBVIOUS
    <2>1. CASE StNext
      BY <2>1, StNextEdges, StInvKeeps
    <2>2. CASE UNCHANGED stVars
      BY <2>2, StStutterKeeps
    <2> QED BY <2>1, <2>2
  <1> QED BY <1>1, <1>2, PTL DEF StSpec

-----------------------------------------------------------------------------
(* The words the mover gathers. *)

LEMMA FedAre ==
    ASSUME StInv
    PROVE  /\ FedAddresses \in Seq(Nat) /\ Len(FedAddresses) = stSent /\ stSent \in Nat
           /\ SourceWords \in Seq(Nat) /\ Len(SourceWords) = SourceSum(stDesc.src) /\ SourceSum(stDesc.src) \in Nat
           /\ stSent <= SourceSum(stDesc.src)
           /\ \A n \in 1 .. stSent : FedAddresses[n] = SourceWords[n]
  <1>1. stFed \in Seq([addr : Nat, last : BOOLEAN]) /\ Len(stFed) = stSent /\ stSent <= SourceSum(stDesc.src)
        /\ \A n \in 1 .. Len(stFed) : stFed[n].addr = SourceWords[n]
    BY DEF StInv, Fed
  <1>2. stSent \in Nat /\ \A n \in 1 .. stSent : stFed[n].addr \in Nat
    <2>1. stSent \in Nat
      BY <1>1, LenProperties
    <2>2. ASSUME NEW n \in 1 .. stSent PROVE stFed[n].addr \in Nat
      <3>1. stFed[n] \in [addr : Nat, last : BOOLEAN]
        BY <1>1, <2>2, ElementOfSeq
      <3> QED BY <3>1
    <2> QED BY <2>1, <2>2
  <1>3. FedAddresses = [n \in 1 .. stSent |-> stFed[n].addr]
    BY <1>1 DEF FedAddresses
  <1>4. FedAddresses \in Seq(Nat) /\ Len(FedAddresses) = stSent
    BY <1>2, <1>3
  <1>5. stDesc.src \in [1 .. 3 -> Segments]
    BY DEF StInv, StRegTypes
  <1>6. SourceWords \in Seq(Nat) /\ Len(SourceWords) = SourceSum(stDesc.src)
    BY <1>5, SourceAt
  <1>7. SourceSum(stDesc.src) \in Nat
    BY <1>6
  <1>8. \A n \in 1 .. stSent : FedAddresses[n] = SourceWords[n]
    BY <1>1, <1>2, <1>3
  <1> QED BY <1>1, <1>2, <1>4, <1>6, <1>7, <1>8

LEMMA FeedsHold ==
    ASSUME StInv PROVE StFeeds
  <1>1. /\ FedAddresses \in Seq(Nat) /\ Len(FedAddresses) = stSent /\ stSent \in Nat
        /\ SourceWords \in Seq(Nat) /\ Len(SourceWords) = SourceSum(stDesc.src) /\ SourceSum(stDesc.src) \in Nat
        /\ stSent <= SourceSum(stDesc.src)
        /\ \A n \in 1 .. stSent : FedAddresses[n] = SourceWords[n]
    BY FedAre
  <1>2. IsPrefix(FedAddresses, SourceWords)
    <2>1. SubSeq(FedAddresses, 1, stSent) = FedAddresses
      BY <1>1, SubSeqFull
    <2> DEFINE part == SubSeq(SourceWords, 1, stSent)
    <2>2. part \in Seq(Nat) /\ Len(part) = stSent /\ \A n \in 1 .. stSent : part[n] = SourceWords[n]
      <3>1. \A n \in 1 .. stSent : SourceWords[n] \in Nat
        BY <1>1
      <3>2. /\ part \in Seq(Nat)
            /\ Len(part) = IF 1 <= stSent THEN stSent - 1 + 1 ELSE 0
            /\ \A n \in 1 .. stSent - 1 + 1 : part[n] = SourceWords[1 + n - 1]
        BY <1>1, <3>1, SubSeqProperties
      <3> HIDE DEF part
      <3>3. Len(part) = stSent
        BY <1>1, <3>2
      <3>4. ASSUME NEW n \in 1 .. stSent PROVE part[n] = SourceWords[n]
        <4>1. n \in 1 .. stSent - 1 + 1 /\ 1 + n - 1 = n
          BY <1>1, <3>4
        <4> QED BY <3>2, <4>1
      <3> QED BY <3>2, <3>3, <3>4
    <2> HIDE DEF part
    <2>3. FedAddresses = part
      BY <1>1, <2>2, SeqEqual
    <2> QED BY <1>1, <2>1, <2>3 DEF IsPrefix, part
  <1>3. \A n \in DOMAIN stFed : stFed[n].last <=> n = Len(SourceWords)
    <2>1. stFed \in Seq([addr : Nat, last : BOOLEAN]) /\ \A n \in 1 .. Len(stFed) : stFed[n].last <=> n = SourceSum(stDesc.src)
      BY DEF StInv, Fed
    <2> QED BY <1>1, <2>1
  <1>4. Len(stFed) = stSent
    BY DEF StInv, Fed
  <1> QED BY <1>2, <1>3, <1>4 DEF StFeeds

\* The addresses of the words of a burst, and that they are those after the k-th word of t.
WordsFrom(addr, burst) == [n \in 1 .. burst |-> addr + Bytes(n - 1)]
Continues(t, k, addr, burst) ==
    \A n \in 1 .. burst : k + n \in 1 .. Len(t) /\ t[k + n] = addr + 4 * (n - 1)

LEMMA NextWords ==
    ASSUME NEW t \in Seq(Nat), NEW addr \in Nat, NEW k \in Nat, NEW burst \in Nat, Continues(t, k, addr, burst)
    PROVE  WordsFrom(addr, burst) = SubSeq(t, k + 1, k + burst)
  <1> DEFINE offered == WordsFrom(addr, burst)
             part == SubSeq(t, k + 1, k + burst)
  <1>1. offered \in Seq(Nat) /\ Len(offered) = burst /\ \A n \in 1 .. burst : offered[n] = addr + 4 * (n - 1)
    BY DEF WordsFrom, Bytes
  <1>2. \A m \in k + 1 .. k + burst : t[m] \in Nat
    <2>1. TAKE m \in k + 1 .. k + burst
    <2>2. PICK n \in 1 .. burst : m = k + n
      <3>1. m - k \in 1 .. burst /\ m = k + (m - k)
        BY <2>1
      <3> QED BY <3>1
    <2>3. k + n \in 1 .. Len(t)
      BY DEF Continues
    <2> QED BY <2>2, <2>3, ElementOfSeq
  <1>3. /\ part \in Seq(Nat)
        /\ Len(part) = IF k + 1 <= k + burst THEN k + burst - (k + 1) + 1 ELSE 0
        /\ \A n \in 1 .. k + burst - (k + 1) + 1 : part[n] = t[k + 1 + n - 1]
    BY <1>2, SubSeqProperties
  <1> HIDE DEF offered, part
  <1>4. Len(part) = burst
    BY <1>3
  <1>5. ASSUME NEW n \in 1 .. burst PROVE part[n] = offered[n]
    <2>1. n \in 1 .. k + burst - (k + 1) + 1 /\ k + 1 + n - 1 = k + n
      BY <1>5
    <2>2. part[n] = t[k + n]
      BY <1>3, <2>1
    <2>3. t[k + n] = addr + 4 * (n - 1)
      BY DEF Continues
    <2> QED BY <1>1, <2>2, <2>3
  <1>6. offered = part
    BY <1>1, <1>3, <1>4, <1>5, SeqEqual
  <1> QED BY <1>6 DEF offered, part

LEMMA OffersHold ==
    ASSUME StInv PROVE StOffers
  <1> SUFFICES ASSUME StReqValid
               PROVE  LET offered == [n \in 1 .. stBurst |-> stAddr + Bytes(n - 1)]
                      IN  /\ ~BadLength(stBurst) /\ ~CrossesPage(stAddr, stBurst)
                          /\ IF StWrites
                             THEN /\ FedAddresses = SourceWords
                                  /\ offered = SubSeq(DestinationWords, stReceived + 1, stReceived + stBurst)
                             ELSE offered = SubSeq(SourceWords, stSent + 1, stSent + stBurst)
    BY DEF StOffers
  <1>1. StRegTypes /\ Pointed /\ Bursts
    BY DEF StInv
  <1>2. /\ stDesc.src \in [1 .. 3 -> Segments] /\ stDesc.dst \in Segments
        /\ \A n \in 1 .. 3 : stDesc.src[n] \in Segments /\ stDesc.src[n].words \in Nat /\ stDesc.src[n].addr \in Nat
        /\ stDesc.dst.words \in Nat /\ stDesc.dst.addr \in Nat
    BY <1>1, SegmentsOfCommand
  <1>3. stState \in (Reading \cup Writing) \ Preparing
    BY DEF StReqValid, Reading, Writing, Preparing
  <1>4. stBurst \in 1 .. stRemaining /\ stBurst <= MaxWords /\ ~CrossesPage(stAddr, stBurst) /\ stBeat = 0 /\ Beats = 0
    BY <1>1, <1>3 DEF Bursts, Beats
  <1>5. /\ FedAddresses \in Seq(Nat) /\ Len(FedAddresses) = stSent /\ stSent \in Nat
        /\ SourceWords \in Seq(Nat) /\ Len(SourceWords) = SourceSum(stDesc.src) /\ SourceSum(stDesc.src) \in Nat
        /\ \A n \in 1 .. stSent : FedAddresses[n] = SourceWords[n]
    BY FedAre
  <1>6. CASE stState = "ReadIssue"
    <2> DEFINE n == stSource + 1
               seg == stDesc.src[n]
    <2>1. /\ n \in 1 .. 3 /\ stRemaining \in 1 .. seg.words /\ stAddr = seg.addr + 4 * (seg.words - stRemaining)
          /\ stSent = Before(n) + (seg.words - stRemaining) + 0
      BY <1>1, <1>4, <1>6 DEF Pointed, Within, Reading
    <2>2. \A j \in 1 .. seg.words : SourceWords[Before(n) + j] = seg.addr + 4 * (j - 1)
      BY <1>2, <2>1, SourceAt
    <2>3. Before(n) \in Nat /\ Before(n) + seg.words <= SourceSum(stDesc.src) /\ seg.words \in Nat /\ seg.addr \in Nat
      BY <1>2, <2>1 DEF Before, SourceSum
    <2>4. PICK bn \in Nat : bn = Before(n)
      BY <2>3
    <2> HIDE DEF n, seg
    <2>5. stAddr \in Nat /\ stBurst \in Nat /\ ~BadLength(stBurst)
      BY <1>4, <2>1, <2>3, M5Assumption DEF BadLength
    <2>6. ASSUME NEW m \in 1 .. stBurst
          PROVE  stSent + m \in 1 .. Len(SourceWords) /\ SourceWords[stSent + m] = stAddr + 4 * (m - 1)
      <3> DEFINE j == seg.words - stRemaining + m
      <3>1. j \in 1 .. seg.words /\ stSent + m = bn + j /\ seg.addr + 4 * (j - 1) = stAddr + 4 * (m - 1)
        BY <1>4, <2>1, <2>3, <2>4, <2>6
      <3>2. bn + j \in 1 .. Len(SourceWords)
        <4>1. PICK sum \in Nat : sum = SourceSum(stDesc.src)
          BY <1>5
        <4>2. bn + seg.words <= sum /\ Len(SourceWords) = sum
          BY <1>5, <2>3, <2>4, <4>1
        <4> HIDE DEF j
        <4>3. bn + j \in 1 .. sum
          BY <2>3, <3>1, <4>2
        <4> QED BY <4>2, <4>3
      <3> HIDE DEF j
      <3>3. SourceWords[bn + j] = seg.addr + 4 * (j - 1)
        BY <2>2, <2>4, <3>1
      <3> QED BY <3>1, <3>2, <3>3
    <2>7. [m \in 1 .. stBurst |-> stAddr + Bytes(m - 1)] = SubSeq(SourceWords, stSent + 1, stSent + stBurst)
      <3>1. SourceWords \in Seq(Nat) /\ stSent \in Nat /\ stAddr \in Nat /\ stBurst \in Nat
        BY <1>5, <2>5
      <3>2. \A m \in 1 .. stBurst : /\ stSent + m \in 1 .. Len(SourceWords)
                                    /\ SourceWords[stSent + m] = stAddr + 4 * (m - 1)
        BY <2>6
      <3>3. Continues(SourceWords, stSent, stAddr, stBurst)
        BY <3>2 DEF Continues
      <3>4. WordsFrom(stAddr, stBurst) = SubSeq(SourceWords, stSent + 1, stSent + stBurst)
        BY <3>1, <3>3, NextWords
      <3> QED BY <3>4 DEF WordsFrom
    <2> QED BY <1>4, <1>6, <2>5, <2>7 DEF StWrites
  <1>7. CASE stState = "WriteIssue"
    <2> DEFINE seg == stDesc.dst
    <2>1. /\ stRemaining \in 1 .. seg.words /\ stAddr = seg.addr + 4 * (seg.words - stRemaining)
          /\ stReceived = seg.words - stRemaining + 0 /\ stSent = SourceSum(stDesc.src)
      BY <1>1, <1>4, <1>7 DEF Pointed, Within, Writing
    <2>2. DestinationWords \in Seq(Nat) /\ Len(DestinationWords) = seg.words
          /\ \A j \in 1 .. seg.words : DestinationWords[j] = seg.addr + 4 * (j - 1)
      BY <1>2, SegmentWords DEF DestinationWords
    <2>3. seg.words \in Nat /\ seg.addr \in Nat
      BY <1>2
    <2> HIDE DEF seg
    <2>4. stAddr \in Nat /\ stBurst \in Nat /\ stReceived \in Nat /\ ~BadLength(stBurst)
      BY <1>4, <2>1, <2>3, M5Assumption DEF BadLength
    <2>5. ASSUME NEW m \in 1 .. stBurst
          PROVE  stReceived + m \in 1 .. Len(DestinationWords) /\ DestinationWords[stReceived + m] = stAddr + 4 * (m - 1)
      <3> DEFINE j == stReceived + m
      <3>1. j \in 1 .. seg.words /\ seg.addr + 4 * (j - 1) = stAddr + 4 * (m - 1)
        BY <1>4, <2>1, <2>3, <2>5
      <3> HIDE DEF j
      <3>2. DestinationWords[j] = seg.addr + 4 * (j - 1) /\ j \in 1 .. Len(DestinationWords)
        BY <2>2, <3>1
      <3> QED BY <3>1, <3>2 DEF j
    <2>6. [m \in 1 .. stBurst |-> stAddr + Bytes(m - 1)] = SubSeq(DestinationWords, stReceived + 1, stReceived + stBurst)
      <3>1. Continues(DestinationWords, stReceived, stAddr, stBurst)
        BY <2>5 DEF Continues
      <3>2. WordsFrom(stAddr, stBurst) = SubSeq(DestinationWords, stReceived + 1, stReceived + stBurst)
        BY <2>2, <2>4, <3>1, NextWords
      <3> QED BY <3>2 DEF WordsFrom
    <2>7. FedAddresses = SourceWords
      BY <1>5, <2>1, SeqEqual
    <2> QED BY <1>4, <1>7, <2>4, <2>6, <2>7 DEF StWrites
  <1> QED BY <1>6, <1>7 DEF StReqValid

\* The accelerator is fed the words of the source segments in order, TLAST marks the
\* last of them, every burst offered can be accepted and is the next one of the
\* command, and a packet completes once all of it is stored.
THEOREM StGathersCorrect == StSpec => []StGathers
  <1>1. StInv => StGathers
    <2> SUFFICES ASSUME StInv PROVE StGathers
      OBVIOUS
    <2>1. StFeeds /\ StOffers
      BY FeedsHold, OffersHold
    <2>2. StCompleteIsDone
      <3>1. /\ FedAddresses \in Seq(Nat) /\ Len(FedAddresses) = stSent /\ stSent \in Nat
            /\ SourceWords \in Seq(Nat) /\ Len(SourceWords) = SourceSum(stDesc.src)
            /\ \A n \in 1 .. stSent : FedAddresses[n] = SourceWords[n]
        BY FedAre
      <3>2. stSent = SourceSum(stDesc.src) => FedAddresses = SourceWords
        BY <3>1, SeqEqual
      <3>3. stSent = 0 => stFed = <<>>
        <4>1. stFed \in Seq([addr : Nat, last : BOOLEAN]) /\ Len(stFed) = stSent
          BY DEF StInv, Fed
        <4> QED BY <4>1, EmptySeq
      <3>4. Ends
        BY DEF StInv
      <3> QED BY <3>2, <3>3, <3>4 DEF Ends, StCompleteIsDone
    <2> QED BY <2>1, <2>2 DEF StGathers
  <1> QED BY <1>1, StInvariant, PTL

-----------------------------------------------------------------------------
(* What the mover promises its neighbours. *)

LEMMA MoverStep ==
    ASSUME StInv, NEW cmd \in Descriptors, MoverEdges(cmd), stAbort' \in BOOLEAN
    PROVE  Mover!PmNext
  <1> DEFINE abort == ~Live
             taken == [src |-> cmd.src, dst |-> cmd.dst]
  <1>1. abort \in BOOLEAN /\ taken \in {[src |-> d.src, dst |-> d.dst] : d \in Descriptors}
    OBVIOUS
  <1>2. abort \/ stFaultAbort <=> abort
    BY DEF Live
  <1>3. ASSUME NEW start \in BOOLEAN, NEW ack \in BOOLEAN, Mover!PmTick(abort, start, taken, ack)
        PROVE  Mover!PmNext
    BY <1>1, <1>3 DEF Mover!PmNext
  <1>4. Mover!PmCancelled(abort) <=> abort
    BY <1>2 DEF Mover!PmCancelled
  <1>a. CASE AcceptEdge(cmd)
    <2>1. Mover!PmIdle(abort, TRUE, taken)
      BY <1>4, <1>a DEF AcceptEdge, Calm, Mover!PmIdle, MoverState
    <2> QED BY <1>3, <2>1 DEF Mover!PmTick
  <1>b. CASE RestEdge
    <2>1. CASE stState = "Idle"
      <3>1. Mover!PmIdle(abort, FALSE, taken)
        BY <1>4, <1>b, <2>1 DEF RestEdge, Calm, Mover!PmIdle, MoverState, Feeding
      <3> QED BY <1>3, <3>1 DEF Mover!PmTick
    <2>2. CASE stState = "Complete"
      <3>1. PICK ack \in BOOLEAN : ack <=> stState' = "Idle"
        <4>1. (stState' = "Idle") \in BOOLEAN
          OBVIOUS
        <4> QED BY <4>1
      <3>2. Mover!PmComplete(abort, ack)
        BY <1>4, <1>b, <2>2, <3>1 DEF RestEdge, Calm, Mover!PmComplete, MoverState, Feeding
      <3> QED BY <1>3, <3>2 DEF Mover!PmTick
    <2>3. CASE stState = "Stopped"
      <3>1. Mover!PmStopped
        BY <1>b, <2>3 DEF RestEdge, Calm, Mover!PmStopped, Mover!pmVars, MoverState, Feeding
      <3> QED BY <1>3, <3>1 DEF Mover!PmTick
    <2> QED BY <1>b, <2>1, <2>2, <2>3 DEF RestEdge
  <1>c. CASE HaltEdge
    <2>1. CASE stState = "Idle"
      <3>1. Mover!PmIdle(abort, FALSE, taken)
        BY <1>4, <1>c, <2>1 DEF HaltEdge, Upset, Mover!PmIdle, MoverState, Feeding
      <3> QED BY <1>3, <3>1 DEF Mover!PmTick
    <2>2. CASE stState = "Complete"
      <3>1. Mover!PmComplete(abort, FALSE)
        BY <1>4, <1>c, <2>2 DEF HaltEdge, Upset, Mover!PmComplete, MoverState, Feeding
      <3> QED BY <1>3, <3>1 DEF Mover!PmTick
    <2>3. CASE stState \notin {"Idle", "Complete"}
      <3>1. Mover!PmWorking(abort)
        BY <1>4, <1>c, <2>3 DEF HaltEdge, Upset, Mover!PmWorking, MoverState, Feeding
      <3> QED BY <1>3, <3>1 DEF Mover!PmTick
    <2> QED BY <2>1, <2>2, <2>3
  <1>d. CASE ValidEdge \/ RefuseEdge \/ PrepareEdge \/ ReadDoneEdge \/ WriteDoneEdge
    <2>1. /\ Live /\ UNCHANGED stFaultAbort /\ stState \notin {"Idle", "Complete", "Stopped"} /\ stState' \notin {"Idle", "Stopped"}
          /\ UNCHANGED stDesc
      BY <1>d DEF ValidEdge, RefuseEdge, PrepareEdge, ReadDoneEdge, WriteDoneEdge, Calm, Feeding, Preparing, ReadFollows, WriteFollows
    <2>2. Mover!PmWorking(abort)
      BY <1>4, <2>1 DEF Mover!PmWorking, MoverState
    <2> QED BY <1>3, <2>2 DEF Mover!PmTick
  <1>e. CASE IssueEdge \/ DataEdge \/ FinishEdge
    <2>1. Calm \/ Upset
      BY <1>e DEF IssueEdge, DataEdge, FinishEdge
    <2>2. UNCHANGED stDesc
      BY <1>e DEF IssueEdge, DataEdge, FinishEdge, FeedBeat, DrainBeat, NoBeat, Feeding
    <2>3. stState \notin {"Idle", "Complete", "Stopped"} /\ stState' \notin {"Idle", "Complete", "Stopped"}
      BY <1>e DEF IssueEdge, DataEdge, FinishEdge, StReqValid, InData, Finishing
    <2>4. Mover!PmWorking(abort)
      BY <1>4, <2>1, <2>2, <2>3 DEF Mover!PmWorking, MoverState, Calm, Upset
    <2> QED BY <1>3, <2>4 DEF Mover!PmTick
  <1> QED BY <1>a, <1>b, <1>c, <1>d, <1>e DEF MoverEdges

\* The mover is the PacketMover that AcceleratorSystem is built on.
THEOREM StMover == StSpec => StImplementsMover
  <1>1. StStart => Mover!PmInit
    BY DEF StStart, StInit, Mover!PmInit, MoverState
  <1>2. StInv /\ [StNext]_stVars => [Mover!PmNext]_(Mover!pmVars)
    <2> SUFFICES ASSUME StInv, [StNext]_stVars PROVE [Mover!PmNext]_(Mover!pmVars)
      OBVIOUS
    <2>1. CASE StNext
      BY <2>1, StNextEdges, MoverStep
    <2>2. CASE UNCHANGED stVars
      BY <2>2 DEF stVars, stRegs, Mover!pmVars, MoverState
    <2> QED BY <2>1, <2>2
  <1> QED BY <1>1, <1>2, StInvariant, PTL DEF StSpec, StImplementsMover, Mover!PmSpec

LEMMA ClientStep ==
    ASSUME StInv, NEW cmd \in Descriptors, MoverEdges(cmd), StInv'
    PROVE  Client!McNext
  <1> DEFINE abort == ~Live
  <1>1. abort \in BOOLEAN
    OBVIOUS
  <1>2. ASSUME NEW ready \in BOOLEAN, NEW done \in BOOLEAN, Client!McTick(abort, ready, done)
        PROVE  Client!McNext
    BY <1>1, <1>2 DEF Client!McNext
  <1>a. CASE AcceptEdge(cmd)
    <2>1. Client!McFree(abort)
      BY <1>a DEF AcceptEdge, Calm, Client!McFree, ClientState, ClientReq, StReqValid, StMemoryOwned
    <2> QED BY <1>2, <2>1 DEF Client!McTick
  <1>b. CASE RestEdge
    <2>1. CASE stState \in {"Idle", "Stopped"}
      <3>1. Client!McFree(abort)
        BY <1>b, <2>1 DEF RestEdge, Calm, Client!McFree, ClientState, ClientReq, StReqValid, StMemoryOwned
      <3> QED BY <1>2, <3>1 DEF Client!McTick
    <2>2. CASE stState = "Complete"
      <3>1. Client!McBetween(abort)
        BY <1>b, <2>2 DEF RestEdge, Calm, Client!McBetween, ClientState, ClientReq, StReqValid, StMemoryOwned
      <3> QED BY <1>2, <3>1 DEF Client!McTick
    <2> QED BY <1>b, <2>1, <2>2 DEF RestEdge
  <1>c. CASE HaltEdge
    <2>1. stState' = "Stopped" /\ ~StReqValid /\ stState # "Stopped" /\ (stState \in {"Idle", "Complete"} => ~Live)
      BY <1>c DEF HaltEdge
    <2>2. CASE stState = "Idle"
      <3>1. Client!McFree(abort)
        BY <2>1, <2>2 DEF Client!McFree, ClientState, ClientReq, StReqValid, StMemoryOwned
      <3> QED BY <1>2, <3>1 DEF Client!McTick
    <2>3. CASE StMemoryOwned
      <3>1. Client!McOwned(TRUE)
        BY <2>1, <2>3 DEF Client!McOwned, ClientState, ClientReq, StReqValid, StMemoryOwned
      <3> QED BY <1>2, <3>1 DEF Client!McTick
    <2>4. CASE stState # "Idle" /\ ~StMemoryOwned
      <3>1. Client!McBetween(abort)
        BY <2>1, <2>4 DEF Client!McBetween, ClientState, ClientReq, StReqValid, StMemoryOwned
      <3> QED BY <1>2, <3>1 DEF Client!McTick
    <2> QED BY <2>2, <2>3, <2>4
  <1>d. CASE ValidEdge \/ RefuseEdge
    <2>1. Live /\ stState = "Validate" /\ stState' \in {"ReadPrepare", "Complete"}
      BY <1>d DEF ValidEdge, RefuseEdge, Calm
    <2>2. Client!McBetween(abort)
      BY <2>1 DEF Client!McBetween, ClientState, ClientReq, StReqValid, StMemoryOwned
    <2> QED BY <1>2, <2>2 DEF Client!McTick
  <1>e. CASE PrepareEdge
    <2>1. Live /\ stState \in Preparing /\ stState' = IF stState = "ReadPrepare" THEN "ReadIssue" ELSE "WriteIssue"
      BY <1>e DEF PrepareEdge, Calm
    <2>2. stBurst' \in 1 .. MaxWords
      <3>1. stState' \in (Reading \cup Writing) \ Preparing
        BY <2>1 DEF Reading, Writing, Preparing
      <3>2. Pointed' /\ Bursts' /\ StRegTypes'
        BY DEF StInv
      <3>3. stBurst' \in 1 .. stRemaining' /\ stBurst' <= MaxWords
        BY <3>1, <3>2 DEF Bursts
      <3> QED BY <3>3, M5Assumption
    <2>3. ClientReq' \in [words : 1 .. MaxWords, write : BOOLEAN]
      BY <2>1, <2>2 DEF ClientReq, StReqValid, StWrites
    <2>4. ClientState = "Between" /\ ClientState' = "Offer"
      BY <2>1 DEF ClientState, StReqValid, StMemoryOwned, Preparing
    <2>5. Client!McBetween(abort)
      BY <2>1, <2>3, <2>4 DEF Client!McBetween
    <2> QED BY <1>2, <2>5 DEF Client!McTick
  <1>f. CASE IssueEdge
    <2>1. /\ StReqValid /\ UNCHANGED stBurst
          /\ stState' = stState \/ stState' = IF stState = "ReadIssue" THEN "ReadData" ELSE "WriteData"
      BY <1>f DEF IssueEdge
    <2>2. PICK ready \in BOOLEAN : ready <=> stState' # stState
      <3>1. (stState' # stState) \in BOOLEAN
        OBVIOUS
      <3> QED BY <3>1
    <2>3. Client!McOffer(ready)
      BY <2>1, <2>2 DEF Client!McOffer, ClientState, ClientReq, StReqValid, StMemoryOwned, StWrites
    <2> QED BY <1>2, <2>3 DEF Client!McTick
  <1>g. CASE DataEdge \/ FinishEdge
    <2>1. /\ UNCHANGED stBurst /\ stState \in InData \cup Finishing /\ stState' \in InData \cup Finishing
          /\ (stState \in {"WriteData", "WriteFinish"} <=> stState' \in {"WriteData", "WriteFinish"})
      BY <1>g DEF DataEdge, FinishEdge, InData, Finishing
    <2>2. Client!McOwned(FALSE)
      BY <2>1 DEF Client!McOwned, Client!mcVars, ClientState, ClientReq, StReqValid, StMemoryOwned, StWrites, InData, Finishing
    <2> QED BY <1>2, <2>2 DEF Client!McTick
  <1>h. CASE ReadDoneEdge \/ WriteDoneEdge
    <2>1. stState \in Finishing /\ stState' \in {"ReadPrepare", "WritePrepare", "Complete"}
      BY <1>h DEF ReadDoneEdge, WriteDoneEdge, ReadFollows, WriteFollows, Finishing
    <2>2. Client!McOwned(TRUE)
      BY <2>1 DEF Client!McOwned, ClientState, ClientReq, StReqValid, StMemoryOwned, Finishing
    <2> QED BY <1>2, <2>2 DEF Client!McTick
  <1> QED BY <1>a, <1>b, <1>c, <1>d, <1>e, <1>f, <1>g, <1>h DEF MoverEdges

\* The mover keeps the rules the memory fabric expects of its bulk client.
THEOREM StClient == StSpec => StImplementsClient
  <1>1. StStart => Client!McInit
    BY DEF StStart, StInit, Client!McInit, ClientState, ClientReq, StReqValid, StMemoryOwned
  <1>2. StInv /\ [StNext]_stVars => [Client!McNext]_(Client!mcVars)
    <2> SUFFICES ASSUME StInv, [StNext]_stVars PROVE [Client!McNext]_(Client!mcVars)
      OBVIOUS
    <2>1. CASE StNext
      BY <2>1, StNextEdges, StInvKeeps, ClientStep
    <2>2. CASE UNCHANGED stVars
      BY <2>2 DEF stVars, stRegs, stCounters, Client!mcVars, ClientState, ClientReq, StReqValid, StMemoryOwned, StWrites
    <2> QED BY <2>1, <2>2
  <1> QED BY <1>1, <1>2, StInvariant, PTL DEF StSpec, StImplementsClient, Client!McSpec

-----------------------------------------------------------------------------
(* The counters wrap. *)

Following(n) == IF n = CounterSize - 1 THEN 0 ELSE n + 1
Counters == 0 .. CounterSize - 1

LEMMA Remainder ==
    ASSUME NEW d \in Nat \ {0}, NEW a \in 0 .. d + d - 1
    PROVE  a % d = IF a < d THEN a ELSE a - d
  <1>1. PICK q \in Nat, r \in 0 .. d - 1 : r = a % d /\ a = d * q + r
    BY SMT
  <1>2. d * q \in Nat
    BY SMT
  <1>3. CASE q = 0
    BY <1>1, <1>3, SMT
  <1>4. CASE q = 1
    BY <1>1, <1>4, SMT
  <1>5. CASE q \notin {0, 1}
    <2>1. PICK k \in Nat : q = 2 + k
      <3>1. q - 2 \in Nat /\ q = 2 + (q - 2)
        BY <1>5
      <3> QED BY <3>1
    <2>2. d * q = d + d + d * k /\ d * k \in Nat
      BY <2>1, SMT
    <2> QED BY <1>1, <2>2
  <1> QED BY <1>3, <1>4, <1>5

\* What Count and AccOutstanding make of the counters.
LEMMA Counting ==
    ASSUME NEW n \in Counters
    PROVE  /\ (n + 1) % CounterSize = Following(n) /\ Following(n) \in Counters
           /\ (n + CounterSize - n) % CounterSize = 0
           /\ (Following(n) + CounterSize - n) % CounterSize = 1
  <1> DEFINE d == CounterSize
  <1>1. d \in Nat \ {0, 1} /\ n \in 0 .. d - 1
    BY TcAssumption DEF Counters
  <1> HIDE DEF d
  <1>2. (n + 1) % d = (IF n = d - 1 THEN 0 ELSE n + 1)
    <2> DEFINE m == n + 1
    <2>1. m \in 0 .. d + d - 1 /\ d \in Nat \ {0}
      BY <1>1
    <2>2. m % d = IF m < d THEN m ELSE m - d
      <3> HIDE DEF m
      <3> QED BY <2>1, Remainder
    <2>3. m = n + 1 /\ (m < d <=> n # d - 1) /\ (n = d - 1 => m - d = 0)
      BY <1>1
    <2> HIDE DEF m
    <2> QED BY <2>2, <2>3
  <1>3. (n + d - n) % d = 0
    <2>1. n + d - n = d
      BY <1>1
    <2> QED BY <1>1, <2>1, Remainder
  <1>4. ((IF n = d - 1 THEN 0 ELSE n + 1) + d - n) % d = 1
    <2>1. CASE n = d - 1
      <3>1. 0 + d - n = 1
        BY <1>1, <2>1
      <3>2. 1 % d = 1
        BY <1>1, Remainder
      <3> QED BY <2>1, <3>1, <3>2
    <2>2. CASE n # d - 1
      <3>1. n + 1 + d - n = d + 1
        BY <1>1
      <3>2. (d + 1) % d = 1
        BY <1>1, Remainder
      <3> QED BY <2>2, <3>1, <3>2
    <2> QED BY <2>1, <2>2
  <1>5. (IF n = d - 1 THEN 0 ELSE n + 1) \in 0 .. d - 1
    BY <1>1
  <1> QED BY <1>2, <1>3, <1>4, <1>5 DEF Following, Counters, d

-----------------------------------------------------------------------------
(* The control and the shells: the inductive invariant. *)

AccTypeOK ==
    /\ pmState \in PmStates /\ tcAccepted \in Counters /\ tcCompleted \in Counters
    /\ tcDonePrevious \in BOOLEAN

\* Where the two counters stand in each state of the mover.
Credit ==
    /\ pmState = "Idle" => tcAccepted = tcCompleted
    /\ pmState = "Working" => tcAccepted = Following(tcCompleted) /\ ~tcDonePrevious
    /\ pmState = "Complete" =>
          tcAccepted = IF tcDonePrevious THEN tcCompleted ELSE Following(tcCompleted)
    /\ pmState = "Stopped" => tcAccepted \in {tcCompleted, Following(tcCompleted)}

RouteHeld == PmBusy /\ ~AccCancel => accRoute = accRouteTaken

\* What a shell and its engine know of the access they were asked for.
ShellsRemember ==
    \A e \in Engines :
        /\ shRvalid[e] <=> accAsked.dev = e
        /\ shRvalid[e] => /\ shCancelled <=> accAsked.cancelled
                          /\ engRvalid[e] <=> ~accAsked.cancelled

AccInv == AccTypeOK /\ Credit /\ RouteHeld /\ ShellsRemember

\* A doorbell that is not refused has its effect exactly when it may.
LEMMA Doorbell ==
    ASSUME NEW access \in Accesses
    PROVE  /\ TcStarts(For(access, "Transfer"), AccCancel) => TcReady(AccCancel) /\ access.dev = "Transfer"
           /\ TcAcks(For(access, "Transfer"), AccCancel) => PmDone(AccCancel)
  <1>1. ASSUME NEW r \in For(access, "Transfer")
        PROVE  /\ access.dev = "Transfer" /\ r.aligned \in BOOLEAN
    <2>1. access.dev = "Transfer" /\ r = access.op
      BY DEF For
    <2>2. access \in [dev : {"Transfer"}, op : TransferAccesses]
      BY <2>1 DEF Accesses, None, Engines
    <2> QED BY <2>1, <2>2, AccAssumption
  <1>2. ASSUME NEW r \in For(access, "Transfer"), IsCommand(r), AccessFault(r, AccCancel) = 0
        PROVE  /\ r.data = "Start" => TcReady(AccCancel)
               /\ r.data = "Ack" => PmDone(AccCancel)
    <2>1. r.reg = "Command" /\ r.we /\ r.reg \notin StagingRegs
      BY <1>2, TcAssumption DEF IsCommand
    <2>2. CASE ~r.aligned
      <3>1. AccessFault(r, AccCancel) = 3
        BY <2>1, <2>2 DEF AccessFault
      <3> QED BY <1>2, <3>1
    <2>3. CASE r.aligned
      <3>1. AccessFault(r, AccCancel) =
               IF r.be # Lanes \/ r.data \notin Doorbells THEN 2
               ELSE IF (r.data = "Start" /\ ~TcReady(AccCancel)) \/ (r.data = "Ack" /\ ~PmDone(AccCancel))
               THEN 1 ELSE 0
        BY <1>1, <1>2, <2>1, <2>3 DEF AccessFault
      <3> QED BY <1>2, <3>1
    <2> QED BY <1>1, <2>2, <2>3
  <1> QED BY <1>1, <1>2 DEF TcStarts, TcAcks, Rings

\* A cancellation stands until the cluster is reset.
LEMMA CancelStands ==
    ASSUME NEW access, NEW engineBusy, AccClock(access, engineBusy)
    PROVE  AccCancel => AccCancel'
  BY DEF AccClock, AccCancel

\* What the mover does on an edge, as the control sees it.
LEMMA MoverEdge ==
    ASSUME pmState \in PmStates, NEW start, NEW cmd, NEW ack, start => TcReady(AccCancel),
           PmTick(AccCancel, start, cmd, ack)
    PROVE  /\ pmState' \in PmStates
           /\ start => pmState = "Idle" /\ pmState' = "Working"
           /\ pmState = "Idle" => pmState' \in {"Idle", "Working", "Stopped"} /\ (pmState' = "Working" => start)
           /\ pmState = "Working" => pmState' \in {"Working", "Complete", "Stopped"}
           /\ pmState = "Complete" => /\ pmState' \in {"Idle", "Complete", "Stopped"}
                                      /\ pmState' = "Idle" => ack
                                      /\ pmState' = "Complete" => PmDone(AccCancel)
           /\ pmState = "Stopped" => pmState' = "Stopped"
  <1>1. start => pmState = "Idle" /\ ~PmCancelled(AccCancel)
    BY DEF TcReady, PmReady
  <1>2. CASE PmIdle(AccCancel, start, cmd)
    <2>1. pmState = "Idle"
      BY <1>2 DEF PmIdle
    <2>2. CASE PmCancelled(AccCancel)
      BY <1>1, <1>2, <2>1, <2>2 DEF PmIdle, PmStates
    <2>3. CASE ~PmCancelled(AccCancel) /\ start
      BY <1>1, <1>2, <2>1, <2>3 DEF PmIdle, PmStates
    <2>4. CASE ~PmCancelled(AccCancel) /\ ~start
      BY <1>1, <1>2, <2>1, <2>4 DEF PmIdle, PmStates
    <2> QED BY <2>2, <2>3, <2>4
  <1>3. CASE PmWorking(AccCancel)
    BY <1>1, <1>3 DEF PmWorking, PmStates
  <1>4. CASE PmComplete(AccCancel, ack)
    BY <1>1, <1>4 DEF PmComplete, PmStates, PmDone
  <1>5. CASE PmStopped
    BY <1>1, <1>5 DEF PmStopped, PmStates, pmVars
  <1> QED BY <1>2, <1>3, <1>4, <1>5 DEF PmTick

LEMMA AccClockKeeps ==
    ASSUME AccInv, NEW access \in Accesses, NEW engineBusy \in BOOLEAN, AccClock(access, engineBusy)
    PROVE  AccInv'
  <1> DEFINE start == TcStarts(For(access, "Transfer"), AccCancel)
             ack == TcAcks(For(access, "Transfer"), AccCancel)
  <1>1. /\ start => TcReady(AccCancel) /\ access.dev = "Transfer"
        /\ ack => PmDone(AccCancel)
    BY Doorbell
  <1>2. /\ TcTick(For(access, "Transfer"), AccCancel)
        /\ PmTick(AccCancel, start, tcStaging, ack)
        /\ Shells(access) /\ Routes(access, engineBusy) /\ AccHistory(access)
    BY DEF AccClock
  <1>3. /\ tcDonePrevious' = PmDone(AccCancel)
        /\ tcCompleted' = Count(tcCompleted, CompletionEdge(AccCancel))
        /\ tcAccepted' = Count(tcAccepted, start)
    BY <1>2 DEF TcTick
  <1> HIDE DEF start, ack
  <1>4. /\ pmState' \in PmStates
        /\ start => pmState = "Idle" /\ pmState' = "Working"
        /\ pmState = "Idle" => pmState' \in {"Idle", "Working", "Stopped"} /\ (pmState' = "Working" => start)
        /\ pmState = "Working" => pmState' \in {"Working", "Complete", "Stopped"}
        /\ pmState = "Complete" => /\ pmState' \in {"Idle", "Complete", "Stopped"}
                                   /\ pmState' = "Idle" => ack
                                   /\ pmState' = "Complete" => PmDone(AccCancel)
        /\ pmState = "Stopped" => pmState' = "Stopped"
    BY <1>1, <1>2, MoverEdge DEF AccInv, AccTypeOK
  <1>5. /\ tcAccepted' = (IF start THEN Following(tcAccepted) ELSE tcAccepted)
        /\ tcCompleted' = (IF PmDone(AccCancel) /\ ~tcDonePrevious THEN Following(tcCompleted) ELSE tcCompleted)
        /\ tcAccepted' \in Counters /\ tcCompleted' \in Counters
    BY <1>3, Counting DEF AccInv, AccTypeOK, Count, CompletionEdge
  <1>6. PmDone(AccCancel) => pmState = "Complete"
    BY DEF PmDone
  <1>7. AccTypeOK'
    BY <1>3, <1>4, <1>5 DEF AccTypeOK, PmDone
  <1>8. Credit'
    BY <1>1, <1>3, <1>4, <1>5, <1>6 DEF AccInv, AccTypeOK, Credit, PmStates
  <1>9. RouteHeld'
    <2>1. SUFFICES ASSUME PmBusy', ~AccCancel' PROVE accRoute' = accRouteTaken'
      BY DEF RouteHeld
    <2>2. ~AccCancel
      BY <2>1, CancelStands
    <2>3. CASE PmBusy
      <3>1. accRoute' = accRoute
        BY <1>2, <2>2, <2>3 DEF Routes, RouteLocked
      <3>2. accRouteTaken' = accRouteTaken
        BY <1>2, <2>3 DEF AccHistory, PmBusy
      <3> QED BY <2>2, <2>3, <3>1, <3>2 DEF AccInv, RouteHeld
    <2>4. CASE ~PmBusy
      <3>1. start /\ pmState = "Idle" /\ pmState' = "Working"
        BY <1>4, <2>1, <2>4 DEF PmBusy, AccInv, AccTypeOK, PmStates
      <3>2. accRoute' = accRoute
        BY <1>1, <1>2, <2>2, <3>1 DEF Routes
      <3>3. accRouteTaken' = accRoute
        BY <1>2, <3>1 DEF AccHistory
      <3> QED BY <3>2, <3>3
    <2> QED BY <2>3, <2>4
  <1>10. ShellsRemember'
    BY <1>2 DEF ShellsRemember, Shells, ReachesEngine, AccHistory, Engines, NotAsked
  <1> QED BY <1>7, <1>8, <1>9, <1>10 DEF AccInv

\* A reset leaves nothing of what was before.
LEMMA AccStartInv ==
    ASSUME pmState = "Idle", tcDonePrevious = FALSE, tcAccepted = 0, tcCompleted = 0,
           shRvalid = [e \in Engines |-> FALSE], accAsked = NotAsked
    PROVE  AccInv
  <1>1. AccTypeOK
    <2>1. pmState \in PmStates /\ 0 \in Counters
      BY TcAssumption DEF PmStates, Counters
    <2>2. tcDonePrevious \in BOOLEAN
      OBVIOUS
    <2> QED BY <2>1, <2>2 DEF AccTypeOK
  <1>2. Credit /\ RouteHeld
    BY DEF Credit, RouteHeld, PmBusy
  <1>3. ShellsRemember
    BY DEF ShellsRemember, NotAsked, Engines
  <1> QED BY <1>1, <1>2, <1>3 DEF AccInv

LEMMA AccResetKeeps == ASSUME AccReset PROVE AccInv'
  <1>1. AccTypeOK'
    <2>1. pmState' \in PmStates /\ tcAccepted' = 0 /\ tcCompleted' = 0
      BY DEF AccReset, PmStates
    <2>2. 0 \in Counters
      BY TcAssumption DEF Counters
    <2>3. tcDonePrevious' \in BOOLEAN
      BY DEF AccReset
    <2> QED BY <2>1, <2>2, <2>3 DEF AccTypeOK
  <1>2. Credit' /\ RouteHeld'
    BY DEF AccReset, Credit, RouteHeld, PmBusy
  <1>3. ShellsRemember'
    BY DEF AccReset, ShellsRemember, NotAsked, Engines
  <1> QED BY <1>1, <1>2, <1>3 DEF AccInv

(* The counters follow the one credit, the route of a busy mover stands, and *)
(* the shells know of the last access what the engines were told of it.      *)
THEOREM AccInvariant == AccSpec => []AccInv
  <1>1. AccInit => AccInv
    BY AccStartInv DEF AccInit, PmInit, TcInit
  <1>2. AccInv /\ [AccNext]_accVars => AccInv'
    <2> SUFFICES ASSUME AccInv, [AccNext]_accVars PROVE AccInv'
      OBVIOUS
    <2>1. CASE AccEdge
      BY <2>1, AccClockKeeps DEF AccEdge
    <2>2. CASE AccReset
      BY <2>2, AccResetKeeps
    <2>3. CASE UNCHANGED accVars
      BY <2>3 DEF accVars, pmVars, tcVars, accOwn, AccInv, AccTypeOK, Credit, RouteHeld, ShellsRemember,
                  PmBusy, AccCancel
    <2> QED BY <2>1, <2>2, <2>3 DEF AccNext
  <1> QED BY <1>1, <1>2, PTL DEF AccSpec

(* The counters hart 1 reads tell the truth about the one credit, wherever  *)
(* they wrap, and the route stands for the whole packet.                    *)
THEOREM AccCreditCorrect == AccSpec => []AccCredit
  <1>1. ASSUME AccInv PROVE AccCredit
    <2>1. /\ tcAccepted = tcCompleted => AccOutstanding = 0
          /\ tcAccepted = Following(tcCompleted) => AccOutstanding = 1
      BY <1>1, Counting DEF AccInv, AccTypeOK, AccOutstanding
    <2>2. PmBusy /\ ~AccCancel => accRoute = accRouteTaken
      BY <1>1 DEF AccInv, RouteHeld
    <2>3. pmState \in PmStates /\ Credit
      BY <1>1 DEF AccInv, AccTypeOK
    <2>4. CASE pmState = "Idle"
      BY <2>1, <2>2, <2>3, <2>4 DEF Credit, AccCredit
    <2>5. CASE pmState = "Working"
      BY <2>1, <2>2, <2>3, <2>5 DEF Credit, AccCredit
    <2>6. CASE pmState = "Complete"
      BY <2>1, <2>2, <2>3, <2>6 DEF Credit, AccCredit
    <2>7. CASE pmState = "Stopped"
      BY <2>1, <2>2, <2>3, <2>7 DEF Credit, AccCredit
    <2> QED BY <2>3, <2>4, <2>5, <2>6, <2>7 DEF PmStates
  <1> QED BY <1>1, AccInvariant, PTL

(* An access to an engine is answered on the next edge, with an error        *)
(* exactly if it met a cancellation on its way in or out.                    *)
THEOREM AccAnswersCorrect == AccSpec => []AccAnswers
  <1>1. ASSUME AccInv PROVE AccAnswers
    BY <1>1 DEF AccInv, ShellsRemember, AccAnswers, ShErr
  <1> QED BY <1>1, AccInvariant, PTL
=============================================================================
