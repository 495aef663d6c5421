------------------------ MODULE MemorySystem_proofs ------------------------
(***************************************************************************)
(* Theorems about the memory fabric, for any number of core ports, any     *)
(* bursts of the bulk client and any behaviour of the port, the harts and  *)
(* the host: responses reach the hart that waits for them, success is told *)
(* of what was done, and a quiesced fabric has nothing on the bus.         *)
(***************************************************************************)
EXTENDS MemorySystem, FiniteSetTheorems, WellFoundedInduction, TLAPS

-----------------------------------------------------------------------------
(* The inductive invariant. *)

\* A client's request is what the arbiter holds for it, and the port works on
\* that.
OwnerHeld == arbState # "Idle" => arbReq \in SysRequests /\ arbReq.client = arbOwner

PortFollows == MpBusy => arbState \in {"Active", "Drain"} /\ mpReq = arbReq

\* An access on the bus is one of a request that is open.
PortClean ==
    /\ mpState \in MpStates /\ mpAborted \in BOOLEAN /\ mpOwed \in BOOLEAN /\ mpFault \in 0 .. 12
    /\ mpState \in {"Idle", "Moving", "Answer"} => ~mpOwed

\* Success, on its way from the port to a core's router, is of a word that
\* crossed the port.
Carried ==
    \A c \in Cores :
        arbOwner = c /\ (\/ mpState = "Answer" /\ mpFault = 0
                         \/ arbState = "Respond" /\ arbFault = 0) => sysDone[c]

OffersRequest == mcState = "Offer" => mcReq \in BulkRequests

Awaited ==
    /\ sysWaits \in [Cores -> BOOLEAN] /\ sysDone \in [Cores -> BOOLEAN]
    /\ \A c \in Cores : /\ RtBusy(c) /\ ~hostStop => sysWaits[c]
                        /\ sysWaits[c] => RtBusy(c)

FabricInv == SysInStep /\ OwnerHeld /\ PortFollows /\ PortClean /\ OffersRequest
SysInv == FabricInv /\ Carried /\ Awaited /\ SysHonest

-----------------------------------------------------------------------------
(* Arbitration. *)

\* A non-empty set of naturals has a smallest element.
LEMMA SmallestElement ==
    ASSUME NEW T \in SUBSET Nat, T # {}
    PROVE  \E t \in T : \A u \in T : t <= u
  <1> DEFINE Below == {pair \in Nat \X Nat : pair[1] < pair[2]}
  <1>1. IsWellFoundedOn(Below, Nat)
    BY NatLessThanWellFounded, Zenon DEF OpToRel
  <1>2. PICK t \in T : \A u \in T : ~(<<u, t>> \in Below)
    <2> HIDE DEF Below
    <2> QED BY <1>1, WFMin, Zenon
  <1>3. \A u \in T : t <= u
    <2> SUFFICES ASSUME NEW u \in T, u < t PROVE FALSE
      OBVIOUS
    <2>1. <<u, t>> \in Below
      OBVIOUS
    <2> QED BY <1>2, <2>1, Zenon
  <1> QED BY <1>3

\* Of the clients with a request the arbiter selects one.
LEMMA SelectedIsValid ==
    ASSUME arbRr \in Clients, NEW valid, ArbPending(valid)
    PROVE  ArbSelected(valid) \in Clients /\ valid[ArbSelected(valid)]
  <1> DEFINE T == {ArbTurn(c) : c \in {d \in Clients : valid[d]}}
  <1>1. \A c \in Clients : ArbTurn(c) \in Nat
    BY NClientsAssumption DEF Clients, ArbTurn
  <1>2. T \in SUBSET Nat /\ T # {}
    BY <1>1 DEF ArbPending
  <1>3. PICK t \in T : \A u \in T : t <= u
    <2> HIDE DEF T
    <2> QED BY <1>2, SmallestElement
  <1>4. PICK c \in Clients : valid[c] /\ t = ArbTurn(c)
    BY <1>3
  <1>5. \A d \in Clients : valid[d] => ArbTurn(c) <= ArbTurn(d)
    BY <1>3, <1>4
  <1> QED BY <1>4, <1>5 DEF ArbSelected

-----------------------------------------------------------------------------
(* One clock edge of the port. *)

\* Zero is the completion code of a request that was served.
LEMMA FaultCodes ==
    /\ \A f \in {11} \cup Refusals : f \in 0 .. 12 /\ f # 0
    /\ \A f \in {11} \cup BusFaults : f \in 0 .. 12 /\ f # 0
  BY SysAssumption

LEMMA PortEdge ==
    ASSUME PortClean, NEW abort \in BOOLEAN, NEW flush \in BOOLEAN, NEW rv \in BOOLEAN, NEW req,
           NEW in, NEW out, NEW done \in BOOLEAN,
           MpTick(abort, flush, rv, req, in, out, done)
    PROVE  /\ PortClean'
           /\ mpState = "Idle" /\ ~(rv /\ MpReady(abort, flush)) => UNCHANGED mpVars
           /\ mpState = "Idle" /\ MpBusy' => mpReq' = req
           /\ MpBusy /\ MpBusy' => mpReq' = mpReq
           /\ mpState = "Answer" /\ (done \/ abort) => mpState' = "Idle"
           /\ mpState' = "Answer" /\ mpFault' = 0 =>
                  \/ mpState = "Answer" /\ mpFault = 0
                  \/ mpState = "Closing" /\ mpCount = mpReq.words
  <1> USE DEF PortClean, MpBusy, MpStates, MpReady
  <1>1. CASE rv /\ MpAccept(abort, flush, req)
    <2>1. /\ mpState = "Idle" /\ mpState' = "Open" /\ mpReq' = req
          /\ mpAborted' \in BOOLEAN /\ mpFault' = 0 /\ mpOwed' \in BOOLEAN /\ rv /\ ~abort /\ ~flush
      BY <1>1 DEF MpAccept
    <2> QED BY <2>1
  <1>2. CASE MpRefuse(abort)
    <2>1. mpState = "Open" /\ mpState' = "Answer" /\ mpOwed' = FALSE /\ mpReq' = mpReq /\ mpAborted' \in BOOLEAN
      BY <1>2 DEF MpRefuse, MpLatch
    <2>2. mpFault' \in {11} \cup Refusals
      BY <1>2 DEF MpRefuse
    <2>3. mpFault' \in 0 .. 12 /\ mpFault' # 0
      BY <2>2, FaultCodes
    <2> QED BY <2>1, <2>3
  <1>3. CASE MpWork(abort)
    BY <1>3 DEF MpWork, MpLatch
  <1>4. CASE (IF mpReq.write THEN in ELSE out) /\ MpMove(abort)
    BY <1>4 DEF MpMove, MpInReady, MpOutValid
  <1>5. CASE MpCut(abort)
    BY <1>5 DEF MpCut, MpLatch
  <1>6. CASE MpClose(abort)
    <2>1. mpState = "Closing" /\ mpReq' = mpReq /\ mpAborted' \in BOOLEAN /\ mpOwed' \in BOOLEAN
      BY <1>6 DEF MpClose, MpLatch
    <2>2. \/ mpState' = "Closing" /\ mpFault' = mpFault
          \/ mpState' = "Answer" /\ ~mpOwed' /\ (mpFault' \in {11} \cup BusFaults \/ (mpFault' = 0 /\ mpCount = mpReq.words))
      BY <1>6 DEF MpClose
    <2>3. \/ mpState' = "Closing" /\ mpFault' = mpFault
          \/ mpState' = "Answer" /\ ~mpOwed' /\ ((mpFault' \in 0 .. 12 /\ mpFault' # 0) \/ (mpFault' = 0 /\ mpCount = mpReq.words))
      BY <2>2, FaultCodes
    <2> QED BY <2>1, <2>3
  <1>7. CASE (done \/ abort) /\ MpRetire(abort)
    <2>1. mpState = "Answer" /\ mpState' = "Idle" /\ mpAborted' \in BOOLEAN /\ mpFault' = 0 /\ mpOwed' = mpOwed
      BY <1>7 DEF MpRetire, MpDoneValid
    <2> QED BY <2>1
  <1>8. CASE MpDie(abort)
    BY <1>8 DEF MpDie, MpLatch
  <1>9. CASE MpDead(abort)
    BY <1>9 DEF MpDead, MpLatch
  <1>10. CASE MpWait(abort, rv, flush, in, out, done)
    BY <1>10 DEF MpWait, mpVars
  <1> QED BY <1>1, <1>2, <1>3, <1>4, <1>5, <1>6, <1>7, <1>8, <1>9, <1>10 DEF MpTick

-----------------------------------------------------------------------------
(* One clock edge of the arbiter over the port: it grants the request of one *)
(* client, works for its owner, hands the owner its completion, or rests.    *)

Still(pause) == \A d \in Clients : ~Granted(pause, d)

GrantEdge(pause, c) ==
    /\ arbState = "Idle" /\ arbState' \in {"Issue", "Respond"} /\ (arbState' = "Respond" => arbFault' = 11)
    /\ arbOwner' = c /\ arbReq' = Req[c] /\ ReqValid[c]
    /\ \A d \in Clients : Granted(pause, d) <=> d = c
    /\ ~MpBusy /\ UNCHANGED mpVars

WorkEdge(pause) ==
    /\ Still(pause) /\ UNCHANGED <<arbOwner, arbReq>>
    /\ arbState \notin {"Idle", "Respond"} /\ arbState' # "Idle"
    /\ MpBusy' => arbState' \in {"Active", "Drain"} /\ mpReq' = arbReq
    /\ arbState' = "Respond" /\ arbFault' = 0 => mpState = "Answer" /\ mpFault = 0

DoneEdge(pause) ==
    /\ Still(pause) /\ UNCHANGED <<arbOwner, arbReq>>
    /\ arbState = "Respond" /\ arbState' = "Idle"
    /\ ~MpBusy /\ UNCHANGED mpVars

RestEdge(pause) ==
    /\ Still(pause) /\ UNCHANGED <<arbOwner, arbReq>>
    /\ arbState = "Idle" /\ arbState' = "Idle"
    /\ ~MpBusy /\ UNCHANGED mpVars

LEMMA ArbEdge ==
    ASSUME FabricInv, NEW pause \in BOOLEAN, NEW drives, NEW bulk \in BOOLEAN, hostAbort \in BOOLEAN,
           SysTick(pause, drives, bulk)
    PROVE  /\ arbState' \in ArbStates /\ arbOwner' \in Clients /\ arbRr' \in Clients /\ arbFault' \in 0 .. 12
           /\ PortClean'
           /\ \/ \E c \in Clients : GrantEdge(pause, c)
              \/ WorkEdge(pause) \/ DoneEdge(pause) \/ RestEdge(pause)
           /\ mpState' = "Answer" /\ mpFault' = 0 =>
                  \/ mpState = "Answer" /\ mpFault = 0
                  \/ mpState = "Closing" /\ mpCount = mpReq.words
  <1> DEFINE rv == arbState = "Issue" /\ ~hostAbort
             flush == pause /\ ~ArbBusy
             in == arbState = "Active" /\ ~hostAbort /\ InValid(bulk)[arbOwner]
             out == arbState = "Active" /\ ~hostAbort /\ OutReady(bulk)[arbOwner]
             abort == ArbAbort(hostAbort)
  <1>1. /\ ArbStep(hostAbort, pause, ReqValid, Req, DoneReady)
        /\ MpTick(abort, flush, rv, arbReq, in, out, ArbMpDoneReady)
    BY DEF SysTick, ArbTick
  <1>2. /\ arbState \in ArbStates /\ arbOwner \in Clients /\ arbRr \in Clients /\ arbFault \in 0 .. 12
        /\ MpBusy => arbState \in {"Active", "Drain"} /\ mpReq = arbReq
        /\ PortClean
    BY DEF FabricInv, SysInStep, SysTypeOK, PortFollows
  <1>3. abort \in BOOLEAN /\ flush \in BOOLEAN /\ rv \in BOOLEAN /\ ArbMpDoneReady \in BOOLEAN
    BY DEF ArbAbort, ArbMpDoneReady
  <1>4. /\ PortClean'
        /\ mpState = "Idle" /\ ~(rv /\ MpReady(abort, flush)) => UNCHANGED mpVars
        /\ mpState = "Idle" /\ MpBusy' => mpReq' = arbReq
        /\ MpBusy /\ MpBusy' => mpReq' = mpReq
        /\ mpState = "Answer" /\ (ArbMpDoneReady \/ abort) => mpState' = "Idle"
        /\ mpState' = "Answer" /\ mpFault' = 0 =>
               \/ mpState = "Answer" /\ mpFault = 0
               \/ mpState = "Closing" /\ mpCount = mpReq.words
    <2> HIDE DEF abort, flush, rv, in, out
    <2> QED BY <1>1, <1>2, <1>3, PortEdge
  <1>5. arbState # "Idle" => Still(pause)
    BY DEF Still, Granted, ArbReady
  <1>6. arbState \notin {"Active", "Drain"} => ~MpBusy
    BY <1>2
  <1>7. arbState \notin {"Issue", "Active", "Drain"} => UNCHANGED mpVars
    BY <1>4, <1>6 DEF MpBusy
  <1>g. CASE ArbGrant(hostAbort, pause, ReqValid, Req)
    <2>1. PICK c \in Clients : /\ ArbReady(hostAbort, pause, ReqValid, c)
                              /\ arbOwner' = c /\ arbRr' = ArbNext(c) /\ arbReq' = Req[c]
      BY <1>g DEF ArbGrant
    <2>2. ArbPending(ReqValid) /\ c = ArbSelected(ReqValid)
      BY <2>1 DEF ArbReady
    <2>3. ReqValid[c]
      BY <1>2, <2>2, SelectedIsValid
    <2>4. \A d \in Clients : Granted(pause, d) <=> d = c
      BY <2>1, <2>2 DEF Granted, ArbReady
    <2>5. arbState = "Idle" /\ arbState' \in {"Issue", "Respond"} /\ arbFault' \in {0, 11}
          /\ (arbState' = "Respond" => arbFault' = 11)
      BY <1>g DEF ArbGrant
    <2>6. GrantEdge(pause, c)
      BY <1>6, <1>7, <2>1, <2>3, <2>4, <2>5 DEF GrantEdge
    <2>7. ArbNext(c) \in Clients
      BY NClientsAssumption DEF ArbNext, Clients
    <2> QED BY <1>4, <2>1, <2>5, <2>6, <2>7 DEF ArbStates
  <1>i. CASE ArbIssue(hostAbort)
    <2>1. /\ arbState = "Issue" /\ UNCHANGED <<arbOwner, arbRr, arbReq>>
          /\ \/ hostAbort /\ arbFault' = 11 /\ arbState' = "Respond"
             \/ /\ ~hostAbort /\ arbFault' = arbFault
                /\ arbState' = IF MpReady(FALSE, FALSE) THEN "Active" ELSE arbState
      BY <1>i DEF ArbIssue
    <2>2. MpReady(FALSE, FALSE)
      BY <1>6, <2>1 DEF MpReady, MpBusy
    <2>3. hostAbort => ~MpBusy'
      BY <1>4, <1>6, <2>1 DEF MpBusy, mpVars
    <2>4. MpBusy' => mpReq' = arbReq
      BY <1>4, <1>6, <2>1 DEF MpBusy
    <2>5. WorkEdge(pause)
      BY <1>5, <2>1, <2>2, <2>3, <2>4 DEF WorkEdge
    <2> QED BY <1>2, <1>4, <2>1, <2>2, <2>5 DEF ArbStates
  <1>a. CASE ArbActive(hostAbort) \/ ArbDrain(hostAbort)
    <2>1. /\ arbState \in {"Active", "Drain"} /\ UNCHANGED <<arbOwner, arbRr, arbReq>>
          /\ \/ arbState' \in {"Active", "Drain"} /\ arbFault' = arbFault
             \/ arbState' = "Respond" /\ arbFault' = 11 /\ ~MpBusy
             \/ arbState' = "Respond" /\ arbFault' = mpFault /\ mpState = "Answer"
      BY <1>a DEF ArbActive, ArbAbortedActive, ArbDrain, MpDoneValid, MpQuiesced
    <2>2. ~MpBusy => ~MpBusy'
      BY <1>4, <2>1 DEF MpBusy, mpVars
    <2>3. MpBusy' => mpReq' = arbReq
      BY <1>2, <1>4, <2>2
    <2>4. mpState = "Answer" => ~MpBusy'
      BY <1>4, <2>1 DEF MpBusy, ArbMpDoneReady
    <2>5. WorkEdge(pause)
      BY <1>5, <2>1, <2>2, <2>3, <2>4 DEF WorkEdge
    <2> QED BY <1>2, <1>4, <2>1, <2>5 DEF ArbStates, PortClean
  <1>r. CASE ArbRespond(hostAbort, DoneReady)
    <2>1. arbState = "Respond" /\ arbState' = "Idle" /\ UNCHANGED <<arbOwner, arbRr, arbReq, arbFault>>
      BY <1>r DEF ArbRespond
    <2>2. DoneEdge(pause)
      BY <1>5, <1>6, <1>7, <2>1 DEF DoneEdge
    <2> QED BY <1>2, <1>4, <2>1, <2>2 DEF ArbStates
  <1>w. CASE ArbWait(hostAbort, pause, ReqValid, DoneReady)
    <2>1. UNCHANGED arbRegs
      BY <1>w DEF ArbWait
    <2>2. arbState # "Respond"
      <3>1. SUFFICES ASSUME arbState = "Respond" PROVE DoneReady[arbOwner]
        BY <1>w DEF ArbWait
      <3>2. CASE arbOwner = Bulk
        BY <1>2, <3>1, <3>2 DEF DoneReady, FabricInv, SysInStep, McDoneReady
      <3>3. CASE arbOwner \in Cores
        <4>1. adapter[arbOwner].active
          BY <3>1, <3>3 DEF FabricInv, SysInStep
        <4>2. arbOwner # Bulk
          BY <3>3, NClientsAssumption DEF Cores, Bulk
        <4> QED BY <1>2, <4>1, <4>2 DEF DoneReady
      <3> QED BY <1>2, <3>2, <3>3, NClientsAssumption DEF Clients, Cores, Bulk
    <2>3. arbState = "Idle" /\ Still(pause)
      BY <1>w, <2>2 DEF ArbWait, Still, Granted
    <2>4. RestEdge(pause)
      BY <1>6, <1>7, <2>1, <2>3 DEF RestEdge, arbRegs
    <2> QED BY <1>2, <1>4, <2>1, <2>4 DEF arbRegs
  <1> QED BY <1>1, <1>g, <1>i, <1>a, <1>r, <1>w DEF ArbStep

\* Of the four kinds of edge, what the clients see of each.
LEMMA EdgeSeen ==
    ASSUME FabricInv, NEW pause \in BOOLEAN,
           \/ \E c \in Clients : GrantEdge(pause, c)
           \/ WorkEdge(pause) \/ DoneEdge(pause) \/ RestEdge(pause),
           NEW c \in Clients
    PROVE  /\ Granted(pause, c) => /\ ReqValid[c] /\ arbState = "Idle" /\ arbReq' = Req[c]
                                   /\ arbState' # "Idle" /\ arbOwner' = c
           /\ ~Granted(pause, c) /\ ~(arbState # "Idle" /\ arbOwner = c) => ~(arbState' # "Idle" /\ arbOwner' = c)
           /\ arbState # "Idle" /\ arbOwner = c =>
                  /\ ~Granted(pause, c) /\ arbReq' = arbReq
                  /\ (arbState' # "Idle" /\ arbOwner' = c) <=> ~ArbDoneValid(c)
  <1>1. CASE \E k \in Clients : GrantEdge(pause, k)
    BY <1>1 DEF GrantEdge
  <1>2. CASE WorkEdge(pause)
    BY <1>2 DEF WorkEdge, Still, ArbDoneValid
  <1>3. CASE DoneEdge(pause)
    BY <1>3 DEF DoneEdge, Still, ArbDoneValid
  <1>4. CASE RestEdge(pause)
    BY <1>4 DEF RestEdge, Still
  <1> QED BY <1>1, <1>2, <1>3, <1>4

-----------------------------------------------------------------------------
(* The same edge in a core's port: its adapter and its router. *)

AdapterTypes == [active : BOOLEAN, write : BOOLEAN, sent : BOOLEAN, received : BOOLEAN, bad : BOOLEAN]
RouterTypes == [state : RouterStates, route : Routes, write : BOOLEAN, err : BOOLEAN]

LEMMA BulkIsNoCore == /\ \A c \in Cores : c \in Clients /\ c # Bulk
                      /\ Bulk \in Clients /\ Clients = Cores \cup {Bulk}
  BY NClientsAssumption DEF Cores, Bulk, Clients

LEMMA CoreSignals ==
    ASSUME NEW c \in Cores
    PROVE  ReqValid[c] = AdValid(c) /\ Req[c] = [client |-> c, words |-> 1, write |-> router[c].write]
  BY BulkIsNoCore DEF ReqValid, Req

LEMMA AdapterEdge ==
    ASSUME NEW c \in Cores, NEW pause \in BOOLEAN, adapter[c] \in AdapterTypes, router[c] \in RouterTypes
    PROVE  /\ AdNext(c, pause) \in AdapterTypes
           /\ AdValid(c) /\ Granted(pause, c) =>
                  AdNext(c, pause).active /\ AdNext(c, pause).write = router[c].write
           /\ ~Granted(pause, c) /\ ~adapter[c].active => AdNext(c, pause) = adapter[c]
           /\ adapter[c].active => /\ AdNext(c, pause).active <=> ~AdDone(c)
                                   /\ AdNext(c, pause).write = adapter[c].write
  <1> DEFINE a == adapter[c]
             next == AdNext(c, pause)
  <1>1. CASE AdValid(c) /\ Granted(pause, c)
    <2>1. ~a.active
      BY <1>1 DEF AdValid
    <2>2. next = [NoAccess EXCEPT !.active = TRUE, !.write = router[c].write]
      BY <1>1, <2>1 DEF AdNext
    <2>3. next \in AdapterTypes /\ next.active /\ next.write = router[c].write
      BY <2>2 DEF NoAccess, AdapterTypes, RouterTypes
    <2> QED BY <1>1, <2>1, <2>3
  <1>2. CASE a.active
    <2>1. ~AdValid(c)
      BY <1>2 DEF AdValid
    <2>2. PICK done, sent, received, bad \in BOOLEAN :
              next = [a EXCEPT !.active = ~done, !.sent = a.sent \/ sent,
                               !.received = a.received \/ received, !.bad = a.bad \/ bad]
              /\ (done <=> AdDone(c))
      <3> DEFINE bad == ArbOutValid(hostAbort, c) /\ (a.write \/ a.received \/ ~MpLast)
      <3>1. next = [a EXCEPT !.active = ~AdDone(c), !.sent = @ \/ (AdInValid(c) /\ ArbInReady(hostAbort, c)),
                             !.received = @ \/ ArbOutValid(hostAbort, c), !.bad = @ \/ bad]
        BY <1>2, <2>1 DEF AdNext
      <3> QED BY <3>1 DEF AdDone, AdInValid, ArbInReady, ArbOutValid, ArbOwns, ArbDoneValid
    <2>3. next \in AdapterTypes /\ (next.active <=> ~AdDone(c)) /\ next.write = a.write
      BY <2>2 DEF AdapterTypes
    <2> QED BY <1>2, <2>1, <2>3
  <1>3. CASE ~a.active /\ ~(AdValid(c) /\ Granted(pause, c))
    <2>1. next = a
      BY <1>3 DEF AdNext
    <2> QED BY <1>3, <2>1
  <1> QED BY <1>1, <1>2, <1>3

LEMMA RouterEdge ==
    ASSUME NEW c \in Cores, NEW pause \in BOOLEAN, NEW drive, router[c] \in RouterTypes
    PROVE  /\ RtNext(c, pause, drive) \in RouterTypes
           /\ router[c].state = "Idle" =>
                  RtNext(c, pause, drive).state = IF RtGrants(c, drive) THEN "Send" ELSE "Idle"
           /\ router[c].state = "Send" =>
                  /\ RtNext(c, pause, drive).route = router[c].route
                  /\ RtNext(c, pause, drive).write = router[c].write
                  /\ RtNext(c, pause, drive).state =
                        IF RtTargetGrants(c, pause, drive) THEN "WaitResponse" ELSE "Send"
           /\ router[c].state = "WaitResponse" =>
                  /\ RtNext(c, pause, drive).route = router[c].route
                  /\ RtNext(c, pause, drive).write = router[c].write
                  /\ RtNext(c, pause, drive).state =
                        IF RtTargetAnswers(c, drive) THEN "Respond" ELSE "WaitResponse"
                  /\ RtTargetAnswers(c, drive) => (RtNext(c, pause, drive).err <=> RtTargetErr(c, drive))
           /\ router[c].state = "Respond" => RtNext(c, pause, drive).state = "Idle"
  <1> DEFINE r == router[c]
             next == RtNext(c, pause, drive)
  <1>1. CASE RtGrants(c, drive)
    <2>1. r.state = "Idle"
      BY <1>1 DEF RtGrants
    <2>2. next = [r EXCEPT !.state = "Send", !.write = (drive = "write"),
                           !.route = IF drive = "local" THEN "local" ELSE "ddr"]
      BY <1>1, <2>1 DEF RtNext
    <2>3. next \in RouterTypes /\ next.state = "Send"
      BY <2>2 DEF RouterTypes, RouterStates, Routes
    <2> QED BY <1>1, <2>1, <2>3
  <1>2. CASE r.state = "Send" /\ RtTargetGrants(c, pause, drive)
    <2>1. next = [r EXCEPT !.state = "WaitResponse"]
      BY <1>2 DEF RtNext, RtGrants
    <2>2. next \in RouterTypes /\ next.state = "WaitResponse" /\ next.route = r.route /\ next.write = r.write
      BY <2>1 DEF RouterTypes, RouterStates
    <2> QED BY <1>2, <2>2
  <1>3. CASE r.state = "WaitResponse" /\ RtTargetAnswers(c, drive)
    <2>1. PICK err \in BOOLEAN : (err <=> RtTargetErr(c, drive)) /\ next = [r EXCEPT !.state = "Respond", !.err = err]
      <3>1. RtTargetErr(c, drive) \in BOOLEAN
        BY DEF RtTargetErr, AdErr
      <3>2. next = [r EXCEPT !.state = "Respond", !.err = RtTargetErr(c, drive)]
        BY <1>3 DEF RtNext, RtGrants
      <3> QED BY <3>1, <3>2
    <2>2. /\ next \in RouterTypes /\ next.state = "Respond" /\ next.route = r.route
          /\ next.write = r.write /\ next.err = err
      BY <2>1 DEF RouterTypes, RouterStates
    <2> QED BY <1>3, <2>1, <2>2
  <1>4. CASE r.state = "Respond"
    <2>1. next = [r EXCEPT !.state = "Idle"]
      BY <1>4 DEF RtNext, RtGrants
    <2>2. next \in RouterTypes /\ next.state = "Idle"
      BY <2>1 DEF RouterTypes, RouterStates
    <2> QED BY <1>4, <2>2
  <1>5. CASE /\ ~RtGrants(c, drive) /\ ~(r.state = "Send" /\ RtTargetGrants(c, pause, drive))
             /\ ~(r.state = "WaitResponse" /\ RtTargetAnswers(c, drive)) /\ r.state # "Respond"
    <2>1. next = r
      BY <1>5 DEF RtNext
    <2> QED BY <1>5, <2>1
  <1> QED BY <1>1, <1>2, <1>3, <1>4, <1>5

\* The bulk client owns a request from its grant to its completion.
LEMMA BulkEdge ==
    ASSUME mcState \in McStates, OffersRequest, NEW abort \in BOOLEAN, NEW ready \in BOOLEAN,
           NEW done \in BOOLEAN, McTick(abort, ready, done), ready => mcState = "Offer"
    PROVE  /\ mcState' \in McStates /\ OffersRequest'
           /\ mcState' = "Owned" <=> ready \/ (mcState = "Owned" /\ ~done)
  <1>1. ClientRequests = BulkRequests
    BY SysAssumption
  <1> QED BY <1>1 DEF McTick, McFree, McBetween, McOffer, McOwned, McStates, OffersRequest, mcVars

-----------------------------------------------------------------------------
(* One clock edge of the fabric. *)

LEMMA FabricEdge ==
    ASSUME FabricInv, NEW pause \in BOOLEAN, NEW drives \in [Cores -> Drives], NEW bulk \in BOOLEAN,
           SysClock(pause, drives, bulk)
    PROVE  FabricInv'
  <1>1. /\ SysTypeOK /\ OwnerHeld /\ PortFollows /\ PortClean /\ OffersRequest
        /\ \A c \in Cores : adapter[c] \in AdapterTypes /\ router[c] \in RouterTypes
        /\ hostAbort \in BOOLEAN /\ mcState \in McStates /\ arbOwner \in Clients
    BY DEF FabricInv, SysInStep, SysTypeOK, AdapterTypes, RouterTypes
  <1>2. /\ router' = [c \in Cores |-> RtNext(c, pause, drives[c])]
        /\ adapter' = [c \in Cores |-> AdNext(c, pause)]
        /\ McTick(hostAbort, Granted(pause, Bulk), ArbDoneValid(Bulk))
        /\ SysTick(pause, drives, bulk) /\ HostInputs
    BY DEF SysClock, SysTick
  <1>3. /\ arbState' \in ArbStates /\ arbOwner' \in Clients /\ arbRr' \in Clients /\ arbFault' \in 0 .. 12
        /\ PortClean'
        /\ \/ \E c \in Clients : GrantEdge(pause, c)
           \/ WorkEdge(pause) \/ DoneEdge(pause) \/ RestEdge(pause)
    BY <1>1, <1>2, ArbEdge
  <1>4. \A c \in Clients :
           /\ Granted(pause, c) => /\ ReqValid[c] /\ arbState = "Idle" /\ arbReq' = Req[c]
                                   /\ arbState' # "Idle" /\ arbOwner' = c
           /\ ~Granted(pause, c) /\ ~(arbState # "Idle" /\ arbOwner = c) => ~(arbState' # "Idle" /\ arbOwner' = c)
           /\ arbState # "Idle" /\ arbOwner = c =>
                  /\ ~Granted(pause, c) /\ arbReq' = arbReq
                  /\ (arbState' # "Idle" /\ arbOwner' = c) <=> ~ArbDoneValid(c)
    BY <1>3, EdgeSeen
  <1>5. /\ mcState' \in McStates /\ OffersRequest'
        /\ mcState' = "Owned" <=> arbState' # "Idle" /\ arbOwner' = Bulk
    <2>1. ReqValid[Bulk] = (mcState = "Offer")
      BY BulkIsNoCore DEF ReqValid, McValid
    <2>2. Granted(pause, Bulk) \in BOOLEAN /\ ArbDoneValid(Bulk) \in BOOLEAN
      BY DEF Granted, ArbReady, ArbDoneValid
    <2>3. Granted(pause, Bulk) => mcState = "Offer"
      BY <1>4, <2>1, BulkIsNoCore
    <2>4. /\ mcState' \in McStates /\ OffersRequest'
          /\ mcState' = "Owned" <=> Granted(pause, Bulk) \/ (mcState = "Owned" /\ ~ArbDoneValid(Bulk))
      BY <1>1, <1>2, <2>2, <2>3, BulkEdge
    <2>5. mcState = "Owned" <=> arbState # "Idle" /\ arbOwner = Bulk
      BY DEF FabricInv, SysInStep
    <2> QED BY <1>4, <2>4, <2>5, BulkIsNoCore
  <1>6. ASSUME NEW c \in Cores
        PROVE  /\ adapter'[c] \in AdapterTypes /\ router'[c] \in RouterTypes
               /\ adapter'[c].active <=> arbState' # "Idle" /\ arbOwner' = c
               /\ adapter'[c].active => /\ router'[c].state = "WaitResponse" /\ router'[c].route = "ddr"
                                        /\ adapter'[c].write = arbReq'.write
    <2>1. adapter'[c] = AdNext(c, pause) /\ router'[c] = RtNext(c, pause, drives[c])
      BY <1>2
    <2>2. adapter[c] \in AdapterTypes /\ router[c] \in RouterTypes /\ c \in Clients /\ c # Bulk
      BY <1>1, BulkIsNoCore
    <2>3. /\ adapter[c].active <=> arbState # "Idle" /\ arbOwner = c
          /\ adapter[c].active => /\ router[c].state = "WaitResponse" /\ router[c].route = "ddr"
                                  /\ adapter[c].write = arbReq.write
      BY DEF FabricInv, SysInStep
    <2>4. ReqValid[c] = AdValid(c) /\ Req[c] = [client |-> c, words |-> 1, write |-> router[c].write]
      BY CoreSignals
    <2>5. CASE Granted(pause, c)
      <3>1. AdValid(c) /\ arbReq'.write = router[c].write /\ arbState' # "Idle" /\ arbOwner' = c
        BY <1>4, <2>2, <2>4, <2>5
      <3>2. router[c].state = "Send" /\ router[c].route = "ddr" /\ RtTargetGrants(c, pause, drives[c])
        BY <2>5, <3>1 DEF AdValid, RtSends, RtTargetGrants
      <3>3. /\ RtNext(c, pause, drives[c]) \in RouterTypes
            /\ RtNext(c, pause, drives[c]).state = "WaitResponse" /\ RtNext(c, pause, drives[c]).route = "ddr"
        BY <2>2, <3>2, RouterEdge
      <3>4. /\ AdNext(c, pause) \in AdapterTypes
            /\ AdNext(c, pause).active /\ AdNext(c, pause).write = router[c].write
        BY <2>2, <2>5, <3>1, AdapterEdge
      <3> QED BY <2>1, <3>1, <3>3, <3>4
    <2>6. CASE adapter[c].active
      <3>1. /\ arbReq' = arbReq
            /\ (arbState' # "Idle" /\ arbOwner' = c) <=> ~ArbDoneValid(c)
        BY <1>4, <2>2, <2>3, <2>6
      <3>2. AdDone(c) <=> ArbDoneValid(c)
        BY <2>6 DEF AdDone
      <3>3. RtTargetAnswers(c, drives[c]) <=> AdDone(c)
        BY <2>3, <2>6 DEF RtTargetAnswers
      <3>4. /\ RtNext(c, pause, drives[c]) \in RouterTypes /\ RtNext(c, pause, drives[c]).route = "ddr"
            /\ ~AdDone(c) => RtNext(c, pause, drives[c]).state = "WaitResponse"
        BY <2>2, <2>3, <2>6, <3>3, RouterEdge
      <3>5. /\ AdNext(c, pause) \in AdapterTypes
            /\ AdNext(c, pause).active <=> ~AdDone(c)
            /\ AdNext(c, pause).write = adapter[c].write
        BY <2>2, <2>6, AdapterEdge
      <3> QED BY <2>1, <2>3, <2>6, <3>1, <3>2, <3>4, <3>5
    <2>7. CASE ~Granted(pause, c) /\ ~adapter[c].active
      <3>1. ~(arbState' # "Idle" /\ arbOwner' = c)
        BY <1>4, <2>2, <2>3, <2>7
      <3>2. AdNext(c, pause) = adapter[c]
        BY <2>2, <2>7, AdapterEdge
      <3>3. RtNext(c, pause, drives[c]) \in RouterTypes
        BY <2>2, RouterEdge
      <3> QED BY <2>1, <2>2, <2>7, <3>1, <3>2, <3>3
    <2> QED BY <2>5, <2>6, <2>7
  <1>7. OwnerHeld'
    <2>1. SUFFICES ASSUME arbState' # "Idle" PROVE arbReq' \in SysRequests /\ arbReq'.client = arbOwner'
      BY DEF OwnerHeld
    <2>2. CASE Granted(pause, arbOwner')
      <3>1. ReqValid[arbOwner'] /\ arbReq' = Req[arbOwner']
        BY <1>3, <1>4, <2>2
      <3>2. CASE arbOwner' = Bulk
        <4>1. mcState = "Offer" /\ arbReq' = mcReq
          BY <3>1, <3>2, BulkIsNoCore DEF ReqValid, Req, McValid
        <4> QED BY <1>1, <3>2, <4>1 DEF OffersRequest, SysRequests, BulkRequests
      <3>3. CASE arbOwner' \in Cores
        <4>1. arbReq' = [client |-> arbOwner', words |-> 1, write |-> router[arbOwner'].write]
          BY <3>1, <3>3, CoreSignals
        <4>2. router[arbOwner'].write \in BOOLEAN
          BY <1>1, <3>3 DEF RouterTypes
        <4> QED BY <3>3, <4>1, <4>2 DEF SysRequests
      <3> QED BY <1>3, <3>2, <3>3, BulkIsNoCore
    <2>3. CASE ~Granted(pause, arbOwner')
      <3>1. arbState # "Idle" /\ arbOwner = arbOwner'
        BY <1>3, <1>4, <2>1, <2>3
      <3>2. arbReq' = arbReq
        BY <1>1, <1>4, <3>1
      <3> QED BY <1>1, <3>1, <3>2 DEF OwnerHeld
    <2> QED BY <2>2, <2>3
  <1>8. PortFollows'
    BY <1>3 DEF PortFollows, GrantEdge, WorkEdge, DoneEdge, RestEdge, MpBusy, mpVars
  <1>9. SysTypeOK'
    <2>1. hostAbort' \in BOOLEAN /\ hostStop' \in BOOLEAN
      BY <1>2 DEF HostInputs
    <2>2. router' \in [Cores -> RouterTypes]
      BY <1>2, <1>6
    <2>3. adapter' \in [Cores -> AdapterTypes]
      BY <1>2, <1>6
    <2> QED BY <1>3, <1>5, <2>1, <2>2, <2>3 DEF SysTypeOK, RouterTypes, AdapterTypes
  <1>10. SysInStep'
    <2>1. MpBusy' => arbState' \in {"Active", "Drain"} /\ mpReq' = arbReq' /\ mpReq'.client = arbOwner'
      BY <1>7, <1>8 DEF PortFollows, OwnerHeld
    <2> QED BY <1>5, <1>6, <1>9, <2>1 DEF SysInStep
  <1> QED BY <1>3, <1>5, <1>7, <1>8, <1>10 DEF FabricInv

\* What an edge does to the access a core's port has open.
LEMMA AccessEdge ==
    ASSUME SysInv, NEW pause \in BOOLEAN, NEW drives \in [Cores -> Drives], NEW bulk \in BOOLEAN,
           SysClock(pause, drives, bulk), NEW c \in Cores
    PROVE  /\ router'[c].state = "Respond" =>
                  /\ router[c].state = "WaitResponse" /\ RtTargetAnswers(c, drives[c])
                  /\ router'[c].err <=> RtTargetErr(c, drives[c])
           /\ router'[c].state # "Idle" <=> RtGrants(c, drives[c]) \/ router[c].state \notin {"Idle", "Respond"}
           /\ sysWaits'[c] <=>
                  /\ ~hostStop'
                  /\ RtGrants(c, drives[c]) \/ (sysWaits[c] /\ router[c].state # "Respond")
           /\ sysDone'[c] <=>
                  /\ router[c].state = "WaitResponse"
                  /\ \/ sysDone[c]
                     \/ IF router[c].route = "ddr" THEN Completes(c) ELSE drives[c] = "ok"
  <1>1. router[c] \in RouterTypes
    BY DEF SysInv, FabricInv, SysInStep, SysTypeOK, RouterTypes
  <1>2. router'[c] = RtNext(c, pause, drives[c])
    BY DEF SysClock, SysTick
  <1>3. router[c].state \in RouterStates
    BY <1>1 DEF RouterTypes
  <1>4. RtGrants(c, drives[c]) => router[c].state = "Idle"
    BY DEF RtGrants
  <1>5. /\ router'[c].state = "Respond" =>
              /\ router[c].state = "WaitResponse" /\ RtTargetAnswers(c, drives[c])
              /\ router'[c].err <=> RtTargetErr(c, drives[c])
        /\ router'[c].state # "Idle" <=> RtGrants(c, drives[c]) \/ router[c].state \notin {"Idle", "Respond"}
    BY <1>1, <1>2, <1>3, <1>4, RouterEdge DEF RouterStates
  <1>6. /\ sysWaits' = [k \in Cores |->
               ~hostStop' /\ (RtGrants(k, drives[k]) \/ (sysWaits[k] /\ router[k].state # "Respond"))]
        /\ sysDone' = [k \in Cores |->
               /\ router[k].state = "WaitResponse"
               /\ \/ sysDone[k]
                  \/ IF router[k].route = "ddr" THEN Completes(k) ELSE drives[k] = "ok"]
    BY DEF SysClock, SysHistory
  <1> QED BY <1>5, <1>6

\* A hart awaits a response exactly while its port works on its request.
LEMMA AwaitedEdge ==
    ASSUME SysInv, NEW pause \in BOOLEAN, NEW drives \in [Cores -> Drives], NEW bulk \in BOOLEAN,
           SysClock(pause, drives, bulk)
    PROVE  Awaited'
  <1>1. sysWaits' \in [Cores -> BOOLEAN]
    BY DEF SysClock, SysHistory
  <1>2. sysDone' \in [Cores -> BOOLEAN]
    <2>1. \A c \in Cores : sysDone[c] \in BOOLEAN
      BY DEF SysInv, Awaited
    <2>2. \A c \in Cores : Completes(c) \in BOOLEAN
      BY DEF Completes
    <2> QED BY <2>1, <2>2 DEF SysClock, SysHistory
  <1>3. ASSUME NEW c \in Cores
        PROVE  /\ router'[c].state # "Idle" /\ ~hostStop' => sysWaits'[c]
               /\ sysWaits'[c] => router'[c].state # "Idle"
    <2>1. /\ RtBusy(c) /\ ~hostStop => sysWaits[c]
          /\ sysWaits[c] => RtBusy(c)
      BY DEF SysInv, Awaited
    <2>2. RtBusy(c) /\ hostStop => hostStop'
      BY DEF SysClock, HostInputs, SysBusy, CoresBusy
    <2>3. /\ router'[c].state # "Idle" <=> RtGrants(c, drives[c]) \/ router[c].state \notin {"Idle", "Respond"}
          /\ sysWaits'[c] <=>
                 /\ ~hostStop'
                 /\ RtGrants(c, drives[c]) \/ (sysWaits[c] /\ router[c].state # "Respond")
      BY AccessEdge
    <2> QED BY <2>1, <2>2, <2>3 DEF RtBusy
  <1> QED BY <1>1, <1>2, <1>3 DEF Awaited, RtBusy

\* Success travels from the port to the router it belongs to, and no other.
LEMMA CarriedEdge ==
    ASSUME SysInv, NEW pause \in BOOLEAN, NEW drives \in [Cores -> Drives], NEW bulk \in BOOLEAN,
           SysClock(pause, drives, bulk)
    PROVE  Carried'
  <1>1. SUFFICES ASSUME NEW c \in Cores, arbOwner' = c,
                        \/ mpState' = "Answer" /\ mpFault' = 0
                        \/ arbState' = "Respond" /\ arbFault' = 0
                 PROVE  sysDone'[c]
    BY DEF Carried
  <1>2. FabricInv /\ Carried /\ SysTick(pause, drives, bulk) /\ hostAbort \in BOOLEAN
    BY DEF SysInv, FabricInv, SysInStep, SysTypeOK, SysClock
  <1>3. /\ \/ \E k \in Clients : GrantEdge(pause, k)
           \/ WorkEdge(pause) \/ DoneEdge(pause) \/ RestEdge(pause)
        /\ mpState' = "Answer" /\ mpFault' = 0 =>
               \/ mpState = "Answer" /\ mpFault = 0
               \/ mpState = "Closing" /\ mpCount = mpReq.words
    BY <1>2, ArbEdge
  <1>4. WorkEdge(pause)
    <2>1. ~\E k \in Clients : GrantEdge(pause, k)
      <3>1. \A k \in Clients : GrantEdge(pause, k) => arbFault' = 11 \/ arbState' # "Respond"
        BY DEF GrantEdge
      <3>2. \A k \in Clients : GrantEdge(pause, k) => mpState' # "Answer"
        BY DEF GrantEdge, MpBusy, mpVars
      <3> QED BY <1>1, <3>1, <3>2
    <2>2. ~DoneEdge(pause) /\ ~RestEdge(pause)
      BY <1>1 DEF DoneEdge, RestEdge, MpBusy, mpVars
    <2> QED BY <1>3, <2>1, <2>2
  <1>5. /\ arbOwner = c /\ arbState # "Idle"
        /\ arbState' = "Respond" /\ arbFault' = 0 => mpState = "Answer" /\ mpFault = 0
    BY <1>1, <1>4 DEF WorkEdge
  <1>6. router[c].state = "WaitResponse" /\ router[c].route = "ddr"
    BY <1>2, <1>5 DEF FabricInv, SysInStep
  <1>7. CASE mpState = "Answer" /\ mpFault = 0
    <2>1. sysDone[c]
      BY <1>2, <1>5, <1>7 DEF Carried
    <2> QED BY <1>6, <2>1, AccessEdge
  <1>8. CASE ~(mpState = "Answer" /\ mpFault = 0)
    <2>1. mpState = "Closing" /\ mpCount = mpReq.words /\ mpState' = "Answer" /\ mpFault' = 0
      BY <1>1, <1>3, <1>5, <1>8
    <2>2. mpReq.client = c
      BY <1>2, <1>5, <2>1 DEF FabricInv, SysInStep, MpBusy
    <2>3. Completes(c)
      BY <2>1, <2>2 DEF Completes
    <2> QED BY <1>6, <2>3, AccessEdge
  <1> QED BY <1>7, <1>8

\* A router reports success only of an access its target carried out.
LEMMA HonestEdge ==
    ASSUME SysInv, NEW pause \in BOOLEAN, NEW drives \in [Cores -> Drives], NEW bulk \in BOOLEAN,
           SysClock(pause, drives, bulk)
    PROVE  SysHonest'
  <1>1. SUFFICES ASSUME NEW c \in Cores, router'[c].state = "Respond", ~router'[c].err
                 PROVE  sysDone'[c]
    BY DEF SysHonest
  <1>2. router[c].state = "WaitResponse" /\ RtTargetAnswers(c, drives[c]) /\ ~RtTargetErr(c, drives[c])
    BY <1>1, AccessEdge
  <1>3. CASE router[c].route = "ddr"
    <2>1. arbState = "Respond" /\ arbOwner = c /\ arbFault = 0
      BY <1>2, <1>3 DEF RtTargetAnswers, RtTargetErr, AdDone, ArbDoneValid, AdErr
    <2>2. sysDone[c]
      BY <2>1 DEF SysInv, Carried
    <2> QED BY <1>2, <2>2, AccessEdge
  <1>4. CASE router[c].route # "ddr"
    <2>1. drives[c] \in DrivesOf(c)
      BY DEF SysClock
    <2>2. router[c].route = "local"
      BY <1>4 DEF SysInv, FabricInv, SysInStep, SysTypeOK, Routes
    <2>3. DrivesOf(c) = {"none", "ok", "err"}
      BY <1>2, <2>2 DEF DrivesOf, RtBusy, RtSends
    <2>4. drives[c] = "ok"
      BY <1>2, <1>4, <2>1, <2>3 DEF RtTargetAnswers, RtTargetErr
    <2> QED BY <1>2, <1>4, <2>4, AccessEdge
  <1> QED BY <1>3, <1>4

LEMMA SysStarts == SysStart => SysInv
  <1> SUFFICES ASSUME SysStart PROVE SysInv
    OBVIOUS
  <1>1. /\ \A c \in Cores : ~adapter[c].active /\ router[c].state = "Idle" /\ ~sysWaits[c]
        /\ mcState = "Free" /\ arbState = "Idle" /\ mpState = "Idle"
    BY DEF SysStart, NoAccess, McInit, ArbInit, MpInit
  <1>2. router \in [Cores -> [state : RouterStates, route : Routes, write : BOOLEAN, err : BOOLEAN]]
    BY DEF SysStart, RouterStates, Routes
  <1>3. adapter \in [Cores -> AdapterTypes]
    BY DEF SysStart, NoAccess, AdapterTypes
  <1>4. /\ arbState \in ArbStates /\ arbOwner \in Clients /\ arbRr \in Clients /\ arbFault \in 0 .. 12
    BY NClientsAssumption DEF SysStart, ArbInit, ArbStates, Clients
  <1>5. mcState \in McStates /\ hostAbort \in BOOLEAN /\ hostStop \in BOOLEAN
    BY DEF SysStart, McInit, McStates
  <1>6. SysInStep
    BY <1>1, <1>2, <1>3, <1>4, <1>5 DEF SysInStep, SysTypeOK, AdapterTypes, MpBusy
  <1>7. PortClean
    <2>1. mpState \in MpStates /\ mpAborted \in BOOLEAN /\ mpOwed \in BOOLEAN /\ ~mpOwed
      BY DEF SysStart, MpInit, MpStates
    <2>2. mpFault \in 0 .. 12
      BY DEF SysStart, MpInit
    <2> QED BY <2>1, <2>2 DEF PortClean
  <1>8. FabricInv
    BY <1>1, <1>6, <1>7 DEF FabricInv, OwnerHeld, PortFollows, OffersRequest, MpBusy
  <1>9. Awaited
    BY <1>1 DEF SysStart, Awaited, RtBusy
  <1> QED BY <1>1, <1>8, <1>9 DEF SysInv, Carried, SysHonest

-----------------------------------------------------------------------------
(* The theorems. *)

\* Every register of the fabric stays in step with the one request that is
\* being served, whatever harts, host, bulk client and port do on an edge.
THEOREM SysInvariant == SysSpec => []SysInv
  <1>1. SysInv /\ [SysNext]_sysVars => SysInv'
    <2> SUFFICES ASSUME SysInv, [SysNext]_sysVars PROVE SysInv'
      OBVIOUS
    <2>1. CASE SysNext
      <3>1. PICK pause \in BOOLEAN, bulk \in BOOLEAN, drives \in [Cores -> Drives] : SysClock(pause, drives, bulk)
        BY <2>1 DEF SysNext
      <3>2. FabricInv'
        BY <3>1, FabricEdge DEF SysInv
      <3>3. Carried' /\ Awaited' /\ SysHonest'
        BY <3>1, CarriedEdge, AwaitedEdge, HonestEdge
      <3> QED BY <3>2, <3>3 DEF SysInv
    <2>2. CASE UNCHANGED sysVars
      BY <2>2 DEF sysVars, sysMachine, mcVars, arbRegs, mpVars, SysInv, FabricInv, SysInStep, SysTypeOK,
                  OwnerHeld, PortFollows, PortClean, Carried, OffersRequest, Awaited, SysHonest,
                  MpBusy, RtBusy
    <2> QED BY <2>1, <2>2
  <1> QED BY <1>1, SysStarts, PTL DEF SysSpec

\* A running hart awaits exactly the response its router is working on, and
\* completions go to the registered owner alone: with any number of cores,
\* bursts of any length and aborts and drained resets at any time.
THEOREM SysResponsesOwnedCorrect == SysSpec => []SysResponsesOwned
  <1>1. SysInv => SysResponsesOwned
    BY DEF SysInv, FabricInv, Awaited, SysResponsesOwned
  <1> QED BY <1>1, SysInvariant, PTL

\* A hart that is told of success had its access carried out: the error
\* paths of the adapter, the arbiter and the port lose no failure.
THEOREM SysHonestCorrect == SysSpec => []SysHonest
  <1>1. SysInv => SysHonest
    BY DEF SysInv
  <1> QED BY <1>1, SysInvariant, PTL

\* Reported quiescence is real: nothing is left on the bus, no client asks
\* and no hart waits, so the kernel may take the pages back.
THEOREM SysQuiescedCleanCorrect == SysSpec => []SysQuiescedClean
  <1>1. SysInv => SysQuiescedClean
    <2> SUFFICES ASSUME SysInv, SysQuiesced PROVE SysQuiescedClean
      BY DEF SysQuiescedClean
    <2>1. /\ ~MpBusy /\ ~ArbPending(ReqValid) /\ ~CoresBusy
      BY DEF SysQuiesced, ArbQuiesced, ArbBusy
    <2>2. ~mpOwed
      BY <2>1 DEF SysInv, FabricInv, PortClean, MpBusy
    <2>3. \A c \in Clients : ~ReqValid[c]
      BY <2>1 DEF ArbPending
    <2>4. \A c \in Cores : ~sysWaits[c]
      BY <2>1 DEF SysInv, Awaited, CoresBusy
    <2> QED BY <2>2, <2>3, <2>4 DEF SysQuiescedClean
  <1> QED BY <1>1, SysInvariant, PTL
=============================================================================
