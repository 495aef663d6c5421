--------------------------- MODULE LocalBus_proofs ---------------------------
(***************************************************************************)
(* Proofs about SharedBus, AxiLiteBridge and LocalBus: the bus alone, for  *)
(* any number of hosts, any devices and any number of answers a host may   *)
(* be waiting for; the bridge alone, for any addresses and data and either *)
(* kind of host; and the bridge on the bus, for any number of harts next   *)
(* to it.                                                                  *)
(***************************************************************************)
EXTENDS LocalBus, FiniteSetTheorems, TLAPS

-----------------------------------------------------------------------------
(* The bus: the inductive invariant. *)

\* A captured request is still the one its host asks for, and its buffer is
\* not in the cycle in which it may not capture.
PendingHeld ==
    \A h \in Hosts : sbPending[h] # NoRequest => sbReq[h] = sbPending[h] /\ ~sbRearm[h]

\* The re-arm guard is up for exactly the host being granted.
RearmIsGrant == \A h \in Hosts : sbRearm[h] <=> Granted(h)

\* The request being granted is what its host asks for and has left its
\* buffer, and the pointer is past its host.
IssueLeft ==
    sbIssue # NoIssue =>
        /\ sbReq[sbIssue.host] = sbIssue.req /\ sbPending[sbIssue.host] = NoRequest
        /\ sbRr = IF sbIssue.host = NrHosts - 1 THEN 0 ELSE sbIssue.host + 1

\* The pipeline is one answer deep: what a host waits for is what is in the
\* response stage, and only the device named there has something to say.
PipelineDepth ==
    /\ \A h \in Hosts : sbAwaited[h] = IF sbResp # NoIssue /\ sbResp.host = h
                                       THEN <<sbResp.req>> ELSE <<>>
    /\ \A d \in Devices : sbAnswer[d] = IF sbResp.req = d THEN sbResp ELSE NoIssue

\* A waiting host has been passed by fewer hosts than are between the place
\* the pointer had and its own.
InPipeline == IF sbIssue = NoIssue THEN 0 ELSE 1

PassedBounded ==
    \A h \in Hosts :
        /\ sbReq[h] = NoRequest => sbPassed[h] = 0
        /\ sbPending[h] # NoRequest => sbPassed[h] + InPipeline + Distance(h) <= NrHosts
        /\ sbPending[h] = NoRequest /\ ~Granted(h) => sbPassed[h] = 0
        /\ sbPassed[h] <= NrHosts

SbInv == SbTypeOK /\ PendingHeld /\ RearmIsGrant /\ IssueLeft /\ PipelineDepth /\ PassedBounded

-----------------------------------------------------------------------------
(* Arbitration. *)

\* No two waiting hosts are at the same distance: the bus has one winner.
LEMMA OneWinner ==
    ASSUME SbTypeOK, NEW g \in Arbitrated, NEW h \in Arbitrated
    PROVE  g = h
  <1>1. g \in Hosts /\ h \in Hosts /\ Distance(g) <= Distance(h) /\ Distance(h) <= Distance(g)
    BY DEF Arbitrated, IsNext, Waiting
  <1>2. g \in 0 .. NrHosts - 1 /\ h \in 0 .. NrHosts - 1 /\ sbRr \in 0 .. NrHosts - 1
    BY <1>1 DEF Hosts, SbTypeOK
  <1> QED BY <1>1, <1>2, SbAssumption DEF Distance

\* The winner is the one host whose buffer empties, and it is nearer than any
\* other host that waits.
LEMMA Winner ==
    ASSUME SbTypeOK, NEW w \in Arbitrated
    PROVE  /\ w \in Hosts /\ sbPending[w] # NoRequest /\ Arbitrated = {w}
           /\ \A h \in Hosts : sbPending[h] # NoRequest /\ h # w => Distance(w) < Distance(h)
  <1>1. w \in Hosts /\ sbPending[w] # NoRequest /\ \A g \in Waiting : Distance(w) <= Distance(g)
    BY DEF Arbitrated, IsNext, Waiting
  <1>2. Arbitrated = {w}
    BY OneWinner
  <1>3. ASSUME NEW h \in Hosts, sbPending[h] # NoRequest, h # w
        PROVE  Distance(w) < Distance(h)
    <2>1. w \in 0 .. NrHosts - 1 /\ h \in 0 .. NrHosts - 1 /\ sbRr \in 0 .. NrHosts - 1
      BY <1>1 DEF Hosts, SbTypeOK
    <2>2. Distance(w) <= Distance(h)
      BY <1>1, <1>3 DEF Waiting
    <2> QED BY <2>1, <2>2, <1>3, SbAssumption DEF Distance
  <1> QED BY <1>1, <1>2, <1>3

\* Moving the pointer past the winner brings the others nearer by one more
\* than the winner's distance.
LEMMA Nearer ==
    ASSUME SbTypeOK, NEW w \in Hosts, NEW h \in Hosts, h # w, Distance(w) < Distance(h),
           sbRr' = IF w = NrHosts - 1 THEN 0 ELSE w + 1
    PROVE  Distance(h)' + 1 <= Distance(h)
  <1>1. w \in 0 .. NrHosts - 1 /\ h \in 0 .. NrHosts - 1 /\ sbRr \in 0 .. NrHosts - 1
    BY DEF Hosts, SbTypeOK
  <1> QED BY <1>1, SbAssumption DEF Distance

\* A host other than the last winner is not the farthest.
LEMMA NotFarthest ==
    ASSUME NEW w \in Hosts, NEW h \in Hosts, h # w,
           sbRr' = IF w = NrHosts - 1 THEN 0 ELSE w + 1
    PROVE  Distance(h)' \in Nat /\ Distance(h)' + 2 <= NrHosts
  <1>1. w \in 0 .. NrHosts - 1 /\ h \in 0 .. NrHosts - 1
    BY DEF Hosts
  <1> QED BY <1>1, SbAssumption DEF Distance

\* Distances are smaller than the number of hosts.
LEMMA DistanceBound ==
    ASSUME NEW h \in Hosts, sbRr' \in Hosts
    PROVE  Distance(h)' \in Nat /\ Distance(h)' + 1 <= NrHosts
  <1>1. PICK r \in 0 .. NrHosts - 1 : r = sbRr'
    BY DEF Hosts
  <1>2. Distance(h)' = IF h >= r THEN h - r ELSE h + NrHosts - r
    BY <1>1 DEF Distance
  <1>3. h \in 0 .. NrHosts - 1 /\ NrHosts \in Nat
    BY SbAssumption DEF Hosts
  <1>4. CASE h >= r
    <2>1. h - r \in Nat /\ h - r + 1 <= NrHosts
      BY <1>3, <1>4
    <2> QED BY <1>2, <1>4, <2>1
  <1>5. CASE ~(h >= r)
    <2>1. h + NrHosts - r \in Nat /\ h + NrHosts - r + 1 <= NrHosts
      BY <1>3, <1>5
    <2> QED BY <1>2, <1>5, <2>1
  <1> QED BY <1>4, <1>5

\* What a clock edge does to the issue stage.
LEMMA IssueStage ==
    ASSUME SbTypeOK, SbNext
    PROVE  \/ Arbitrated = {} /\ sbIssue' = NoIssue /\ sbRr' = sbRr
           \/ \E w \in Hosts :
                 /\ w \in Arbitrated
                 /\ sbIssue' = [host |-> w, req |-> sbPending[w]]
                 /\ sbIssue' # NoIssue
                 /\ sbRr' = IF w = NrHosts - 1 THEN 0 ELSE w + 1
  <1>1. CASE Arbitrated = {}
    BY <1>1 DEF SbNext, SbIssue
  <1>2. CASE Arbitrated # {}
    <2>1. PICK w \in Arbitrated : /\ sbIssue' = [host |-> w, req |-> sbPending[w]]
                                  /\ sbRr' = IF w = NrHosts - 1 THEN 0 ELSE w + 1
      BY <1>2 DEF SbNext, SbIssue
    <2>2. w \in Hosts /\ sbPending[w] # NoRequest
      BY Winner
    <2>3. sbIssue' # NoIssue
      BY <2>1, <2>2 DEF NoIssue
    <2> QED BY <2>1, <2>2, <2>3
  <1> QED BY <1>1, <1>2

-----------------------------------------------------------------------------
(* A clock edge preserves each part of the invariant. *)

LEMMA InitInv == ASSUME SbInit PROVE SbInv
  <1>1. 0 \in Hosts
    BY SbAssumption DEF Hosts
  <1>2. SbTypeOK
    BY <1>1 DEF SbInit, SbTypeOK, Issues
  <1>3. PendingHeld /\ RearmIsGrant /\ IssueLeft /\ PipelineDepth
    BY SbAssumption DEF SbInit, PendingHeld, RearmIsGrant, Granted, IssueLeft, PipelineDepth
  <1>4. PassedBounded
    BY SbAssumption DEF SbInit, PassedBounded, Granted
  <1> QED BY <1>2, <1>3, <1>4 DEF SbInv

LEMMA NextTypeOK == ASSUME SbTypeOK, SbNext PROVE SbTypeOK'
  <1>1. sbPending' \in [Hosts -> Requests \cup {NoRequest}] /\ sbRearm' \in [Hosts -> BOOLEAN]
    BY DEF SbNext, SbBuffer, SbTypeOK
  <1>2. sbRr' \in Hosts /\ sbIssue' \in Issues
    <2>1. CASE Arbitrated = {} /\ sbIssue' = NoIssue /\ sbRr' = sbRr
      BY <2>1 DEF SbTypeOK, Issues
    <2>2. ASSUME NEW w \in Hosts, w \in Arbitrated,
                 sbIssue' = [host |-> w, req |-> sbPending[w]],
                 sbRr' = IF w = NrHosts - 1 THEN 0 ELSE w + 1
          PROVE  sbRr' \in Hosts /\ sbIssue' \in Issues
      <3>1. sbPending[w] \in Requests
        BY <2>2, Winner DEF SbTypeOK
      <3>2. sbIssue' \in Issues
        BY <2>2, <3>1 DEF Issues
      <3>3. sbRr' \in Hosts
        BY <2>2, SbAssumption DEF Hosts
      <3> QED BY <3>2, <3>3
    <2> QED BY <2>1, <2>2, IssueStage
  <1>3. sbResp' \in Issues /\ sbAnswer' \in [Devices -> Issues]
    BY DEF SbNext, RespOf, DevicesAnswer, SbTypeOK, Issues
  <1>4. sbReq' \in [Hosts -> Requests \cup {NoRequest}]
    BY DEF SbNext, HostsRaise
  <1>5. sbAwaited' \in [Hosts -> Seq(Requests)]
    <2>1. ASSUME NEW h \in Hosts PROVE sbAwaited'[h] \in Seq(Requests)
      <3> DEFINE left == IF Answered(h) /\ sbAwaited[h] # <<>> THEN Tail(sbAwaited[h]) ELSE sbAwaited[h]
      <3>1. left \in Seq(Requests)
        <4>1. sbAwaited[h] \in Seq(Requests)
          BY DEF SbTypeOK
        <4>2. sbAwaited[h] # <<>> => Tail(sbAwaited[h]) \in Seq(Requests)
          BY <4>1
        <4> QED BY <4>1, <4>2
      <3>2. Granted(h) => sbIssue.req \in Requests
        BY DEF Granted, SbTypeOK, Issues
      <3>3. sbAwaited'[h] = IF Granted(h) THEN Append(left, sbIssue.req) ELSE left
        BY DEF SbNext, SbHistory
      <3> HIDE DEF left
      <3> QED BY <3>1, <3>2, <3>3
    <2>2. sbAwaited' = [h \in Hosts |-> sbAwaited'[h]]
      BY DEF SbNext, SbHistory
    <2> QED BY <2>1, <2>2
  <1>6. sbPassed' \in [Hosts -> Nat]
    BY DEF SbNext, SbHistory, SbTypeOK
  <1> QED BY <1>1, <1>2, <1>3, <1>4, <1>5, <1>6 DEF SbTypeOK

\* The re-arm guard is what makes the buffer's copy stay true: a host being
\* granted is the only one that may change its mind, and it is guarded.
LEMMA NextHeld == ASSUME SbInv, SbNext PROVE PendingHeld' /\ RearmIsGrant'
  <1> USE DEF SbInv
  <1>1. ASSUME NEW h \in Hosts PROVE sbRearm'[h] <=> Granted(h)'
    <2>1. sbRearm'[h] <=> h \in Arbitrated
      BY DEF SbNext, SbBuffer
    <2>2. h \in Arbitrated <=> Granted(h)'
      BY IssueStage, OneWinner DEF Granted
    <2> QED BY <2>1, <2>2
  <1>2. ASSUME NEW h \in Hosts, sbPending'[h] # NoRequest
        PROVE  sbReq'[h] = sbPending'[h] /\ ~sbRearm'[h]
    <2>1. h \notin Arbitrated /\ sbPending'[h] = IF Captures(h) THEN sbReq[h] ELSE sbPending[h]
      BY <1>2 DEF SbNext, SbBuffer
    <2>2. sbReq[h] = sbPending'[h] /\ ~sbRearm[h]
      BY <1>2, <2>1 DEF Captures, PendingHeld
    <2>3. ~Granted(h)
      BY <2>2 DEF RearmIsGrant
    <2>4. sbReq'[h] = sbReq[h]
      BY <1>2, <2>2, <2>3 DEF SbNext, HostsRaise
    <2> QED BY <2>1, <2>2, <2>4 DEF SbNext, SbBuffer
  <1> QED BY <1>1, <1>2 DEF PendingHeld, RearmIsGrant

LEMMA NextIssueLeft == ASSUME SbInv, SbNext PROVE IssueLeft'
  <1> USE DEF SbInv
  <1>1. ASSUME NEW w \in Hosts, w \in Arbitrated
        PROVE  sbPending'[w] = NoRequest /\ sbReq'[w] = sbPending[w]
    <2>1. sbPending[w] # NoRequest
      BY <1>1, Winner
    <2>2. sbReq[w] = sbPending[w] /\ ~Granted(w)
      BY <2>1 DEF PendingHeld, RearmIsGrant
    <2>3. sbReq'[w] = sbReq[w]
      BY <2>1, <2>2 DEF SbNext, HostsRaise
    <2>4. sbPending'[w] = NoRequest
      BY <1>1 DEF SbNext, SbBuffer
    <2> QED BY <2>2, <2>3, <2>4
  <1> QED BY <1>1, IssueStage DEF IssueLeft

LEMMA NextPipeline == ASSUME SbInv, SbNext PROVE PipelineDepth'
  <1> USE DEF SbInv
  <1>1. sbResp' = sbIssue
    BY DEF SbNext, RespOf
  <1>2. ASSUME NEW h \in Hosts
        PROVE  sbAwaited'[h] = IF sbResp' # NoIssue /\ sbResp'.host = h THEN <<sbResp'.req>> ELSE <<>>
    <2> DEFINE left == IF Answered(h) /\ sbAwaited[h] # <<>> THEN Tail(sbAwaited[h]) ELSE sbAwaited[h]
    <2>1. left = <<>>
      <3>1. CASE sbResp # NoIssue /\ sbResp.host = h
        <4>1. sbAwaited[h] = <<sbResp.req>>
          BY <3>1 DEF PipelineDepth
        <4>2. Answered(h)
          BY <3>1 DEF PipelineDepth, Answered, AnswerTo, SbTypeOK, Issues, Requests
        <4> QED BY <4>1, <4>2
      <3>2. CASE ~(sbResp # NoIssue /\ sbResp.host = h)
        BY <3>2 DEF PipelineDepth
      <3> QED BY <3>1, <3>2
    <2>2. sbAwaited'[h] = IF Granted(h) THEN Append(left, sbIssue.req) ELSE left
      BY DEF SbNext, SbHistory
    <2> HIDE DEF left
    <2>3. Append(<<>>, sbIssue.req) = <<sbIssue.req>>
      OBVIOUS
    <2> QED BY <1>1, <2>1, <2>2, <2>3 DEF Granted
  <1>3. ASSUME NEW d \in Devices PROVE sbAnswer'[d] = IF sbResp'.req = d THEN sbResp' ELSE NoIssue
    <2>1. sbAnswer'[d] = IF Serves(d) THEN sbIssue ELSE NoIssue
      BY DEF SbNext, DevicesAnswer
    <2>2. Serves(d) <=> sbIssue.req = d
      BY SbAssumption DEF Serves, NoIssue
    <2> QED BY <1>1, <2>1, <2>2
  <1> QED BY <1>2, <1>3 DEF PipelineDepth

LEMMA NextPassed == ASSUME SbInv, SbNext PROVE PassedBounded'
  <1> USE DEF SbInv
  <1> SUFFICES ASSUME NEW h \in Hosts
               PROVE  /\ sbReq'[h] = NoRequest => sbPassed'[h] = 0
                      /\ sbPending'[h] # NoRequest => sbPassed'[h] + InPipeline' + Distance(h)' <= NrHosts
                      /\ sbPending'[h] = NoRequest /\ ~Granted(h)' => sbPassed'[h] = 0
                      /\ sbPassed'[h] <= NrHosts
    BY DEF PassedBounded
  <1>1. sbPassed'[h] = IF sbReq[h] = NoRequest \/ Granted(h) THEN 0 ELSE sbPassed[h] + InPipeline
    BY DEF SbNext, SbHistory, InPipeline, SbTypeOK
  <1>2. h \in Arbitrated <=> Granted(h)'
    BY NextHeld DEF RearmIsGrant, SbNext, SbBuffer
  <1>3. sbPending'[h] = IF h \in Arbitrated THEN NoRequest
                        ELSE IF Captures(h) THEN sbReq[h] ELSE sbPending[h]
    BY DEF SbNext, SbBuffer
  <1>4. sbPassed[h] \in Nat /\ InPipeline \in {0, 1} /\ NrHosts \in Nat /\ NrHosts >= 1
    BY SbAssumption DEF SbTypeOK, InPipeline
  <1>5. Distance(h) \in Nat
    <2>1. h \in 0 .. NrHosts - 1 /\ sbRr \in 0 .. NrHosts - 1
      BY DEF Hosts, SbTypeOK
    <2> QED BY <2>1, <1>4 DEF Distance
  <1>6. CASE sbPending[h] # NoRequest
    <2>1. ~Granted(h) /\ sbReq[h] # NoRequest
      BY <1>6 DEF PendingHeld, RearmIsGrant
    <2>2. sbPassed'[h] + Distance(h) <= NrHosts
      BY <1>1, <1>4, <1>5, <1>6, <2>1 DEF PassedBounded
    <2>3. sbPassed'[h] <= NrHosts /\ sbPassed'[h] \in Nat
      BY <1>1, <1>4, <1>5, <2>1, <2>2
    <2>4. sbReq'[h] # NoRequest
      BY <2>1 DEF SbNext, HostsRaise
    <2>5. ~Captures(h)
      BY <1>6 DEF Captures
    <2>6. sbPending'[h] # NoRequest => sbPassed'[h] + InPipeline' + Distance(h)' <= NrHosts
      <3>1. CASE Arbitrated = {} /\ sbIssue' = NoIssue /\ sbRr' = sbRr
        <4>1. InPipeline' = 0 /\ Distance(h)' = Distance(h)
          BY <3>1 DEF InPipeline, Distance
        <4> QED BY <4>1, <2>2, <2>3, <1>5
      <3>2. ASSUME NEW w \in Hosts, w \in Arbitrated, sbIssue' # NoIssue, w # h,
                   sbRr' = IF w = NrHosts - 1 THEN 0 ELSE w + 1
            PROVE  sbPassed'[h] + InPipeline' + Distance(h)' <= NrHosts
        <4>1. Distance(w) < Distance(h)
          BY <1>6, <3>2, Winner
        <4>2. Distance(h)' + 1 <= Distance(h)
          BY <3>2, <4>1, Nearer
        <4>3. InPipeline' = 1 /\ Distance(h)' \in Nat
          BY <3>2, NotFarthest DEF InPipeline
        <4> QED BY <4>2, <4>3, <2>2, <2>3, <1>4, <1>5
      <3> QED BY <3>1, <3>2, <1>3, IssueStage
    <2>7. sbPending'[h] = NoRequest => Granted(h)'
      BY <1>2, <1>3, <1>6, <2>5
    <2> QED BY <2>3, <2>4, <2>6, <2>7
  <1>7. CASE sbPending[h] = NoRequest
    <2>1. h \notin Arbitrated
      BY <1>7, Winner
    <2>2. sbPassed'[h] \in {0, 1}
      BY <1>1, <1>4, <1>7 DEF PassedBounded
    <2>3. sbPending'[h] # NoRequest => sbPassed'[h] + InPipeline' + Distance(h)' <= NrHosts
      <3>1. CASE sbIssue' = NoIssue
        <4>1. sbRr' \in Hosts
          BY NextTypeOK DEF SbTypeOK
        <4>2. InPipeline' = 0
          BY <3>1 DEF InPipeline
        <4>3. Distance(h)' \in Nat /\ Distance(h)' + 1 <= NrHosts
          BY <4>1, DistanceBound
        <4> QED BY <4>2, <4>3, <2>2, <1>4
      <3>2. ASSUME NEW w \in Hosts, w \in Arbitrated, sbIssue' # NoIssue,
                   sbRr' = IF w = NrHosts - 1 THEN 0 ELSE w + 1
            PROVE  sbPassed'[h] + InPipeline' + Distance(h)' <= NrHosts
        <4>1. InPipeline' = 1 /\ Distance(h)' \in Nat /\ Distance(h)' + 2 <= NrHosts
          BY <2>1, <3>2, NotFarthest DEF InPipeline
        <4> QED BY <4>1, <2>2, <1>4
      <3> QED BY <3>1, <3>2, IssueStage
    <2>4. sbPending'[h] = NoRequest => sbPassed'[h] = 0
      <3>1. SUFFICES ASSUME ~Captures(h), sbReq[h] # NoRequest PROVE sbPassed'[h] = 0
        BY <1>1, <1>3, <2>1
      <3>2. Granted(h)
        BY <1>7, <3>1 DEF Captures, RearmIsGrant
      <3> QED BY <1>1, <3>2
    <2>5. sbReq'[h] = NoRequest => sbPassed'[h] = 0
      BY <1>1 DEF SbNext, HostsRaise
    <2> QED BY <2>2, <2>3, <2>4, <2>5, <1>4
  <1> QED BY <1>6, <1>7

LEMMA NextInv == ASSUME SbInv, [SbNext]_sbVars PROVE SbInv'
  <1>1. CASE SbNext
    BY <1>1, NextTypeOK, NextHeld, NextIssueLeft, NextPipeline, NextPassed DEF SbInv
  <1>2. CASE UNCHANGED sbVars
    <2> USE <1>2 DEF sbVars, sbRegs, SbInv
    <2>1. SbTypeOK' /\ PendingHeld' /\ IssueLeft' /\ PipelineDepth'
      BY DEF SbTypeOK, PendingHeld, IssueLeft, PipelineDepth
    <2>2. RearmIsGrant' /\ PassedBounded'
      BY DEF RearmIsGrant, PassedBounded, Granted, InPipeline, Distance
    <2> QED BY <2>1, <2>2
  <1> QED BY <1>1, <1>2

-----------------------------------------------------------------------------
(* The theorems. *)

(* A captured request is the one its host still asks for, the one issued    *)
(* has left its buffer, the pipeline is one answer deep, and a waiting host *)
(* has been passed by fewer hosts than lie before it.                       *)
THEOREM SbInvariant == SbSpec => []SbInv
  <1>1. SbInit => SbInv
    BY InitInv
  <1>2. SbInv /\ [SbNext]_sbVars => SbInv'
    BY NextInv
  <1> QED BY <1>1, <1>2, PTL DEF SbSpec

(* What is issued to a device is what the granted host asks for in that     *)
(* cycle: the one-cycle re-arm guard is enough for back-to-back requests.   *)
THEOREM SbIssuesHeldCorrect == SbSpec => []SbIssuesHeld
  <1>1. ASSUME SbInv PROVE SbIssuesHeld
    BY <1>1 DEF SbInv, IssueLeft, SbIssuesHeld
  <1> QED BY <1>1, SbInvariant, PTL

(* A host is answered in the order of its grants, with what the device did  *)
(* for that request, and never unasked.                                     *)
THEOREM SbAnswersInOrderCorrect == SbSpec => []SbAnswersInOrder
  <1>1. ASSUME SbInv PROVE SbAnswersInOrder
    <2> SUFFICES ASSUME NEW h \in Hosts, Answered(h)
                 PROVE  /\ sbAwaited[h] # <<>>
                        /\ AnswerTo(h) = [host |-> h, req |-> Head(sbAwaited[h])]
      BY DEF SbAnswersInOrder
    <2>1. sbResp # NoIssue /\ sbResp.host = h /\ AnswerTo(h) # NoIssue
      BY DEF Answered, AnswerTo
    <2>2. sbResp \in [host : Hosts, req : Requests]
      BY <1>1, <2>1 DEF SbInv, SbTypeOK, Issues
    <2>3. sbAwaited[h] = <<sbResp.req>>
      BY <1>1, <2>1 DEF SbInv, PipelineDepth
    <2>4. AnswerTo(h) = sbResp
      BY <1>1, <2>1, <2>2 DEF SbInv, PipelineDepth, AnswerTo, Requests
    <2>5. sbResp = [host |-> h, req |-> sbResp.req]
      BY <2>1, <2>2
    <2>6. Head(<<sbResp.req>>) = sbResp.req /\ <<sbResp.req>> # <<>>
      OBVIOUS
    <2> QED BY <2>3, <2>4, <2>5, <2>6
  <1> QED BY <1>1, SbInvariant, PTL

(* From raising a request to its grant a host is passed at most NrHosts     *)
(* times: round robin starves nobody, however many hosts there are.         *)
THEOREM SbNoStarvationCorrect == SbSpec => []SbNoStarvation
  <1>1. ASSUME SbInv PROVE SbNoStarvation
    BY <1>1 DEF SbInv, PassedBounded, SbNoStarvation
  <1> QED BY <1>1, SbInvariant, PTL

-----------------------------------------------------------------------------
(* The bridge. *)

\* Types of the registers, the channels and the bus's side.
AlTypeOK ==
    /\ alState \in AlStates /\ alReq \in [we : BOOLEAN, addr : Addrs, data : Words]
    /\ mAw \in Offers(Addrs) /\ mAr \in Offers(Addrs) /\ mW \in Offers(Words)

AccessOf(req) == [we |-> req.we, addr |-> req.addr]

\* A request in progress is one the host is owed an answer to; its data is
\* what was accepted on W.
ReqOwed ==
    /\ alState = "WAIT_W" => [we |-> TRUE, addr |-> alReq.addr] \in alOwed
    /\ alState \in {"XFER", "WWAIT", "RWAIT", "BRESP", "RRESP"} =>
          /\ AccessOf(alReq) \in alOwed
          /\ alReq.we => alData = {alReq.data}
    /\ alState \in {"WWAIT", "BRESP"} => alReq.we
    /\ alState \in {"RWAIT", "RRESP"} => ~alReq.we

\* The bus has the request exactly while the bridge waits for its answer.
BusHasReq == alBus = IF alState \in {"WWAIT", "RWAIT"} THEN {alReq} ELSE {}

\* What the bridge says is what the bus said of this very request.
RespIsBus ==
    alState \in {"BRESP", "RRESP"} =>
        /\ alDone.req = alReq /\ alErr = alDone.rsp.err
        /\ alState = "RRESP" => alRdata = alDone.rsp.data

AlInv == AlTypeOK /\ ReqOwed /\ BusHasReq /\ RespIsBus

\* What is offered is nothing or one thing.
LEMMA OffersSingle ==
    ASSUME NEW S, NEW o \in Offers(S)
    PROVE  \/ o = {}
           \/ \E x \in S : o = {x}
  BY DEF Offers, One

LEMMA AlInitInv == ASSUME AlInit PROVE AlInv
  <1>1. AlTypeOK
    BY DEF AlInit, AlTypeOK, AlStates, Offers
  <1> QED BY <1>1 DEF AlInit, AlInv, ReqOwed, BusHasReq, RespIsBus

LEMMA AlNextInv ==
    ASSUME AlInv, NEW gnt \in BOOLEAN, NEW ready \in Readies, NEW rsp \in Responses,
           AlStep(gnt, rsp, ready), BusMoves(gnt, rsp), HostMoves, AlHistory(ready)
    PROVE  AlInv'
  <1> USE DEF AlInv, BusReq, BValid, RValid
  <1>1. mAw' \in Offers(Addrs) /\ mAr' \in Offers(Addrs) /\ mW' \in Offers(Words)
    BY DEF HostMoves, AlTypeOK, Offers
  <1>2. ASSUME alState \notin {"BRESP", "RRESP"} PROVE alOwed \subseteq alOwed'
    BY <1>2 DEF AlHistory, AlAnswered
  <1>3. ~WReady => alData' = alData
    BY DEF AlHistory, TakesW
  <1>4. CASE AlIdle
    <2>1. alState = "IDLE" /\ alBus = {} /\ ~gnt
      BY <1>4 DEF AlIdle, BusHasReq, BusMoves, BusMay
    <2>2. alBus' = {}
      BY <2>1 DEF BusMoves, BusHistory
    <2>3. CASE \E addr \in mAw : alReq' = [alReq EXCEPT !.addr = addr] /\ alState' = "WAIT_W"
      <3>1. PICK addr \in mAw : alReq' = [alReq EXCEPT !.addr = addr] /\ alState' = "WAIT_W"
        BY <2>3
      <3>2. addr \in Addrs
        BY OffersSingle DEF AlTypeOK
      <3>3. alReq'.addr = addr /\ alReq' \in [we : BOOLEAN, addr : Addrs, data : Words]
        BY <3>1, <3>2 DEF AlTypeOK
      <3>4. [we |-> TRUE, addr |-> addr] \in alOwed'
        BY <2>1 DEF AlHistory, TakesAw, AwReady
      <3> QED BY <1>1, <2>2, <3>1, <3>3, <3>4 DEF AlTypeOK, AlStates, ReqOwed, BusHasReq, RespIsBus
    <2>4. CASE \E addr \in mAr : alReq' = [alReq EXCEPT !.addr = addr, !.we = FALSE] /\ alState' = "XFER"
      <3>1. PICK addr \in mAr : alReq' = [alReq EXCEPT !.addr = addr, !.we = FALSE] /\ alState' = "XFER"
        BY <2>4
      <3>2. addr \in Addrs
        BY OffersSingle DEF AlTypeOK
      <3>3. alReq'.addr = addr /\ alReq'.we = FALSE /\ alReq' \in [we : BOOLEAN, addr : Addrs, data : Words]
        BY <3>1, <3>2 DEF AlTypeOK
      <3>4. [we |-> FALSE, addr |-> addr] \in alOwed'
        BY <2>1 DEF AlHistory, TakesAr, ArReady
      <3> QED BY <1>1, <2>2, <3>1, <3>3, <3>4
              DEF AlTypeOK, AlStates, ReqOwed, AccessOf, BusHasReq, RespIsBus
    <2>5. CASE UNCHANGED <<alReq, alState>>
      BY <1>1, <2>1, <2>2, <2>5 DEF AlTypeOK, ReqOwed, BusHasReq, RespIsBus
    <2> QED BY <1>4, <2>3, <2>4, <2>5 DEF AlIdle
  <1>5. CASE AlWaitW
    <2>1. alState = "WAIT_W" /\ alBus = {} /\ ~gnt
      BY <1>5 DEF AlWaitW, BusHasReq, BusMoves, BusMay
    <2>2. alBus' = {}
      BY <2>1 DEF BusMoves, BusHistory
    <2>3. CASE \E data \in mW : alReq' = [alReq EXCEPT !.data = data, !.we = TRUE] /\ alState' = "XFER"
      <3>1. PICK data \in mW : alReq' = [alReq EXCEPT !.data = data, !.we = TRUE] /\ alState' = "XFER"
        BY <2>3
      <3>2. data \in Words /\ mW = {data}
        BY OffersSingle DEF AlTypeOK
      <3>3. /\ alReq'.addr = alReq.addr /\ alReq'.we = TRUE /\ alReq'.data = data
            /\ alReq' \in [we : BOOLEAN, addr : Addrs, data : Words]
        BY <3>1, <3>2 DEF AlTypeOK
      <3>4. alData' = {data}
        BY <2>1, <3>2 DEF AlHistory, TakesW, WReady
      <3>5. [we |-> TRUE, addr |-> alReq.addr] \in alOwed'
        BY <1>2, <2>1 DEF ReqOwed
      <3> QED BY <1>1, <2>2, <3>1, <3>3, <3>4, <3>5
              DEF AlTypeOK, AlStates, ReqOwed, AccessOf, BusHasReq, RespIsBus
    <2>4. CASE UNCHANGED <<alReq, alState>>
      <3>1. [we |-> TRUE, addr |-> alReq.addr] \in alOwed'
        BY <1>2, <2>1 DEF ReqOwed
      <3> QED BY <1>1, <2>1, <2>2, <2>4, <3>1 DEF AlTypeOK, ReqOwed, BusHasReq, RespIsBus
    <2> QED BY <1>5, <2>3, <2>4 DEF AlWaitW
  <1>6. CASE AlXfer(gnt)
    <2>1. alState = "XFER" /\ alReq' = alReq /\ alBus = {}
      BY <1>6 DEF AlXfer, BusHasReq
    <2>2. alState' = IF gnt THEN GrantedTo ELSE "XFER"
      BY <1>6, <2>1 DEF AlXfer
    <2>3. alBus' = IF gnt THEN {alReq} ELSE {}
      BY <2>1 DEF BusMoves, BusHistory
    <2>4. alData' = alData /\ alOwed \subseteq alOwed'
      BY <1>2, <1>3, <2>1 DEF WReady
    <2> QED BY <1>1, <2>1, <2>2, <2>3, <2>4
            DEF AlTypeOK, AlStates, ReqOwed, AccessOf, BusHasReq, RespIsBus, GrantedTo
  <1>7. ASSUME alState \in {"WWAIT", "RWAIT"}, AlWWait(rsp) \/ AlRWait(rsp) PROVE AlInv'
    <2>1. alReq' = alReq /\ alBus = {alReq} /\ ~gnt
      BY <1>7 DEF AlWWait, AlRWait, BusHasReq, BusMoves, BusMay
    <2>2. alData' = alData /\ alOwed \subseteq alOwed'
      BY <1>2, <1>3, <1>7 DEF WReady
    <2>3. CASE rsp = {}
      <3>1. alState' = alState
        BY <1>7, <2>3 DEF AlWWait, AlRWait
      <3>2. alBus' = alBus
        BY <2>1, <2>3 DEF BusMoves, BusHistory
      <3> QED BY <1>1, <1>7, <2>1, <2>2, <3>1, <3>2
              DEF AlTypeOK, ReqOwed, AccessOf, BusHasReq, RespIsBus
    <2>4. CASE rsp # {}
      <3>1. PICK r : rsp = {r}
        BY <2>4, OffersSingle DEF Responses
      <3>2. alBus' = {} /\ alDone' = [req |-> alReq, rsp |-> r]
        BY <2>1, <3>1 DEF BusMoves, BusHistory
      <3>3. /\ alErr' = r.err
            /\ alState' = IF alState = "WWAIT" THEN "BRESP" ELSE "RRESP"
            /\ alState = "RWAIT" => alRdata' = r.data
        BY <1>7, <3>1 DEF AlWWait, AlRWait
      <3> QED BY <1>1, <1>7, <2>1, <2>2, <3>2, <3>3
              DEF AlTypeOK, AlStates, ReqOwed, AccessOf, BusHasReq, RespIsBus
    <2> QED BY <2>3, <2>4
  <1>8. CASE AlResp(ready)
    <2>1. /\ alState \in {"BRESP", "RRESP"} /\ alReq' = alReq /\ alErr' = alErr
          /\ alRdata' = alRdata /\ alBus = {} /\ ~gnt
      BY <1>8 DEF AlResp, BusHasReq, BusMoves, BusMay
    <2>2. alBus' = {} /\ alDone' = alDone
      BY <2>1 DEF BusMoves, BusHistory
    <2>3. CASE ready
      <3>1. alState' = "IDLE"
        BY <1>8, <2>3 DEF AlResp
      <3> QED BY <1>1, <2>1, <2>2, <3>1 DEF AlTypeOK, AlStates, ReqOwed, BusHasReq, RespIsBus
    <2>4. CASE ~ready
      <3>1. alState' = alState
        BY <1>8, <2>4 DEF AlResp
      <3>2. alOwed \subseteq alOwed' /\ alData' = alData
        BY <1>3, <2>1, <2>4 DEF AlHistory, AlAnswered, WReady
      <3> QED BY <1>1, <2>1, <2>2, <3>1, <3>2
              DEF AlTypeOK, ReqOwed, AccessOf, BusHasReq, RespIsBus
    <2> QED BY <2>3, <2>4
  <1> QED BY <1>4, <1>5, <1>6, <1>7, <1>8 DEF AlStep, AlWWait, AlRWait

LEMMA AlStutters == ASSUME AlInv, UNCHANGED alVars PROVE AlInv'
  BY DEF AlInv, AlTypeOK, ReqOwed, BusHasReq, RespIsBus, alVars, alRegs

(* The request in progress is one the host is owed an answer to, the bus    *)
(* has it exactly while the bridge waits, and the answer kept is the bus's  *)
(* answer to it.                                                            *)
THEOREM AlInvariant == AlSpec => []AlInv
  <1>1. AlInit => AlInv
    BY AlInitInv
  <1>2. AlInv /\ [AlNext]_alVars => AlInv'
    BY AlNextInv, AlStutters DEF AlNext
  <1> QED BY <1>1, <1>2, PTL DEF AlSpec

(* What the host is told on B or R is what the bus did with the very        *)
(* request it made, also when a read is forgotten next to a write.          *)
LEMMA AlInvExchange == ASSUME AlInv PROVE AlExchange
  BY DEF AlInv, AlTypeOK, ReqOwed, AccessOf, RespIsBus, AlExchange, BValid, RValid

THEOREM AlExchangeCorrect == AlSpec => []AlExchange
  <1>1. AlInv => AlExchange
    BY AlInvExchange
  <1> QED BY <1>1, AlInvariant, PTL

-----------------------------------------------------------------------------
(* A host that has one access in progress at a time. *)

\* At rest nothing is owed and at most one of AW and AR is up; otherwise the
\* one request owed is the one in progress, and neither is up.
OneAccess ==
    /\ alState = "IDLE" => alOwed = {} /\ (mAw = {} \/ mAr = {})
    /\ alState # "IDLE" => /\ mAw = {} /\ mAr = {}
                           /\ \E a : alOwed = {[we |-> alState = "WAIT_W" \/ alReq.we, addr |-> a]}

LEMMA OneAccessNext ==
    ASSUME ~Concurrent, AlInv, OneAccess, NEW gnt \in BOOLEAN, NEW ready \in Readies, NEW rsp \in Responses,
           AlStep(gnt, rsp, ready), BusMoves(gnt, rsp), HostMoves, AlHistory(ready)
    PROVE  OneAccess'
  <1> USE DEF BusReq, BValid, RValid
  <1>1. PICK aw, ar \in Offers(Addrs), w \in Offers(Words) :
            /\ aw # {} => ~WriteInProgress /\ ~ReadInProgress
            /\ ar # {} => ~ReadInProgress /\ ~WriteInProgress /\ aw = {}
            /\ mAw' = IF aw # {} THEN aw ELSE IF TakesAw THEN {} ELSE mAw
            /\ mAr' = IF ar # {} THEN ar ELSE IF TakesAr THEN {} ELSE mAr
    BY DEF HostMoves
  <1>2. CASE alState = "IDLE"
    <2>1. AlIdle
      BY <1>2 DEF AlStep, AlIdle, AlWaitW, AlXfer, AlWWait, AlRWait, AlResp
    <2>2. /\ alOwed = {} /\ AlAnswered(ready) = {}
          /\ mAw = {} \/ mAr = {}
          /\ TakesAw <=> mAw # {}
          /\ TakesAr <=> mAr # {}
      BY <1>2 DEF OneAccess, AlAnswered, TakesAw, TakesAr, AwReady, ArReady
    <2>3. alOwed' = {[we |-> TRUE, addr |-> x] : x \in mAw} \cup {[we |-> FALSE, addr |-> x] : x \in mAr}
      BY <2>2 DEF AlHistory
    <2>4. CASE mAw # {}
      <3>1. PICK a \in Addrs : mAw = {a}
        BY <2>4, OffersSingle DEF AlInv, AlTypeOK
      <3>2. alState' = "WAIT_W"
        BY <2>1, <2>4 DEF AlIdle
      <3>3. aw = {} /\ ar = {}
        BY <1>1, <2>4 DEF WriteInProgress
      <3>4. alOwed' = {[we |-> TRUE, addr |-> a]}
        BY <2>2, <2>3, <3>1
      <3> QED BY <1>1, <2>2, <2>4, <3>2, <3>3, <3>4 DEF OneAccess
    <2>5. CASE mAw = {} /\ mAr # {}
      <3>1. PICK a \in Addrs : mAr = {a}
        BY <2>5, OffersSingle DEF AlInv, AlTypeOK
      <3>2. alState' = "XFER" /\ alReq'.we = FALSE
        BY <2>1, <2>5 DEF AlIdle, AlInv, AlTypeOK
      <3>3. aw = {} /\ ar = {}
        BY <1>1, <2>5 DEF ReadInProgress
      <3>4. alOwed' = {[we |-> FALSE, addr |-> a]}
        BY <2>3, <2>5, <3>1
      <3> QED BY <1>1, <2>2, <2>5, <3>2, <3>3, <3>4 DEF OneAccess
    <2>6. CASE mAw = {} /\ mAr = {}
      <3>1. alState' = "IDLE"
        BY <1>2, <2>1, <2>6 DEF AlIdle
      <3>2. alOwed' = {}
        BY <2>3, <2>6
      <3> QED BY <1>1, <2>2, <2>6, <3>1, <3>2 DEF OneAccess
    <2> QED BY <2>4, <2>5, <2>6
  <1>3. CASE alState # "IDLE"
    <2>1. PICK a : alOwed = {[we |-> alState = "WAIT_W" \/ alReq.we, addr |-> a]}
      BY <1>3 DEF OneAccess
    <2>2. mAw = {} /\ mAr = {} /\ ~TakesAw /\ ~TakesAr
      BY <1>3 DEF OneAccess, TakesAw, TakesAr
    <2>3. WriteInProgress \/ ReadInProgress
      <3> DEFINE we == alState = "WAIT_W" \/ alReq.we
      <3>1. [we |-> we, addr |-> a] \in alOwed /\ we \in BOOLEAN
        BY <2>1 DEF AlInv, AlTypeOK
      <3> QED BY <3>1 DEF WriteInProgress, ReadInProgress, OwedKind
    <2>4. mAw' = {} /\ mAr' = {}
      BY <1>1, <2>2, <2>3
    <2>5. alOwed' = alOwed \ AlAnswered(ready)
      BY <2>2 DEF AlHistory
    <2>6. CASE AlResp(ready) /\ ready
      <3>1. alState' = "IDLE" /\ (BValid \/ RValid)
        BY <2>6 DEF AlResp
      <3>2. AlAnswered(ready) = alOwed
        <4>1. BValid => alReq.we
          BY DEF AlInv, ReqOwed
        <4>2. RValid => ~alReq.we
          BY DEF AlInv, ReqOwed
        <4>3. CASE BValid
          <5>1. (alState = "WAIT_W" \/ alReq.we) = TRUE
            BY <4>1, <4>3
          <5>2. alOwed = {[we |-> TRUE, addr |-> a]}
            BY <2>1, <5>1
          <5> QED BY <2>6, <4>3, <5>2 DEF AlAnswered
        <4>4. CASE RValid
          <5>1. (alState = "WAIT_W" \/ alReq.we) = FALSE
            BY <4>2, <4>4
          <5>2. alOwed = {[we |-> FALSE, addr |-> a]}
            BY <2>1, <5>1
          <5> QED BY <2>6, <4>4, <5>2 DEF AlAnswered
        <4> QED BY <3>1, <4>3, <4>4
      <3> QED BY <2>4, <2>5, <3>1, <3>2 DEF OneAccess
    <2>7. CASE ~(AlResp(ready) /\ ready)
      <3>1. AlAnswered(ready) = {}
        BY <2>7 DEF AlAnswered, AlStep, AlIdle, AlWaitW, AlXfer, AlWWait, AlRWait
      <3>2. alState' # "IDLE" /\ (alState' = "WAIT_W" \/ alReq'.we <=> alState = "WAIT_W" \/ alReq.we)
        <4>1. alReq \in [we : BOOLEAN, addr : Addrs, data : Words]
          BY DEF AlInv, AlTypeOK
        <4>2. CASE AlWaitW
          BY <4>1, <4>2 DEF AlWaitW
        <4>3. CASE AlXfer(gnt)
          BY <4>3 DEF AlXfer, GrantedTo
        <4>4. CASE AlWWait(rsp) \/ AlRWait(rsp)
          BY <4>4 DEF AlWWait, AlRWait
        <4>5. CASE AlResp(ready)
          BY <2>7, <4>5 DEF AlResp
        <4> QED BY <1>3, <4>2, <4>3, <4>4, <4>5 DEF AlStep, AlIdle
      <3>3. (alState' = "WAIT_W" \/ alReq'.we) = (alState = "WAIT_W" \/ alReq.we)
        BY <3>2
      <3> QED BY <2>1, <2>4, <2>5, <3>1, <3>2, <3>3 DEF OneAccess
    <2> QED BY <2>6, <2>7
  <1> QED BY <1>2, <1>3

(* pa_axi_lite_bridge.sv:9 for the hosts it was written for: one that has   *)
(* one access in progress at a time finds at most one request outstanding.  *)
THEOREM AlOneOutstandingCorrect == ~Concurrent /\ AlSpec => []AlOneOutstanding
  <1> SUFFICES ASSUME ~Concurrent PROVE AlSpec => []AlOneOutstanding
    OBVIOUS
  <1> DEFINE Inv == AlInv /\ OneAccess
  <1>1. AlInit => Inv
    BY AlInitInv DEF AlInit, OneAccess
  <1>2. Inv /\ [AlNext]_alVars => Inv'
    <2>1. ASSUME ~Concurrent, AlInv, OneAccess, AlNext PROVE AlInv' /\ OneAccess'
      <3>1. PICK gnt \in BOOLEAN, ready \in Readies, rsp \in Responses :
                AlStep(gnt, rsp, ready) /\ BusMoves(gnt, rsp) /\ HostMoves /\ AlHistory(ready)
        BY <2>1 DEF AlNext
      <3>2. AlInv'
        BY <2>1, <3>1, AlNextInv
      <3> QED BY <2>1, <3>1, <3>2, OneAccessNext
    <2>2. ASSUME AlInv, OneAccess, UNCHANGED alVars PROVE AlInv' /\ OneAccess'
      BY <2>2, AlStutters DEF OneAccess, alVars, alRegs
    <2> QED BY <2>1, <2>2
  <1>3. Inv => AlOneOutstanding
    <2>1. ASSUME OneAccess PROVE \E x : alOwed \subseteq {x}
      BY <2>1 DEF OneAccess
    <2>2. ASSUME NEW x, alOwed \subseteq {x} PROVE Cardinality(alOwed) <= 1
      <3>1. alOwed = {} \/ alOwed = {x}
        BY <2>2
      <3>2. Cardinality({}) = 0 /\ Cardinality({x}) = 1
        BY FS_EmptySet, FS_Singleton, Zenon
      <3>3. Cardinality(alOwed) \in {0, 1}
        BY <3>1, <3>2, Zenon
      <3> QED BY <3>3
    <2> QED BY <2>1, <2>2 DEF AlOneOutstanding
  <1> HIDE DEF Inv
  <1>4. AlSpec => []Inv
    BY <1>1, <1>2, PTL DEF AlSpec
  <1> QED BY <1>3, <1>4, PTL

-----------------------------------------------------------------------------
(* The bridge on the bus. *)

\* The bridge's request is what its port shows the bus, and the bus has one
\* to answer exactly while the bridge waits for its answer.
PortsAgree ==
    /\ sbReq[AxI] = BridgePort
    /\ sbAwaited[AxI] # <<>> <=> alState \in {"WWAIT", "RWAIT"}

LbInv == SbInv /\ AlInv /\ PortsAgree

\* The edge of the composition, named as LbNext binds it.
LbEdge(ready, rsp) ==
    /\ AlStep(Granted(AxI), rsp, ready) /\ HostMoves
    /\ AlHistory(ready) /\ BusHistory(Granted(AxI), rsp)
    /\ SbBuffer /\ SbIssue /\ sbResp' = RespOf
    /\ DevicesAnswer /\ SbHistory /\ HartsRaise

LEMMA AxIHost == AxI \in Hosts
  BY SbAssumption DEF AxI, Hosts

\* The bus grants the bridge when it asks, and only then.
LEMMA GrantsAsked == ASSUME LbInv, Granted(AxI) PROVE BusReq
  <1>1. sbReq[AxI] = sbIssue.req /\ sbIssue \in [host : Hosts, req : Requests]
    BY DEF LbInv, SbInv, IssueLeft, Granted, SbTypeOK, Issues
  <1>2. sbIssue.req # NoRequest
    BY <1>1, SbAssumption DEF Requests
  <1> QED BY <1>1, <1>2 DEF LbInv, PortsAgree, BridgePort

\* The bus answers the bridge when it owes it an answer, and only then.
LEMMA AnswersAwaited == ASSUME LbInv PROVE Answered(AxI) <=> sbAwaited[AxI] # <<>>
  <1>1. sbAwaited[AxI] # <<>> <=> sbResp # NoIssue /\ sbResp.host = AxI
    BY AxIHost DEF LbInv, SbInv, PipelineDepth
  <1>2. sbResp # NoIssue /\ sbResp.host = AxI => Answered(AxI)
    BY DEF LbInv, SbInv, PipelineDepth, Answered, AnswerTo, SbTypeOK, Issues, Requests
  <1>3. Answered(AxI) => sbResp # NoIssue /\ sbResp.host = AxI
    BY DEF Answered, AnswerTo
  <1> QED BY <1>1, <1>2, <1>3

LEMMA StepOfBridge ==
    ASSUME LbInv, NEW ready \in Readies, NEW rsp \in BridgeAnswers, LbEdge(ready, rsp)
    PROVE  rsp \in Responses /\ BusMay(Granted(AxI), rsp) /\ BusMoves(Granted(AxI), rsp)
  <1>1. rsp \in Responses
    <2>1. CASE ~Answered(AxI)
      BY <2>1 DEF BridgeAnswers, Responses, Offers
    <2>2. CASE Answered(AxI)
      <3>1. PICK r \in [err : {AnswerTo(AxI).req = Nowhere}, data : Words] : rsp = {r}
        BY <2>2 DEF BridgeAnswers, One
      <3>2. r \in [err : BOOLEAN, data : Words]
        BY <3>1
      <3> QED BY <3>1, <3>2 DEF Responses, Offers, One
    <2> QED BY <2>1, <2>2
  <1>2. Granted(AxI) => BusReq /\ alBus = {}
    BY GrantsAsked DEF BusReq, LbInv, AlInv, BusHasReq
  <1>3. rsp # {} => Answered(AxI)
    BY DEF BridgeAnswers
  <1>4. rsp # {} => alBus # {}
    BY <1>3, AnswersAwaited DEF LbInv, AlInv, BusHasReq, PortsAgree
  <1> QED BY <1>1, <1>2, <1>4 DEF BusMay, BusMoves, LbEdge

LEMMA AlStepOfLb ==
    ASSUME LbInv, NEW ready \in Readies, NEW rsp \in BridgeAnswers, LbEdge(ready, rsp)
    PROVE  AlNext
  <1>1. Granted(AxI) \in BOOLEAN
    BY DEF Granted
  <1> QED BY <1>1, StepOfBridge DEF AlNext, LbEdge

\* What the bridge asks for after the edge, it asked for before and was not
\* granted, or it had nothing to be answered.
LEMMA BridgeHolds ==
    ASSUME LbInv, NEW ready \in Readies, NEW rsp \in BridgeAnswers, LbEdge(ready, rsp)
    PROVE  /\ sbReq[AxI] # NoRequest /\ ~Granted(AxI) => BridgePort' = sbReq[AxI]
           /\ BusReq' => ~Granted(AxI) /\ sbAwaited[AxI] = <<>>
  <1>1. sbReq[AxI] # NoRequest => BusReq
    BY DEF LbInv, PortsAgree, BridgePort
  <1>2. BusReq => AlXfer(Granted(AxI))
    BY DEF LbEdge, AlStep, BusReq, BValid, RValid, AlIdle, AlWaitW, AlXfer, AlWWait, AlRWait, AlResp
  <1>3. BusReq /\ ~Granted(AxI) => BridgePort' = BridgePort
    BY <1>2 DEF AlXfer, BridgePort, BusReq
  <1>4. BusReq' => alState \in {"IDLE", "WAIT_W", "XFER"}
    BY DEF LbEdge, AlStep, BusReq, BValid, RValid, AlIdle, AlWaitW, AlXfer, AlWWait, AlRWait, AlResp
  <1>5. BusReq' => ~Granted(AxI)
    BY <1>2, GrantsAsked DEF AlXfer, BusReq, GrantedTo
  <1>6. BusReq' => sbAwaited[AxI] = <<>>
    BY <1>4 DEF LbInv, PortsAgree
  <1> QED BY <1>1, <1>3, <1>5, <1>6 DEF LbInv, PortsAgree

LEMMA SbStepOfLb ==
    ASSUME LbInv, NEW ready \in Readies, NEW rsp \in BridgeAnswers, LbEdge(ready, rsp)
    PROVE  SbNext
  <1>1. HostsRaise
    <2>1. sbReq' \in [Hosts -> Requests \cup {NoRequest}]
      BY DEF LbEdge, HartsRaise
    <2>2. sbReq'[AxI] = BridgePort'
      BY DEF LbEdge, HartsRaise
    <2>3. ASSUME NEW h \in Hosts
          PROVE  IF sbReq[h] # NoRequest /\ ~Granted(h) THEN sbReq'[h] = sbReq[h]
                 ELSE sbReq'[h] # NoRequest => Len(sbAwaited[h]) < MaxAwaited
      <3>1. CASE h # AxI
        BY <3>1 DEF LbEdge, HartsRaise
      <3>2. CASE h = AxI
        <4>1. sbReq'[AxI] # NoRequest => BusReq'
          BY <2>2 DEF BridgePort
        <4>2. BusReq' => Len(sbAwaited[AxI]) < MaxAwaited
          BY BridgeHolds, SbAssumption
        <4> QED BY <2>2, <3>2, <4>1, <4>2, BridgeHolds
      <3> QED BY <3>1, <3>2
    <2> QED BY <2>1, <2>3 DEF HostsRaise
  <1> QED BY <1>1 DEF LbEdge, SbNext

LEMMA PortsAgreeNext ==
    ASSUME LbInv, NEW ready \in Readies, NEW rsp \in BridgeAnswers, LbEdge(ready, rsp)
    PROVE  PortsAgree'
  <1>1. sbReq'[AxI] = BridgePort'
    BY DEF LbEdge, HartsRaise
  <1>2. sbAwaited'[AxI] # <<>> <=> Granted(AxI)
    <2>1. SbInv'
      BY SbStepOfLb, NextInv DEF LbInv
    <2>2. sbResp' = sbIssue
      BY DEF LbEdge, RespOf
    <2>3. sbAwaited'[AxI] = IF sbResp' # NoIssue /\ sbResp'.host = AxI THEN <<sbResp'.req>> ELSE <<>>
      BY <2>1, AxIHost DEF SbInv, PipelineDepth
    <2>4. <<sbResp'.req>> # <<>>
      OBVIOUS
    <2> QED BY <2>2, <2>3, <2>4 DEF Granted
  <1>3. rsp # {} <=> alState \in {"WWAIT", "RWAIT"}
    <2>1. rsp # {} <=> Answered(AxI)
      BY DEF BridgeAnswers, One
    <2> QED BY <2>1, AnswersAwaited DEF LbInv, PortsAgree
  <1>4. alState' \in {"WWAIT", "RWAIT"} <=> Granted(AxI)
    BY <1>3, GrantsAsked
       DEF LbEdge, AlStep, BusReq, BValid, RValid, AlIdle, AlWaitW, AlXfer, AlWWait, AlRWait, AlResp, GrantedTo
  <1> QED BY <1>1, <1>2, <1>4 DEF PortsAgree

LEMMA LbNextInv ==
    ASSUME LbInv, [LbNext]_lbVars
    PROVE  LbInv' /\ [SbNext]_sbVars /\ [AlNext]_alVars
  <1>1. ASSUME NEW ready \in Readies, NEW rsp \in BridgeAnswers, LbEdge(ready, rsp)
        PROVE  LbInv' /\ [SbNext]_sbVars /\ [AlNext]_alVars
    <2>1. SbNext /\ AlNext /\ PortsAgree'
      BY <1>1, SbStepOfLb, AlStepOfLb, PortsAgreeNext
    <2>2. SbInv'
      BY <2>1, NextInv DEF LbInv
    <2>3. AlInv'
      BY <2>1, AlNextInv DEF LbInv, AlNext
    <2> QED BY <2>1, <2>2, <2>3 DEF LbInv
  <1>2. CASE LbNext
    BY <1>1, <1>2 DEF LbNext, LbEdge
  <1>3. CASE UNCHANGED lbVars
    <2>1. UNCHANGED sbVars /\ UNCHANGED alVars
      BY <1>3 DEF lbVars
    <2>2. PortsAgree'
      BY <2>1 DEF PortsAgree, BridgePort, BusReq, sbVars, alVars, alRegs, LbInv
    <2> QED BY <2>1, <2>2, NextInv, AlStutters DEF LbInv
  <1> QED BY <1>2, <1>3

LEMMA LbInitInv == ASSUME LbInit PROVE LbInv
  <1>1. SbInv /\ AlInv
    BY InitInv, AlInitInv DEF LbInit
  <1>2. PortsAgree
    BY AxIHost DEF LbInit, SbInit, AlInit, PortsAgree, BridgePort, BusReq
  <1> QED BY <1>1, <1>2 DEF LbInv

(* Composed, each keeps to the specification it has alone: the bridge is    *)
(* one of the hosts SharedBus allows, and the bus the one AxiLiteBridge     *)
(* allows.                                                                  *)
THEOREM LbComposition == LbSpec => LbComposes
  <1>1. LbInit => LbInv /\ SbInit /\ AlInit
    BY LbInitInv DEF LbInit
  <1>2. LbInv /\ [LbNext]_lbVars => LbInv' /\ [SbNext]_sbVars /\ [AlNext]_alVars
    BY LbNextInv
  <1> QED BY <1>1, <1>2, PTL DEF LbSpec, LbComposes, SbSpec, AlSpec

(* So everything shown of each alone holds of the two together.             *)
THEOREM LbKeepsBoth ==
    LbSpec => [](SbIssuesHeld /\ SbAnswersInOrder /\ SbNoStarvation /\ AlExchange)
  BY LbComposition, SbIssuesHeldCorrect, SbAnswersInOrderCorrect, SbNoStarvationCorrect,
     AlExchangeCorrect, PTL DEF LbComposes
=============================================================================
