----------------------------- MODULE SharedBus -----------------------------
(***************************************************************************)
(* rtl/soc/pa_shared_bus.sv: the pipelined local bus.  Each host's request *)
(* is captured in a one-entry buffer, arbitrated from there in turn, and   *)
(* issued to a device one cycle later; the device answers in the cycle     *)
(* after that.  A step is one clock edge.  The hosts keep a request up     *)
(* until it is granted and may then raise the next one at once.            *)
(***************************************************************************)
EXTENDS Naturals, SequencesExt

CONSTANTS
    NrHosts, Devices,
    Nowhere,    \* what an address outside every window decodes to
    NoRequest,  \* no request
    MaxAwaited  \* bound: answers a host may be waiting for

ASSUME SbAssumption ==
    /\ NrHosts \in Nat \ {0} /\ MaxAwaited \in Nat \ {0}
    /\ Nowhere \notin Devices /\ NoRequest \notin Devices \cup {Nowhere}

Hosts == 0 .. NrHosts - 1

\* Of a request only the device its address decodes to is kept.
Requests == Devices \cup {Nowhere}
NoIssue == [host |-> 0, req |-> NoRequest]

VARIABLES
    sbPending, \* per host: pending_q with pending_addr_q
    sbRearm,   \* per host: rearm_q
    sbRr,      \* rr_q
    sbIssue,   \* issue_valid_q, issue_host_q, issue_device_q
    sbResp,    \* resp_valid_q, resp_host_q, resp_device_q
    sbAnswer,  \* what the devices present: the request each has just served
    sbReq,     \* per host: host_req_i and its address
    \* history: per host, the requests granted and not yet answered, and the
    \* requests of others issued since its own was raised
    sbAwaited, sbPassed

sbRegs == <<sbPending, sbRearm, sbRr, sbIssue, sbResp>>
sbVars == <<sbRegs, sbAnswer, sbReq, sbAwaited, sbPassed>>

SbInit ==
    /\ sbPending = [h \in Hosts |-> NoRequest] /\ sbRearm = [h \in Hosts |-> FALSE] /\ sbRr = 0
    /\ sbIssue = NoIssue /\ sbResp = NoIssue /\ sbAnswer = [d \in Devices |-> NoIssue]
    /\ sbReq = [h \in Hosts |-> NoRequest]
    /\ sbAwaited = [h \in Hosts |-> <<>>] /\ sbPassed = [h \in Hosts |-> 0]

-----------------------------------------------------------------------------
(* Arbitration. *)

Waiting == {h \in Hosts : sbPending[h] # NoRequest}
\* The offset at which arb_host's search meets the host.
Distance(h) == IF h >= sbRr THEN h - sbRr ELSE h + NrHosts - sbRr

(* Mutation: the lowest host always wins. *)
LowestHost(h) == h \in Waiting /\ \A g \in Waiting : h <= g

\* arb_host: the first waiting host from the round-robin pointer on.
IsNext(h) == h \in Waiting /\ \A g \in Waiting : Distance(h) <= Distance(g)

Arbitrated == {h \in Hosts : IsNext(h)}

\* host_gnt_o: a host is granted in the cycle its request is issued.
Granted(h) == sbIssue # NoIssue /\ sbIssue.host = h
\* device_req_o
Serves(d) == sbIssue # NoIssue /\ sbIssue.req = d

(* Mutation: a host's buffer captures again on the grant edge. *)
CapturesAtOnce(h) == sbPending[h] = NoRequest /\ sbReq[h] # NoRequest

Captures(h) == sbPending[h] = NoRequest /\ ~sbRearm[h] /\ sbReq[h] # NoRequest

SbBuffer ==
    /\ sbPending' = [h \in Hosts |-> IF h \in Arbitrated THEN NoRequest
                                     ELSE IF Captures(h) THEN sbReq[h] ELSE sbPending[h]]
    /\ sbRearm' = [h \in Hosts |-> h \in Arbitrated]

SbIssue ==
    IF Arbitrated = {} THEN sbIssue' = NoIssue /\ UNCHANGED sbRr
    ELSE \E h \in Arbitrated :
        /\ sbIssue' = [host |-> h, req |-> sbPending[h]]
        /\ sbRr' = IF h = NrHosts - 1 THEN 0 ELSE h + 1

(* Mutation: the response is routed by what is being issued now. *)
RespOfNext == IF Arbitrated = {} \/ sbIssue = NoIssue THEN NoIssue
              ELSE [host |-> CHOOSE h \in Arbitrated : TRUE, req |-> sbIssue.req]

RespOf == sbIssue

\* What the answer on a host's port is the answer to: the bus itself answers
\* a decode error, else the device does if it has something to say.
AnswerTo(h) ==
    IF sbResp = NoIssue \/ sbResp.host # h THEN NoIssue
    ELSE IF sbResp.req = Nowhere THEN sbResp ELSE sbAnswer[sbResp.req]

\* host_rvalid_o
Answered(h) == AnswerTo(h) # NoIssue

-----------------------------------------------------------------------------
(* The hosts and the devices. *)

\* A host raises its next request once the last one has been granted.
HostsRaise ==
    sbReq' \in {r \in [Hosts -> Requests \cup {NoRequest}] :
        \A h \in Hosts :
            IF sbReq[h] # NoRequest /\ ~Granted(h) THEN r[h] = sbReq[h]
            ELSE r[h] # NoRequest => Len(sbAwaited[h]) < MaxAwaited}

DevicesAnswer == sbAnswer' = [d \in Devices |-> IF Serves(d) THEN sbIssue ELSE NoIssue]

SbHistory ==
    /\ sbAwaited' = [h \in Hosts |->
          LET left == IF Answered(h) /\ sbAwaited[h] # <<>> THEN Tail(sbAwaited[h]) ELSE sbAwaited[h]
          IN  IF Granted(h) THEN Append(left, sbIssue.req) ELSE left]
    /\ sbPassed' = [h \in Hosts |->
          IF sbReq[h] = NoRequest \/ Granted(h) THEN 0
          ELSE IF sbIssue # NoIssue THEN sbPassed[h] + 1 ELSE sbPassed[h]]

\* One clock edge.
SbNext ==
    /\ SbBuffer /\ SbIssue /\ sbResp' = RespOf
    /\ HostsRaise /\ DevicesAnswer /\ SbHistory

SbSpec == SbInit /\ [][SbNext]_sbVars

-----------------------------------------------------------------------------
(* Properties. *)

\* Types of the registers, the port wires and the history.
Issues == [host : Hosts, req : Requests] \cup {NoIssue}

SbTypeOK ==
    /\ sbPending \in [Hosts -> Requests \cup {NoRequest}] /\ sbRearm \in [Hosts -> BOOLEAN]
    /\ sbRr \in Hosts /\ sbIssue \in Issues /\ sbResp \in Issues
    /\ sbAnswer \in [Devices -> Issues] /\ sbReq \in [Hosts -> Requests \cup {NoRequest}]
    /\ sbAwaited \in [Hosts -> Seq(Requests)] /\ sbPassed \in [Hosts -> Nat]

(* pa_shared_bus.sv:48-52: the guard "prevents re-capturing the             *)
(* just-granted request": what is issued is what its host asks for in that  *)
(* very cycle, so no request is served twice and no grant goes to a host    *)
(* that has moved on.                                                       *)
SbIssuesHeld == sbIssue # NoIssue => sbReq[sbIssue.host] = sbIssue.req

(* pa_shared_bus.sv:9: "The selected device returns rvalid/rdata one cycle  *)
(* after issue": a host is answered in the order of its grants, with what   *)
(* the device did for this very request, and never unasked, whatever the    *)
(* other hosts have in the pipeline.                                        *)
SbAnswersInOrder ==
    \A h \in Hosts :
        Answered(h) => /\ sbAwaited[h] # <<>>
                       /\ AnswerTo(h) = [host |-> h, req |-> Head(sbAwaited[h])]

(* pa_shared_bus.sv:9-10: "The round-robin pointer advances after every     *)
(* grant so instruction traffic cannot starve another host": from raising   *)
(* a request to its grant, each other host is served at most once, but for  *)
(* one more request that was in the pipeline already.                       *)
SbNoStarvation == \A h \in Hosts : sbPassed[h] <= NrHosts
=============================================================================
