---------------------------- MODULE PacketEngine ----------------------------
(***************************************************************************)
(* What a packet engine promises its driver: descriptors are served in the *)
(* order in which they were accepted; a result word is offered only when   *)
(* the whole packet has been taken; each packet completes exactly once,    *)
(* with a report of its own, and the completion flag stays until it is     *)
(* acknowledged.  An error may drop everything in flight, and nothing is   *)
(* accepted until it is cleared.  GemmEngine implements this specification.*)
(***************************************************************************)
EXTENDS Naturals, Sequences

CONSTANTS
    PeCapacity, \* packets in flight
    PePackets   \* packets: need and gives in words, and what is reported of them

VARIABLES
    peQueue,          \* the packets in flight, oldest first, with words taken and given
    peError, peDone,  \* the sticky flags
    peCount, peReport \* completions since reset, and the report of the last

peVars == <<peQueue, peError, peDone, peCount, peReport>>

PeBlank == [tag |-> 0, macs |-> 0, cycles |-> 0]

PeInit ==
    /\ peQueue = <<>> /\ peError = FALSE /\ peDone = FALSE
    /\ peCount = 0 /\ peReport = PeBlank

PeHungry(q) == {i \in DOMAIN q : q[i].fed < q[i].pkt.need}

\* The oldest packet that is not whole takes a word.
PeTaken(q) ==
    LET i == CHOOSE j \in PeHungry(q) : \A k \in PeHungry(q) : j <= k
    IN  [q EXCEPT ![i].fed = @ + 1]

\* The head may give a word.
PeMayGive == peQueue # <<>> /\ 1 \notin PeHungry(peQueue)
PeEnds == Head(peQueue).sent + 1 = Head(peQueue).pkt.gives
PeGiven(q) == IF PeEnds THEN Tail(q) ELSE [q EXCEPT ![1].sent = @ + 1]

\* What a step that gives a word, or none, does to the completions.
PeReports(give) ==
    IF give /\ PeEnds
    THEN peCount' = peCount + 1 /\ peReport' = Head(peQueue).pkt.report
    ELSE UNCHANGED <<peCount, peReport>>

PeRun(take, give, new) ==
    /\ take => PeHungry(peQueue) # {}
    /\ give => PeMayGive
    /\ new # <<>> => Len(peQueue) < PeCapacity /\ ~peError
    /\ LET fed == IF take THEN PeTaken(peQueue) ELSE peQueue
       IN  peQueue' = (IF give THEN PeGiven(fed) ELSE fed) \o new
    /\ PeReports(give)
    /\ peDone' \in IF give /\ PeEnds THEN {TRUE} ELSE {peDone, FALSE}
    /\ peError' \in {peError, TRUE}

\* The queue is dropped, by a broken frame or by the command that clears it.
PeDrop(give) ==
    /\ give => PeMayGive
    /\ peQueue' = <<>> /\ PeReports(give)
    /\ \/ peError' = TRUE /\ peDone' \in IF give /\ PeEnds THEN {TRUE} ELSE {peDone, FALSE}
       \/ peError' = FALSE /\ peDone' = FALSE

PeNew == {<<>>} \cup {<<[pkt |-> p, fed |-> 0, sent |-> 0]>> : p \in PePackets}

PeNext ==
    \/ \E take, give \in BOOLEAN, new \in PeNew : PeRun(take, give, new)
    \/ \E give \in BOOLEAN : PeDrop(give)

PeSpec == PeInit /\ [][PeNext]_peVars
=============================================================================
