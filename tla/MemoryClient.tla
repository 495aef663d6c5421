---------------------------- MODULE MemoryClient ----------------------------
(***************************************************************************)
(* What the memory fabric expects of its bulk client: a request once       *)
(* offered stands until it is granted, a granted request is owned until    *)
(* its completion is taken, completions are always taken, and nothing new  *)
(* is offered while the abort is up.  StreamTransfer, the packet mover,    *)
(* implements this specification; MemorySystem is checked against it.      *)
(***************************************************************************)
CONSTANTS
    ClientRequests, \* the requests the client may offer
    NoClientRequest \* none of them

VARIABLES
    mcState, \* see McStates
    mcReq    \* the request offered or owned, else none

mcVars == <<mcState, mcReq>>

\* Between: busy with a packet, but no request offered.
McStates == {"Free", "Between", "Offer", "Owned"}

McInit == mcState = "Free" /\ mcReq = NoClientRequest

McBusy  == mcState # "Free"
McValid == mcState = "Offer"
McDoneReady == mcState = "Owned"

McFree(abort) ==
    /\ mcState = "Free"
    /\ mcState' \in IF abort THEN {"Free"} ELSE {"Free", "Between"}
    /\ UNCHANGED mcReq

McBetween(abort) ==
    /\ mcState = "Between"
    /\ \/ mcState' = "Free" /\ UNCHANGED mcReq
       \/ ~abort /\ mcState' = "Between" /\ UNCHANGED mcReq
       \/ ~abort /\ mcState' = "Offer" /\ mcReq' \in ClientRequests

McOffer(ready) ==
    /\ mcState = "Offer"
    /\ mcState' = IF ready THEN "Owned" ELSE "Offer"
    /\ UNCHANGED mcReq

McOwned(done) ==
    /\ mcState = "Owned"
    /\ \/ ~done /\ UNCHANGED mcVars
       \/ done /\ mcState' \in {"Between", "Free"} /\ mcReq' = NoClientRequest

\* One clock edge of the client.
McTick(abort, ready, done) ==
    McFree(abort) \/ McBetween(abort) \/ McOffer(ready) \/ McOwned(done)

McNext == \E abort, ready, done \in BOOLEAN : McTick(abort, ready, done)

McSpec == McInit /\ [][McNext]_mcVars
=============================================================================
