----------------------------- MODULE MCM4Offload -----------------------------
(* Three positions, filled one at a time or by a prompt of two tokens in     *)
(* blocks of one; one fault.                                                 *)
EXTENDS M4Offload

MCArgmax(logits) == IF logits = Stale THEN 1 ELSE 3 - logits[Len(logits)]
MCJobs == {[prompt |-> <<1>>, count |-> 2], [prompt |-> <<2, 1>>, count |-> 1]}
MCOperands == {BadOperand, Stale} \cup UNION {[1..n -> {1, 2}] : n \in 0..Capacity}
=============================================================================
