--------------------------- MODULE MCMemoryBridge ---------------------------
(* An arena of two pages of two words with a one-line PTE cache, so every    *)
(* page evicts the other; page 0 is writable, page 1 read-only or absent.    *)
EXTENDS MemoryBridge, TLC

CONSTANTS a, b, none

\* A granted write, a write denied by page 1 or granted by its remap, a read of two beats.
MCRequests ==
    {[addr |-> 32, words |-> 2, write |-> TRUE],
     [addr |-> 40, words |-> 1, write |-> TRUE],
     [addr |-> 40, words |-> 2, write |-> FALSE]}

MCConfigs == {[enable |-> TRUE, root |-> 0, size |-> 16]}

Pte(v, w, f) == [valid |-> v, writable |-> w, reserved |-> FALSE, frame |-> f]

MCPageTables ==
    {(0 :> Pte(TRUE, TRUE, 2)) @@ (4 :> Pte(TRUE, FALSE, 3)),
     (0 :> Pte(TRUE, TRUE, 3)) @@ (4 :> Pte(FALSE, TRUE, 2))}
=============================================================================
