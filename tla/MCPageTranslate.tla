--------------------------- MODULE MCPageTranslate ---------------------------
(* An arena of up to three pages of four words in a space of 128 bytes, a    *)
(* two-line cache (pages 0 and 2 collide), two places for the page table and *)
(* requests that are legal or break one rule each.                           *)
EXTENDS PageTranslate

MCRequests ==
    [addr : {64, 68, 80, 96}, words : {1, 3}, write : BOOLEAN]
        \cup [addr : {60, 66, 76, 92, 108, 112}, words : {2}, write : {FALSE}]
        \cup [addr : {64}, words : {0, 4}, write : {TRUE}]

MCConfigs ==
    {[enable |-> TRUE,  root |-> 0,   size |-> 48],
     [enable |-> TRUE,  root |-> 12,  size |-> 32],
     [enable |-> TRUE,  root |-> 2,   size |-> 16],
     [enable |-> TRUE,  root |-> 124, size |-> 32],
     [enable |-> TRUE,  root |-> 0,   size |-> 64],
     [enable |-> TRUE,  root |-> 0,   size |-> 20],
     [enable |-> TRUE,  root |-> 0,   size |-> 0],
     [enable |-> FALSE, root |-> 0,   size |-> 48]}

Pte(v, w, r, f) == [valid |-> v, writable |-> w, reserved |-> r, frame |-> f]

\* Word addresses 0 .. 8 hold page p's entry at p, and at 12 + p.
Table(e) == [x \in {4 * i : i \in 0 .. 5} |-> e[(x \div 4) + 1]]

MCPageTables ==
    {Table(<<Pte(TRUE, TRUE, FALSE, 2), Pte(TRUE, FALSE, FALSE, 3), Pte(TRUE, TRUE, FALSE, 6),
             Pte(TRUE, TRUE, FALSE, 3), Pte(FALSE, TRUE, FALSE, 2), Pte(TRUE, TRUE, TRUE, 7)>>),
     Table(<<Pte(TRUE, FALSE, FALSE, 6), Pte(FALSE, FALSE, FALSE, 0), Pte(TRUE, TRUE, TRUE, 2),
             Pte(TRUE, TRUE, FALSE, 2), Pte(TRUE, FALSE, FALSE, 7), Pte(TRUE, TRUE, FALSE, 3)>>)}
=============================================================================
