------------------------ MODULE MCAcceleratorSystem ------------------------
(* One access of every kind the control tells apart; words of two lanes.    *)
EXTENDS AcceleratorSystem

MCLanes == {1, 2}
MCRegs == {"Src"}
MCZero == [r \in MCRegs |-> [l \in MCLanes |-> 0]]

Word(a, b) == [l \in MCLanes |-> IF l = 1 THEN a ELSE b]
Access(reg, we, data) == [reg |-> reg, we |-> we, be |-> MCLanes, data |-> data, aligned |-> TRUE]
Ring(doorbell) == Access("Command", TRUE, doorbell)

MCDoorbells == {Ring(d) : d \in {"Start", "Ack", "Abort", "ClearRejection"}}

\* Doorbells, whole and partial writes, and a refusal of each code.
MCAccesses ==
    MCDoorbells \cup
    {Access("Src", TRUE, Word(0, 0)), [Access("Src", TRUE, Word(1, 1)) EXCEPT !.be = {2}],
     Access("Irq", TRUE, Word(1, 0)), Access("Irq", TRUE, Word(0, 1)),
     [Ring("Start") EXCEPT !.be = {1}], [Ring("Ack") EXCEPT !.aligned = FALSE],
     [Access("Src", TRUE, Word(0, 0)) EXCEPT !.aligned = FALSE],
     Access("ReadOnly", TRUE, Word(0, 0)), Access("ReadOnly", FALSE, Word(0, 0)),
     Access("Nowhere", FALSE, Word(0, 0))}

MCEngineAccesses == {"Gemm", "Sfpu", "Other"}
=============================================================================
