-------------------------- MODULE MCStreamTransfer --------------------------
(* Pages of two words, bursts of at most two: a three-word segment that      *)
(* starts in mid-page needs three bursts, an aligned one two.                *)
EXTENDS StreamTransfer

Seg(addr, words) == [addr |-> addr, words |-> words]
Cmd(s1, s2, s3, dst, deadline) == [src |-> <<s1, s2, s3>>, dst |-> dst, deadline |-> deadline]

MCValid ==
    {Cmd(Seg(36, 3), NoSegment, NoSegment, Seg(44, 2), 60),
     Cmd(Seg(32, 1), Seg(44, 2), Seg(40, 1), Seg(36, 3), 60),
     Cmd(Seg(32, 2), Seg(36, 1), NoSegment, Seg(60, 1), 60)}

\* Each breaks one rule: length, order, alignment, range, sum, unused segment, deadline.
MCInvalid ==
    {Cmd(NoSegment, NoSegment, NoSegment, Seg(36, 1), 60),
     Cmd(Seg(32, 1), NoSegment, Seg(40, 1), Seg(36, 1), 60),
     Cmd(Seg(34, 1), NoSegment, NoSegment, Seg(36, 1), 60),
     Cmd(Seg(32, 1), NoSegment, NoSegment, Seg(60, 2), 60),
     Cmd(Seg(28, 1), NoSegment, NoSegment, Seg(36, 1), 60),
     Cmd(Seg(32, 2), Seg(40, 2), Seg(48, 1), Seg(36, 1), 60),
     Cmd(Seg(32, 1), Seg(40, 0), NoSegment, Seg(36, 1), 60),
     Cmd(Seg(32, 1), NoSegment, NoSegment, Seg(36, 1), 0)}

\* Deadlines that run out at every stage of a short packet.
MCShort == {Cmd(Seg(36, 2), NoSegment, NoSegment, Seg(44, 2), d) : d \in {1, 3, 8, 15, 20, 24}}

MCDescriptors == MCValid \cup MCInvalid \cup MCShort
=============================================================================
