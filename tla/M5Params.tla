------------------------------ MODULE M5Params ------------------------------
(* The numbers the M5 memory fabric is built on, as parameters, and the      *)
(* address arithmetic that uses them.  Addresses count bytes, a word is four *)
(* bytes.  The values in the RTL are given with each parameter.              *)
EXTENDS Naturals, Sequences

CONSTANTS
    MaxWords,     \* 256: the longest burst, in words
    PageBytes,    \* 4096
    SpaceBytes,   \* 2^32: the physical and the device-virtual address space
    ArenaBase,    \* 0x40000000: where the DDR arena starts in device addresses
    MaxArenaBytes \* 0x10000000

ASSUME M5Assumption ==
    /\ MaxWords \in Nat \ {0} /\ PageBytes \in Nat \ {0} /\ PageBytes % 4 = 0
    /\ SpaceBytes \in Nat /\ ArenaBase \in Nat /\ MaxArenaBytes \in Nat
    /\ ArenaBase + MaxArenaBytes <= SpaceBytes

Bytes(words) == 4 * words

\* addr[1:0] != 0
Misaligned(addr) == addr % 4 # 0

\* page_end > 4096: the burst would run into the next page.
CrossesPage(addr, words) == (addr % PageBytes) + Bytes(words) > PageBytes

\* words_q == 0 || words_q > 256
BadLength(words) == words = 0 \/ words > MaxWords

\* The 33-bit end address is beyond the 32-bit space.
PastSpace(addr, bytes) == addr + bytes > SpaceBytes
=============================================================================
