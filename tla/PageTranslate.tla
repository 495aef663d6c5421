---------------------------- MODULE PageTranslate ----------------------------
(***************************************************************************)
(* rtl/m5/pa_m5_page_translate.sv: turns a device-virtual burst into a     *)
(* physical address through a one-level page table in DDR, with a direct   *)
(* mapped cache of page-table entries.  A step is one clock edge.  The     *)
(* page table and the mapping registers belong to the host; as             *)
(* docs/M5_ARCHITECTURE.md asks, it changes them only while the translator *)
(* is idle and then holds flush until it is seen idle again.               *)
(***************************************************************************)
EXTENDS M5Params, FiniteSets

CONSTANTS
    CacheEntries, \* 16: a power of two, so cache_index is page mod CacheEntries
    Requests,     \* the requests a client may present
    Configs,      \* the mapping-register values the host may program
    PageTables    \* the contents the host may give DDR: word address -> entry

\* A page-table entry: bit 0, bit 1, "bits 11:2 are not all zero", bits 31:12.
Ptes == [valid : BOOLEAN, writable : BOOLEAN, reserved : BOOLEAN,
         frame : 0 .. (SpaceBytes \div PageBytes) - 1]

ASSUME TrAssumption ==
    /\ CacheEntries \in Nat \ {0}
    /\ Requests \subseteq [addr : Nat, words : Nat, write : BOOLEAN]
    /\ Configs \subseteq [enable : BOOLEAN, root : Nat, size : Nat]

VARIABLES
    trState, \* state_q
    trCfg,   \* enabled_q, root_q, size_q: latched with the request
    trReq,   \* addr_q, words_q, write_q (page_q is a function of addr_q)
    trPte,   \* pte_q
    trPhys,  \* translated_q
    trFault, \* fault_q
    trCache, \* cache_valid_q, cache_tag_q, cache_pte_q: a line is {} or {entry}
    hostCfg,   \* the mapping registers, as the cluster drives cfg_*_i
    hostTable, \* DDR content as far as the page-table walks read it
    hostFlush  \* cfg_flush_i

trRegs == <<trState, trCfg, trReq, trPte, trPhys, trFault, trCache>>
hostVars == <<hostCfg, hostTable, hostFlush>>
trVars == <<trRegs, hostVars>>

TrStates == {"Idle", "Check", "TableSend", "TableWait", "Decode", "Respond"}
NoPte == [valid |-> FALSE, writable |-> FALSE, reserved |-> FALSE, frame |-> 0]

TrInit ==
    /\ trState = "Idle"
    /\ trCfg = [enable |-> FALSE, root |-> 0, size |-> 0]
    /\ trReq = [addr |-> 0, words |-> 0, write |-> FALSE]
    /\ trPte = NoPte /\ trPhys = 0 /\ trFault = 0
    /\ trCache = [i \in 0 .. CacheEntries - 1 |-> {}]

\* Where the host may be when the translator leaves reset.
HostInit == hostCfg \in Configs /\ hostTable \in PageTables /\ hostFlush = FALSE

-----------------------------------------------------------------------------
(* Combinational signals. *)

\* page_q: a 16-bit field of the 32-bit difference.
TrPage == (((trReq.addr + SpaceBytes - ArenaBase) % SpaceBytes) \div PageBytes)
              % (MaxArenaBytes \div PageBytes)

TrLine == TrPage % CacheEntries
(* Mutation: the tag is not compared. *)
TrHitsAnyTag == trCache[TrLine]

TrHits == {e \in trCache[TrLine] : e.tag = TrPage}
TrTableAddr == trCfg.root + 4 * TrPage

TrBadConfig ==
    \/ trCfg.size = 0 \/ trCfg.size > MaxArenaBytes \/ trCfg.size % PageBytes # 0
    \/ Misaligned(trCfg.root) \/ PastSpace(trCfg.root, 4 * (trCfg.size \div PageBytes))

TrOutside ==
    \/ BadLength(trReq.words) \/ trReq.addr < ArenaBase
    \/ trReq.addr >= ArenaBase + trCfg.size
    \/ trReq.addr + Bytes(trReq.words) > ArenaBase + trCfg.size

TrRequestFault ==
    CASE ~trCfg.enable -> 1
      [] trCfg.enable /\ TrBadConfig -> 2
      [] trCfg.enable /\ ~TrBadConfig /\ TrOutside -> 3
      [] OTHER -> IF Misaligned(trReq.addr) THEN 4
                  ELSE IF CrossesPage(trReq.addr, trReq.words) THEN 5 ELSE 0

(* Mutation: the write permission is not looked at. *)
TrPteFaultNoWrite == IF ~trPte.valid THEN 6 ELSE IF trPte.reserved THEN 8 ELSE 0

TrPteFault ==
    IF ~trPte.valid THEN 6
    ELSE IF trPte.reserved THEN 8
    ELSE IF trReq.write /\ ~trPte.writable THEN 7 ELSE 0

TrFill == {[tag |-> TrPage, pte |-> trPte]}

NoLines == [i \in 0 .. CacheEntries - 1 |-> {}]

TrReqReady(flush) == trState = "Idle" /\ ~flush
TrRspValid == trState = "Respond"
TrBusy == trState # "Idle"
TrTableValid == trState = "TableSend"

-----------------------------------------------------------------------------
(* One action per arm of case (state_q). *)

TrFlush(flush) ==
    /\ trState = "Idle" /\ flush
    /\ trCache' = NoLines
    /\ UNCHANGED <<trState, trCfg, trReq, trPte, trPhys, trFault>>

TrAccept(flush, cfg, req) ==
    /\ TrReqReady(flush)
    /\ trCfg' = cfg
    /\ trReq' = req
    /\ trPhys' = 0 /\ trFault' = 0
    /\ trState' = "Check"
    /\ UNCHANGED <<trPte, trCache>>

TrCheck ==
    /\ trState = "Check"
    /\ \/ /\ TrRequestFault # 0
          /\ trFault' = TrRequestFault /\ trState' = "Respond" /\ UNCHANGED trPte
       \/ /\ TrRequestFault = 0 /\ TrHits # {}
          /\ \E e \in TrHits : trPte' = e.pte
          /\ trState' = "Decode" /\ UNCHANGED trFault
       \/ /\ TrRequestFault = 0 /\ TrHits = {}
          /\ trState' = "TableSend" /\ UNCHANGED <<trPte, trFault>>
    /\ UNCHANGED <<trCfg, trReq, trPhys, trCache>>

TrTableSend ==
    /\ TrTableValid
    /\ trState' = "TableWait"
    /\ UNCHANGED <<trCfg, trReq, trPte, trPhys, trFault, trCache>>

TrTableWait(pte, error) ==
    /\ trState = "TableWait"
    /\ IF error THEN trFault' = 9 /\ trState' = "Respond" /\ UNCHANGED trPte
                ELSE trPte' = pte /\ trState' = "Decode" /\ UNCHANGED trFault
    /\ UNCHANGED <<trCfg, trReq, trPhys, trCache>>

\* The permission is judged here, whether the entry was cached or fetched.
TrDecode ==
    /\ trState = "Decode"
    /\ trFault' = TrPteFault
    /\ IF TrPteFault = 0
       THEN /\ trPhys' = trPte.frame * PageBytes + (trReq.addr % PageBytes)
            /\ trCache' = [trCache EXCEPT ![TrLine] = TrFill]
       ELSE UNCHANGED <<trPhys, trCache>>
    /\ trState' = "Respond"
    /\ UNCHANGED <<trCfg, trReq, trPte>>

TrRespond ==
    /\ TrRspValid
    /\ trState' = "Idle"
    /\ UNCHANGED <<trCfg, trReq, trPte, trPhys, trFault, trCache>>

\* A clock edge on which the party being waited for does not answer.
TrWait(reqValid, flush, tableReady, tableRsp, rspReady) ==
    /\ \/ trState = "Idle" /\ ~reqValid /\ ~flush
       \/ trState = "TableSend" /\ ~tableReady
       \/ trState = "TableWait" /\ ~tableRsp
       \/ trState = "Respond" /\ ~rspReady
    /\ UNCHANGED trRegs

\* One clock edge with the given inputs.
TrTick(flush, reqValid, cfg, req, tableReady, tableRsp, pte, error, rspReady) ==
    \/ TrFlush(flush)
    \/ reqValid /\ TrAccept(flush, cfg, req)
    \/ TrCheck
    \/ tableReady /\ TrTableSend
    \/ tableRsp /\ TrTableWait(pte, error)
    \/ TrDecode
    \/ rspReady /\ TrRespond
    \/ TrWait(reqValid, flush, tableReady, tableRsp, rspReady)

-----------------------------------------------------------------------------
(* The translator on its own, with the host that owns the mapping.          *)

HostRemap ==
    /\ ~hostFlush
    /\ hostCfg' \in Configs /\ hostTable' \in PageTables
    /\ hostFlush' = TRUE

\* The host may stop holding flush once flush_ready is up.
HostRelease == hostFlush' \in {FALSE, hostFlush} /\ UNCHANGED <<hostCfg, hostTable>>

TrNext ==
    \/ HostRemap /\ trState = "Idle" /\ UNCHANGED trRegs
    \/ TrFlush(hostFlush) /\ HostRelease
    \/ /\ \/ \E req \in Requests : TrAccept(hostFlush, hostCfg, req)
          \/ TrCheck
          \/ TrTableSend
          \/ \E error \in BOOLEAN : TrTableWait(hostTable[TrTableAddr], error)
          \/ TrDecode
          \/ TrRespond
          \/ TrWait(FALSE, hostFlush, FALSE, FALSE, FALSE)
       /\ UNCHANGED hostVars

TrStart == TrInit /\ HostInit

TrSpec == TrStart /\ [][TrNext]_trVars

-----------------------------------------------------------------------------
(* What a translation promises, stated over the bytes of the burst. *)

TrBytes(req) == {req.addr + k : k \in 0 .. Bytes(req.words) - 1}

TrMapped(cfg) ==
    /\ cfg.enable
    /\ cfg.size \in 1 .. MaxArenaBytes /\ cfg.size % PageBytes = 0
    /\ cfg.root % 4 = 0 /\ cfg.root + 4 * (cfg.size \div PageBytes) <= SpaceBytes

\* There is DDR, and so some entry, wherever a sound mapping looks for one.
ASSUME TableAssumption ==
    \A table \in PageTables, cfg \in Configs : TrMapped(cfg) =>
        \A p \in 0 .. (cfg.size \div PageBytes) - 1 :
            cfg.root + 4 * p \in DOMAIN table /\ table[cfg.root + 4 * p] \in Ptes

TrLegal(cfg, req) ==
    /\ TrMapped(cfg)
    /\ req.words \in 1 .. MaxWords /\ req.addr % 4 = 0
    /\ \A x \in TrBytes(req) : x \in ArenaBase .. ArenaBase + cfg.size - 1
    /\ \A x, y \in TrBytes(req) : x \div PageBytes = y \div PageBytes

\* The entry of page p in the table DDR holds now.
TrEntry(p) == hostTable[hostCfg.root + 4 * p]

TrGrants(pte, write) == pte.valid /\ ~pte.reserved /\ (write => pte.writable)

(* M5_ARCHITECTURE.md: "permissions are checked on cache hits too".  Cached *)
(* or walked, an answer without a fault is the physical address the table   *)
(* in DDR gives now to a burst wholly inside the arena and one page, with   *)
(* write access if it is a write; anything else is refused, and no address  *)
(* is left on the response port of a refusal.                               *)
TrCorrect ==
    TrRspValid =>
        LET pte == TrEntry(TrPage)
            good == TrLegal(hostCfg, trReq) /\ TrGrants(pte, trReq.write)
        IN /\ trFault = 0 => good /\ trPhys = pte.frame * PageBytes + (trReq.addr % PageBytes)
           /\ trFault \notin {0, 9} => ~good
           /\ trFault # 0 => trPhys = 0
=============================================================================
