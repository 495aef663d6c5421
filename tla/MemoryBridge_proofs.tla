------------------------- MODULE MemoryBridge_proofs -------------------------
(***************************************************************************)
(* Theorems about the translated memory bridge: first its two parts, each  *)
(* on its own, then the bridge that drives them.                           *)
(*                                                                         *)
(* The AXI engine, for every burst length, page size, set of words and     *)
(* behaviour of the slave: its registers stay in their types, it is never  *)
(* idle while the slave owes it a response, it never withdraws an offer,   *)
(* and it hands the words of a burst through unchanged.                    *)
(*                                                                         *)
(* The page translator: the address arithmetic, and what an answer of the  *)
(* translator means, for any sizes of page, arena and cache, any requests, *)
(* and any tables and mapping registers the host may program.              *)
(*                                                                         *)
(* The bridge, for any sizes, page tables, mapping registers, requests and *)
(* abort input: every burst on the bus is one the page table allows, the   *)
(* client is told what became of its words, and the engine keeps its own   *)
(* promises when the bridge drives it.                                     *)
(***************************************************************************)
EXTENDS MemoryBridge, SequenceTheorems, TLAPS

-----------------------------------------------------------------------------
(* The AXI engine. *)

\* The states in which a validated command is being carried out.
Serving ==
    {"LoadWrite", "WriteAddr", "WriteData", "WriteResp",
     "ReadAddr", "ReadData", "ReadPrepare", "ReadOut"}

(* What makes the type invariant inductive: index_q is 0 when a command is *)
(* judged, a command that passed is a good one, and from then on index_q   *)
(* stays below its word count, so the RAM is never addressed outside the   *)
(* burst.                                                                  *)
InBurst ==
    /\ axiState = "Validate" => axiIndex = 0
    /\ axiState \in Serving => ~AxiBadCommand /\ axiIndex < axiCmd.words

Command == [addr : Nat, words : Nat, write : BOOLEAN]

\* The types of the storage and of the history, when DDR may return any word
\* of W: on its own the engine is returned Words, below a page table also
\* what the table is made of.
StorageIn(W) ==
    /\ axiIndex \in 0 .. MaxWords - 1
    /\ axiMem \in [0 .. MaxWords - 1 -> W] /\ axiBuffer \in W

HistoryIn(W) == axiTaken \in Seq(Words) /\ axiBeats \in Seq(W) /\ axiGiven \in Seq(W)

EngineInv(W) == AxiControlTypes /\ StorageIn(W) /\ HistoryIn(W) /\ InBurst /\ AxiDrained

-----------------------------------------------------------------------------
(* Every action preserves the invariant. *)

LEMMA InitIInv == ASSUME NEW W, NoWord \in W, AxiInit PROVE EngineInv(W)
<1>1. AxiControlTypes
  BY DEF AxiInit, AxiControlTypes, AxiStates
<1>2. StorageIn(W)
  BY M5Assumption DEF AxiInit, StorageIn
<1>3. HistoryIn(W)
  BY DEF AxiInit, HistoryIn
<1>4. InBurst /\ AxiDrained
  BY DEF AxiInit, InBurst, Serving, AxiDrained
<1> QED  BY <1>1, <1>2, <1>3, <1>4 DEF EngineInv

USE DEF axiRegs, axiHistory, LatchAbort, AxiBusy, AxiAborting, AxiAbandons, AxiReadFault

\* The RAM addresses the engine uses next are inside the RAM.
LEMMA IndexFits ==
  ASSUME NEW W, EngineInv(W)
  PROVE  /\ 0 \in 0 .. MaxWords - 1
         /\ axiState \in Serving /\ ~AxiFinalWord => axiIndex + 1 \in 0 .. MaxWords - 1
  BY M5Assumption DEF EngineInv, AxiControlTypes, StorageIn, InBurst,
     AxiBadCommand, BadLength, AxiFinalWord

LEMMA AcceptIInv ==
  ASSUME NEW W, EngineInv(W), NEW abort \in BOOLEAN, NEW cmd \in Command, AxiAccept(abort, cmd)
  PROVE  EngineInv(W)'
<1>1. AxiControlTypes'
  BY DEF EngineInv, Command, AxiControlTypes, AxiStates, AxiAccept
<1>2. StorageIn(W)'
  BY M5Assumption DEF EngineInv, StorageIn, AxiAccept
<1>3. HistoryIn(W)'
  BY DEF HistoryIn, AxiAccept
<1>4. InBurst'
  BY DEF AxiAccept, InBurst, Serving
<1>5. AxiDrained'
  BY DEF EngineInv, AxiDrained, AxiAccept, AxiCmdReady
<1> QED  BY <1>1, <1>2, <1>3, <1>4, <1>5 DEF EngineInv

LEMMA ValidateIInv ==
  ASSUME NEW W, EngineInv(W), NEW abort \in BOOLEAN, AxiValidate(abort)
  PROVE  EngineInv(W)'
<1>1. AxiControlTypes'
  BY DEF EngineInv, AxiControlTypes, AxiStates, AxiValidate
<1>2. StorageIn(W)' /\ HistoryIn(W)'
  BY DEF EngineInv, StorageIn, HistoryIn, AxiValidate
<1>3. InBurst'
  BY DEF EngineInv, AxiControlTypes, StorageIn, AxiValidate, InBurst,
         Serving, AxiBadCommand, BadLength
<1>4. AxiDrained'
  BY DEF EngineInv, AxiDrained, AxiValidate
<1> QED  BY <1>1, <1>2, <1>3, <1>4 DEF EngineInv

LEMMA GiveUpIInv ==
  ASSUME NEW W, EngineInv(W), NEW abort \in BOOLEAN, AxiGiveUp(abort)
  PROVE  EngineInv(W)'
<1>1. AxiControlTypes'
  BY DEF EngineInv, AxiControlTypes, AxiStates, AxiGiveUp
<1>2. StorageIn(W)'
  BY IndexFits DEF EngineInv, StorageIn, AxiGiveUp
<1>3. HistoryIn(W)'
  BY DEF EngineInv, StorageIn, HistoryIn, AxiGiveUp
<1>4. InBurst'
  BY DEF EngineInv, AxiControlTypes, StorageIn, InBurst, Serving, AxiBadCommand,
     AxiGiveUp
<1>5. AxiDrained'
  BY DEF EngineInv, AxiDrained, AxiGiveUp
<1> QED  BY <1>1, <1>2, <1>3, <1>4, <1>5 DEF EngineInv

LEMMA LoadWriteIInv ==
  ASSUME NEW W, EngineInv(W), NEW abort \in BOOLEAN, NEW word \in Words, word \in W,
         AxiLoadWrite(abort, word)
  PROVE  EngineInv(W)'
<1>1. AxiControlTypes'
  BY DEF EngineInv, AxiControlTypes, AxiStates, AxiLoadWrite, AxiInReady
<1>2. StorageIn(W)'
  BY IndexFits DEF EngineInv, StorageIn, Serving, AxiLoadWrite, AxiInReady
<1>3. HistoryIn(W)'
  BY DEF EngineInv, StorageIn, HistoryIn, AxiLoadWrite
<1>4. InBurst'
  BY DEF EngineInv, AxiControlTypes, StorageIn, InBurst, Serving, AxiBadCommand,
     AxiLoadWrite, AxiFinalWord, AxiInReady
<1>5. AxiDrained'
  BY DEF EngineInv, AxiDrained, AxiLoadWrite, AxiInReady
<1> QED  BY <1>1, <1>2, <1>3, <1>4, <1>5 DEF EngineInv

LEMMA WriteAddrIInv ==
  ASSUME NEW W, EngineInv(W), NEW abort \in BOOLEAN, AxiWriteAddr(abort)
  PROVE  EngineInv(W)'
<1>1. AxiControlTypes'
  BY DEF EngineInv, AxiControlTypes, AxiStates, AxiWriteAddr, AwValid
<1>2. StorageIn(W)'
  BY IndexFits DEF EngineInv, StorageIn, AxiWriteAddr, AwValid
<1>3. HistoryIn(W)'
  BY DEF EngineInv, StorageIn, HistoryIn, AxiWriteAddr
<1>4. InBurst'
  BY DEF EngineInv, AxiControlTypes, StorageIn, InBurst, Serving, AxiBadCommand,
     AxiWriteAddr, AwValid
<1>5. AxiDrained'
  BY DEF EngineInv, AxiDrained, AxiWriteAddr, AwValid
<1> QED  BY <1>1, <1>2, <1>3, <1>4, <1>5 DEF EngineInv

LEMMA WriteDataIInv ==
  ASSUME NEW W, EngineInv(W), NEW abort \in BOOLEAN, AxiWriteData(abort)
  PROVE  EngineInv(W)'
<1>1. AxiControlTypes'
  BY DEF EngineInv, AxiControlTypes, AxiStates, AxiWriteData, WValid
<1>2. StorageIn(W)'
  BY IndexFits DEF EngineInv, StorageIn, Serving, AxiWriteData, WValid
<1>3. HistoryIn(W)'
  BY DEF EngineInv, StorageIn, HistoryIn, AxiWriteData
<1>4. InBurst'
  BY DEF EngineInv, AxiControlTypes, StorageIn, InBurst, Serving, AxiBadCommand,
     AxiWriteData, AxiFinalWord, WValid
<1>5. AxiDrained'
  BY DEF EngineInv, AxiDrained, AxiWriteData, WValid
<1> QED  BY <1>1, <1>2, <1>3, <1>4, <1>5 DEF EngineInv

LEMMA WriteRespIInv ==
  ASSUME NEW W, EngineInv(W), NEW abort \in BOOLEAN, NEW ownId \in BOOLEAN,
         NEW okay \in BOOLEAN, AxiWriteResp(abort, ownId, okay)
  PROVE  EngineInv(W)'
<1>1. AxiControlTypes'
  BY DEF EngineInv, AxiControlTypes, AxiStates, AxiWriteResp
<1>2. StorageIn(W)'
  BY DEF EngineInv, AxiControlTypes, StorageIn, AxiWriteResp
<1>3. HistoryIn(W)'
  BY DEF EngineInv, StorageIn, HistoryIn, AxiWriteResp
<1>4. InBurst'
  BY DEF EngineInv, AxiControlTypes, StorageIn, InBurst, Serving, AxiBadCommand,
     AxiWriteResp
<1>5. AxiDrained'
  BY DEF EngineInv, AxiDrained, AxiWriteResp
<1> QED  BY <1>1, <1>2, <1>3, <1>4, <1>5 DEF EngineInv

LEMMA ReadAddrIInv ==
  ASSUME NEW W, EngineInv(W), NEW abort \in BOOLEAN, AxiReadAddr(abort)
  PROVE  EngineInv(W)'
<1>1. AxiControlTypes'
  BY DEF EngineInv, AxiControlTypes, AxiStates, AxiReadAddr, ArValid
<1>2. StorageIn(W)'
  BY DEF EngineInv, AxiControlTypes, StorageIn, AxiReadAddr, ArValid
<1>3. HistoryIn(W)'
  BY DEF EngineInv, StorageIn, HistoryIn, AxiReadAddr
<1>4. InBurst'
  BY DEF EngineInv, AxiControlTypes, StorageIn, InBurst, Serving, AxiBadCommand,
     AxiReadAddr, ArValid
<1>5. AxiDrained'
  BY DEF EngineInv, AxiDrained, AxiReadAddr, ArValid
<1> QED  BY <1>1, <1>2, <1>3, <1>4, <1>5 DEF EngineInv

LEMMA ReadDataIInv ==
  ASSUME NEW W, EngineInv(W), NEW abort \in BOOLEAN, NEW word \in W,
         NEW ownId \in BOOLEAN, NEW last \in BOOLEAN, NEW okay \in BOOLEAN,
         AxiReadData(abort, word, ownId, last, okay)
  PROVE  EngineInv(W)'
<1>1. AxiControlTypes'
  BY DEF EngineInv, AxiControlTypes, AxiStates, AxiReadData
<1>2. StorageIn(W)'
  BY IndexFits DEF EngineInv, StorageIn, Serving, AxiReadData
<1>3. HistoryIn(W)'
  BY DEF EngineInv, StorageIn, HistoryIn, AxiReadData
<1>4. InBurst'
  BY DEF EngineInv, AxiControlTypes, StorageIn, InBurst, Serving, AxiBadCommand,
     AxiReadData, AxiFinalWord
<1>5. AxiDrained'
  BY DEF EngineInv, AxiDrained, AxiReadData, AxiFinalWord, AxiTypeOK, AxiControlTypes
<1> QED  BY <1>1, <1>2, <1>3, <1>4, <1>5 DEF EngineInv

LEMMA ReadPrepareIInv ==
  ASSUME NEW W, EngineInv(W), NEW abort \in BOOLEAN, AxiReadPrepare(abort)
  PROVE  EngineInv(W)'
<1>1. AxiControlTypes'
  BY DEF EngineInv, AxiControlTypes, AxiStates, AxiReadPrepare
<1>2. StorageIn(W)'
  BY IndexFits DEF EngineInv, StorageIn, AxiReadPrepare
<1>3. HistoryIn(W)'
  BY DEF EngineInv, StorageIn, HistoryIn, AxiReadPrepare
<1>4. InBurst'
  BY DEF EngineInv, AxiControlTypes, StorageIn, InBurst, Serving, AxiBadCommand,
     AxiReadPrepare
<1>5. AxiDrained'
  BY DEF EngineInv, AxiDrained, AxiReadPrepare
<1> QED  BY <1>1, <1>2, <1>3, <1>4, <1>5 DEF EngineInv

LEMMA ReadOutIInv ==
  ASSUME NEW W, EngineInv(W), NEW abort \in BOOLEAN, AxiReadOut(abort)
  PROVE  EngineInv(W)'
<1>1. AxiControlTypes'
  BY DEF EngineInv, AxiControlTypes, AxiStates, AxiReadOut, AxiOutValid
<1>2. StorageIn(W)'
  BY IndexFits DEF EngineInv, StorageIn, Serving, AxiReadOut, AxiOutValid
<1>3. HistoryIn(W)'
  BY DEF EngineInv, StorageIn, HistoryIn, AxiReadOut
<1>4. InBurst'
  BY DEF EngineInv, AxiControlTypes, StorageIn, InBurst, Serving, AxiBadCommand,
     AxiReadOut, AxiFinalWord, AxiOutValid
<1>5. AxiDrained'
  BY DEF EngineInv, AxiDrained, AxiReadOut, AxiOutValid
<1> QED  BY <1>1, <1>2, <1>3, <1>4, <1>5 DEF EngineInv

LEMMA RetireIInv ==
  ASSUME NEW W, EngineInv(W), NEW abort \in BOOLEAN, AxiRetire(abort)
  PROVE  EngineInv(W)'
<1>1. AxiControlTypes'
  BY DEF EngineInv, AxiControlTypes, AxiStates, AxiRetire, AxiDoneValid
<1>2. StorageIn(W)'
  BY DEF EngineInv, AxiControlTypes, StorageIn, AxiRetire
<1>3. HistoryIn(W)'
  BY DEF EngineInv, StorageIn, HistoryIn, AxiRetire
<1>4. InBurst'
  BY DEF EngineInv, AxiControlTypes, StorageIn, InBurst, Serving, AxiBadCommand,
     AxiRetire, AxiDoneValid
<1>5. AxiDrained'
  BY DEF EngineInv, AxiDrained, AxiRetire, AxiDoneValid
<1> QED  BY <1>1, <1>2, <1>3, <1>4, <1>5 DEF EngineInv

LEMMA PoisonIInv ==
  ASSUME NEW W, EngineInv(W), NEW abort \in BOOLEAN, AxiPoison(abort)
  PROVE  EngineInv(W)'
<1>1. AxiControlTypes'
  BY DEF EngineInv, AxiControlTypes, AxiStates, AxiPoison, AxiPoisoned
<1>2. StorageIn(W)'
  BY DEF EngineInv, AxiControlTypes, StorageIn, AxiPoison
<1>3. HistoryIn(W)'
  BY DEF EngineInv, StorageIn, HistoryIn, AxiPoison
<1>4. InBurst'
  BY DEF EngineInv, AxiControlTypes, StorageIn, InBurst, Serving, AxiBadCommand,
     AxiPoison, AxiPoisoned
<1>5. AxiDrained'
  BY DEF EngineInv, AxiDrained, AxiPoison, AxiPoisoned
<1> QED  BY <1>1, <1>2, <1>3, <1>4, <1>5 DEF EngineInv

LEMMA WaitIInv ==
  ASSUME NEW W, EngineInv(W), NEW abort \in BOOLEAN, NEW c, NEW i, NEW o, NEW d, AxiWait(abort, c, i, o, d)
  PROVE  EngineInv(W)'
<1>1. AxiControlTypes'
  BY DEF EngineInv, AxiControlTypes, AxiStates, AxiWait
<1>2. StorageIn(W)'
  BY DEF EngineInv, AxiControlTypes, StorageIn, AxiWait
<1>3. HistoryIn(W)'
  BY DEF EngineInv, StorageIn, HistoryIn, AxiWait
<1>4. InBurst'
  BY DEF EngineInv, AxiControlTypes, StorageIn, InBurst, Serving, AxiBadCommand,
     AxiWait
<1>5. AxiDrained'
  BY DEF EngineInv, AxiDrained, AxiWait
<1> QED  BY <1>1, <1>2, <1>3, <1>4, <1>5 DEF EngineInv

LEMMA StutterIInv == ASSUME NEW W, EngineInv(W), UNCHANGED axiVars PROVE EngineInv(W)'
  BY DEF EngineInv, AxiControlTypes, StorageIn, HistoryIn, InBurst,
     AxiBadCommand, AxiDrained, axiVars


-----------------------------------------------------------------------------
(* The words of a burst. *)

\* The burst RAM holds s from its first word on.
InRam(s) == \A i \in 1 .. Len(s) : axiMem[i - 1] = s[i]

\* The words of s are the first words of t.
Leads(s, t) == Len(s) <= Len(t) /\ \A i \in 1 .. Len(s) : s[i] = t[i]

\* Where the words of a write are in each state.
WriteStream ==
    /\ axiState \notin {"ReadAddr", "ReadData", "ReadPrepare", "ReadOut"}
    /\ Leads(axiBeats, axiTaken)
    /\ axiState = "Validate" => axiTaken = <<>>
    /\ axiState \in {"Validate", "LoadWrite", "WriteAddr"} => axiBeats = <<>>
    /\ axiState = "LoadWrite" => Len(axiTaken) = axiIndex
    /\ axiState \in {"WriteAddr", "WriteData", "WriteResp"} => Len(axiTaken) = axiCmd.words
    /\ axiState \in {"LoadWrite", "WriteAddr", "WriteData"} => InRam(axiTaken)
    /\ axiState = "WriteAddr" => axiIndex = 0
    /\ axiState = "WriteData" => Len(axiBeats) = axiIndex /\ axiBuffer = axiMem[axiIndex]
    /\ axiState = "WriteResp" => Len(axiBeats) = axiCmd.words
    /\ axiState = "Respond" /\ axiFault = 0 =>
          ~axiError /\ Len(axiTaken) = axiCmd.words /\ Len(axiBeats) = axiCmd.words

\* And those of a read; a read of which a word was handed over has no error.
ReadStream ==
    /\ axiState \notin {"LoadWrite", "WriteAddr", "WriteData", "WriteResp"}
    /\ Leads(axiGiven, axiBeats)
    /\ axiState \in {"Validate", "ReadAddr"} => axiBeats = <<>> /\ ~axiError
    /\ axiState \in {"Validate", "ReadAddr", "ReadData", "ReadPrepare"} => axiIndex = Len(axiBeats) \/ axiIndex = 0
    /\ axiState \in {"Validate", "ReadAddr", "ReadData", "ReadPrepare"} => axiGiven = <<>>
    /\ axiState \in {"ReadAddr", "ReadPrepare"} => axiIndex = 0
    /\ axiState = "ReadData" => Len(axiBeats) = axiIndex /\ (axiError => axiFault = 12)
    /\ axiState \in {"ReadData", "ReadPrepare", "ReadOut"} => InRam(axiBeats)
    /\ axiState \in {"ReadPrepare", "ReadOut"} \/ axiGiven # <<>> =>
          Len(axiBeats) = axiCmd.words /\ ~axiError
    /\ axiState = "ReadOut" => Len(axiGiven) = axiIndex /\ axiBuffer = axiMem[axiIndex]
    /\ axiState = "Respond" /\ axiFault = 0 =>
          ~axiError /\ Len(axiBeats) = axiCmd.words /\ Len(axiGiven) = axiCmd.words

\* A code says what went wrong: 10 only for a command the engine refuses, 13
\* only on its way to being poisoned.
FaultStream ==
    /\ axiState = "Validate" \/ axiState \in Serving => axiFault \in {0, 12}
    /\ axiState \in {"Validate", "ReadAddr", "ReadPrepare", "ReadOut"} => axiFault = 0
    /\ axiState = "Respond" => axiFault # 13 /\ (axiFault = 10 => AxiBadCommand)

Streaming == (IF axiCmd.write THEN WriteStream ELSE ReadStream) /\ FaultStream

LEMMA StreamInit == ASSUME AxiInit PROVE Streaming
  BY DEF AxiInit, Streaming, ReadStream, FaultStream, Leads, Serving

\* The lengths and words that the next lemmas compare.
LEMMA Lengths ==
  ASSUME NEW W, EngineInv(W)
  PROVE  /\ Len(axiTaken) \in Nat /\ Len(axiBeats) \in Nat /\ Len(axiGiven) \in Nat
         /\ axiIndex \in Nat /\ axiCmd.words \in Nat /\ axiCmd.write \in BOOLEAN
         /\ axiState \in Serving => axiIndex < axiCmd.words
  BY DEF EngineInv, HistoryIn, StorageIn, AxiControlTypes, InBurst

\* A word put at the end of a sequence.
LEMMA Appended ==
  ASSUME NEW W, NEW s \in Seq(W), NEW x \in W
  PROVE  /\ Append(s, x) \in Seq(W) /\ Len(Append(s, x)) = Len(s) + 1 /\ Len(s) \in Nat
         /\ \A i \in 1 .. Len(s) : Append(s, x)[i] = s[i]
         /\ Append(s, x)[Len(s) + 1] = x
  OBVIOUS

LEMMA StreamAccept ==
  ASSUME NEW W, EngineInv(W), NEW abort \in BOOLEAN, NEW cmd \in Command, AxiAccept(abort, cmd)
  PROVE  Streaming'
<1>1. /\ axiTaken' = <<>> /\ axiBeats' = <<>> /\ axiGiven' = <<>> /\ ~axiError'
      /\ axiState' = "Validate" /\ axiFault' = 0 /\ axiIndex' = 0
  BY DEF AxiAccept
<1>2. WriteStream' /\ ReadStream'
  BY <1>1 DEF WriteStream, ReadStream, Leads
<1> QED  BY <1>1, <1>2 DEF Streaming, FaultStream

LEMMA StreamValidate ==
  ASSUME NEW W, EngineInv(W), Streaming, NEW abort \in BOOLEAN, AxiValidate(abort)
  PROVE  Streaming'
<1>1. /\ UNCHANGED <<axiCmd, axiTaken, axiBeats, axiGiven, axiMem, axiIndex, axiError, axiBuffer>>
      /\ axiState = "Validate" /\ axiIndex = 0
  BY DEF AxiValidate, EngineInv, InBurst
<1>2. CASE axiCmd.write
  <2>1. axiTaken = <<>> /\ axiBeats = <<>>
    BY <1>1, <1>2 DEF Streaming, WriteStream
  <2>2. axiState' \in {"LoadWrite", "Respond"} /\ (axiState' = "Respond" => axiFault' # 0)
    BY <1>2 DEF AxiValidate
  <2> QED  BY <1>1, <1>2, <2>1, <2>2 DEF Streaming, WriteStream, Leads, InRam, FaultStream, AxiValidate, AxiBadCommand, Serving
<1>3. CASE ~axiCmd.write
  <2>1. axiGiven = <<>> /\ axiBeats = <<>> /\ ~axiError
    BY <1>1, <1>3 DEF Streaming, ReadStream
  <2>2. axiState' \in {"ReadAddr", "Respond"} /\ (axiState' = "Respond" => axiFault' # 0)
    BY <1>3 DEF AxiValidate
  <2> QED  BY <1>1, <1>3, <2>1, <2>2 DEF Streaming, ReadStream, Leads, InRam, FaultStream, AxiValidate, AxiBadCommand, Serving
<1> QED  BY <1>2, <1>3

LEMMA StreamGiveUp ==
  ASSUME NEW W, EngineInv(W), Streaming, NEW abort \in BOOLEAN, AxiGiveUp(abort)
  PROVE  Streaming'
  BY DEF AxiGiveUp, Streaming, WriteStream, ReadStream, Leads, FaultStream, Serving

LEMMA StreamLoadWrite ==
  ASSUME NEW W, EngineInv(W), Streaming, NEW abort \in BOOLEAN, NEW word \in Words, AxiLoadWrite(abort, word)
  PROVE  Streaming'
<1>1. axiState = "LoadWrite" /\ axiCmd' = axiCmd /\ axiBeats' = axiBeats /\ axiFault' = axiFault
  BY DEF AxiLoadWrite, AxiInReady
<1>2. axiCmd.write /\ axiBeats = <<>> /\ Len(axiTaken) = axiIndex /\ InRam(axiTaken)
  BY <1>1 DEF Streaming, WriteStream, ReadStream
<1>3. axiTaken \in Seq(Words) /\ axiTaken' = Append(axiTaken, word)
  BY DEF EngineInv, HistoryIn, AxiLoadWrite
<1>4. Len(axiTaken') = axiIndex + 1
  BY <1>2, <1>3, Appended
<1>5. InRam(axiTaken)'
  <2> SUFFICES ASSUME NEW i \in 1 .. Len(axiTaken') PROVE axiMem'[i - 1] = axiTaken'[i]
    BY DEF InRam
  <2>1. axiMem' = [axiMem EXCEPT ![axiIndex] = word] /\ axiIndex \in DOMAIN axiMem /\ DOMAIN axiMem = 0 .. MaxWords - 1
    BY DEF AxiLoadWrite, EngineInv, StorageIn
  <2>2. axiIndex \in Nat
    BY Lengths
  <2>3. CASE i = axiIndex + 1
    BY <1>2, <1>3, <2>1, <2>2, <2>3, Appended
  <2>4. CASE i \in 1 .. axiIndex
    <3>1. axiTaken'[i] = axiTaken[i]
      BY <1>2, <1>3, <2>4, Appended
    <3>2. axiMem[i - 1] = axiTaken[i]
      BY <1>2, <2>4 DEF InRam
    <3>3. axiMem'[i - 1] = axiMem[i - 1]
      <4>1. MaxWords \in Nat /\ axiIndex \in 0 .. MaxWords - 1
        BY M5Assumption DEF EngineInv, StorageIn
      <4>2. i - 1 # axiIndex /\ i - 1 \in 0 .. MaxWords - 1
        BY <2>4, <4>1
      <4> QED  BY <2>1, <4>2
    <3> QED  BY <3>1, <3>2, <3>3
  <2> QED  BY <1>4, <2>2, <2>3, <2>4
<1>6. Leads(axiBeats, axiTaken)'
  BY <1>1, <1>2, <1>4, Lengths DEF Leads
<1>7. axiState' \in {"LoadWrite", "WriteAddr"}
  BY <1>1 DEF AxiLoadWrite
<1>8. (axiState' = "LoadWrite" => axiIndex' = axiIndex + 1)
      /\ (axiState' = "WriteAddr" => axiIndex' = 0 /\ axiIndex + 1 = axiCmd.words)
  BY <1>1 DEF AxiLoadWrite, AxiFinalWord
<1>9. FaultStream'
  BY <1>1, <1>7 DEF Streaming, FaultStream, Serving
<1> QED  BY <1>1, <1>2, <1>4, <1>5, <1>6, <1>7, <1>8, <1>9 DEF Streaming, WriteStream

LEMMA StreamWriteAddr ==
  ASSUME NEW W, EngineInv(W), Streaming, NEW abort \in BOOLEAN, AxiWriteAddr(abort)
  PROVE  Streaming'
<1>1. axiState = "WriteAddr" /\ axiState' = "WriteData" /\ axiBuffer' = axiMem[0]
      /\ UNCHANGED <<axiCmd, axiTaken, axiBeats, axiGiven, axiMem, axiIndex, axiError, axiFault>>
  BY DEF AxiWriteAddr, AwValid
<1>2. axiCmd.write
  BY <1>1 DEF Streaming, ReadStream
<1>3. WriteStream'
  BY <1>1, <1>2 DEF Streaming, WriteStream, Leads, InRam
<1> QED  BY <1>1, <1>2, <1>3 DEF Streaming, FaultStream, Serving

LEMMA StreamWriteData ==
  ASSUME NEW W, EngineInv(W), Streaming, NEW abort \in BOOLEAN, AxiWriteData(abort)
  PROVE  Streaming'
<1>1. axiState = "WriteData" /\ axiBeats' = Append(axiBeats, axiBuffer)
      /\ UNCHANGED <<axiCmd, axiTaken, axiGiven, axiMem, axiError, axiFault>>
  BY DEF AxiWriteData, WValid
<1>2. axiCmd.write
  BY <1>1 DEF Streaming, ReadStream
<1>3. Len(axiTaken) = axiCmd.words /\ InRam(axiTaken) /\ Len(axiBeats) = axiIndex
      /\ axiBuffer = axiMem[axiIndex] /\ Leads(axiBeats, axiTaken)
  BY <1>1, <1>2 DEF Streaming, WriteStream
<1>4. axiBeats \in Seq(W) /\ axiBuffer \in W
  BY DEF EngineInv, HistoryIn, StorageIn
<1>5. Len(axiBeats') = axiIndex + 1 /\ axiIndex \in Nat /\ axiIndex < axiCmd.words /\ axiCmd.words \in Nat
  BY <1>1, <1>3, <1>4, Appended, Lengths DEF Serving
<1>6. axiBuffer = axiTaken[axiIndex + 1]
  <2>1. axiIndex + 1 \in 1 .. Len(axiTaken) /\ (axiIndex + 1) - 1 = axiIndex
    BY <1>3, <1>5
  <2> QED  BY <1>3, <2>1 DEF InRam
<1>7. Leads(axiBeats, axiTaken)'
  <2>1. ASSUME NEW i \in 1 .. axiIndex + 1 PROVE axiBeats'[i] = axiTaken[i]
    <3>1. CASE i = axiIndex + 1
      BY <1>1, <1>3, <1>4, <1>6, <3>1, Appended
    <3>2. CASE i \in 1 .. axiIndex
      BY <1>1, <1>3, <1>4, <3>2, Appended DEF Leads
    <3> QED  BY <1>5, <3>1, <3>2
  <2> QED  BY <1>1, <1>3, <1>5, <2>1 DEF Leads
<1>8. axiState' = IF axiIndex + 1 = axiCmd.words THEN "WriteResp" ELSE "WriteData"
  BY <1>1 DEF AxiWriteData, AxiFinalWord
<1>9. axiState' = "WriteData" => axiIndex' = axiIndex + 1 /\ axiBuffer' = axiMem[axiIndex + 1]
  BY <1>1 DEF AxiWriteData, AxiFinalWord
<1>10. InRam(axiTaken)'
  BY <1>1, <1>3 DEF InRam
<1>11. FaultStream'
  BY <1>1, <1>8 DEF Streaming, FaultStream, Serving
<1> QED  BY <1>1, <1>2, <1>3, <1>5, <1>7, <1>8, <1>9, <1>10, <1>11 DEF Streaming, WriteStream

LEMMA StreamWriteResp ==
  ASSUME NEW W, EngineInv(W), Streaming, NEW abort \in BOOLEAN, NEW ownId \in BOOLEAN,
         NEW okay \in BOOLEAN, AxiWriteResp(abort, ownId, okay)
  PROVE  Streaming'
<1>1. axiState = "WriteResp" /\ UNCHANGED <<axiCmd, axiTaken, axiBeats, axiGiven, axiMem, axiIndex, axiBuffer>>
  BY DEF AxiWriteResp
<1>2. axiCmd.write
  BY <1>1 DEF Streaming, ReadStream
<1>3. \/ axiState' = "Poisoned"
      \/ axiState' = "Respond" /\ axiFault' \in {0, 11, 12} /\ (axiFault' = 0 => ~axiError')
  BY DEF AxiWriteResp
<1>4. WriteStream'
  BY <1>1, <1>2, <1>3 DEF Streaming, WriteStream, Leads
<1> QED  BY <1>1, <1>2, <1>3, <1>4 DEF Streaming, FaultStream, Serving

LEMMA StreamReadAddr ==
  ASSUME NEW W, EngineInv(W), Streaming, NEW abort \in BOOLEAN, AxiReadAddr(abort)
  PROVE  Streaming'
<1>1. axiState = "ReadAddr" /\ axiState' = "ReadData"
      /\ UNCHANGED <<axiCmd, axiTaken, axiBeats, axiGiven, axiMem, axiIndex, axiError, axiFault, axiBuffer>>
  BY DEF AxiReadAddr, ArValid
<1>2. ~axiCmd.write
  BY <1>1 DEF Streaming, WriteStream
<1>3. ReadStream'
  BY <1>1, <1>2 DEF Streaming, ReadStream, Leads, InRam
<1> QED  BY <1>1, <1>2, <1>3 DEF Streaming, FaultStream, Serving

LEMMA StreamReadData ==
  ASSUME NEW W, EngineInv(W), Streaming, NEW abort \in BOOLEAN, NEW word \in W,
         NEW ownId \in BOOLEAN, NEW last \in BOOLEAN, NEW okay \in BOOLEAN,
         AxiReadData(abort, word, ownId, last, okay)
  PROVE  Streaming'
<1>1. axiState = "ReadData" /\ axiBeats' = Append(axiBeats, word) /\ axiMem' = [axiMem EXCEPT ![axiIndex] = word]
      /\ UNCHANGED <<axiCmd, axiTaken, axiGiven, axiBuffer>> /\ axiError' = (axiError \/ ~okay)
  BY DEF AxiReadData
<1>2. ~axiCmd.write
  BY <1>1 DEF Streaming, WriteStream
<1>3. Len(axiBeats) = axiIndex /\ InRam(axiBeats) /\ axiGiven = <<>> /\ (axiError => axiFault = 12)
  BY <1>1, <1>2 DEF Streaming, ReadStream
<1>4. axiBeats \in Seq(W) /\ axiFault \in {0, 12}
  BY <1>1 DEF EngineInv, HistoryIn, Streaming, FaultStream, Serving
<1>5. Len(axiBeats') = axiIndex + 1 /\ axiIndex \in Nat /\ axiIndex < axiCmd.words /\ axiCmd.words \in Nat
  BY <1>1, <1>3, <1>4, Appended, Lengths DEF Serving
<1>6. InRam(axiBeats)'
  <2> SUFFICES ASSUME NEW i \in 1 .. axiIndex + 1 PROVE axiMem'[i - 1] = axiBeats'[i]
    BY <1>5 DEF InRam
  <2>1. DOMAIN axiMem = 0 .. MaxWords - 1 /\ axiIndex \in 0 .. MaxWords - 1 /\ MaxWords \in Nat
    BY M5Assumption DEF EngineInv, StorageIn
  <2>2. CASE i = axiIndex + 1
    BY <1>1, <1>3, <1>4, <1>5, <2>1, <2>2, Appended
  <2>3. CASE i \in 1 .. axiIndex
    <3>1. axiBeats'[i] = axiBeats[i]
      BY <1>1, <1>3, <1>4, <2>3, Appended
    <3>2. axiMem[i - 1] = axiBeats[i]
      BY <1>3, <2>3 DEF InRam
    <3>3. i - 1 # axiIndex /\ i - 1 \in 0 .. MaxWords - 1
      BY <2>1, <2>3
    <3> QED  BY <1>1, <2>1, <3>1, <3>2, <3>3
  <2> QED  BY <1>5, <2>2, <2>3
<1>7. Leads(axiGiven, axiBeats)'
  BY <1>1, <1>3, <1>5 DEF Leads
<1>8. \/ axiState' = "Poisoned"
      \/ axiState' = "ReadData" /\ axiIndex' = axiIndex + 1 /\ axiFault' = AxiReadFault(okay)
      \/ axiState' = "Respond" /\ axiFault' \in {11, 12}
      \/ axiState' = "ReadPrepare" /\ axiFault' = 0 /\ AxiReadFault(okay) = 0 /\ axiIndex' = 0 /\ axiIndex + 1 = axiCmd.words
  BY <1>1, <1>4 DEF AxiReadData, AxiFinalWord
<1>9. AxiReadFault(okay) \in {0, 12} /\ (axiError' => AxiReadFault(okay) = 12)
  BY <1>1, <1>3, <1>4
<1>10. FaultStream'
  BY <1>8, <1>9 DEF FaultStream, Serving
<1>11. ReadStream'
  BY <1>1, <1>3, <1>5, <1>6, <1>7, <1>8, <1>9 DEF ReadStream
<1> QED  BY <1>1, <1>2, <1>10, <1>11 DEF Streaming

LEMMA StreamReadPrepare ==
  ASSUME NEW W, EngineInv(W), Streaming, NEW abort \in BOOLEAN, AxiReadPrepare(abort)
  PROVE  Streaming'
<1>1. axiState = "ReadPrepare" /\ axiState' = "ReadOut" /\ axiBuffer' = axiMem[0]
      /\ UNCHANGED <<axiCmd, axiTaken, axiBeats, axiGiven, axiMem, axiIndex, axiError, axiFault>>
  BY DEF AxiReadPrepare
<1>2. ~axiCmd.write
  BY <1>1 DEF Streaming, WriteStream
<1>3. ReadStream'
  BY <1>1, <1>2 DEF Streaming, ReadStream, Leads, InRam
<1> QED  BY <1>1, <1>2, <1>3 DEF Streaming, FaultStream, Serving

LEMMA StreamReadOut ==
  ASSUME NEW W, EngineInv(W), Streaming, NEW abort \in BOOLEAN, AxiReadOut(abort)
  PROVE  Streaming'
<1>1. axiState = "ReadOut" /\ axiGiven' = Append(axiGiven, axiBuffer)
      /\ UNCHANGED <<axiCmd, axiTaken, axiBeats, axiMem, axiError, axiFault>>
  BY DEF AxiReadOut, AxiOutValid
<1>2. ~axiCmd.write
  BY <1>1 DEF Streaming, WriteStream
<1>3. Len(axiBeats) = axiCmd.words /\ InRam(axiBeats) /\ Len(axiGiven) = axiIndex /\ ~axiError
      /\ axiBuffer = axiMem[axiIndex] /\ Leads(axiGiven, axiBeats) /\ axiFault = 0
  BY <1>1, <1>2 DEF Streaming, ReadStream, FaultStream
<1>4. axiGiven \in Seq(W) /\ axiBuffer \in W
  BY DEF EngineInv, HistoryIn, StorageIn
<1>5. Len(axiGiven') = axiIndex + 1 /\ axiIndex \in Nat /\ axiIndex < axiCmd.words /\ axiCmd.words \in Nat
  BY <1>1, <1>3, <1>4, Appended, Lengths DEF Serving
<1>6. axiBuffer = axiBeats[axiIndex + 1]
  <2>1. axiIndex + 1 \in 1 .. Len(axiBeats) /\ (axiIndex + 1) - 1 = axiIndex
    BY <1>3, <1>5
  <2> QED  BY <1>3, <2>1 DEF InRam
<1>7. Leads(axiGiven, axiBeats)'
  <2>1. ASSUME NEW i \in 1 .. axiIndex + 1 PROVE axiGiven'[i] = axiBeats[i]
    <3>1. CASE i = axiIndex + 1
      BY <1>1, <1>3, <1>4, <1>6, <3>1, Appended
    <3>2. CASE i \in 1 .. axiIndex
      BY <1>1, <1>3, <1>4, <3>2, Appended DEF Leads
    <3> QED  BY <1>5, <3>1, <3>2
  <2> QED  BY <1>1, <1>3, <1>5, <2>1 DEF Leads
<1>8. axiState' = IF axiIndex + 1 = axiCmd.words THEN "Respond" ELSE "ReadOut"
  BY <1>1 DEF AxiReadOut, AxiFinalWord
<1>9. axiState' = "ReadOut" => axiIndex' = axiIndex + 1 /\ axiBuffer' = axiMem[axiIndex + 1]
  BY <1>1 DEF AxiReadOut, AxiFinalWord
<1>10. InRam(axiBeats)'
  BY <1>1, <1>3 DEF InRam
<1>11. FaultStream'
  BY <1>1, <1>3, <1>8 DEF FaultStream, Serving
<1> QED  BY <1>1, <1>2, <1>3, <1>5, <1>7, <1>8, <1>9, <1>10, <1>11 DEF Streaming, ReadStream

LEMMA StreamRetire ==
  ASSUME NEW W, EngineInv(W), Streaming, NEW abort \in BOOLEAN, AxiRetire(abort)
  PROVE  Streaming'
  BY DEF AxiRetire, AxiDoneValid, Streaming, WriteStream, ReadStream, Leads, FaultStream, Serving

LEMMA StreamStays ==
  ASSUME NEW W, EngineInv(W), Streaming,
         UNCHANGED <<axiState, axiCmd, axiIndex, axiFault, axiMem, axiBuffer, axiHistory>>
  PROVE  Streaming'
  BY DEF Streaming, WriteStream, ReadStream, Leads, InRam, FaultStream, AxiBadCommand

-----------------------------------------------------------------------------
(* A clock edge, of the engine on its own or with the inputs of a client. *)

BurstInv(W) == EngineInv(W) /\ Streaming

EngineStep(W) ==
    \E abort \in BOOLEAN :
        \/ \E cmd \in Command : AxiAccept(abort, cmd)
        \/ AxiValidate(abort)
        \/ AxiGiveUp(abort)
        \/ \E word \in Words : AxiLoadWrite(abort, word)
        \/ AxiWriteAddr(abort)
        \/ AxiWriteData(abort)
        \/ \E ownId, okay \in BOOLEAN : AxiWriteResp(abort, ownId, okay)
        \/ AxiReadAddr(abort)
        \/ \E rword \in W, ownId, last, okay \in BOOLEAN :
                AxiReadData(abort, rword, ownId, last, okay)
        \/ AxiReadPrepare(abort)
        \/ AxiReadOut(abort)
        \/ AxiRetire(abort)
        \/ AxiPoison(abort)
        \/ \E c, i, o, d : AxiWait(abort, c, i, o, d)

LEMMA NextIsStep == AxiNext => EngineStep(Words \cup {NoWord})
<1>1. \A cmd \in Commands : cmd \in Command
  BY AxiAssumption DEF Command
<1>2. \A word \in Words : word \in Words \cup {NoWord}
  OBVIOUS
<1> QED  BY <1>1, <1>2, Zenon DEF AxiNext, EngineStep

LEMMA TickIsStep ==
  ASSUME NEW W, NEW abort \in BOOLEAN, NEW c, NEW cmd, NEW i, NEW word, NEW o, NEW d, NEW rword,
         AxiTick(abort, c, cmd, i, word, o, d, rword),
         c => cmd \in Command, i => word \in Words, axiState = "ReadData" => rword \in W
  PROVE  EngineStep(W)
<1>1. \A ownId, last, okay \in BOOLEAN :
         AxiReadData(abort, rword, ownId, last, okay) => rword \in W
  BY DEF AxiReadData
<1> QED  BY <1>1, Zenon DEF AxiTick, EngineStep

LEMMA StepKeeps ==
  ASSUME NEW W, Words \subseteq W, BurstInv(W), EngineStep(W)
  PROVE  BurstInv(W)'
<1> USE DEF BurstInv
<1> PICK abort \in BOOLEAN :
        \/ \E cmd \in Command : AxiAccept(abort, cmd)
        \/ AxiValidate(abort)
        \/ AxiGiveUp(abort)
        \/ \E word \in Words : AxiLoadWrite(abort, word)
        \/ AxiWriteAddr(abort)
        \/ AxiWriteData(abort)
        \/ \E ownId, okay \in BOOLEAN : AxiWriteResp(abort, ownId, okay)
        \/ AxiReadAddr(abort)
        \/ \E rword \in W, ownId, last, okay \in BOOLEAN :
                AxiReadData(abort, rword, ownId, last, okay)
        \/ AxiReadPrepare(abort)
        \/ AxiReadOut(abort)
        \/ AxiRetire(abort)
        \/ AxiPoison(abort)
        \/ \E c, i, o, d : AxiWait(abort, c, i, o, d)
  BY Zenon DEF EngineStep
<1>1. CASE \E cmd \in Command : AxiAccept(abort, cmd)
  BY <1>1, AcceptIInv, StreamAccept, Zenon
<1>2. CASE AxiValidate(abort)
  BY <1>2, ValidateIInv, StreamValidate, Zenon
<1>3. CASE AxiGiveUp(abort)
  BY <1>3, GiveUpIInv, StreamGiveUp, Zenon
<1>4. CASE \E word \in Words : AxiLoadWrite(abort, word)
  <2>1. \A word \in Words : word \in W
    OBVIOUS
  <2> QED  BY <1>4, <2>1, LoadWriteIInv, StreamLoadWrite, Zenon
<1>5. CASE AxiWriteAddr(abort)
  BY <1>5, WriteAddrIInv, StreamWriteAddr, Zenon
<1>6. CASE AxiWriteData(abort)
  BY <1>6, WriteDataIInv, StreamWriteData, Zenon
<1>7. CASE \E ownId, okay \in BOOLEAN : AxiWriteResp(abort, ownId, okay)
  BY <1>7, WriteRespIInv, StreamWriteResp, Zenon
<1>8. CASE AxiReadAddr(abort)
  BY <1>8, ReadAddrIInv, StreamReadAddr, Zenon
<1>9. CASE \E rword \in W, ownId, last, okay \in BOOLEAN :
              AxiReadData(abort, rword, ownId, last, okay)
  BY <1>9, ReadDataIInv, StreamReadData, Zenon
<1>10. CASE AxiReadPrepare(abort)
  BY <1>10, ReadPrepareIInv, StreamReadPrepare, Zenon
<1>11. CASE AxiReadOut(abort)
  BY <1>11, ReadOutIInv, StreamReadOut, Zenon
<1>12. CASE AxiRetire(abort)
  BY <1>12, RetireIInv, StreamRetire, Zenon
<1>13. CASE AxiPoison(abort)
  <2>1. Streaming'
    BY <1>13, StreamStays DEF AxiPoison
  <2> QED  BY <1>13, <2>1, PoisonIInv, Zenon
<1>14. CASE \E c, i, o, d : AxiWait(abort, c, i, o, d)
  <2>1. Streaming'
    BY <1>14, StreamStays DEF AxiWait
  <2> QED  BY <1>14, <2>1, WaitIInv, Zenon
<1> QED  BY <1>1, <1>2, <1>3, <1>4, <1>5, <1>6, <1>7, <1>8, <1>9, <1>10, <1>11, <1>12, <1>13, <1>14

LEMMA BurstStutter == ASSUME NEW W, BurstInv(W), UNCHANGED axiVars PROVE BurstInv(W)'
<1>1. EngineInv(W)'
  BY StutterIInv DEF BurstInv
<1>2. Streaming'
  BY StreamStays DEF BurstInv, axiVars
<1> QED  BY <1>1, <1>2 DEF BurstInv

\* The body of AxiOffersStand.
Stand ==
    /\ AwValid /\ axiOwed' = axiOwed => AwValid' /\ axiCmd' = axiCmd
    /\ ArValid /\ axiOwed' = axiOwed => ArValid' /\ axiCmd' = axiCmd
    /\ WValid /\ axiBeats' = axiBeats =>
          WValid' /\ axiBuffer' = axiBuffer /\ axiIndex' = axiIndex

\* While an offer stands, the slave accepts it or nothing happens.
LEMMA OfferSteps ==
  ASSUME NEW W, EngineStep(W), AwValid \/ WValid \/ ArValid
  PROVE  \E abort \in BOOLEAN :
           \/ AxiWriteAddr(abort)
           \/ AxiWriteData(abort)
           \/ AxiReadAddr(abort)
           \/ \E c, i, o, d : AxiWait(abort, c, i, o, d)
<1> DEFINE Offering == axiState \in {"WriteAddr", "WriteData", "ReadAddr"}
<1>1. Offering
  BY DEF AwValid, WValid, ArValid
<1>2. \A abort \in BOOLEAN :
        /\ \A cmd : AxiAccept(abort, cmd) => ~Offering
        /\ AxiValidate(abort) => ~Offering
        /\ AxiGiveUp(abort) => ~Offering
        /\ \A word : AxiLoadWrite(abort, word) => ~Offering
  BY DEF AxiAccept, AxiCmdReady, AxiValidate, AxiGiveUp, AxiLoadWrite, AxiInReady
<1>3. \A word, abort, ownId, last, okay : AxiReadData(abort, word, ownId, last, okay) => ~Offering
  BY DEF AxiReadData
<1>4. \A abort, ownId, okay \in BOOLEAN : AxiWriteResp(abort, ownId, okay) => ~Offering
  BY DEF AxiWriteResp
<1>5. \A abort \in BOOLEAN :
        /\ AxiReadPrepare(abort) => ~Offering
        /\ AxiReadOut(abort) => ~Offering
        /\ AxiRetire(abort) => ~Offering
        /\ AxiPoison(abort) => ~Offering
  BY DEF AxiReadPrepare, AxiReadOut, AxiOutValid, AxiRetire, AxiDoneValid, AxiPoison, AxiPoisoned
<1> HIDE DEF Offering
<1> QED  BY <1>1, <1>2, <1>3, <1>4, <1>5, Zenon DEF EngineStep

LEMMA StepStands == ASSUME NEW W, BurstInv(W), EngineStep(W) PROVE Stand
<1> USE DEF BurstInv, EngineInv
<1>1. CASE ~AwValid /\ ~WValid /\ ~ArValid
  BY <1>1 DEF Stand
<1>2. CASE \E abort \in BOOLEAN : AxiWriteAddr(abort)
  BY <1>2 DEF Stand, AxiDrained, AxiWriteAddr, AwValid, WValid, ArValid
<1>3. CASE \E abort \in BOOLEAN : AxiWriteData(abort)
  <2>1. Len(axiBeats') = Len(axiBeats) + 1 /\ Len(axiBeats) \in Nat
    BY <1>3 DEF HistoryIn, StorageIn, AxiWriteData
  <2> QED  BY <2>1, <1>3 DEF Stand, AxiWriteData, AwValid, WValid, ArValid
<1>4. CASE \E abort \in BOOLEAN : AxiReadAddr(abort)
  BY <1>4 DEF Stand, AxiDrained, AxiReadAddr, AwValid, WValid, ArValid
<1>5. CASE \E abort \in BOOLEAN : \E c, i, o, d : AxiWait(abort, c, i, o, d)
  BY <1>5 DEF Stand, AxiWait, AwValid, WValid, ArValid
<1> QED  BY <1>1, <1>2, <1>3, <1>4, <1>5, OfferSteps

\* Words that lead a sequence are a prefix of it in the sense of SubSeq.
LEMMA LeadsIsPrefix ==
  ASSUME NEW W, NEW s \in Seq(W), NEW t \in Seq(W), Leads(s, t)
  PROVE  s = SubSeq(t, 1, Len(s))
<1>1. Len(s) \in Nat /\ Len(t) \in Nat /\ Len(s) <= Len(t)
  BY DEF Leads
<1>2. /\ SubSeq(t, 1, Len(s)) \in Seq(W) /\ Len(SubSeq(t, 1, Len(s))) = Len(s)
      /\ \A i \in 1 .. Len(s) : SubSeq(t, 1, Len(s))[i] = t[i]
  BY <1>1
<1> QED  BY <1>1, <1>2, SeqEqual DEF Leads

LEMMA StreamIsRight == ASSUME NEW W, Words \subseteq W, BurstInv(W) PROVE AxiStream
<1>1. axiTaken \in Seq(W) /\ axiBeats \in Seq(W) /\ axiGiven \in Seq(W) /\ axiCmd.write \in BOOLEAN
  BY DEF BurstInv, EngineInv, HistoryIn, AxiControlTypes
<1>2. CASE axiCmd.write
  <2>1. WriteStream
    BY <1>2 DEF BurstInv, Streaming
  <2>2. axiBeats = SubSeq(axiTaken, 1, Len(axiBeats))
    BY <1>1, <2>1, LeadsIsPrefix DEF WriteStream
  <2>3. AwValid \/ WValid => Len(axiTaken) = axiCmd.words
    BY <2>1 DEF WriteStream, AwValid, WValid
  <2>4. ASSUME WValid PROVE axiBuffer = axiTaken[Len(axiBeats) + 1]
    <3>1. axiState = "WriteData" /\ Len(axiBeats) = axiIndex /\ axiBuffer = axiMem[axiIndex]
          /\ InRam(axiTaken) /\ Len(axiTaken) = axiCmd.words
      BY <2>1, <2>4 DEF WriteStream, WValid
    <3>2. axiIndex + 1 \in 1 .. Len(axiTaken) /\ (axiIndex + 1) - 1 = axiIndex
      BY <3>1, Lengths DEF BurstInv, Serving
    <3> QED  BY <3>1, <3>2 DEF InRam
  <2> QED  BY <1>2, <2>2, <2>3, <2>4 DEF AxiStream
<1>3. CASE ~axiCmd.write
  <2>1. ReadStream
    BY <1>3 DEF BurstInv, Streaming
  <2>2. axiGiven = SubSeq(axiBeats, 1, Len(axiGiven))
    BY <1>1, <2>1, LeadsIsPrefix DEF ReadStream
  <2> QED  BY <1>3, <2>1, <2>2 DEF AxiStream, ReadStream
<1> QED  BY <1>1, <1>2, <1>3

-----------------------------------------------------------------------------
(* The theorems: the engine on its own reads words and nothing else. *)

AxiIInv == BurstInv(Words \cup {NoWord})

(* What the engine owes and is owed fits its state, and its buffer holds    *)
(* the words of the burst it is in, and no other.                           *)
THEOREM AxiInvariant == AxiSpec => []AxiIInv
<1>1. AxiInit => AxiIInv
  BY InitIInv, StreamInit DEF AxiIInv, BurstInv
<1>2. AxiIInv /\ [AxiNext]_axiVars => AxiIInv'
  <2>1. ASSUME AxiIInv, AxiNext PROVE AxiIInv'
    BY <2>1, NextIsStep, StepKeeps DEF AxiIInv
  <2>2. ASSUME AxiIInv, UNCHANGED axiVars PROVE AxiIInv'
    BY <2>2, BurstStutter DEF AxiIInv
  <2> QED  BY <2>1, <2>2
<1> QED  BY <1>1, <1>2, PTL DEF AxiSpec

(* The registers of the engine stay in their types; in particular index_q   *)
(* never addresses the burst RAM beyond its last word.                      *)
THEOREM AxiTypeCorrect == AxiSpec => []AxiTypeOK
<1>1. AxiIInv => AxiTypeOK
  BY DEF AxiIInv, BurstInv, EngineInv, AxiTypeOK, StorageIn, AxiStorageTypes,
         HistoryIn, AxiHistoryTypes
<1> QED  BY <1>1, AxiInvariant, PTL

(* While the slave owes a response the engine is waiting for it or is       *)
(* poisoned: it is never idle, so busy=0 proves there is no AXI access.     *)
THEOREM AxiDrainedCorrect == AxiSpec => []AxiDrained
<1>1. AxiIInv => AxiDrained
  BY DEF AxiIInv, BurstInv, EngineInv
<1> QED  BY <1>1, AxiInvariant, PTL

(* The beats of a write are the client's words, in order and only once all  *)
(* of them are buffered; the words of a read reach the client in order, all *)
(* of them having arrived without an error.                                 *)
THEOREM AxiStreamCorrect == AxiSpec => []AxiStream
<1>1. AxiIInv => AxiStream
  BY StreamIsRight DEF AxiIInv
<1> QED  BY <1>1, AxiInvariant, PTL

(* No step withdraws or changes an address or a data beat that the slave    *)
(* has not accepted, whatever the abort input does.                         *)
THEOREM AxiOffersStandCorrect == AxiSpec => AxiOffersStand
<1>1. AxiIInv /\ [AxiNext]_axiVars => [Stand]_axiVars
  BY NextIsStep, StepStands DEF AxiIInv
<1>2. AxiSpec => [][Stand]_axiVars
  BY <1>1, AxiInvariant, PTL DEF AxiSpec
<1> QED  BY <1>2 DEF AxiOffersStand, Stand

-----------------------------------------------------------------------------
(* The page translator. *)

LEMMA Sizes ==
    /\ MaxWords \in Nat \ {0} /\ PageBytes \in Nat \ {0}
    /\ SpaceBytes \in Nat /\ ArenaBase \in Nat /\ MaxArenaBytes \in Nat
    /\ ArenaBase + MaxArenaBytes <= SpaceBytes
  BY M5Assumption, Zenon

-----------------------------------------------------------------------------
(* Division. *)

LEMMA DivisionLaw ==
    ASSUME NEW m \in Nat, NEW d \in Nat \ {0}
    PROVE  m \div d \in Nat /\ m % d \in 0 .. d - 1 /\ m = d * (m \div d) + (m % d)
  BY SMT

\* Multiples of d are at least d apart.
LEMMA MultiplesApart ==
    ASSUME NEW d \in Nat \ {0}, NEW p \in Nat, NEW q \in Nat, p < q
    PROVE  d * p \in Nat /\ d * q \in Nat /\ d * p + d <= d * q
  <1>1. PICK k \in Nat : q = p + 1 + k
    <2>1. q - p - 1 \in Nat /\ q = p + 1 + (q - p - 1)
      OBVIOUS
    <2> QED BY <2>1
  <1>2. d * q = d * p + d + d * k /\ d * k \in Nat /\ d * p \in Nat
    BY <1>1, SMT
  <1> QED BY <1>2

\* Quotient and remainder are the only ones.
LEMMA DivisionUnique ==
    ASSUME NEW d \in Nat \ {0}, NEW q \in Nat, NEW r \in 0 .. d - 1
    PROVE  /\ d * q + r \in Nat
           /\ (d * q + r) \div d = q /\ (d * q + r) % d = r
  <1> DEFINE m == d * q + r
  <1>1. d * q \in Nat /\ m \in Nat
    BY SMT
  <1>2. PICK p \in Nat, s \in 0 .. d - 1 : p = m \div d /\ s = m % d /\ m = d * p + s
    <2> HIDE DEF m
    <2> QED BY <1>1, DivisionLaw
  <1>3. d * p \in Nat
    BY SMT
  <1>4. ~(p < q) /\ ~(q < p)
    BY <1>1, <1>2, <1>3, MultiplesApart
  <1>5. p = q
    BY <1>4
  <1> QED BY <1>1, <1>2, <1>3, <1>5

\* n numbers from a on have one quotient exactly if they do not run past the
\* next multiple.
LEMMA OneQuotient ==
    ASSUME NEW d \in Nat \ {0}, NEW a \in Nat, NEW n \in Nat \ {0}
    PROVE  (\A i \in 0 .. n - 1 : (a + i) \div d = a \div d) <=> (a % d) + n <= d
  <1> DEFINE q == a \div d
             r == a % d
  <1>1. q \in Nat /\ r \in 0 .. d - 1 /\ a = d * q + r
    BY DivisionLaw
  <1> HIDE DEF q, r
  <1> d * q \in Nat
    BY <1>1, SMT
  <1>2. ASSUME r + n <= d, NEW i \in 0 .. n - 1 PROVE (a + i) \div d = q
    <2>1. r + i \in 0 .. d - 1 /\ a + i = d * q + (r + i)
      BY <1>1, <1>2
    <2> QED BY <1>1, <2>1, DivisionUnique
  <1>3. ASSUME (a + (n - 1)) \div d = q PROVE r + n <= d
    <2> DEFINE m == a + (n - 1)
    <2>1. m \in Nat
      OBVIOUS
    <2>2. m % d \in 0 .. d - 1 /\ m = d * q + (m % d)
      <3> HIDE DEF m
      <3> QED BY <2>1, <1>3, DivisionLaw DEF m
    <2> QED BY <1>1, <2>2
  <1>4. n - 1 \in 0 .. n - 1
    OBVIOUS
  <1> QED BY <1>2, <1>3, <1>4 DEF q, r

\* A number below a multiple of d has a smaller quotient.
LEMMA QuotientBelow ==
    ASSUME NEW d \in Nat \ {0}, NEW a \in Nat, NEW b \in Nat, a < b, b % d = 0
    PROVE  a \div d < b \div d
  <1>1. PICK p \in Nat, r \in 0 .. d - 1 : p = a \div d /\ a = d * p + r
    BY DivisionLaw
  <1>2. PICK q \in Nat : q = b \div d /\ b = d * q
    BY DivisionLaw
  <1>3. ~(q < p)
    <2>1. d * p \in Nat /\ d * q \in Nat
      BY SMT
    <2> QED BY <1>1, <1>2, <2>1, MultiplesApart
  <1>4. p # q
    BY <1>1, <1>2
  <1> QED BY <1>1, <1>2, <1>3, <1>4

\* Quotients keep the order.
LEMMA QuotientOrder ==
    ASSUME NEW d \in Nat \ {0}, NEW a \in Nat, NEW b \in Nat, a <= b
    PROVE  a \div d <= b \div d
  <1>1. PICK p \in Nat, r \in 0 .. d - 1 : p = a \div d /\ a = d * p + r
    BY DivisionLaw
  <1>2. PICK q \in Nat, s \in 0 .. d - 1 : q = b \div d /\ b = d * q + s
    BY DivisionLaw
  <1>3. ~(q < p)
    <2>1. d * p \in Nat /\ d * q \in Nat
      BY SMT
    <2> QED BY <1>1, <1>2, <2>1, MultiplesApart
  <1> QED BY <1>1, <1>2, <1>3

-----------------------------------------------------------------------------
(* The request checks. *)

Config == [enable : BOOLEAN, root : Nat, size : Nat]
Request == [addr : Nat, words : Nat, write : BOOLEAN]

LEMMA MappedConfig ==
    ASSUME trCfg \in Config
    PROVE  TrMapped(trCfg) <=> trCfg.enable /\ ~TrBadConfig
  <1>1. trCfg.size \in Nat /\ trCfg.root \in Nat
    BY DEF Config
  <1>2. trCfg.size \div PageBytes \in Nat
    BY <1>1, Sizes, DivisionLaw
  <1> QED BY <1>1, <1>2, Sizes DEF TrMapped, TrBadConfig, Misaligned, PastSpace

LEMMA BytesInside ==
    ASSUME NEW req \in Request, NEW size \in Nat, req.words # 0
    PROVE  (\A x \in TrBytes(req) : x \in ArenaBase .. ArenaBase + size - 1)
              <=> req.addr >= ArenaBase /\ req.addr + Bytes(req.words) <= ArenaBase + size
  <1> DEFINE n == Bytes(req.words)
  <1>1. req.addr \in Nat /\ n \in Nat \ {0} /\ ArenaBase \in Nat
    BY Sizes DEF Request, Bytes
  <1>2. TrBytes(req) = {req.addr + k : k \in 0 .. n - 1}
    BY DEF TrBytes
  <1>3. req.addr \in TrBytes(req) /\ req.addr + (n - 1) \in TrBytes(req)
    <2> HIDE DEF n
    <2>1. 0 \in 0 .. n - 1 /\ n - 1 \in 0 .. n - 1 /\ req.addr + 0 = req.addr
      BY <1>1
    <2> QED BY <1>2, <2>1
  <1> HIDE DEF n
  <1>4. ASSUME \A x \in TrBytes(req) : x \in ArenaBase .. ArenaBase + size - 1
        PROVE  req.addr >= ArenaBase /\ req.addr + n <= ArenaBase + size
    <2>1. req.addr \in ArenaBase .. ArenaBase + size - 1
      BY <1>3, <1>4
    <2>2. req.addr + (n - 1) \in ArenaBase .. ArenaBase + size - 1
      BY <1>3, <1>4
    <2> QED BY <1>1, <2>1, <2>2
  <1>5. ASSUME req.addr >= ArenaBase, req.addr + n <= ArenaBase + size, NEW x \in TrBytes(req)
        PROVE  x \in ArenaBase .. ArenaBase + size - 1
    <2>1. PICK k \in 0 .. n - 1 : x = req.addr + k
      BY <1>2
    <2> QED BY <1>1, <1>5, <2>1
  <1> QED BY <1>4, <1>5 DEF n

LEMMA BytesInPage ==
    ASSUME NEW req \in Request, req.words # 0
    PROVE  (\A x, y \in TrBytes(req) : x \div PageBytes = y \div PageBytes)
              <=> ~CrossesPage(req.addr, req.words)
  <1> DEFINE n == Bytes(req.words)
             a == req.addr
             d == PageBytes
  <1>1. a \in Nat /\ n \in Nat \ {0} /\ d \in Nat \ {0}
    BY Sizes DEF Request, Bytes
  <1>2. TrBytes(req) = {a + k : k \in 0 .. n - 1}
    BY DEF TrBytes
  <1>3. ~CrossesPage(req.addr, req.words) <=> (a % d) + n <= d
    BY <1>1 DEF CrossesPage
  <1> HIDE DEF n, a, d
  <1>4. (\A x, y \in TrBytes(req) : x \div d = y \div d) <=> \A i \in 0 .. n - 1 : (a + i) \div d = a \div d
    <2>1. a \in TrBytes(req)
      <3>1. 0 \in 0 .. n - 1 /\ a + 0 = a
        BY <1>1
      <3> QED BY <1>2, <3>1
    <2> QED BY <1>2, <2>1
  <1>5. (\A i \in 0 .. n - 1 : (a + i) \div d = a \div d) <=> (a % d) + n <= d
    BY <1>1, OneQuotient
  <1> QED BY <1>3, <1>4, <1>5 DEF d

(* pa_m5_page_translate.sv:106-112: the five comparisons of the request     *)
(* check admit exactly the bursts that lie, byte by byte, inside the arena  *)
(* and inside one page, under a mapping that is enabled and sound.          *)
LEMMA ChecksAreExact ==
    ASSUME trCfg \in Config, trReq \in Request
    PROVE  TrRequestFault = 0 <=> TrLegal(trCfg, trReq)
  <1>1. /\ trReq.addr \in Nat /\ trReq.words \in Nat /\ trCfg.size \in Nat
        /\ ArenaBase \in Nat /\ MaxWords \in Nat
    BY Sizes DEF Config, Request
  <1>2. TrRequestFault = 0 <=> /\ trCfg.enable /\ ~TrBadConfig /\ ~TrOutside
                               /\ ~Misaligned(trReq.addr) /\ ~CrossesPage(trReq.addr, trReq.words)
    BY DEF TrRequestFault
  <1>3. ~BadLength(trReq.words) <=> trReq.words \in 1 .. MaxWords
    BY <1>1 DEF BadLength
  <1>4. Bytes(trReq.words) \in Nat /\ (trReq.words # 0 => Bytes(trReq.words) > 0)
    BY <1>1 DEF Bytes
  <1>5. ~TrOutside <=> /\ trReq.words \in 1 .. MaxWords /\ trReq.addr >= ArenaBase
                       /\ trReq.addr + Bytes(trReq.words) <= ArenaBase + trCfg.size
    BY <1>1, <1>3, <1>4 DEF TrOutside
  <1>6. CASE trReq.words \in 1 .. MaxWords
    <2>1. trReq.words # 0
      BY <1>6
    <2> QED BY <1>1, <1>2, <1>5, <1>6, <2>1, MappedConfig, BytesInside, BytesInPage
            DEF TrLegal, Misaligned
  <1>7. CASE trReq.words \notin 1 .. MaxWords
    BY <1>2, <1>5, <1>7 DEF TrLegal
  <1> QED BY <1>6, <1>7

\* The 16-bit page field of a legal request is its page in the arena.
LEMMA PageIsExact ==
    ASSUME NEW cfg \in Config, trReq \in Request, TrLegal(cfg, trReq)
    PROVE  TrPage = (trReq.addr - ArenaBase) \div PageBytes
  <1> DEFINE off == trReq.addr - ArenaBase
             d == PageBytes
  <1>1. /\ trReq.words # 0 /\ cfg.size \in Nat /\ cfg.size <= MaxArenaBytes /\ cfg.size % d = 0
        /\ \A x \in TrBytes(trReq) : x \in ArenaBase .. ArenaBase + cfg.size - 1
    BY DEF TrLegal, TrMapped, Config, Request
  <1>2. /\ trReq.addr >= ArenaBase /\ trReq.addr + Bytes(trReq.words) <= ArenaBase + cfg.size
        /\ trReq.addr \in Nat /\ Bytes(trReq.words) \in Nat \ {0}
    <2>1. trReq.addr \in Nat /\ Bytes(trReq.words) \in Nat \ {0}
      BY <1>1 DEF Request, Bytes
    <2> QED BY <1>1, <2>1, BytesInside
  <1>3. off \in Nat /\ off < cfg.size /\ off < SpaceBytes /\ d \in Nat \ {0}
    BY <1>1, <1>2, Sizes
  <1>4. (trReq.addr + SpaceBytes - ArenaBase) % SpaceBytes = off
    <2>1. trReq.addr + SpaceBytes - ArenaBase = SpaceBytes * 1 + off
      BY <1>2, Sizes
    <2>2. off \in 0 .. SpaceBytes - 1 /\ SpaceBytes \in Nat \ {0}
      BY <1>3, Sizes
    <2> HIDE DEF off
    <2>3. (SpaceBytes * 1 + off) % SpaceBytes = off
      BY <2>2, DivisionUnique
    <2> QED BY <2>1, <2>3
  <1> HIDE DEF off, d
  <1>5. off \div d < cfg.size \div d /\ cfg.size \div d <= MaxArenaBytes \div d
    BY <1>1, <1>3, QuotientBelow, QuotientOrder, Sizes
  <1>6. off \div d \in Nat /\ cfg.size \div d \in Nat /\ MaxArenaBytes \div d \in Nat
    BY <1>1, <1>3, DivisionLaw, Sizes
  <1>7. (off \div d) % (MaxArenaBytes \div d) = off \div d
    <2> DEFINE p == off \div d
               n == MaxArenaBytes \div d
    <2>1. p \in 0 .. n - 1 /\ n \in Nat \ {0} /\ p = n * 0 + p
      BY <1>5, <1>6
    <2> HIDE DEF p, n
    <2>2. (n * 0 + p) % n = p
      BY <2>1, DivisionUnique
    <2> QED BY <2>1, <2>2 DEF p, n
  <1> QED BY <1>4, <1>7 DEF TrPage, off, d

-----------------------------------------------------------------------------
(* The inductive invariant. *)

\* Types of what the address checks and the cache are computed from.
TrTypeOK ==
    /\ trState \in TrStates /\ trCfg \in Config /\ trReq \in Request /\ trFault \in 0 .. 9
    /\ trCache = [i \in 0 .. CacheEntries - 1 |-> trCache[i]]
    /\ hostCfg \in Config /\ hostFlush \in BOOLEAN

\* While a request is in service the mapping stands still, and is the latched one.
MappingHeld == trState # "Idle" => trCfg = hostCfg /\ ~hostFlush

\* Whatever is cached is what the table holds now, unless a flush is due.
CacheCoherent ==
    ~hostFlush => \A i \in 0 .. CacheEntries - 1 : \A e \in trCache[i] : e.pte = TrEntry(e.tag)

\* Past the checks the request is legal, and the entry judged is the table's.
InService ==
    /\ trState \in {"Check", "TableSend", "TableWait", "Decode"} => trPhys = 0 /\ trFault = 0
    /\ trState \in {"TableSend", "TableWait", "Decode"} => TrLegal(hostCfg, trReq)
    /\ trState = "Decode" => trPte = TrEntry(TrPage)

TrInv == TrTypeOK /\ MappingHeld /\ CacheCoherent /\ InService /\ TrCorrect

\* What a step that leaves the request and the mapping alone leaves alone.
Kept == UNCHANGED <<trCfg, trReq, hostVars>>

LEMMA KeptSame ==
    ASSUME Kept
    PROVE  /\ TrPage' = TrPage /\ TrTableAddr' = TrTableAddr
           /\ \A p : TrEntry(p)' = TrEntry(p)
           /\ TrLegal(hostCfg, trReq)' = TrLegal(hostCfg, trReq)
  BY DEF Kept, hostVars, TrPage, TrTableAddr, TrEntry, TrLegal, TrMapped, TrBytes

-----------------------------------------------------------------------------
(* One lemma per action. *)

LEMMA FlushKeeps ==
    ASSUME TrInv, NEW flush, TrFlush(flush), UNCHANGED <<hostCfg, hostTable>>, hostFlush' \in BOOLEAN
    PROVE  TrInv'
  <1> USE DEF TrInv, TrFlush
  <1>1. TrTypeOK'
    BY DEF TrTypeOK, NoLines
  <1>2. CacheCoherent'
    BY DEF CacheCoherent, NoLines
  <1>3. MappingHeld' /\ InService' /\ TrCorrect'
    BY DEF MappingHeld, InService, TrCorrect, TrRspValid
  <1> QED BY <1>1, <1>2, <1>3

LEMMA AcceptKeeps ==
    ASSUME TrInv, ~hostFlush, NEW flush, NEW req \in Request, TrAccept(flush, hostCfg, req), UNCHANGED hostVars
    PROVE  TrInv'
  <1> USE DEF TrInv, TrAccept, hostVars
  <1>1. TrTypeOK' /\ MappingHeld'
    BY DEF TrTypeOK, MappingHeld, TrStates
  <1>2. CacheCoherent'
    BY DEF CacheCoherent, TrEntry
  <1>3. InService' /\ TrCorrect'
    BY DEF InService, TrCorrect, TrRspValid
  <1> QED BY <1>1, <1>2, <1>3

LEMMA FaultCodes == TrRequestFault \in 0 .. 5 /\ TrPteFault \in {0, 6, 7, 8}
  BY DEF TrRequestFault, TrPteFault

LEMMA CheckKeeps == ASSUME TrInv, TrCheck, UNCHANGED hostVars PROVE TrInv'
  <1> USE DEF TrInv
  <1>1. Kept /\ trState = "Check" /\ trCfg = hostCfg /\ ~hostFlush
    BY DEF Kept, TrCheck, MappingHeld
  <1>2. TrTypeOK' /\ MappingHeld'
    BY <1>1, FaultCodes DEF TrTypeOK, MappingHeld, TrStates, TrCheck, hostVars
  <1>3. CacheCoherent'
    BY <1>1, KeptSame DEF CacheCoherent, TrCheck, hostVars
  <1>4. TrRequestFault = 0 <=> TrLegal(hostCfg, trReq)
    BY <1>1, ChecksAreExact DEF TrTypeOK
  <1>5. CASE TrRequestFault # 0
    <2>1. trState' = "Respond" /\ trFault' # 0 /\ trPhys' = 0
      BY <1>1, <1>5 DEF TrCheck, InService
    <2>2. ~TrLegal(hostCfg, trReq)'
      BY <1>1, <1>4, <1>5, KeptSame
    <2> QED BY <1>2, <1>3, <2>1, <2>2 DEF InService, TrCorrect
  <1>6. CASE TrRequestFault = 0 /\ TrHits # {}
    <2>1. PICK e \in trCache[TrLine] : e.tag = TrPage /\ trPte' = e.pte
      BY <1>1, <1>6 DEF TrCheck, TrHits
    <2>2. TrLine \in 0 .. CacheEntries - 1
      <3>1. TrPage \in Nat
        <4>1. ASSUME trCache[TrLine] # {} PROVE TrLegal(hostCfg, trReq)
          BY <1>4, <1>6
        <4>2. TrPage = (trReq.addr - ArenaBase) \div PageBytes
          BY <2>1, <4>1, PageIsExact DEF TrTypeOK
        <4>3. trReq.addr - ArenaBase \in Nat
          <5>1. ~TrOutside /\ trReq.addr \in Nat /\ ArenaBase \in Nat
            BY <1>6, Sizes DEF TrRequestFault, TrTypeOK, Request
          <5> QED BY <5>1 DEF TrOutside
        <4> QED BY <4>2, <4>3, DivisionLaw, Sizes
      <3> QED BY <3>1, DivisionLaw, TrAssumption DEF TrLine
    <2>3. trPte' = TrEntry(TrPage)
      BY <1>1, <2>1, <2>2 DEF CacheCoherent
    <2>4. trState' = "Decode" /\ trFault' = 0 /\ trPhys' = 0
      BY <1>1, <1>6 DEF TrCheck, InService
    <2> QED BY <1>1, <1>2, <1>3, <1>4, <1>6, <2>3, <2>4, KeptSame DEF InService, TrCorrect, TrRspValid
  <1>7. CASE TrRequestFault = 0 /\ TrHits = {}
    <2>1. trState' = "TableSend" /\ trFault' = 0 /\ trPhys' = 0
      BY <1>1, <1>7 DEF TrCheck, InService
    <2> QED BY <1>1, <1>2, <1>3, <1>4, <1>7, <2>1, KeptSame DEF InService, TrCorrect, TrRspValid
  <1> QED BY <1>5, <1>6, <1>7

LEMMA TableSendKeeps == ASSUME TrInv, TrTableSend, UNCHANGED hostVars PROVE TrInv'
  <1> USE DEF TrInv, TrTableSend, TrTableValid
  <1>1. Kept
    BY DEF Kept
  <1>2. TrTypeOK' /\ MappingHeld' /\ CacheCoherent'
    BY <1>1, KeptSame DEF TrTypeOK, MappingHeld, TrStates, CacheCoherent, hostVars
  <1>3. InService' /\ TrCorrect'
    BY <1>1, KeptSame DEF InService, TrCorrect, TrRspValid
  <1> QED BY <1>2, <1>3

LEMMA TableWaitKeeps ==
    ASSUME TrInv, NEW pte, NEW error \in BOOLEAN, TrTableWait(pte, error), UNCHANGED hostVars,
           ~error => pte = hostTable[TrTableAddr]
    PROVE  TrInv'
  <1> USE DEF TrInv, TrTableWait
  <1>1. Kept /\ trState = "TableWait" /\ trCfg = hostCfg
    BY DEF Kept, MappingHeld
  <1>2. TrTypeOK' /\ MappingHeld' /\ CacheCoherent'
    BY <1>1, KeptSame DEF TrTypeOK, MappingHeld, TrStates, CacheCoherent, hostVars
  <1>3. CASE error
    BY <1>1, <1>2, <1>3, KeptSame DEF InService, TrCorrect, TrRspValid
  <1>4. CASE ~error
    <2>1. trPte' = TrEntry(TrPage)
      BY <1>1, <1>4 DEF TrEntry, TrTableAddr
    <2> QED BY <1>1, <1>2, <1>4, <2>1, KeptSame DEF InService, TrCorrect, TrRspValid
  <1> QED BY <1>3, <1>4

LEMMA DecodeKeeps == ASSUME TrInv, TrDecode, UNCHANGED hostVars PROVE TrInv'
  <1> USE DEF TrInv
  <1>1. Kept /\ trState = "Decode" /\ trState' = "Respond" /\ trFault' = TrPteFault
    BY DEF Kept, TrDecode
  <1>2. trPte = TrEntry(TrPage) /\ TrLegal(hostCfg, trReq) /\ ~hostFlush /\ trPhys = 0
    BY <1>1 DEF InService, MappingHeld
  <1>3. TrTypeOK' /\ MappingHeld' /\ InService'
    <2>1. trFault' \in 0 .. 9
      BY <1>1, FaultCodes
    <2> QED BY <1>1, <2>1 DEF TrTypeOK, MappingHeld, InService, TrStates, TrDecode, hostVars
  <1>4. CacheCoherent'
    <2>1. ASSUME NEW i \in 0 .. CacheEntries - 1, NEW e \in trCache'[i]
          PROVE  e.pte = TrEntry(e.tag)
      <3>1. trCache'[i] = trCache[i] \/ trCache'[i] = TrFill
        BY DEF TrDecode, TrTypeOK
      <3>2. CASE e \in TrFill
        BY <1>2, <3>2 DEF TrFill
      <3>3. CASE e \in trCache[i]
        BY <1>2, <3>3 DEF CacheCoherent
      <3> QED BY <2>1, <3>1, <3>2, <3>3
    <2> QED BY <2>1, <1>1, KeptSame DEF CacheCoherent
  <1>5. TrPteFault = 0 <=> TrGrants(trPte, trReq.write)
    BY DEF TrPteFault, TrGrants
  <1>6. TrPteFault = 0 => trPhys' = trPte.frame * PageBytes + (trReq.addr % PageBytes)
    BY DEF TrDecode
  <1>7. TrPteFault # 0 => trPhys' = 0
    BY <1>2 DEF TrDecode
  <1>8. trReq' = trReq
    BY DEF TrDecode
  <1>9. TrCorrect'
    BY <1>1, <1>2, <1>5, <1>6, <1>7, <1>8, KeptSame DEF TrCorrect
  <1> QED BY <1>3, <1>4, <1>9

LEMMA RespondKeeps == ASSUME TrInv, TrRespond, UNCHANGED hostVars PROVE TrInv'
  <1> USE DEF TrInv, TrRespond, TrRspValid
  <1>1. Kept
    BY DEF Kept
  <1>2. TrTypeOK' /\ MappingHeld' /\ CacheCoherent'
    BY <1>1, KeptSame DEF TrTypeOK, MappingHeld, TrStates, CacheCoherent, hostVars
  <1>3. InService' /\ TrCorrect'
    BY DEF InService, TrCorrect
  <1> QED BY <1>2, <1>3

LEMMA NothingKeeps == ASSUME TrInv, UNCHANGED trVars PROVE TrInv'
  <1> USE DEF TrInv, trVars, trRegs
  <1>1. Kept
    BY DEF Kept
  <1>2. TrTypeOK' /\ MappingHeld' /\ CacheCoherent'
    BY <1>1, KeptSame DEF TrTypeOK, MappingHeld, CacheCoherent, hostVars
  <1>3. InService'
    BY <1>1, KeptSame DEF InService
  <1>4. TrCorrect'
    BY <1>1, KeptSame DEF TrCorrect, TrRspValid
  <1> QED BY <1>2, <1>3, <1>4

\* The host moves the mapping when nothing is in service, and owes a flush.
LEMMA RemapKeeps == ASSUME TrInv, HostRemap, trState = "Idle", UNCHANGED trRegs PROVE TrInv'
  <1> USE DEF TrInv, HostRemap, trRegs
  <1>1. TrTypeOK'
    BY TrAssumption DEF TrTypeOK, Config
  <1> QED BY <1>1 DEF MappingHeld, CacheCoherent, InService, TrCorrect, TrRspValid

LEMMA TrInitInv == ASSUME TrStart PROVE TrInv
  <1> USE DEF TrStart, TrInit, HostInit
  <1>1. TrTypeOK
    <2>1. trFault \in 0 .. 9 /\ trReq \in Request /\ trCfg \in Config
      BY DEF Config, Request
    <2> QED BY <2>1, TrAssumption DEF TrTypeOK, TrStates, Config
  <1> QED BY <1>1 DEF TrInv, MappingHeld, CacheCoherent, InService, TrCorrect, TrRspValid

LEMMA TrNextInv == ASSUME TrInv, [TrNext]_trVars PROVE TrInv'
  <1>1. CASE HostRemap /\ trState = "Idle" /\ UNCHANGED trRegs
    BY <1>1, RemapKeeps
  <1>2. CASE TrFlush(hostFlush) /\ HostRelease
    <2>1. hostFlush' \in BOOLEAN
      BY <1>2 DEF HostRelease, TrInv, TrTypeOK
    <2> QED BY <1>2, <2>1, FlushKeeps DEF HostRelease
  <1>3. ASSUME NEW req \in Requests, TrAccept(hostFlush, hostCfg, req), UNCHANGED hostVars PROVE TrInv'
    <2>1. req \in Request
      BY TrAssumption DEF Request
    <2> QED BY <1>3, <2>1, AcceptKeeps DEF TrAccept, TrReqReady
  <1>4. CASE TrWait(FALSE, hostFlush, FALSE, FALSE, FALSE) /\ UNCHANGED hostVars
    BY <1>4, NothingKeeps DEF TrWait, trVars
  <1> QED BY <1>1, <1>2, <1>3, <1>4, CheckKeeps, TableSendKeeps, TableWaitKeeps, DecodeKeeps,
             RespondKeeps, NothingKeeps DEF TrNext

-----------------------------------------------------------------------------
(* The theorems. *)

(* Outside a flush every line of the PTE cache agrees with the table in     *)
(* DDR, the mapping registers only change around one, and a walk in         *)
(* progress is the one of the request that waits for it.                    *)
THEOREM TrInvariant == TrSpec => []TrInv
  <1>1. TrStart => TrInv
    BY TrInitInv
  <1>2. TrInv /\ [TrNext]_trVars => TrInv'
    BY TrNextInv
  <1> QED BY <1>1, <1>2, PTL DEF TrSpec

(* M5_ARCHITECTURE.md, "permissions are checked on cache hits too": an      *)
(* answer is the one the table in DDR gives at that moment, walked or       *)
(* cached, whatever the sizes and however the host moves the mapping.       *)
THEOREM TrCorrectAlways == TrSpec => []TrCorrect
  <1>1. TrInv => TrCorrect
    BY DEF TrInv
  <1> QED BY <1>1, TrInvariant, PTL

-----------------------------------------------------------------------------
(* The bridge. *)

\* What DDR may return: a data word, or an entry of a page table.
DdrWords == Words \cup {NoWord} \cup UNION {{t[x] : x \in DOMAIN t} : t \in PageTables}

-----------------------------------------------------------------------------
(* The inductive invariant. *)

BrTypeOK ==
    /\ brState \in BrStates /\ brReq \in Request /\ brAborted \in BOOLEAN
    /\ hostAbort \in BOOLEAN /\ hostCfg \in Configs /\ hostTable \in PageTables

\* Below the bridge the request stands still: it is the translator's, and the
\* host has no flush due for as long as anything is in service.
Served ==
    /\ hostFlush => ~BrBusy
    /\ TrBusy => trReq = brReq

\* What the translator granted is still granted when the burst runs.
Granted ==
    brState \in {"StartData", "Data"} => BrGranted(brReq.write) /\ brPhys = BrPhysical

\* A table walk is not aborted, reads the entry of the request's page, and
\* leaves it in pte_q if the engine reports no fault.
Walk ==
    brState = "ReadPte" =>
        /\ ~axiAborted
        /\ \A i \in 1 .. Len(axiBeats) : axiBeats[i] = TrEntry(TrPage)
        /\ axiState = "Respond" /\ axiFault = 0 => brPte = TrEntry(TrPage)

BrInv ==
    /\ BrTypeOK /\ BrInStep /\ Served /\ Granted /\ Walk /\ BrExchanged
    /\ TrInv /\ BurstInv(DdrWords)

-----------------------------------------------------------------------------
(* What the page table grants. *)

\* A legal request has an entry, in a table that DDR holds.
LEMMA EntryThere ==
    ASSUME hostCfg \in Configs, hostTable \in PageTables, NEW req \in Request, TrLegal(hostCfg, req)
    PROVE  LET p == (req.addr - ArenaBase) \div PageBytes
           IN  /\ p \in Nat /\ hostCfg.root \in Nat
               /\ hostCfg.root + 4 * p \in DOMAIN hostTable /\ TrEntry(p) \in Ptes
  <1> DEFINE off == req.addr - ArenaBase
             p == off \div PageBytes
             n == hostCfg.size \div PageBytes
  <1>1. hostCfg \in Config /\ TrMapped(hostCfg) /\ req.words # 0
    BY TrAssumption DEF Config, TrLegal
  <1>2. hostCfg.size \in Nat /\ hostCfg.size % PageBytes = 0 /\ hostCfg.root \in Nat
    BY <1>1 DEF Config, TrMapped
  <1>3. req.addr \in Nat /\ req.addr >= ArenaBase /\ req.addr + Bytes(req.words) <= ArenaBase + hostCfg.size
        /\ Bytes(req.words) \in Nat \ {0}
    <2>1. req.addr \in Nat /\ Bytes(req.words) \in Nat \ {0}
      BY <1>1 DEF Request, Bytes
    <2> QED BY <1>1, <1>2, <2>1, BytesInside DEF TrLegal
  <1>4. off \in Nat /\ off < hostCfg.size
    BY <1>2, <1>3, Sizes
  <1>5. p \in Nat /\ n \in Nat /\ p < n
    <2> HIDE DEF off
    <2> QED BY <1>2, <1>4, Sizes, DivisionLaw, QuotientBelow
  <1>6. p \in 0 .. n - 1
    <2> HIDE DEF p, n
    <2> QED BY <1>5
  <1> HIDE DEF off, p, n
  <1>7. hostCfg.root + 4 * p \in DOMAIN hostTable /\ hostTable[hostCfg.root + 4 * p] \in Ptes
    BY <1>1, <1>6, TableAssumption DEF n
  <1> QED BY <1>2, <1>5, <1>7 DEF TrEntry, p, off

\* A command the engine has nothing to object to.
Sound(addr, words) ==
    ~BadLength(words) /\ ~Misaligned(addr) /\ ~CrossesPage(addr, words) /\ ~PastSpace(addr, Bytes(words))

\* Multiples of four are closed under sums and products.
LEMMA Fours ==
    ASSUME NEW d \in Nat \ {0}, d % 4 = 0, NEW q \in Nat, NEW r \in Nat
    PROVE  (d * q + r) % 4 = r % 4
  <1>1. PICK k \in Nat : d = 4 * k
    BY SMT
  <1>2. PICK j \in Nat, s \in 0 .. 3 : r = 4 * j + s /\ s = r % 4
    <2>1. 4 \in Nat \ {0}
      OBVIOUS
    <2> QED BY <2>1, DivisionLaw
  <1>3. k * q \in Nat
    BY SMT
  <1>4. d * q = 4 * (k * q)
    BY <1>1, SMT
  <1>5. d * q + r = 4 * (k * q + j) + s /\ k * q + j \in Nat
    BY <1>2, <1>3, <1>4
  <1> DEFINE m == k * q + j
  <1>6. (4 * m + s) % 4 = s
    <2>1. 4 \in Nat \ {0} /\ m \in Nat /\ s \in 0 .. 4 - 1
      BY <1>5
    <2> HIDE DEF m
    <2> QED BY <2>1, DivisionUnique
  <1> QED BY <1>2, <1>5, <1>6

\* The address a page table gives a legal request is one the engine takes.
LEMMA GrantedCommand ==
    ASSUME BrTypeOK, BrGranted(brReq.write)
    PROVE  BrPhysical \in Nat /\ Sound(BrPhysical, brReq.words)
  <1> DEFINE f == TrEntry(BrPage).frame
             d == PageBytes
             r == brReq.addr % d
             n == Bytes(brReq.words)
  <1>1. TrLegal(hostCfg, brReq) /\ brReq \in Request
    BY DEF BrGranted, BrTypeOK
  <1>2. f \in 0 .. (SpaceBytes \div d) - 1
    <2>1. TrEntry(BrPage) \in Ptes
      BY <1>1, EntryThere DEF BrTypeOK, BrPage
    <2> QED BY <2>1 DEF Ptes
  <1>3. d \in Nat \ {0} /\ SpaceBytes \in Nat /\ brReq.addr \in Nat /\ MaxWords \in Nat
    BY <1>1, Sizes DEF Request
  <1>4. r \in 0 .. d - 1 /\ brReq.addr = d * (brReq.addr \div d) + r /\ brReq.addr \div d \in Nat
    <2> HIDE DEF d
    <2> QED BY <1>3, DivisionLaw
  <1>5. f \in Nat /\ f + 1 <= SpaceBytes \div d /\ SpaceBytes \div d \in Nat
    <2>1. SpaceBytes \div d \in Nat
      BY <1>3, DivisionLaw
    <2> HIDE DEF f, d
    <2> QED BY <1>2, <2>1
  <1>6. BrPhysical = d * f + r /\ d * f \in Nat
    <2>1. BrPhysical = f * d + r
      BY DEF BrPhysical
    <2> HIDE DEF f, d, r
    <2>2. f * d = d * f /\ d * f \in Nat
      BY <1>3, <1>5, SMT
    <2> QED BY <2>1, <2>2
  <1>7. ~BadLength(brReq.words) /\ brReq.words # 0 /\ n \in Nat
    BY <1>1, <1>3 DEF TrLegal, BadLength, Bytes, Request
  <1>8. r + n <= d /\ ~CrossesPage(brReq.addr, brReq.words)
    <2>1. ~CrossesPage(brReq.addr, brReq.words)
      BY <1>1, <1>7, BytesInPage DEF TrLegal
    <2>2. r \in Nat
      BY <1>3, <1>4
    <2> QED BY <1>3, <1>7, <2>1, <2>2 DEF CrossesPage
  <1>9. d % 4 = 0 /\ brReq.addr % 4 = 0
    BY <1>1, M5Assumption DEF TrLegal
  <1> HIDE DEF f, d, r
  <1>10. r \in Nat /\ d * f + r \in Nat /\ (d * f + r) % d = r
    <2>1. r \in 0 .. d - 1 /\ d \in Nat \ {0} /\ f \in Nat
      BY <1>3, <1>4, <1>5
    <2>2. (d * f + r) % d = r
      BY <2>1, DivisionUnique
    <2> QED BY <1>6, <2>1, <2>2
  <1>11. (d * f + r) % 4 = 0
    <2>1. brReq.addr \div d \in Nat /\ r \in Nat /\ f \in Nat /\ d \in Nat \ {0} /\ d % 4 = 0
      BY <1>3, <1>4, <1>5, <1>9, <1>10
    <2>2. (d * f + r) % 4 = r % 4 /\ (d * (brReq.addr \div d) + r) % 4 = r % 4
      BY <2>1, Fours, Zenon
    <2> QED BY <1>4, <1>9, <2>2
  <1>12. d * f + r + n <= SpaceBytes
    <2>1. d * f + d <= d * (SpaceBytes \div d) /\ d * (SpaceBytes \div d) \in Nat
      <3>1. f < SpaceBytes \div d
        BY <1>5
      <3> QED BY <1>3, <1>5, <3>1, MultiplesApart
    <2>2. d * (SpaceBytes \div d) <= SpaceBytes
      <3>1. SpaceBytes = d * (SpaceBytes \div d) + (SpaceBytes % d) /\ SpaceBytes % d \in 0 .. d - 1
        BY <1>3, DivisionLaw
      <3> QED BY <1>3, <2>1, <3>1
    <2> HIDE DEF n
    <2> QED BY <1>3, <1>6, <1>7, <1>8, <1>10, <2>1, <2>2
  <1>13. ~CrossesPage(BrPhysical, brReq.words)
    BY <1>3, <1>6, <1>7, <1>8, <1>10 DEF CrossesPage, d
  <1> QED BY <1>3, <1>6, <1>7, <1>10, <1>11, <1>12, <1>13 DEF Sound, Misaligned, PastSpace

-----------------------------------------------------------------------------
(* Which arms of the three machines a clock edge can run. *)

LEMMA BridgeArms ==
    ASSUME NEW abort, NEW flush, NEW valid, NEW req, NEW done, BrStep(abort, flush, valid, req, done)
    PROVE  /\ brState = "Idle" => (valid /\ BrAccept(abort, flush, req)) \/ UNCHANGED brRegs
           /\ brState = "StartTranslate" => BrStartTranslate(abort)
           /\ brState = "WaitTranslate" => BrWaitTranslate(abort)
           /\ brState = "ReadPte" => BrReadPte(abort)
           /\ brState = "StartData" => BrStartData(abort)
           /\ brState = "Data" => BrData(abort)
           /\ brState = "Respond" => BrRespond(abort) \/ UNCHANGED brRegs
  <1>1. /\ BrAccept(abort, flush, req) => brState = "Idle"
        /\ BrStartTranslate(abort) => brState = "StartTranslate"
        /\ BrWaitTranslate(abort) => brState = "WaitTranslate"
        /\ BrReadPte(abort) => brState = "ReadPte"
        /\ BrStartData(abort) => brState = "StartData"
        /\ BrData(abort) => brState = "Data"
        /\ BrRespond(abort) => brState = "Respond"
        /\ BrWait(abort, flush, valid, done) => brState \in {"Idle", "Respond"} /\ UNCHANGED brRegs
    BY Zenon DEF BrAccept, BrStartTranslate, BrWaitTranslate, BrReadPte, BrStartData, BrData, BrRespond,
                 BrDoneValid, BrWait
  <1> QED BY <1>1 DEF BrStep

LEMMA TranslatorArms ==
    ASSUME NEW flush, NEW valid, NEW cfg, NEW req, NEW ready, NEW rsp, NEW pte, NEW error, NEW take,
           TrTick(flush, valid, cfg, req, ready, rsp, pte, error, take)
    PROVE  /\ trState = "Idle" => \/ TrFlush(flush)
                                  \/ valid /\ TrAccept(flush, cfg, req)
                                  \/ ~valid /\ ~flush /\ UNCHANGED trRegs
           /\ trState = "Check" => TrCheck
           /\ trState = "TableSend" => (ready /\ TrTableSend) \/ (~ready /\ UNCHANGED trRegs)
           /\ trState = "TableWait" => (rsp /\ TrTableWait(pte, error)) \/ (~rsp /\ UNCHANGED trRegs)
           /\ trState = "Decode" => TrDecode
           /\ trState = "Respond" => (take /\ TrRespond) \/ (~take /\ UNCHANGED trRegs)
  <1>1. /\ TrFlush(flush) => trState = "Idle"
        /\ TrAccept(flush, cfg, req) => trState = "Idle"
        /\ TrCheck => trState = "Check"
        /\ TrTableSend => trState = "TableSend"
        /\ TrTableWait(pte, error) => trState = "TableWait"
        /\ TrDecode => trState = "Decode"
        /\ TrRespond => trState = "Respond"
        /\ TrWait(valid, flush, ready, rsp, take) =>
              /\ UNCHANGED trRegs
              /\ \/ trState = "Idle" /\ ~valid /\ ~flush
                 \/ trState = "TableSend" /\ ~ready
                 \/ trState = "TableWait" /\ ~rsp
                 \/ trState = "Respond" /\ ~take
    BY Zenon DEF TrFlush, TrAccept, TrReqReady, TrCheck, TrTableSend, TrTableValid, TrTableWait, TrDecode,
                 TrRespond, TrRspValid, TrWait
  <1> QED BY <1>1 DEF TrTick

\* What a step of each arm of the engine leaves alone, and where it goes.
LEMMA EngineArms ==
    ASSUME AxiControlTypes, NEW abort \in BOOLEAN, NEW c, NEW cmd, NEW i, NEW word, NEW o, NEW d, NEW rword,
           AxiTick(abort, c, cmd, i, word, o, d, rword)
    PROVE  /\ axiState = "Idle" => (c /\ AxiAccept(abort, cmd)) \/ (~(c /\ ~abort) /\ UNCHANGED axiVars)
           /\ axiState # "Idle" => axiCmd' = axiCmd /\ (axiState' = "Idle" => axiState = "Respond")
           /\ axiState = "Respond" /\ d => AxiRetire(abort)
  <1>1. /\ AxiAccept(abort, cmd) => axiState = "Idle"
        /\ AxiValidate(abort) => axiState = "Validate" /\ axiCmd' = axiCmd /\ axiState' # "Idle"
        /\ AxiGiveUp(abort) => axiState \notin {"Idle", "Respond"} /\ axiCmd' = axiCmd /\ axiState' # "Idle"
        /\ AxiLoadWrite(abort, word) => axiState = "LoadWrite" /\ axiCmd' = axiCmd /\ axiState' # "Idle"
        /\ AxiWriteAddr(abort) => axiState = "WriteAddr" /\ axiCmd' = axiCmd /\ axiState' # "Idle"
        /\ AxiWriteData(abort) => axiState = "WriteData" /\ axiCmd' = axiCmd /\ axiState' # "Idle"
        /\ AxiReadAddr(abort) => axiState = "ReadAddr" /\ axiCmd' = axiCmd /\ axiState' # "Idle"
        /\ AxiReadPrepare(abort) => axiState = "ReadPrepare" /\ axiCmd' = axiCmd /\ axiState' # "Idle"
        /\ AxiReadOut(abort) => axiState = "ReadOut" /\ axiCmd' = axiCmd /\ axiState' # "Idle"
        /\ AxiRetire(abort) => axiState = "Respond" /\ axiCmd' = axiCmd
        /\ AxiPoison(abort) => axiState = "Poisoned" /\ axiCmd' = axiCmd /\ axiState' # "Idle"
    BY DEF AxiAccept, AxiCmdReady, AxiValidate, AxiGiveUp, AxiLoadWrite, AxiInReady, AxiWriteAddr, AwValid,
           AxiWriteData, WValid, AxiReadAddr, ArValid, AxiReadPrepare, AxiReadOut, AxiOutValid, AxiRetire,
           AxiDoneValid, AxiPoison, AxiPoisoned, AxiAbandons
  <1>2. \A ownId, okay : AxiWriteResp(abort, ownId, okay) =>
            axiState = "WriteResp" /\ axiCmd' = axiCmd /\ axiState' # "Idle"
    BY DEF AxiWriteResp
  <1>3. \A ownId, last, okay : AxiReadData(abort, rword, ownId, last, okay) =>
            axiState = "ReadData" /\ axiCmd' = axiCmd /\ axiState' # "Idle"
    BY DEF AxiReadData
  <1>4. AxiWait(abort, c, i, o, d) =>
            /\ axiState' = axiState /\ axiCmd' = axiCmd
            /\ axiState = "Respond" => ~d
            /\ axiState = "Idle" => ~(c /\ ~abort) /\ UNCHANGED axiVars
    BY DEF AxiWait, axiVars, axiRegs, axiHistory, AxiControlTypes, LatchAbort, AxiBusy
  <1> QED BY <1>1, <1>2, <1>3, <1>4 DEF AxiTick

-----------------------------------------------------------------------------
(* A clock edge of the bridge. *)

Edge(valid, ready, word, req) ==
    /\ BrTick(hostAbort, hostFlush, valid, req, valid, word, ready, ready, word)
    /\ hostAbort' \in BOOLEAN
    /\ BrHostKeeps

\* The invariant but for the engine's own part of it.
BrRest == BrTypeOK /\ BrInStep /\ Served /\ Granted /\ Walk /\ BrExchanged /\ TrInv

LEMMA Wiring ==
    ASSUME BrInv, NEW valid, NEW ready, NEW word, NEW req, Edge(valid, ready, word, req)
    PROVE  /\ BrStep(hostAbort, hostFlush, valid, req, ready)
           /\ TrTick(hostFlush /\ ~BrBusy,
                     brState = "StartTranslate" /\ ~BrAborting(hostAbort), hostCfg, brReq,
                     TableReady, brState = "ReadPte" /\ AxiDoneValid, brPte, axiFault # 0,
                     brState = "WaitTranslate")
           /\ AxiTick(BusAbort(hostAbort), BusCmdValid(hostAbort), BusCmd,
                      brState = "Data" /\ valid /\ ~BrAborting(hostAbort), word,
                      brState = "ReadPte" \/ (brState = "Data" /\ ready /\ ~BrAborting(hostAbort)),
                      BusDoneReady, DdrWord(word))
           /\ BusAbort(hostAbort) \in BOOLEAN
           /\ hostAbort' \in BOOLEAN /\ UNCHANGED <<hostCfg, hostTable>>
           /\ hostFlush' \in {FALSE, hostFlush}
           /\ BrBusy => ~hostFlush /\ UNCHANGED hostVars
           /\ ~hostFlush => UNCHANGED hostVars
           /\ AxiControlTypes
  <1>1. BusAbort(hostAbort) \in BOOLEAN
    BY DEF BusAbort
  <1>2. hostFlush \in BOOLEAN /\ (BrBusy => ~hostFlush) /\ AxiControlTypes
    BY DEF BrInv, Served, TrInv, TrTypeOK, BurstInv, EngineInv
  <1>3. hostFlush' \in {FALSE, hostFlush} /\ UNCHANGED <<hostCfg, hostTable>>
    BY DEF Edge, BrHostKeeps, HostRelease, hostVars
  <1>4. BrBusy => UNCHANGED hostVars
    BY DEF Edge, BrHostKeeps, BrFlushReady
  <1>5. ~hostFlush => UNCHANGED hostVars
    BY <1>2, <1>3 DEF hostVars
  <1> QED BY <1>1, <1>2, <1>3, <1>4, <1>5 DEF Edge, BrTick

\* The engine's share of it.
LEMMA EngineMoves ==
    ASSUME BrInv, NEW valid, NEW ready, NEW word, NEW req, Edge(valid, ready, word, req)
    PROVE  LET abort == BusAbort(hostAbort)
               go == BusCmdValid(hostAbort)
           IN  /\ axiState = "Idle" => (go /\ AxiAccept(abort, BusCmd)) \/ (~(go /\ ~abort) /\ UNCHANGED axiVars)
               /\ axiState # "Idle" => axiCmd' = axiCmd /\ (axiState' = "Idle" => axiState = "Respond")
               /\ axiState = "Respond" /\ BusDoneReady => AxiRetire(abort)
  <1>1. /\ AxiTick(BusAbort(hostAbort), BusCmdValid(hostAbort), BusCmd,
                   brState = "Data" /\ valid /\ ~BrAborting(hostAbort), word,
                   brState = "ReadPte" \/ (brState = "Data" /\ ready /\ ~BrAborting(hostAbort)),
                   BusDoneReady, DdrWord(word))
        /\ BusAbort(hostAbort) \in BOOLEAN /\ AxiControlTypes
    BY Wiring
  <1> QED BY <1>1, EngineArms, Zenon

\* The translator's table address, where it asks for one.
LEMMA Walks ==
    ASSUME BrInv, trState \in {"TableSend", "TableWait"}
    PROVE  /\ TrTableAddr \in Nat /\ TrTableAddr \in DOMAIN hostTable
           /\ hostTable[TrTableAddr] = TrEntry(TrPage)
           /\ TrLegal(hostCfg, brReq) /\ TrPage = BrPage
           /\ TrTableAddr = hostCfg.root + 4 * BrPage
  <1>1. /\ trReq = brReq /\ trCfg = hostCfg /\ TrLegal(hostCfg, trReq) /\ trReq \in Request
        /\ hostCfg \in Configs /\ hostTable \in PageTables /\ hostCfg \in Config
    BY DEF BrInv, BrTypeOK, Served, TrBusy, TrInv, TrTypeOK, MappingHeld, InService
  <1>2. TrPage = BrPage
    BY <1>1, PageIsExact DEF BrPage
  <1>3. BrPage \in Nat /\ hostCfg.root \in Nat /\ hostCfg.root + 4 * BrPage \in DOMAIN hostTable
    BY <1>1, EntryThere DEF BrPage
  <1>4. TrTableAddr = hostCfg.root + 4 * BrPage
    BY <1>1, <1>2 DEF TrTableAddr
  <1> QED BY <1>1, <1>2, <1>3, <1>4 DEF TrEntry

\* Where the engine is while the bridge waits for a table word.
LEMMA WalkingEngine ==
    ASSUME BrInv, brState = "ReadPte"
    PROVE  /\ trState = "TableWait" /\ axiCmd = [addr |-> TrTableAddr, words |-> 1, write |-> FALSE]
           /\ axiState \in {"Validate", "ReadAddr", "ReadData", "ReadPrepare", "ReadOut", "Respond", "Poisoned"}
           /\ axiState \in Serving => axiIndex = 0
           /\ ReadStream
  <1>1. trState = "TableWait" /\ AxiBusy /\ axiCmd = [addr |-> TrTableAddr, words |-> 1, write |-> FALSE]
    BY DEF BrInv, BrInStep
  <1>2. ReadStream /\ axiState \in AxiStates
    BY <1>1 DEF BrInv, BurstInv, Streaming, EngineInv, AxiControlTypes
  <1>3. axiState \in Serving => axiIndex = 0
    BY <1>1 DEF BrInv, BurstInv, EngineInv, InBurst, StorageIn
  <1> QED BY <1>1, <1>2, <1>3 DEF AxiBusy, AxiStates, ReadStream

LEMMA TableWord ==
    ASSUME BrInv, NEW word, brState = "ReadPte", axiState = "ReadData"
    PROVE  DdrWord(word) = TrEntry(TrPage) /\ DdrWord(word) \in DdrWords
  <1>1. axiIndex = 0 /\ axiCmd.addr = TrTableAddr
    BY WalkingEngine DEF Serving
  <1>2. TrTableAddr \in Nat /\ TrTableAddr \in DOMAIN hostTable /\ hostTable[TrTableAddr] = TrEntry(TrPage)
    BY WalkingEngine, Walks
  <1>3. axiCmd.addr + Bytes(axiIndex) = TrTableAddr
    BY <1>1, <1>2 DEF Bytes
  <1>4. DdrWord(word) = TrEntry(TrPage)
    BY <1>2, <1>3 DEF DdrWord
  <1>5. hostTable \in PageTables
    BY DEF BrInv, BrTypeOK
  <1> QED BY <1>2, <1>4, <1>5 DEF DdrWords

LEMMA EngineRuns ==
    ASSUME BrInv, NEW valid, NEW ready, NEW word, NEW req, Edge(valid, ready, word, req),
           brState = "Data" => word \in Words
    PROVE  EngineStep(DdrWords)
  <1>1. axiState = "ReadData" => DdrWord(word) \in DdrWords
    <2> SUFFICES ASSUME axiState = "ReadData" PROVE DdrWord(word) \in DdrWords
      OBVIOUS
    <2>1. brState \in {"ReadPte", "Data"}
      BY DEF BrInv, BrInStep, AxiBusy
    <2>2. CASE brState = "Data"
      <3>1. word \in Words /\ hostTable \in PageTables
        BY <2>2 DEF BrInv, BrTypeOK
      <3> QED BY <3>1 DEF DdrWord, DdrWords
    <2> QED BY <2>1, <2>2, TableWord
  <1>2. BusCmdValid(hostAbort) => BusCmd \in Command
    <2> SUFFICES ASSUME BusCmdValid(hostAbort) PROVE BusCmd \in Command
      OBVIOUS
    <2>1. brReq \in Request
      BY DEF BrInv, BrTypeOK
    <2>2. CASE brState = "WaitTranslate"
      <3>1. TrTableAddr \in Nat
        BY <2>2, Walks DEF BusCmdValid, TrTableValid
      <3> QED BY <2>2, <3>1 DEF BusCmd, Command
    <2>3. CASE brState = "StartData"
      <3>1. brPhys \in Nat
        BY <2>3, GrantedCommand DEF BrInv, Granted
      <3> QED BY <2>1, <2>3, <3>1 DEF BusCmd, Command, Request
    <2> QED BY <2>2, <2>3 DEF BusCmdValid
  <1> HIDE DEF Edge
  <1> QED BY <1>1, <1>2, Wiring, TickIsStep

-----------------------------------------------------------------------------
(* One lemma per state of the bridge. *)

\* What the obligations of the bridge are computed from.
LEMMA SameMapping ==
    ASSUME UNCHANGED <<hostCfg, hostTable>>
    PROVE  /\ \A p : TrEntry(p)' = TrEntry(p)
           /\ brReq' = brReq => /\ BrPhysical' = BrPhysical /\ BrGranted(brReq.write)' = BrGranted(brReq.write)
                                /\ BrPage' = BrPage
           /\ UNCHANGED <<trCfg, trReq>> => TrPage' = TrPage /\ TrTableAddr' = TrTableAddr
  BY DEF TrEntry, BrPhysical, BrGranted, BrPage, TrLegal, TrMapped, TrBytes, TrPage, TrTableAddr

LEMMA IdleKeeps ==
    ASSUME BrInv, NEW valid \in BOOLEAN, NEW ready \in BOOLEAN, NEW word, NEW req \in Request,
           Edge(valid, ready, word, req), brState = "Idle"
    PROVE  BrRest'
  <1> USE DEF BrInv
  <1>1. trState = "Idle" /\ axiState = "Idle" /\ ~BrBusy
    BY DEF BrInStep, TrBusy, AxiBusy, BrBusy
  <1>2. UNCHANGED axiVars
    BY <1>1, EngineMoves DEF BusCmdValid
  <1>3. TrFlush(hostFlush /\ ~BrBusy) \/ (~hostFlush /\ UNCHANGED trRegs)
    BY <1>1, Wiring, TranslatorArms
  <1>4. TrInv' /\ trState' = "Idle"
    <2>1. CASE TrFlush(hostFlush /\ ~BrBusy)
      <3>1. hostFlush' \in BOOLEAN
        BY Wiring DEF TrInv, TrTypeOK
      <3> QED BY <1>1, <2>1, <3>1, Wiring, FlushKeeps DEF TrFlush
    <2>2. CASE ~hostFlush /\ UNCHANGED trRegs
      <3>1. UNCHANGED trVars
        BY <2>2, Wiring DEF trVars
      <3> QED BY <1>1, <3>1, NothingKeeps DEF trVars, trRegs
    <2> QED BY <1>3, <2>1, <2>2
  <1>5. (valid /\ BrAccept(hostAbort, hostFlush, req)) \/ UNCHANGED brRegs
    BY Wiring, BridgeArms
  <1>6. axiState' = "Idle"
    BY <1>1, <1>2 DEF axiVars, axiRegs
  <1>7. brState' \in {"Idle", "StartTranslate"} /\ brReq' \in Request /\ brAborted' \in BOOLEAN
        /\ (brState' = "Idle" \/ ~hostFlush)
    BY <1>5 DEF BrAccept, BrReqReady, brRegs, BrTypeOK
  <1>8. BrTypeOK'
    BY <1>7, Wiring DEF BrTypeOK, BrStates
  <1>9. BrInStep'
    BY <1>4, <1>6, <1>7 DEF BrInStep, TrBusy, AxiBusy
  <1>10. Served'
    <2>1. hostFlush' => hostFlush
      BY Wiring
    <2> QED BY <1>4, <1>6, <1>7, <2>1 DEF Served, BrBusy, TrBusy, AxiBusy
  <1>11. Granted' /\ Walk' /\ BrExchanged'
    BY <1>7 DEF Granted, Walk, BrExchanged, BrDoneValid
  <1> QED BY <1>4, <1>8, <1>9, <1>10, <1>11 DEF BrRest

LEMMA StartTranslateKeeps ==
    ASSUME BrInv, NEW valid \in BOOLEAN, NEW ready \in BOOLEAN, NEW word, NEW req \in Request,
           Edge(valid, ready, word, req), brState = "StartTranslate"
    PROVE  BrRest'
  <1> USE DEF BrInv
  <1>1. trState = "Idle" /\ axiState = "Idle" /\ BrBusy
    BY DEF BrInStep, TrBusy, AxiBusy, BrBusy
  <1>2. UNCHANGED axiVars
    BY <1>1, EngineMoves DEF BusCmdValid
  <1>3. BrStartTranslate(hostAbort) /\ UNCHANGED hostVars /\ ~hostFlush
    BY <1>1, Wiring, BridgeArms
  <1>4. CASE BrAborting(hostAbort)
    <2>1. brState' = "Respond" /\ brFault' = 11 /\ brReq' = brReq /\ brAborted' \in BOOLEAN
      BY <1>3, <1>4 DEF BrStartTranslate, BrRefuse, BrLatchAbort, BrTypeOK
    <2>2. UNCHANGED trVars
      <3>1. UNCHANGED trRegs
        BY <1>1, <1>4, Wiring, TranslatorArms DEF TrFlush
      <3> QED BY <1>3, <3>1 DEF trVars
    <2>3. trState' = "Idle" /\ axiState' = "Idle" /\ hostFlush' = FALSE /\ TrInv'
      BY <1>1, <1>2, <1>3, <2>2, NothingKeeps DEF trVars, trRegs, hostVars, axiVars, axiRegs, TrInv, TrTypeOK
    <2>4. BrTypeOK'
      BY <2>1, Wiring DEF BrTypeOK, BrStates
    <2> QED BY <2>1, <2>3, <2>4 DEF BrRest, BrInStep, Served, Granted, Walk, BrExchanged, TrBusy, AxiBusy
  <1>5. CASE ~BrAborting(hostAbort)
    <2>1. brState' = "WaitTranslate" /\ brReq' = brReq /\ brAborted' \in BOOLEAN
      BY <1>1, <1>3, <1>5 DEF BrStartTranslate, BrLatchAbort, BrTypeOK, TrReqReady, BrRefuse
    <2>2. TrAccept(hostFlush /\ ~BrBusy, hostCfg, brReq)
      BY <1>1, <1>5, Wiring, TranslatorArms DEF TrFlush
    <2>3. TrInv'
      BY <1>3, <2>2, AcceptKeeps DEF BrTypeOK
    <2>4. trState' = "Check" /\ trReq' = brReq /\ axiState' = "Idle" /\ hostFlush' = FALSE
      BY <1>1, <1>2, <1>3, <2>2 DEF TrAccept, hostVars, axiVars, axiRegs, TrInv, TrTypeOK
    <2>5. BrTypeOK'
      BY <2>1, Wiring DEF BrTypeOK, BrStates
    <2> QED BY <2>1, <2>3, <2>4, <2>5 DEF BrRest, BrInStep, Served, Granted, Walk, BrExchanged, BrDoneValid,
                                          TrBusy, AxiBusy
  <1> QED BY <1>4, <1>5

LEMMA RespondKeepsRest ==
    ASSUME BrInv, NEW valid \in BOOLEAN, NEW ready \in BOOLEAN, NEW word, NEW req \in Request,
           Edge(valid, ready, word, req), brState = "Respond"
    PROVE  BrRest'
  <1> USE DEF BrInv
  <1>1. trState = "Idle" /\ axiState = "Idle" /\ BrBusy
    BY DEF BrInStep, TrBusy, AxiBusy, BrBusy
  <1>2. UNCHANGED axiVars
    BY <1>1, EngineMoves DEF BusCmdValid
  <1>3. UNCHANGED hostVars /\ ~hostFlush
    BY <1>1, Wiring
  <1>4. UNCHANGED trVars
    <2>1. UNCHANGED trRegs
      BY <1>1, Wiring, TranslatorArms DEF TrFlush
    <2> QED BY <1>3, <2>1 DEF trVars
  <1>5. trState' = "Idle" /\ axiState' = "Idle" /\ hostFlush' = FALSE /\ TrInv'
    BY <1>1, <1>2, <1>3, <1>4, NothingKeeps DEF trVars, trRegs, hostVars, axiVars, axiRegs, TrInv, TrTypeOK
  <1>6. BrRespond(hostAbort) \/ UNCHANGED brRegs
    BY Wiring, BridgeArms
  <1>7. brState' \in {"Idle", "Respond"} /\ brReq' = brReq /\ brAborted' \in BOOLEAN /\ brFault' = brFault
    BY <1>6 DEF BrRespond, BrLatchAbort, brRegs, BrTypeOK
  <1>8. BrTypeOK'
    BY <1>7, Wiring DEF BrTypeOK, BrStates
  <1>9. BrInStep' /\ Served' /\ Granted' /\ Walk'
    BY <1>5, <1>7 DEF BrInStep, Served, Granted, Walk, TrBusy, AxiBusy
  <1>10. BrExchanged'
    <2>1. UNCHANGED <<axiError, axiCmd, axiBeats, axiTaken, axiGiven>>
      BY <1>2 DEF axiVars, axiRegs, axiHistory
    <2>2. BrPhysical' = BrPhysical /\ BrGranted(brReq.write)' = BrGranted(brReq.write)
      BY <1>7, Wiring, SameMapping
    <2> QED BY <1>7, <2>1, <2>2 DEF BrExchanged, BrDoneValid
  <1> QED BY <1>5, <1>8, <1>9, <1>10 DEF BrRest

\* What the translator's answer says of the client's request.
LEMMA Answered ==
    ASSUME BrInv, trState = "Respond"
    PROVE  /\ trFault = 0 => BrGranted(brReq.write) /\ trPhys = BrPhysical
           /\ trFault \notin {0, 9} => ~BrGranted(brReq.write)
           /\ trFault \in 0 .. 9
  <1>1. trReq = brReq /\ trReq \in Request /\ hostCfg \in Config /\ TrCorrect /\ trFault \in 0 .. 9
    BY DEF BrInv, Served, TrBusy, TrInv, TrTypeOK
  <1>2. TrLegal(hostCfg, brReq) => TrPage = BrPage
    BY <1>1, PageIsExact DEF BrPage
  <1> QED BY <1>1, <1>2 DEF TrCorrect, TrRspValid, BrGranted, BrPhysical

LEMMA WaitTranslateKeeps ==
    ASSUME BrInv, NEW valid \in BOOLEAN, NEW ready \in BOOLEAN, NEW word, NEW req \in Request,
           Edge(valid, ready, word, req), brState = "WaitTranslate"
    PROVE  BrRest'
  <1> USE DEF BrInv
  <1>1. trState \in {"Check", "TableSend", "Decode", "Respond"} /\ axiState = "Idle" /\ BrBusy
    BY DEF BrInStep, TrBusy, AxiBusy, BrBusy, TrInv, TrTypeOK, TrStates
  <1>2. UNCHANGED hostVars /\ ~hostFlush /\ hostFlush' = FALSE
    BY <1>1, Wiring DEF hostVars, TrInv, TrTypeOK
  <1>3. BrWaitTranslate(hostAbort)
    BY Wiring, BridgeArms
  <1>4. brReq' = brReq /\ brAborted' \in BOOLEAN /\ brState' \in {"WaitTranslate", "ReadPte", "StartData", "Respond"}
    BY <1>3 DEF BrWaitTranslate, BrRefuse, BrLatchAbort, BrTypeOK
  <1>5. BrTypeOK'
    BY <1>4, Wiring DEF BrTypeOK, BrStates
  <1>6. CASE trState \in {"Check", "Decode"}
    <2>1. UNCHANGED axiVars
      <3>1. ~BusCmdValid(hostAbort)
        BY <1>6 DEF BusCmdValid, TrTableValid
      <3> QED BY <1>1, <3>1, EngineMoves
    <2>2. TrCheck \/ TrDecode
      BY <1>6, Wiring, TranslatorArms
    <2>3. TrInv'
      BY <1>2, <2>2, CheckKeeps, DecodeKeeps
    <2>4. trState' \in {"TableSend", "Decode", "Respond"} /\ trReq' = trReq /\ axiState' = "Idle"
      BY <1>1, <2>1, <2>2 DEF TrCheck, TrDecode, axiVars, axiRegs
    <2>5. brState' = "WaitTranslate"
      BY <1>3, <1>6 DEF BrWaitTranslate, TrTableValid, TrRspValid
    <2> QED BY <1>1, <1>2, <1>4, <1>5, <2>3, <2>4, <2>5
            DEF BrRest, BrInStep, Served, Granted, Walk, BrExchanged, BrDoneValid, TrBusy, AxiBusy
  <1>7. CASE trState = "TableSend"
    <2>1. TableReady /\ BusCmdValid(hostAbort) /\ ~BusAbort(hostAbort)
      BY <1>1, <1>7 DEF TableReady, AxiCmdReady, BusCmdValid, BusAbort, TrTableValid
    <2>2. AxiAccept(BusAbort(hostAbort), BusCmd)
      BY <1>1, <2>1, EngineMoves
    <2>3. TrTableSend
      BY <1>7, <2>1, Wiring, TranslatorArms
    <2>4. TrInv'
      BY <1>2, <2>3, TableSendKeeps
    <2>5. brState' = "ReadPte"
      BY <1>3, <1>7, <2>1 DEF BrWaitTranslate, TrTableValid, TrRspValid
    <2>6. trState' = "TableWait" /\ UNCHANGED <<trCfg, trReq>> /\ TrTableAddr' = TrTableAddr
      BY <1>2, <2>3, SameMapping DEF TrTableSend, hostVars
    <2>7. /\ axiState' = "Validate" /\ axiAborted' = FALSE /\ axiBeats' = <<>>
          /\ axiCmd' = [addr |-> TrTableAddr, words |-> 1, write |-> FALSE]
      BY <2>2 DEF AxiAccept, BusCmd
    <2>8. BrInStep'
      BY <2>5, <2>6, <2>7 DEF BrInStep, TrBusy, AxiBusy
    <2>9. Walk'
      BY <2>7 DEF Walk
    <2>10. Served'
      BY <1>1, <1>2, <1>4, <2>6 DEF Served, TrBusy
    <2> QED BY <1>5, <2>4, <2>5, <2>8, <2>9, <2>10 DEF BrRest, Granted, BrExchanged, BrDoneValid
  <1>8. CASE trState = "Respond"
    <2>1. UNCHANGED axiVars
      <3>1. ~BusCmdValid(hostAbort)
        BY <1>8 DEF BusCmdValid, TrTableValid
      <3> QED BY <1>1, <3>1, EngineMoves
    <2>2. TrRespond
      BY <1>8, Wiring, TranslatorArms
    <2>3. TrInv'
      BY <1>2, <2>2, RespondKeeps
    <2>4. trState' = "Idle" /\ axiState' = "Idle"
      BY <1>1, <2>1, <2>2 DEF TrRespond, axiVars, axiRegs
    <2>5. BrPhysical' = BrPhysical /\ BrGranted(brReq.write)' = BrGranted(brReq.write)
      BY <1>2, <1>4, SameMapping DEF hostVars
    <2>6. \/ brState' = "Respond" /\ brFault' = 11
          \/ brState' = "Respond" /\ brFault' = trFault /\ trFault # 0
          \/ brState' = "StartData" /\ brPhys' = trPhys /\ trFault = 0
      BY <1>3, <1>8 DEF BrWaitTranslate, TrTableValid, TrRspValid, BrRefuse
    <2>7. Granted'
      BY <1>4, <1>8, <2>5, <2>6, Answered DEF Granted
    <2>8. BrExchanged'
      <3>1. CASE brState' = "Respond" /\ brFault' = 11
        BY <3>1 DEF BrExchanged
      <3>2. CASE brState' = "Respond" /\ brFault' = trFault /\ trFault # 0
        <4>1. trFault \in 0 .. 9 /\ (trFault # 9 => ~BrGranted(brReq.write)')
          BY <1>8, <2>5, <3>2, Answered
        <4>2. brFault' # 0 /\ brFault' \notin {10, 13} /\ (brFault' \in 1 .. 8 => ~BrGranted(brReq.write)')
          BY <3>2, <4>1
        <4> QED BY <4>2 DEF BrExchanged
      <3>3. CASE brState' = "StartData"
        BY <3>3 DEF BrExchanged, BrDoneValid
      <3> QED BY <2>6, <3>1, <3>2, <3>3
    <2>9. BrInStep' /\ Served' /\ Walk'
      BY <1>2, <2>4, <2>6 DEF BrInStep, Served, Walk, TrBusy, AxiBusy
    <2> QED BY <1>5, <2>3, <2>7, <2>8, <2>9 DEF BrRest
  <1> QED BY <1>1, <1>6, <1>7, <1>8

LEMMA StartDataKeeps ==
    ASSUME BrInv, NEW valid \in BOOLEAN, NEW ready \in BOOLEAN, NEW word, NEW req \in Request,
           Edge(valid, ready, word, req), brState = "StartData"
    PROVE  BrRest'
  <1> USE DEF BrInv
  <1>1. trState = "Idle" /\ axiState = "Idle" /\ BrBusy
    BY DEF BrInStep, TrBusy, AxiBusy, BrBusy
  <1>2. BrStartData(hostAbort) /\ UNCHANGED hostVars /\ ~hostFlush
    BY <1>1, Wiring, BridgeArms
  <1>3. UNCHANGED trVars
    <2>1. UNCHANGED trRegs
      BY <1>1, Wiring, TranslatorArms DEF TrFlush
    <2> QED BY <1>2, <2>1 DEF trVars
  <1>4. trState' = "Idle" /\ hostFlush' = FALSE /\ TrInv'
    BY <1>1, <1>2, <1>3, NothingKeeps DEF trVars, trRegs, hostVars, TrInv, TrTypeOK
  <1>5. brReq' = brReq /\ brPhys' = brPhys /\ brAborted' \in BOOLEAN
    BY <1>2 DEF BrStartData, BrLatchAbort, BrTypeOK
  <1>6. BrPhysical' = BrPhysical /\ BrGranted(brReq.write)' = BrGranted(brReq.write)
    BY <1>2, <1>5, SameMapping DEF hostVars
  <1>7. Granted'
    BY <1>5, <1>6 DEF Granted
  <1>8. CASE BrAborting(hostAbort)
    <2>1. brState' = "Respond" /\ brFault' = 11
      BY <1>2, <1>8 DEF BrStartData, BrRefuse
    <2>2. UNCHANGED axiVars
      BY <1>1, <1>8, EngineMoves DEF BusCmdValid
    <2>3. axiState' = "Idle"
      BY <1>1, <2>2 DEF axiVars, axiRegs
    <2>4. BrTypeOK'
      BY <1>5, <2>1, Wiring DEF BrTypeOK, BrStates
    <2> QED BY <1>4, <1>7, <2>1, <2>3, <2>4 DEF BrRest, BrInStep, Served, Walk, BrExchanged, TrBusy, AxiBusy
  <1>9. CASE ~BrAborting(hostAbort)
    <2>1. brState' = "Data"
      BY <1>1, <1>2, <1>9 DEF BrStartData, AxiCmdReady
    <2>2. BusCmdValid(hostAbort) /\ ~BusAbort(hostAbort)
      BY <1>9 DEF BusCmdValid, BusAbort
    <2>3. AxiAccept(BusAbort(hostAbort), BusCmd)
      BY <1>1, <2>2, EngineMoves
    <2>4. axiState' = "Validate" /\ axiCmd' = [addr |-> brPhys, words |-> brReq.words, write |-> brReq.write]
      BY <2>3 DEF AxiAccept, BusCmd, BrTypeOK, Request
    <2>5. BrTypeOK'
      BY <1>5, <2>1, Wiring DEF BrTypeOK, BrStates
    <2>6. BrInStep'
      BY <1>4, <1>5, <2>1, <2>4 DEF BrInStep, TrBusy, AxiBusy
    <2> QED BY <1>4, <1>7, <2>1, <2>5, <2>6 DEF BrRest, Served, Walk, BrExchanged, BrDoneValid, TrBusy
  <1> QED BY <1>8, <1>9

\* What the engine reports of the client's burst.
LEMMA Reported ==
    ASSUME BrInv, brState = "Data", axiState = "Respond"
    PROVE  /\ axiFault \in {0, 11, 12}
           /\ axiFault = 0 => /\ ~axiError
                              /\ Len(axiBeats) = brReq.words
                              /\ axiBeats = IF brReq.write THEN axiTaken ELSE axiGiven
  <1> USE DEF BrInv
  <1>1. /\ axiCmd = [addr |-> BrPhysical, words |-> brReq.words, write |-> brReq.write]
        /\ BrGranted(brReq.write)
    BY DEF BrInStep, AxiBusy, Granted
  <1>2. ~AxiBadCommand
    BY <1>1, GrantedCommand DEF Sound, AxiBadCommand
  <1>3. axiFault \in {0, 11, 12}
    BY <1>2 DEF BurstInv, Streaming, FaultStream, EngineInv, AxiControlTypes
  <1>4. axiTaken \in Seq(DdrWords) /\ axiBeats \in Seq(DdrWords) /\ axiGiven \in Seq(DdrWords)
    <2>1. Words \subseteq DdrWords
      BY DEF DdrWords
    <2> QED BY <2>1 DEF BurstInv, EngineInv, HistoryIn
  <1>5. ASSUME axiFault = 0, axiCmd.write
        PROVE  ~axiError /\ Len(axiBeats) = axiCmd.words /\ axiBeats = axiTaken
    <2>1. WriteStream
      BY <1>5 DEF BurstInv, Streaming
    <2>2. ~axiError /\ Len(axiBeats) = axiCmd.words /\ Len(axiTaken) = axiCmd.words /\ Leads(axiBeats, axiTaken)
      BY <1>5, <2>1 DEF WriteStream
    <2> QED BY <1>4, <2>2, SeqEqual DEF Leads
  <1>6. ASSUME axiFault = 0, ~axiCmd.write
        PROVE  ~axiError /\ Len(axiBeats) = axiCmd.words /\ axiBeats = axiGiven
    <2>1. ReadStream
      BY <1>6 DEF BurstInv, Streaming
    <2>2. ~axiError /\ Len(axiBeats) = axiCmd.words /\ Len(axiGiven) = axiCmd.words /\ Leads(axiGiven, axiBeats)
      BY <1>6, <2>1 DEF ReadStream
    <2> QED BY <1>4, <2>2, SeqEqual DEF Leads
  <1>7. axiCmd.write = brReq.write /\ axiCmd.words = brReq.words
    BY <1>1
  <1> QED BY <1>3, <1>5, <1>6, <1>7

LEMMA DataKeeps ==
    ASSUME BrInv, NEW valid \in BOOLEAN, NEW ready \in BOOLEAN, NEW word, NEW req \in Request,
           Edge(valid, ready, word, req), brState = "Data"
    PROVE  BrRest'
  <1> USE DEF BrInv
  <1>1. trState = "Idle" /\ axiState # "Idle" /\ BrBusy
    BY DEF BrInStep, TrBusy, AxiBusy, BrBusy
  <1>2. BrData(hostAbort) /\ UNCHANGED hostVars /\ ~hostFlush
    BY <1>1, Wiring, BridgeArms
  <1>3. UNCHANGED trVars
    <2>1. UNCHANGED trRegs
      BY <1>1, Wiring, TranslatorArms DEF TrFlush
    <2> QED BY <1>2, <2>1 DEF trVars
  <1>4. trState' = "Idle" /\ hostFlush' = FALSE /\ TrInv'
    BY <1>1, <1>2, <1>3, NothingKeeps DEF trVars, trRegs, hostVars, TrInv, TrTypeOK
  <1>5. brReq' = brReq /\ brPhys' = brPhys /\ brAborted' \in BOOLEAN /\ brState' \in {"Data", "Respond"}
    BY <1>2 DEF BrData, BrLatchAbort, BrTypeOK, BrRefuse
  <1>6. BrPhysical' = BrPhysical /\ BrGranted(brReq.write)' = BrGranted(brReq.write)
    BY <1>2, <1>5, SameMapping DEF hostVars
  <1>7. Granted' /\ BrTypeOK'
    BY <1>5, <1>6, Wiring DEF Granted, BrTypeOK, BrStates
  <1>8. /\ BrGranted(brReq.write)
        /\ axiCmd = [addr |-> BrPhysical, words |-> brReq.words, write |-> brReq.write]
        /\ axiCmd = [addr |-> brPhys, words |-> brReq.words, write |-> brReq.write]
    BY <1>1 DEF BrInStep, AxiBusy, Granted
  <1>9. axiCmd' = axiCmd
    BY <1>1, EngineMoves
  <1>10. CASE AxiDoneValid
    <2>1. AxiRetire(BusAbort(hostAbort))
      BY <1>10, EngineMoves DEF AxiDoneValid, BusDoneReady
    <2>2. axiState' = "Idle" /\ UNCHANGED <<axiError, axiBeats, axiTaken, axiGiven>>
      BY <2>1 DEF AxiRetire, axiHistory
    <2>3. brState' = "Respond" /\ brFault' \in {11, axiFault}
      BY <1>2, <1>10 DEF BrData, BrRefuse, BrDataFault
    <2>4. /\ axiFault \in {0, 11, 12}
          /\ axiFault = 0 => /\ ~axiError /\ Len(axiBeats) = brReq.words
                             /\ axiBeats = IF brReq.write THEN axiTaken ELSE axiGiven
      BY <1>10, Reported DEF AxiDoneValid
    <2>5. BrExchanged'
      <3>1. brFault' \in {0, 11, 12} /\ (brFault' = 0 => axiFault = 0)
        BY <2>3, <2>4
      <3> QED BY <1>5, <1>6, <1>8, <1>9, <2>2, <2>4, <3>1 DEF BrExchanged
    <2> QED BY <1>4, <1>7, <2>2, <2>3, <2>5 DEF BrRest, BrInStep, Served, Walk, TrBusy, AxiBusy
  <1>11. CASE ~AxiDoneValid
    <2>1. brState' = "Data" /\ axiState' # "Idle"
      BY <1>1, <1>2, <1>11, EngineMoves DEF BrData, AxiDoneValid
    <2>2. BrInStep'
      BY <1>4, <1>5, <1>8, <1>9, <2>1 DEF BrInStep, TrBusy, AxiBusy
    <2> QED BY <1>4, <1>7, <2>1, <2>2 DEF BrRest, Served, Walk, BrExchanged, BrDoneValid, TrBusy
  <1> QED BY <1>10, <1>11

\* A clock edge of the engine while it fetches a table word.
LEMMA WalkStep ==
    ASSUME BrInv, NEW valid \in BOOLEAN, NEW ready \in BOOLEAN, NEW word, NEW req,
           Edge(valid, ready, word, req), brState = "ReadPte", axiState # "Respond"
    PROVE  /\ ~axiAborted'
           /\ \A i \in 1 .. Len(axiBeats') : axiBeats'[i] = TrEntry(TrPage)
           /\ axiState' = "Respond" /\ axiFault' = 0 => BrPteCapture = TrEntry(TrPage)
  <1> DEFINE Arm == \/ AxiValidate(FALSE) \/ AxiReadAddr(FALSE)
                    \/ \E ownId, last, okay \in BOOLEAN : AxiReadData(FALSE, DdrWord(word), ownId, last, okay)
                    \/ AxiReadPrepare(FALSE) \/ AxiReadOut(FALSE) \/ AxiPoison(FALSE)
                    \/ (LatchAbort(FALSE) /\ UNCHANGED <<axiState, axiBeats, axiFault>>)
  <1>1. /\ ~axiAborted /\ (\A i \in 1 .. Len(axiBeats) : axiBeats[i] = TrEntry(TrPage))
        /\ axiBeats \in Seq(DdrWords)
    BY DEF BrInv, Walk, BurstInv, EngineInv, HistoryIn
  <1>2. /\ axiState \in {"Validate", "ReadAddr", "ReadData", "ReadPrepare", "ReadOut", "Poisoned"}
        /\ axiState \in Serving => axiIndex = 0
        /\ axiCmd.words = 1 /\ ReadStream
    BY WalkingEngine
  <1>3. Arm
    <2>1. BusAbort(hostAbort) = FALSE
      BY DEF BusAbort
    <2>2. AxiTick(FALSE, BusCmdValid(hostAbort), BusCmd,
                  brState = "Data" /\ valid /\ ~BrAborting(hostAbort), word,
                  brState = "ReadPte" \/ (brState = "Data" /\ ready /\ ~BrAborting(hostAbort)),
                  BusDoneReady, DdrWord(word))
      BY <2>1, Wiring
    <2>3. ~AxiAccept(FALSE, BusCmd) /\ ~AxiGiveUp(FALSE) /\ ~AxiLoadWrite(FALSE, word)
          /\ ~AxiWriteAddr(FALSE) /\ ~AxiWriteData(FALSE) /\ ~AxiRetire(FALSE)
          /\ \A ownId, okay : ~AxiWriteResp(FALSE, ownId, okay)
      BY <1>1, <1>2 DEF AxiAccept, AxiCmdReady, AxiGiveUp, AxiAborting, AxiLoadWrite, AxiInReady, AxiWriteAddr,
                        AwValid, AxiWriteData, WValid, AxiRetire, AxiDoneValid, AxiWriteResp
    <2>4. \A c, i, o, d : AxiWait(FALSE, c, i, o, d) => LatchAbort(FALSE) /\ UNCHANGED <<axiState, axiBeats, axiFault>>
      BY DEF AxiWait, axiHistory
    <2> QED BY <2>2, <2>3, <2>4, Zenon DEF AxiTick
  <1> HIDE DEF Arm
  <1>4. ~axiAborted'
    BY <1>1, <1>3 DEF Arm, AxiValidate, AxiReadAddr, AxiReadData, AxiReadPrepare, AxiReadOut, AxiPoison, LatchAbort
  <1>5. axiState' = "Respond" /\ axiFault' = 0 => axiState = "ReadOut"
    <2>1. \A ownId, last, okay \in BOOLEAN : AxiReadData(FALSE, DdrWord(word), ownId, last, okay) =>
              ~(axiState' = "Respond" /\ axiFault' = 0)
      BY DEF AxiReadData
    <2>2. AxiValidate(FALSE) => ~(axiState' = "Respond" /\ axiFault' = 0)
      <3> SUFFICES ASSUME AxiValidate(FALSE), axiState' = "Respond" PROVE axiFault' # 0
        OBVIOUS
      <3>1. AxiAborting(FALSE) \/ AxiBadCommand
        BY DEF AxiValidate
      <3>2. axiFault' = IF AxiAborting(FALSE) THEN 11 ELSE 10
        BY <3>1, Zenon DEF AxiValidate
      <3> QED BY <3>2
    <2>4. /\ AxiReadAddr(FALSE) => axiState' # "Respond"
          /\ AxiReadPrepare(FALSE) => axiState' # "Respond"
          /\ AxiPoison(FALSE) => axiState' = axiState
      BY DEF AxiReadAddr, AxiReadPrepare, AxiPoison
    <2>3. AxiReadOut(FALSE) => axiState = "ReadOut"
      BY DEF AxiReadOut, AxiOutValid
    <2> QED BY <1>2, <1>3, <2>1, <2>2, <2>3, <2>4 DEF Arm
  <1>6. axiState = "ReadOut" => BrPteCapture = TrEntry(TrPage)
    <2> SUFFICES ASSUME axiState = "ReadOut" PROVE BrPteCapture = TrEntry(TrPage)
      OBVIOUS
    <2>1. Len(axiBeats) = 1 /\ InRam(axiBeats) /\ axiBuffer = axiMem[axiIndex] /\ axiIndex = 0
      BY <1>2 DEF ReadStream, Serving
    <2>2. axiMem[0] = axiBeats[1] /\ axiBeats[1] = TrEntry(TrPage)
      <3>1. 1 \in 1 .. Len(axiBeats) /\ 1 - 1 = 0
        BY <2>1
      <3>2. axiMem[1 - 1] = axiBeats[1] /\ axiBeats[1] = TrEntry(TrPage)
        BY <1>1, <2>1, <3>1, Zenon DEF InRam
      <3> QED BY <3>1, <3>2
    <2> QED BY <1>1, <2>1, <2>2 DEF BrPteCapture, AxiOutValid, AxiAborting
  <1>7. \A i \in 1 .. Len(axiBeats') : axiBeats'[i] = TrEntry(TrPage)
    <2>1. CASE UNCHANGED axiBeats
      BY <1>1, <2>1
    <2>2. CASE \E ownId, last, okay \in BOOLEAN : AxiReadData(FALSE, DdrWord(word), ownId, last, okay)
      <3>1. axiState = "ReadData" /\ axiBeats' = Append(axiBeats, DdrWord(word))
        BY <2>2 DEF AxiReadData
      <3>2. DdrWord(word) = TrEntry(TrPage) /\ DdrWord(word) \in DdrWords
        BY <3>1, TableWord
      <3> QED BY <1>1, <3>1, <3>2, Appended
    <2> QED BY <1>3, <2>1, <2>2 DEF Arm, AxiValidate, AxiReadAddr, AxiReadPrepare, AxiReadOut, AxiPoison, axiHistory
  <1> QED BY <1>4, <1>5, <1>6, <1>7

LEMMA ReadPteKeeps ==
    ASSUME BrInv, NEW valid \in BOOLEAN, NEW ready \in BOOLEAN, NEW word, NEW req \in Request,
           Edge(valid, ready, word, req), brState = "ReadPte"
    PROVE  BrRest'
  <1> USE DEF BrInv
  <1>1. trState = "TableWait" /\ axiState # "Idle" /\ BrBusy /\ TrBusy /\ trReq = brReq
    BY DEF BrInStep, TrBusy, AxiBusy, BrBusy, Served
  <1>2. BrReadPte(hostAbort) /\ UNCHANGED hostVars /\ hostFlush' = FALSE
    BY <1>1, Wiring, BridgeArms DEF TrInv, TrTypeOK, hostVars
  <1>3. brReq' = brReq /\ brAborted' \in BOOLEAN /\ brState' \in {"ReadPte", "WaitTranslate"} /\ brPte' = BrPteCapture
    BY <1>2 DEF BrReadPte, BrLatchAbort, BrTypeOK
  <1>4. BrTypeOK'
    BY <1>3, Wiring DEF BrTypeOK, BrStates
  <1>5. CASE AxiDoneValid
    <2>1. AxiRetire(BusAbort(hostAbort))
      BY <1>5, EngineMoves DEF AxiDoneValid, BusDoneReady
    <2>2. axiState' = "Idle"
      BY <2>1 DEF AxiRetire
    <2>3. TrTableWait(brPte, axiFault # 0)
      BY <1>1, <1>5, Wiring, TranslatorArms
    <2>4. brState' = "WaitTranslate"
      BY <1>2, <1>5 DEF BrReadPte
    <2>5. axiFault = 0 => brPte = hostTable[TrTableAddr]
      BY <1>1, <1>5, Walks DEF Walk, AxiDoneValid
    <2>6. TrInv'
      BY <1>2, <2>3, <2>5, TableWaitKeeps
    <2>7. trState' \in {"Respond", "Decode"} /\ trReq' = trReq
      BY <2>3 DEF TrTableWait
    <2> QED BY <1>1, <1>2, <1>3, <1>4, <2>2, <2>4, <2>6, <2>7
            DEF BrRest, BrInStep, Served, Granted, Walk, BrExchanged, BrDoneValid, TrBusy, AxiBusy
  <1>6. CASE ~AxiDoneValid
    <2>1. brState' = "ReadPte" /\ axiState # "Respond"
      BY <1>2, <1>6 DEF BrReadPte, AxiDoneValid
    <2>2. axiState' # "Idle" /\ axiCmd' = axiCmd
      BY <1>1, <2>1, EngineMoves
    <2>3. UNCHANGED trVars
      <3>1. UNCHANGED trRegs
        BY <1>1, <1>6, Wiring, TranslatorArms
      <3> QED BY <1>2, <3>1 DEF trVars
    <2>4. TrInv' /\ trState' = "TableWait" /\ UNCHANGED <<trCfg, trReq>>
      BY <1>1, <2>3, NothingKeeps DEF trVars, trRegs
    <2>5. TrTableAddr' = TrTableAddr /\ TrPage' = TrPage /\ TrEntry(TrPage)' = TrEntry(TrPage)
      BY <2>3, <2>4, NothingKeeps DEF trVars, hostVars, TrTableAddr, TrPage, TrEntry
    <2>6. BrInStep'
      BY <1>1, <2>1, <2>2, <2>4, <2>5, WalkingEngine DEF BrInStep, TrBusy, AxiBusy
    <2>7. Walk'
      BY <1>3, <2>1, <2>5, WalkStep DEF Walk
    <2> QED BY <1>1, <1>2, <1>3, <1>4, <2>1, <2>4, <2>6, <2>7
            DEF BrRest, Served, Granted, BrExchanged, BrDoneValid, TrBusy
  <1> QED BY <1>5, <1>6

-----------------------------------------------------------------------------
(* Every step. *)

LEMMA Steps ==
    ASSUME BrInv, BrNext
    PROVE  \/ BrHostRemap
           \/ \E word : \E valid, ready \in BOOLEAN, req \in Request :
                 /\ Edge(valid, ready, word, req)
                 /\ brState = "Data" => word \in Words
                 /\ ~BrBusy => req \in Requests
  <1> SUFFICES ASSUME ~BrHostRemap
               PROVE  \E word : \E valid, ready \in BOOLEAN, req \in Request :
                         /\ Edge(valid, ready, word, req)
                         /\ brState = "Data" => word \in Words
                         /\ ~BrBusy => req \in Requests
    OBVIOUS
  <1>1. PICK valid \in Seen(BOOLEAN, brState \in {"Idle", "Data"}),
             ready \in Seen(BOOLEAN, brState \in {"Data", "Respond"}),
             word \in Seen(Words, brState = "Data") : BrClock(valid, ready, word)
    BY Zenon DEF BrNext
  <1>2. valid \in BOOLEAN /\ ready \in BOOLEAN /\ (brState = "Data" => word \in Words)
    BY DEF Seen
  <1>3. PICK req \in (IF BrBusy THEN {brReq} ELSE Requests) :
           BrTick(hostAbort, hostFlush, valid, req, valid, word, ready, ready, word)
    BY <1>1, Zenon DEF BrClock
  <1>4. req \in Request /\ (~BrBusy => req \in Requests)
    BY TrAssumption DEF BrInv, BrTypeOK, Request
  <1>5. Edge(valid, ready, word, req)
    BY <1>1, <1>3, Zenon DEF BrClock, Edge
  <1> QED BY <1>2, <1>4, <1>5, Zenon

LEMMA HostRemapKeeps == ASSUME BrInv, BrHostRemap PROVE BrInv'
  <1>1. /\ brState = "Idle" /\ trState = "Idle" /\ axiState = "Idle"
        /\ UNCHANGED <<brRegs, trRegs, axiVars, hostAbort>> /\ HostRemap
    BY DEF BrHostRemap, BrBusy, TrBusy, AxiBusy
  <1>2. BurstInv(DdrWords)' /\ TrInv'
    BY <1>1, BurstStutter, RemapKeeps DEF BrInv
  <1>3. /\ brState' = "Idle" /\ trState' = "Idle" /\ axiState' = "Idle"
        /\ brReq' = brReq /\ brAborted' = brAborted
    BY <1>1 DEF brRegs, trRegs, axiVars, axiRegs
  <1>4. BrTypeOK'
    BY <1>1, <1>3 DEF BrInv, BrTypeOK, HostRemap
  <1>5. BrInStep' /\ Served' /\ Granted' /\ Walk' /\ BrExchanged'
    BY <1>3 DEF BrInStep, Served, Granted, Walk, BrExchanged, BrDoneValid, BrBusy, TrBusy, AxiBusy
  <1> QED BY <1>2, <1>4, <1>5 DEF BrInv

LEMMA EdgeKeeps ==
    ASSUME BrInv, NEW valid \in BOOLEAN, NEW ready \in BOOLEAN, NEW word, NEW req \in Request,
           Edge(valid, ready, word, req), brState = "Data" => word \in Words
    PROVE  BrInv'
  <1>1. BurstInv(DdrWords)'
    <2>1. Words \subseteq DdrWords
      BY DEF DdrWords
    <2> QED BY <2>1, EngineRuns, StepKeeps DEF BrInv
  <1>2. brState \in BrStates
    BY DEF BrInv, BrTypeOK
  <1>3. BrRest'
    BY <1>2, IdleKeeps, StartTranslateKeeps, WaitTranslateKeeps, ReadPteKeeps, StartDataKeeps,
       DataKeeps, RespondKeepsRest DEF BrStates
  <1> QED BY <1>1, <1>3 DEF BrInv, BrRest

\* The engine's offers stand while the bridge drives it.
LEMMA EdgeStands ==
    ASSUME BrInv, NEW valid \in BOOLEAN, NEW ready \in BOOLEAN, NEW word, NEW req \in Request,
           Edge(valid, ready, word, req), brState = "Data" => word \in Words
    PROVE  Stand
  BY EngineRuns, StepStands DEF BrInv

LEMMA StartInv == ASSUME BrStart PROVE BrInv
  <1> USE DEF BrStart
  <1>1. TrInv
    BY TrInitInv DEF TrStart
  <1>2. BurstInv(DdrWords)
    <2>1. NoWord \in DdrWords
      BY DEF DdrWords
    <2> QED BY <2>1, InitIInv, StreamInit DEF BurstInv
  <1>3. /\ brState = "Idle" /\ trState = "Idle" /\ axiState = "Idle" /\ hostFlush = FALSE
        /\ brReq \in Request /\ brAborted = FALSE
    BY DEF BrInit, TrInit, AxiInit, HostInit, Request
  <1>4. BrTypeOK
    BY <1>3 DEF BrTypeOK, BrStates, HostInit
  <1>5. BrInStep /\ Served /\ Granted /\ Walk /\ BrExchanged
    BY <1>3 DEF BrInStep, Served, Granted, Walk, BrExchanged, BrDoneValid, TrBusy, AxiBusy
  <1> QED BY <1>1, <1>2, <1>4, <1>5 DEF BrInv

LEMMA NextKeeps == ASSUME BrInv, [BrNext]_brVars PROVE BrInv'
  <1>1. CASE BrNext
    BY <1>1, Steps, HostRemapKeeps, EdgeKeeps, Zenon
  <1>2. CASE UNCHANGED brVars
    <2>1. UNCHANGED <<brRegs, trVars, axiVars, hostAbort>>
      BY <1>2 DEF brVars, brMachine
    <2>2. TrInv' /\ BurstInv(DdrWords)'
      BY <2>1, NothingKeeps, BurstStutter DEF BrInv
    <2>3. UNCHANGED <<hostCfg, hostTable>> /\ UNCHANGED <<trCfg, trReq>> /\ UNCHANGED <<trState, hostFlush>>
      BY <2>1 DEF trVars, trRegs, hostVars
    <2>4. UNCHANGED <<axiState, axiCmd, axiAborted, axiFault, axiBeats, axiTaken, axiGiven, axiError>>
      BY <2>1 DEF axiVars, axiRegs, axiHistory
    <2>5. UNCHANGED <<brState, brReq, brPhys, brPte, brAborted, brFault>>
      BY <2>1 DEF brRegs
    <2>6. /\ TrEntry(TrPage)' = TrEntry(TrPage) /\ TrTableAddr' = TrTableAddr
          /\ BrPhysical' = BrPhysical /\ BrGranted(brReq.write)' = BrGranted(brReq.write)
      BY <2>3, <2>5, SameMapping DEF TrEntry, TrPage
    <2>7. BrTypeOK' /\ BrInStep' /\ Served' /\ Granted'
      BY <2>1, <2>3, <2>4, <2>5, <2>6
         DEF BrInv, BrTypeOK, BrInStep, Served, Granted, BrBusy, TrBusy, AxiBusy
    <2>8. Walk' /\ BrExchanged'
      BY <2>4, <2>5, <2>6 DEF BrInv, Walk, BrExchanged, BrDoneValid
    <2> QED BY <2>2, <2>7, <2>8 DEF BrInv
  <1> QED BY <1>1, <1>2

LEMMA NextStands == ASSUME BrInv, [BrNext]_brVars PROVE [Stand]_axiVars
  <1>1. CASE BrHostRemap
    BY <1>1 DEF BrHostRemap
  <1>2. CASE UNCHANGED brVars
    BY <1>2 DEF brVars, brMachine
  <1> QED BY <1>1, <1>2, Steps, EdgeStands

\* Where the engine offers an address or a beat, it is the bridge's burst.
LEMMA Confined == ASSUME BrInv PROVE BrConfined
  <1> USE DEF BrInv
  <1>1. AwValid \/ WValid => brState = "Data" /\ axiCmd.write
    <2> SUFFICES ASSUME AwValid \/ WValid PROVE brState = "Data" /\ axiCmd.write
      OBVIOUS
    <2>1. axiCmd.write
      BY DEF BurstInv, Streaming, ReadStream, AwValid, WValid
    <2>2. brState \in {"ReadPte", "Data"}
      BY DEF BrInStep, AxiBusy, AwValid, WValid
    <2> QED BY <2>1, <2>2, WalkingEngine
  <1>2. ArValid => brState \in {"ReadPte", "Data"} /\ ~axiCmd.write
    BY DEF BurstInv, Streaming, WriteStream, BrInStep, AxiBusy, ArValid
  <1>3. brState = "Data" => /\ BrGranted(brReq.write)
                            /\ axiCmd = [addr |-> BrPhysical, words |-> brReq.words, write |-> brReq.write]
                            /\ axiCmd.write = brReq.write /\ brReq.write \in BOOLEAN
    <2> SUFFICES ASSUME brState = "Data"
                 PROVE  /\ BrGranted(brReq.write) /\ brReq.write \in BOOLEAN
                        /\ axiCmd = [addr |-> BrPhysical, words |-> brReq.words, write |-> brReq.write]
      OBVIOUS
    <2> QED BY DEF BrInStep, Granted, AxiBusy, BrTypeOK, Request
  <1>4. brState = "ReadPte" => /\ TrLegal(hostCfg, brReq)
                               /\ axiCmd.words = 1 /\ axiCmd.addr = hostCfg.root + 4 * BrPage
    BY WalkingEngine, Walks
  <1>5. axiCmd.write \in BOOLEAN
    BY DEF BurstInv, EngineInv, AxiControlTypes
  <1>6. AwValid \/ WValid => BrGranted(TRUE) /\ axiCmd.addr = BrPhysical /\ axiCmd.words = brReq.words
    <2> SUFFICES ASSUME AwValid \/ WValid PROVE BrGranted(TRUE) /\ axiCmd.addr = BrPhysical /\ axiCmd.words = brReq.words
      OBVIOUS
    <2>1. brReq.write = TRUE
      BY <1>1, <1>3, <1>5
    <2>2. BrGranted(brReq.write) /\ axiCmd.addr = BrPhysical /\ axiCmd.words = brReq.words
      BY <1>1, <1>3
    <2> QED BY <2>1, <2>2
  <1>7. ArValid /\ brState = "Data" => BrGranted(FALSE) /\ axiCmd.addr = BrPhysical /\ axiCmd.words = brReq.words
    <2> SUFFICES ASSUME ArValid, brState = "Data"
                 PROVE  BrGranted(FALSE) /\ axiCmd.addr = BrPhysical /\ axiCmd.words = brReq.words
      OBVIOUS
    <2>1. brReq.write = FALSE
      BY <1>2, <1>3, <1>5
    <2>2. BrGranted(brReq.write) /\ axiCmd.addr = BrPhysical /\ axiCmd.words = brReq.words
      BY <1>3
    <2> QED BY <2>1, <2>2
  <1> QED BY <1>2, <1>4, <1>6, <1>7 DEF BrConfined

-----------------------------------------------------------------------------
(* The theorems. *)

(* Bridge, translator and engine are in step: the engine runs the walk or   *)
(* the burst that the bridge waits for, and the translator the request the  *)
(* bridge holds.                                                            *)
THEOREM BrInvariant == BrSpec => []BrInv
  <1>1. BrStart => BrInv
    BY StartInv
  <1>2. BrInv /\ [BrNext]_brVars => BrInv'
    BY NextKeeps
  <1> QED BY <1>1, <1>2, PTL DEF BrSpec

(* docs/M5_ARCHITECTURE.md, "All physical data access follows translation": *)
(* every address and every data beat on the bus is one word of the page     *)
(* table, or the client's whole burst where and as the table allows it.     *)
THEOREM BrConfinedCorrect == BrSpec => []BrConfined
  <1>1. BrInv => BrConfined
    BY Confined
  <1> QED BY <1>1, BrInvariant, PTL

(* A fault code of 0 means that all the client's words were exchanged, in   *)
(* order, with the memory its page maps to and without an error; a          *)
(* translation fault means that the request was not allowed.                *)
THEOREM BrHonestCorrect == BrSpec => []BrHonest
  <1>1. BrInv => BrHonest
    <2>1. Words \subseteq DdrWords
      BY DEF DdrWords
    <2> QED BY <2>1, StreamIsRight DEF BrInv, BrHonest
  <1> QED BY <1>1, BrInvariant, PTL

(* Below the bridge, too, the engine is never idle while the slave owes it  *)
(* a response.                                                              *)
THEOREM BrDrained == BrSpec => []AxiDrained
  <1>1. BrInv => AxiDrained
    BY DEF BrInv, BurstInv, EngineInv
  <1> QED BY <1>1, BrInvariant, PTL

(* No table walk, retired client, remap or abort makes the engine withdraw  *)
(* or change an offer on the bus.                                           *)
THEOREM BrOffersStand == BrSpec => AxiOffersStand
  <1>1. BrInv /\ [BrNext]_brVars => [Stand]_axiVars
    BY NextStands
  <1>2. BrSpec => [][Stand]_axiVars
    BY <1>1, BrInvariant, PTL DEF BrSpec
  <1> QED BY <1>2 DEF AxiOffersStand, Stand

-----------------------------------------------------------------------------
(* The bridge implements MemoryPort. *)

\* What the port needs besides BrInv: the request is one of the client's, and
\* the engine saw no abort, and answers with no 11, that the bridge did not see.
PortHeld ==
    /\ brState # "Idle" => brReq \in Requests
    /\ brState = "Data" /\ axiAborted => brAborted
    /\ brState = "Data" /\ axiState = "Respond" /\ axiFault = 11 => axiAborted

PortAsked == {[words |-> r.words, write |-> r.write] : r \in Requests}

LEMMA PortSteps ==
    ASSUME NEW abort \in BOOLEAN, NEW asked \in PortAsked,
           \/ Port!MpRefuse(abort) \/ Port!MpWork(abort) \/ Port!MpMove(abort) \/ Port!MpCut(abort)
           \/ Port!MpClose(abort) \/ Port!MpRetire(abort) \/ Port!MpDie(abort) \/ Port!MpDead(abort)
           \/ Port!MpAccept(abort, FALSE, asked)
    PROVE  Port!MpNext
  <1>1. Port!MpTick(abort, FALSE, TRUE, asked, TRUE, TRUE, TRUE)
    BY DEF Port!MpTick
  <1> HIDE DEF Port!MpTick
  <1> QED BY <1>1, Zenon DEF Port!MpNext, PortAsked

\* The port's request, while there is one.
LEMMA PortRequest ==
    ASSUME BrInv, PortHeld, brState # "Idle"
    PROVE  PortReq = [words |-> brReq.words, write |-> brReq.write] /\ PortReq \in PortAsked
           /\ PortReq.words = brReq.words /\ PortReq.write = brReq.write
           /\ brReq.words \in Nat /\ brReq.write \in BOOLEAN
  BY DEF PortHeld, PortReq, PortAsked, BrInv, BrTypeOK, Request

\* Nothing is on the bus while the engine is idle, moving words, or answering.
LEMMA NothingOwed ==
    ASSUME BrInv, axiState \in {"Idle", "Validate", "LoadWrite", "ReadPrepare", "ReadOut", "Respond"}
    PROVE  ~(AwValid \/ ArValid \/ axiOwed # {})
  BY DEF BrInv, BurstInv, EngineInv, AxiControlTypes, AxiDrained, AwValid, ArValid

USE DEF Port!mpVars

LEMMA PortIdle ==
    ASSUME BrInv, BrInv', PortHeld, NEW valid \in BOOLEAN, NEW ready \in BOOLEAN, NEW word, NEW req \in Request,
           Edge(valid, ready, word, req), ~BrBusy => req \in Requests, brState = "Idle"
    PROVE  PortHeld' /\ [Port!MpNext]_(Port!mpVars)
  <1>1. trState = "Idle" /\ axiState = "Idle" /\ ~BrBusy /\ req \in Requests
    BY DEF BrInv, BrInStep, TrBusy, AxiBusy, BrBusy
  <1>2. UNCHANGED axiVars
    BY <1>1, EngineMoves DEF BusCmdValid
  <1>3. (valid /\ BrAccept(hostAbort, hostFlush, req)) \/ UNCHANGED brRegs
    BY Wiring, BridgeArms
  <1>4. axiState' = "Idle" /\ ~(AwValid \/ ArValid \/ axiOwed # {}) /\ ~(AwValid \/ ArValid \/ axiOwed # {})'
    BY <1>1, <1>2, NothingOwed DEF axiVars, axiRegs, AwValid, ArValid
  <1>5. hostAbort \in BOOLEAN
    BY DEF BrInv, BrTypeOK
  <1>6. PortState = "Idle" /\ PortCount = 0
    BY <1>1 DEF PortState, PortCount, AxiPoisoned
  <1>7. CASE BrAccept(hostAbort, hostFlush, req)
    <2>1. brState' = "StartTranslate" /\ brReq' = req /\ brAborted' = FALSE /\ ~hostAbort
      BY <1>7 DEF BrAccept, BrReqReady
    <2>2. PortState' = "Open" /\ PortCount' = 0 /\ PortReq' = [words |-> req.words, write |-> req.write]
      BY <1>4, <2>1 DEF PortState, PortCount, PortReq, AxiPoisoned
    <2>3. [words |-> req.words, write |-> req.write] \in PortAsked
      BY <1>1 DEF PortAsked
    <2>4. Port!MpAccept(hostAbort, FALSE, [words |-> req.words, write |-> req.write])
      BY <1>4, <1>6, <2>1, <2>2 DEF Port!MpAccept, Port!MpReady
    <2> QED BY <1>1, <1>5, <2>1, <2>3, <2>4, PortSteps DEF PortHeld
  <1>8. CASE UNCHANGED brRegs
    <2>1. brState' = "Idle"
      BY <1>8 DEF brRegs
    <2>2. PortState' = "Idle" /\ PortCount' = 0 /\ PortReq' = PortReq
      BY <1>4, <2>1 DEF PortState, PortCount, PortReq, AxiPoisoned
    <2> QED BY <1>4, <1>6, <2>1, <2>2 DEF PortHeld
  <1> QED BY <1>3, <1>7, <1>8

\* Before the burst the port is open, and stays open or refuses.
LEMMA PortOpen ==
    ASSUME BrInv, BrInv', PortHeld, NEW valid \in BOOLEAN, NEW ready \in BOOLEAN, NEW word, NEW req \in Request,
           Edge(valid, ready, word, req), brState \in {"StartTranslate", "WaitTranslate", "StartData"}
    PROVE  PortHeld' /\ [Port!MpNext]_(Port!mpVars)
  <1>1. axiState = "Idle" /\ hostAbort \in BOOLEAN /\ brAborted \in BOOLEAN
    BY DEF BrInv, BrInStep, AxiBusy, BrTypeOK
  <1>2. PortState = "Open" /\ PortCount = 0
    BY <1>1 DEF PortState, PortCount, AxiPoisoned
  <1>3. /\ brReq' = brReq /\ brState' \in {"StartTranslate", "WaitTranslate", "ReadPte", "StartData", "Data", "Respond"}
        /\ brAborted' = (brAborted \/ hostAbort)
        /\ brState' = "Respond" => \/ brFault' = 11
                                   \/ ~BrAborting(hostAbort) /\ brFault' = trFault /\ trState = "Respond" /\ trFault # 0
    <2>1. CASE brState = "StartTranslate"
      <3>1. BrStartTranslate(hostAbort)
        BY <2>1, Wiring, BridgeArms
      <3> QED BY <3>1, <2>1 DEF BrStartTranslate, BrLatchAbort, BrRefuse
    <2>2. CASE brState = "WaitTranslate"
      <3>1. BrWaitTranslate(hostAbort)
        BY <2>2, Wiring, BridgeArms
      <3> QED BY <3>1, <2>2 DEF BrWaitTranslate, BrLatchAbort, BrRefuse, TrRspValid
    <2>3. CASE brState = "StartData"
      <3>1. BrStartData(hostAbort)
        BY <2>3, Wiring, BridgeArms
      <3> QED BY <3>1, <2>3 DEF BrStartData, BrLatchAbort, BrRefuse
    <2> QED BY <2>1, <2>2, <2>3
  <1>4. axiState' \in {"Idle", "Validate"} /\ (axiState' = "Validate" => axiAborted' = FALSE /\ axiTaken' = <<>> /\ axiGiven' = <<>>)
    <2>1. (BusCmdValid(hostAbort) /\ AxiAccept(BusAbort(hostAbort), BusCmd)) \/ UNCHANGED axiVars
      BY <1>1, EngineMoves
    <2> QED BY <1>1, <2>1 DEF AxiAccept, axiVars, axiRegs
  <1>5. ~(AwValid \/ ArValid \/ axiOwed # {}) /\ ~(AwValid \/ ArValid \/ axiOwed # {})'
    <2>1. ~(AwValid \/ ArValid \/ axiOwed # {})
      BY <1>1, NothingOwed
    <2>2. axiOwed' = axiOwed
      <3>1. (BusCmdValid(hostAbort) /\ AxiAccept(BusAbort(hostAbort), BusCmd)) \/ UNCHANGED axiVars
        BY <1>1, EngineMoves
      <3> QED BY <3>1 DEF AxiAccept, axiVars
    <2> QED BY <1>4, <2>1, <2>2 DEF AwValid, ArValid
  <1>6. PortReq' = PortReq /\ PortReq \in PortAsked
    <2>1. brState # "Idle"
      OBVIOUS
    <2> QED BY <1>3, <2>1, PortRequest DEF PortReq
  <1>7. brState' = "Data" => axiState' = "Validate"
    BY <1>4 DEF BrInv, BrInStep, AxiBusy
  <1>8. PortCount' = 0
    <2>1. Len(<<>>) = 0
      OBVIOUS
    <2> QED BY <1>4, <1>7, <2>1 DEF PortCount
  <1>9. PortHeld'
    BY <1>3, <1>4, <1>7 DEF PortHeld
  <1>10. CASE brState' = "Respond"
    <2>1. PortState' = "Answer"
      BY <1>4, <1>10 DEF PortState, AxiPoisoned
    <2>2. brFault' \in IF hostAbort \/ brAborted THEN {11} ELSE 1 .. 9
      <3>1. brState = "StartTranslate" \/ brState = "StartData" => BrAborting(hostAbort)
        <4>1. brState = "StartTranslate" => BrStartTranslate(hostAbort)
          BY Wiring, BridgeArms
        <4>2. brState = "StartData" => BrStartData(hostAbort)
          BY Wiring, BridgeArms
        <4> QED BY <1>10, <4>1, <4>2 DEF BrStartTranslate, BrStartData
      <3>2. brFault' = 11 /\ ~BrAborting(hostAbort) => brState = "WaitTranslate"
        BY <3>1
      <3>3. trState = "Respond" => trFault \in 0 .. 9
        BY Answered
      <3>4. brState = "WaitTranslate" /\ ~BrAborting(hostAbort) => brFault' = trFault /\ trState = "Respond" /\ trFault # 0
        <4>1. brState = "WaitTranslate" => BrWaitTranslate(hostAbort)
          BY Wiring, BridgeArms
        <4> QED BY <1>10, <4>1 DEF BrWaitTranslate, BrRefuse, TrRspValid
      <3>5. CASE BrAborting(hostAbort)
        BY <1>3, <1>10, <3>5 DEF BrAborting
      <3>6. CASE ~BrAborting(hostAbort)
        <4>1. brFault' = trFault /\ trFault # 0 /\ trFault \in 0 .. 9
          BY <3>1, <3>3, <3>4, <3>6
        <4> QED BY <3>6, <4>1 DEF BrAborting
      <3> QED BY <3>5, <3>6
    <2>3. Port!MpRefuse(hostAbort)
      BY <1>1, <1>2, <1>3, <1>5, <1>6, <1>8, <1>10, <2>1, <2>2
         DEF Port!MpRefuse, Port!MpLatch, Port!MpBusy, Port!MpAborting
    <2> QED BY <1>1, <1>6, <1>9, <2>3, PortSteps
  <1>11. CASE brState' # "Respond"
    <2>1. PortState' = "Open"
      BY <1>3, <1>4, <1>7, <1>11 DEF PortState, AxiPoisoned
    <2>2. Port!MpWork(hostAbort)
      BY <1>1, <1>2, <1>3, <1>5, <1>6, <1>8, <1>11, <2>1
         DEF Port!MpWork, Port!MpLatch, Port!MpBusy
    <2> QED BY <1>1, <1>6, <1>9, <2>2, PortSteps
  <1> QED BY <1>10, <1>11

LEMMA PortAnswer ==
    ASSUME BrInv, BrInv', PortHeld, NEW valid \in BOOLEAN, NEW ready \in BOOLEAN, NEW word, NEW req \in Request,
           Edge(valid, ready, word, req), brState = "Respond"
    PROVE  PortHeld' /\ [Port!MpNext]_(Port!mpVars)
  <1>1. axiState = "Idle" /\ hostAbort \in BOOLEAN
    BY DEF BrInv, BrInStep, AxiBusy, BrTypeOK
  <1>2. UNCHANGED axiVars
    BY <1>1, EngineMoves DEF BusCmdValid
  <1>3. axiState' = "Idle" /\ ~(AwValid \/ ArValid \/ axiOwed # {}) /\ ~(AwValid \/ ArValid \/ axiOwed # {})'
    BY <1>1, <1>2, NothingOwed DEF axiVars, axiRegs, AwValid, ArValid
  <1>4. PortState = "Answer" /\ PortCount = 0 /\ PortReq \in PortAsked
    BY <1>1, PortRequest DEF PortState, PortCount, AxiPoisoned
  <1>5. BrRespond(hostAbort) \/ UNCHANGED brRegs
    BY Wiring, BridgeArms
  <1>6. CASE BrRespond(hostAbort)
    <2>1. brState' = "Idle"
      BY <1>6 DEF BrRespond
    <2>2. PortState' = "Idle" /\ PortCount' = 0 /\ PortReq' = [words |-> 0, write |-> FALSE]
      BY <1>3, <2>1 DEF PortState, PortCount, PortReq, AxiPoisoned
    <2>3. Port!MpRetire(hostAbort)
      BY <1>3, <1>4, <2>1, <2>2 DEF Port!MpRetire, Port!MpDoneValid, Port!mpNoReq
    <2> QED BY <1>1, <1>4, <2>1, <2>3, PortSteps DEF PortHeld
  <1>7. CASE UNCHANGED brRegs
    <2>1. brState' = "Respond" /\ brReq' = brReq /\ brAborted' = brAborted /\ brFault' = brFault
      BY <1>7 DEF brRegs
    <2>2. PortState' = "Answer" /\ PortCount' = 0 /\ PortReq' = PortReq
      BY <1>3, <2>1 DEF PortState, PortCount, PortReq, AxiPoisoned
    <2> QED BY <1>3, <1>4, <2>1, <2>2 DEF PortHeld
  <1> QED BY <1>5, <1>6, <1>7

\* The engine's actions by the state it is in.
LEMMA ActiveArms ==
    ASSUME AxiControlTypes, NEW abort \in BOOLEAN, NEW c, NEW cmd, NEW i, NEW word, NEW o, NEW d, NEW rword,
           AxiTick(abort, c, cmd, i, word, o, d, rword)
    PROVE  /\ axiState = "Validate" => AxiValidate(abort)
           /\ axiState = "LoadWrite" => AxiGiveUp(abort) \/ AxiLoadWrite(abort, word) \/ AxiWait(abort, c, i, o, d)
           /\ axiState = "WriteAddr" => AxiWriteAddr(abort) \/ AxiWait(abort, c, i, o, d)
           /\ axiState = "WriteData" => AxiWriteData(abort) \/ AxiWait(abort, c, i, o, d)
           /\ axiState = "WriteResp" => \/ \E ownId, okay \in BOOLEAN : AxiWriteResp(abort, ownId, okay)
                                        \/ AxiWait(abort, c, i, o, d)
           /\ axiState = "ReadAddr" => AxiReadAddr(abort) \/ AxiWait(abort, c, i, o, d)
           /\ axiState = "ReadData" => \/ \E ownId, last, okay \in BOOLEAN : AxiReadData(abort, rword, ownId, last, okay)
                                       \/ AxiWait(abort, c, i, o, d)
           /\ axiState = "ReadPrepare" => AxiGiveUp(abort) \/ AxiReadPrepare(abort)
           /\ axiState = "ReadOut" => AxiGiveUp(abort) \/ AxiReadOut(abort) \/ AxiWait(abort, c, i, o, d)
           /\ axiState = "Poisoned" => AxiPoison(abort)
  <1>1. /\ AxiAccept(abort, cmd) => axiState = "Idle"
        /\ AxiValidate(abort) => axiState = "Validate"
        /\ AxiGiveUp(abort) => axiState \in {"LoadWrite", "ReadPrepare", "ReadOut"}
        /\ AxiLoadWrite(abort, word) => axiState = "LoadWrite"
        /\ AxiWriteAddr(abort) => axiState = "WriteAddr"
        /\ AxiWriteData(abort) => axiState = "WriteData"
        /\ AxiReadAddr(abort) => axiState = "ReadAddr"
        /\ AxiReadPrepare(abort) => axiState = "ReadPrepare"
        /\ AxiReadOut(abort) => axiState = "ReadOut"
        /\ AxiRetire(abort) => axiState = "Respond"
        /\ AxiPoison(abort) => axiState = "Poisoned"
        /\ AxiWait(abort, c, i, o, d) => axiState \notin {"Validate", "ReadPrepare", "Poisoned"}
    BY DEF AxiAccept, AxiCmdReady, AxiValidate, AxiGiveUp, AxiAbandons, AxiLoadWrite, AxiInReady, AxiWriteAddr, AwValid,
           AxiWriteData, WValid, AxiReadAddr, ArValid, AxiReadPrepare, AxiReadOut, AxiOutValid, AxiRetire,
           AxiDoneValid, AxiPoison, AxiPoisoned, AxiWait
  <1>2. \A ownId, okay \in BOOLEAN : AxiWriteResp(abort, ownId, okay) => axiState = "WriteResp"
    BY DEF AxiWriteResp
  <1>3. \A ownId, last, okay \in BOOLEAN : AxiReadData(abort, rword, ownId, last, okay) => axiState = "ReadData"
    BY DEF AxiReadData
  <1> QED BY <1>1, <1>2, <1>3 DEF AxiTick

\* What a clock edge does to the words handed over, to the state and to the
\* abort, while the engine works for the bridge.
LEMMA Worked ==
    ASSUME AxiControlTypes, FaultStream, NEW abort \in BOOLEAN, NEW c, NEW cmd, NEW i, NEW word, NEW o, NEW d, NEW rword,
           AxiTick(abort, c, cmd, i, word, o, d, rword), axiState \notin {"Idle", "Respond"}
    PROVE  /\ axiState \notin {"LoadWrite", "ReadOut"} => UNCHANGED <<axiTaken, axiGiven>>
           /\ axiState \in {"Validate", "ReadAddr", "ReadData", "ReadPrepare"} =>
                 axiState' \in {"Validate", "LoadWrite", "ReadAddr", "ReadData", "ReadPrepare", "ReadOut", "Respond", "Poisoned"}
           /\ axiState \in {"WriteAddr", "WriteData", "WriteResp"} =>
                 axiState' \in {"WriteAddr", "WriteData", "WriteResp", "Respond", "Poisoned"}
           /\ axiState' = "Poisoned" => axiState \in {"WriteResp", "ReadData", "Poisoned"}
           /\ axiState = "Poisoned" => axiState' = "Poisoned" /\ axiOwed' \subseteq axiOwed
           /\ axiAborted' => axiAborted \/ abort
           /\ axiState' = "Respond" /\ axiFault' = 11 => axiAborted'
  <1> USE DEF LatchAbort, AxiBusy, AxiAborting, axiHistory
  <1>1. CASE axiState = "Validate"
    <2>1. AxiValidate(abort)
      BY <1>1, ActiveArms
    <2> QED BY <1>1, <2>1 DEF AxiValidate, AxiControlTypes
  <1>2. CASE axiState \in {"LoadWrite", "ReadPrepare", "ReadOut"} /\ AxiGiveUp(abort)
    BY <1>2 DEF AxiGiveUp, AxiControlTypes
  <1>3. CASE AxiWait(abort, c, i, o, d)
    BY <1>3 DEF AxiWait, AxiControlTypes
  <1>4. CASE axiState = "LoadWrite" /\ AxiLoadWrite(abort, word)
    BY <1>4 DEF AxiLoadWrite, AxiControlTypes
  <1>5. CASE axiState = "WriteAddr" /\ AxiWriteAddr(abort)
    BY <1>5 DEF AxiWriteAddr, AxiControlTypes
  <1>6. CASE axiState = "WriteData" /\ AxiWriteData(abort)
    BY <1>6 DEF AxiWriteData, AxiControlTypes
  <1>7. CASE axiState = "WriteResp" /\ \E ownId, okay \in BOOLEAN : AxiWriteResp(abort, ownId, okay)
    BY <1>7 DEF AxiWriteResp, AxiControlTypes
  <1>8. CASE axiState = "ReadAddr" /\ AxiReadAddr(abort)
    BY <1>8 DEF AxiReadAddr, AxiControlTypes
  <1>9. CASE axiState = "ReadData" /\ \E ownId, last, okay \in BOOLEAN : AxiReadData(abort, rword, ownId, last, okay)
    <2>1. axiFault \in {0, 12}
      BY <1>9 DEF FaultStream, Serving
    <2>2. PICK ownId \in BOOLEAN, last \in BOOLEAN, okay \in BOOLEAN : AxiReadData(abort, rword, ownId, last, okay)
      BY <1>9
    <2>3. AxiReadFault(okay) \in {0, 12}
      BY <2>1 DEF AxiReadFault
    <2>4. axiState' = "Respond" /\ axiFault' = 11 => axiAborted'
      BY <2>2, <2>3 DEF AxiReadData
    <2>5. UNCHANGED <<axiTaken, axiGiven>> /\ axiState' \in {"ReadData", "ReadPrepare", "Respond", "Poisoned"}
      BY <1>9, <2>2 DEF AxiReadData
    <2>6. axiAborted' => axiAborted \/ abort
      BY <2>2 DEF AxiReadData
    <2> QED BY <1>9, <2>4, <2>5, <2>6
  <1>10. CASE axiState = "ReadPrepare" /\ AxiReadPrepare(abort)
    BY <1>10 DEF AxiReadPrepare, AxiControlTypes
  <1>11. CASE axiState = "ReadOut" /\ AxiReadOut(abort)
    <2>1. axiFault = 0
      BY <1>11 DEF FaultStream
    <2> QED BY <1>11, <2>1 DEF AxiReadOut, AxiControlTypes
  <1>12. CASE axiState = "Poisoned" /\ AxiPoison(abort)
    BY <1>12 DEF AxiPoison, AxiControlTypes
  <1> QED
    <2>1. axiState \in {"Validate", "LoadWrite", "WriteAddr", "WriteData", "WriteResp", "ReadAddr", "ReadData",
                        "ReadPrepare", "ReadOut", "Poisoned"}
      BY DEF AxiControlTypes, AxiStates
    <2> QED BY <2>1, <1>1, <1>2, <1>3, <1>4, <1>5, <1>6, <1>7, <1>8, <1>9, <1>10, <1>11, <1>12, ActiveArms

\* The same of the engine below the bridge.
LEMMA EngineWorked ==
    ASSUME BrInv, NEW valid \in BOOLEAN, NEW ready \in BOOLEAN, NEW word, NEW req,
           Edge(valid, ready, word, req), axiState \notin {"Idle", "Respond"}
    PROVE  /\ axiState \notin {"LoadWrite", "ReadOut"} => UNCHANGED <<axiTaken, axiGiven>>
           /\ axiState \in {"Validate", "ReadAddr", "ReadData", "ReadPrepare"} =>
                 axiState' \in {"Validate", "LoadWrite", "ReadAddr", "ReadData", "ReadPrepare", "ReadOut", "Respond", "Poisoned"}
           /\ axiState \in {"WriteAddr", "WriteData", "WriteResp"} =>
                 axiState' \in {"WriteAddr", "WriteData", "WriteResp", "Respond", "Poisoned"}
           /\ axiState' = "Poisoned" => axiState \in {"WriteResp", "ReadData", "Poisoned"}
           /\ axiState = "Poisoned" => axiState' = "Poisoned" /\ axiOwed' \subseteq axiOwed
           /\ axiAborted' => axiAborted \/ BusAbort(hostAbort)
           /\ axiState' = "Respond" /\ axiFault' = 11 => axiAborted'
  <1>1. /\ AxiTick(BusAbort(hostAbort), BusCmdValid(hostAbort), BusCmd,
                   brState = "Data" /\ valid /\ ~BrAborting(hostAbort), word,
                   brState = "ReadPte" \/ (brState = "Data" /\ ready /\ ~BrAborting(hostAbort)),
                   BusDoneReady, DdrWord(word))
        /\ BusAbort(hostAbort) \in BOOLEAN /\ AxiControlTypes
    BY Wiring
  <1>2. FaultStream
    BY DEF BrInv, BurstInv, Streaming
  <1> QED BY <1>1, <1>2, Worked, Zenon

\* The engine died while the slave owed it a response.
LEMMA DeathOwed ==
    ASSUME BrInv, axiState \in {"WriteResp", "ReadData"}
    PROVE  AwValid \/ ArValid \/ axiOwed # {}
  BY DEF BrInv, BurstInv, EngineInv, AxiDrained

\* A dead port stays dead, and what is owed may be forgotten.
LEMMA PortDeath ==
    ASSUME BrInv, PortHeld, NEW valid \in BOOLEAN, NEW ready \in BOOLEAN, NEW word, NEW req \in Request,
           Edge(valid, ready, word, req), axiState = "Poisoned",
           brReq' = brReq, brState' = brState, brAborted' = (brAborted \/ hostAbort)
    PROVE  Port!MpNext
  <1>1. axiState' = "Poisoned" /\ axiOwed' \subseteq axiOwed /\ UNCHANGED <<axiTaken, axiGiven>>
    BY EngineWorked
  <1>2. brState \in {"ReadPte", "Data"} /\ hostAbort \in BOOLEAN
    BY DEF BrInv, BrInStep, AxiBusy, BrTypeOK
  <1>3. (AwValid \/ ArValid \/ axiOwed # {})' \in {AwValid \/ ArValid \/ axiOwed # {}, FALSE}
    BY <1>1 DEF AwValid, ArValid
  <1>4. PortState = "Dead" /\ PortState' = "Dead" /\ PortReq' = PortReq /\ PortCount' = PortCount
    BY <1>1, <1>2 DEF PortState, PortReq, PortCount, AxiPoisoned
  <1>5. Port!MpDead(hostAbort)
    BY <1>2, <1>3, <1>4 DEF Port!MpDead, Port!MpLatch, Port!MpBusy
  <1> QED BY <1>2, <1>5, PortRequest, PortSteps

LEMMA PortWalk ==
    ASSUME BrInv, BrInv', PortHeld, NEW valid \in BOOLEAN, NEW ready \in BOOLEAN, NEW word, NEW req \in Request,
           Edge(valid, ready, word, req), brState = "ReadPte"
    PROVE  PortHeld' /\ [Port!MpNext]_(Port!mpVars)
  <1>1. hostAbort \in BOOLEAN /\ PortReq \in PortAsked /\ axiState # "Idle"
    BY PortRequest DEF BrInv, BrTypeOK, BrInStep, AxiBusy
  <1>2. /\ brReq' = brReq /\ brAborted' = (brAborted \/ hostAbort)
        /\ brState' = IF axiState = "Respond" THEN "WaitTranslate" ELSE "ReadPte"
    <2>1. BrReadPte(hostAbort)
      BY Wiring, BridgeArms
    <2> QED BY <2>1 DEF BrReadPte, BrLatchAbort, AxiDoneValid
  <1>3. PortHeld'
    BY <1>2 DEF PortHeld
  <1>4. PortReq' = PortReq /\ PortCount' = 0 /\ PortCount = 0
    BY <1>2 DEF PortReq, PortCount
  <1>5. (AwValid \/ ArValid \/ axiOwed # {}) \in BOOLEAN /\ (AwValid \/ ArValid \/ axiOwed # {})' \in BOOLEAN
    OBVIOUS
  <1>6. CASE axiState = "Poisoned"
    BY <1>2, <1>3, <1>6, PortDeath
  <1>7. CASE axiState # "Poisoned" /\ axiState' = "Poisoned"
    <2>1. axiState = "ReadData" \/ axiState = "WriteResp"
      <3>1. axiState # "Respond"
        <4>1. axiState = "Respond" => AxiRetire(BusAbort(hostAbort))
          BY EngineMoves DEF BusDoneReady
        <4> QED BY <1>7, <4>1 DEF AxiRetire
      <3> QED BY <1>1, <1>7, <3>1, EngineWorked
    <2>2. PortState = "Open" /\ PortState' = "Dead"
      BY <1>2, <1>7 DEF PortState, AxiPoisoned
    <2>3. Port!MpDie(hostAbort)
      BY <1>2, <1>4, <1>5, <2>1, <2>2, DeathOwed DEF Port!MpDie, Port!MpLatch, Port!MpBusy
    <2> QED BY <1>1, <1>3, <2>3, PortSteps
  <1>8. CASE axiState # "Poisoned" /\ axiState' # "Poisoned"
    <2>1. PortState = "Open" /\ PortState' = "Open"
      BY <1>2, <1>8 DEF PortState, AxiPoisoned
    <2>2. Port!MpWork(hostAbort)
      BY <1>2, <1>4, <1>5, <2>1 DEF Port!MpWork, Port!MpLatch, Port!MpBusy
    <2> QED BY <1>1, <1>3, <2>2, PortSteps
  <1> QED BY <1>6, <1>7, <1>8

\* The burst: what a clock edge does to the bridge's registers and to PortHeld.
LEMMA PortBurst ==
    ASSUME BrInv, PortHeld, NEW valid \in BOOLEAN, NEW ready \in BOOLEAN, NEW word, NEW req \in Request,
           Edge(valid, ready, word, req), brState = "Data"
    PROVE  /\ hostAbort \in BOOLEAN /\ brAborted \in BOOLEAN /\ PortReq \in PortAsked /\ axiState # "Idle"
           /\ brReq' = brReq /\ brAborted' = (brAborted \/ hostAbort) /\ PortReq' = PortReq
           /\ brState' = IF axiState = "Respond" THEN "Respond" ELSE "Data"
           /\ axiCmd.words = brReq.words /\ axiCmd.write = brReq.write
           /\ BusAbort(hostAbort) = (hostAbort \/ brAborted)
           /\ PortHeld'
  <1>1. hostAbort \in BOOLEAN /\ brAborted \in BOOLEAN /\ PortReq \in PortAsked /\ axiState # "Idle"
        /\ axiCmd.words = brReq.words /\ axiCmd.write = brReq.write
    BY PortRequest DEF BrInv, BrTypeOK, BrInStep, AxiBusy
  <1>2. /\ brReq' = brReq /\ brAborted' = (brAborted \/ hostAbort)
        /\ brState' = IF axiState = "Respond" THEN "Respond" ELSE "Data"
    <2>1. BrData(hostAbort)
      BY Wiring, BridgeArms
    <2> QED BY <2>1 DEF BrData, BrLatchAbort, AxiDoneValid, BrRefuse
  <1>3. BusAbort(hostAbort) = (hostAbort \/ brAborted)
    BY DEF BusAbort, BrAborting
  <1>4. PortReq' = PortReq
    BY <1>2 DEF PortReq
  <1>5. PortHeld'
    <2>1. axiState # "Respond" => (axiAborted' => brAborted') /\ (axiState' = "Respond" /\ axiFault' = 11 => axiAborted')
      BY <1>1, <1>2, <1>3, EngineWorked DEF PortHeld
    <2> QED BY <1>2, <2>1 DEF PortHeld
  <1> QED BY <1>1, <1>2, <1>3, <1>4, <1>5

\* The engine judges the command, or fetches the words of a read.
LEMMA PortFetch ==
    ASSUME BrInv, BrInv', PortHeld, NEW valid \in BOOLEAN, NEW ready \in BOOLEAN, NEW word, NEW req \in Request,
           Edge(valid, ready, word, req), brState = "Data",
           axiState \in {"Validate", "ReadAddr", "ReadData", "ReadPrepare"}
    PROVE  Port!MpNext
  <1>1. /\ hostAbort \in BOOLEAN /\ PortReq \in PortAsked /\ PortReq' = PortReq
        /\ brReq' = brReq /\ brState' = "Data" /\ brAborted' = (brAborted \/ hostAbort)
    BY PortBurst
  <1>2. PortCount' = PortCount
    BY <1>1, EngineWorked DEF PortCount
  <1>3. PortState = "Open"
    BY DEF PortState, AxiPoisoned
  <1>4. (AwValid \/ ArValid \/ axiOwed # {}) \in BOOLEAN /\ (AwValid \/ ArValid \/ axiOwed # {})' \in BOOLEAN
    OBVIOUS
  <1>5. CASE axiState' = "Poisoned"
    <2>1. PortState' = "Dead"
      BY <1>1, <1>5 DEF PortState, AxiPoisoned
    <2>2. AwValid \/ ArValid \/ axiOwed # {}
      BY <1>5, EngineWorked, DeathOwed
    <2>3. Port!MpDie(hostAbort)
      BY <1>1, <1>2, <1>3, <1>4, <2>1, <2>2 DEF Port!MpDie, Port!MpLatch, Port!MpBusy
    <2> QED BY <1>1, <2>3, PortSteps
  <1>6. CASE axiState' # "Poisoned"
    <2>1. axiState' \in {"Validate", "LoadWrite", "ReadAddr", "ReadData", "ReadPrepare", "ReadOut", "Respond"}
      BY <1>6, EngineWorked
    <2>2. PortState' = IF axiState' \in {"LoadWrite", "ReadOut"} THEN "Moving"
                       ELSE IF axiState' = "Respond" THEN "Closing" ELSE "Open"
      BY <1>1, <2>1 DEF PortState, AxiPoisoned
    <2>3. PortState' = "Moving" => ~(AwValid \/ ArValid \/ axiOwed # {})'
      <3>1. PortState' = "Moving" => axiState' \in {"LoadWrite", "ReadOut"}
        BY <2>2
      <3> QED BY <3>1 DEF BrInv, BurstInv, EngineInv, AxiControlTypes, AxiDrained, AwValid, ArValid
    <2>4. PortState' \in {"Open", "Moving", "Closing"}
      BY <2>2
    <2>5. Port!MpWork(hostAbort)
      BY <1>1, <1>2, <1>3, <1>4, <2>3, <2>4 DEF Port!MpWork, Port!MpLatch, Port!MpBusy
    <2> QED BY <1>1, <2>5, PortSteps
  <1> QED BY <1>5, <1>6

\* The write burst after its words were loaded.
LEMMA PortWrites ==
    ASSUME BrInv, BrInv', PortHeld, NEW valid \in BOOLEAN, NEW ready \in BOOLEAN, NEW word, NEW req \in Request,
           Edge(valid, ready, word, req), brState = "Data", axiState \in {"WriteAddr", "WriteData", "WriteResp"}
    PROVE  Port!MpNext
  <1>1. /\ hostAbort \in BOOLEAN /\ PortReq \in PortAsked /\ PortReq' = PortReq
        /\ brReq' = brReq /\ brState' = "Data" /\ brAborted' = (brAborted \/ hostAbort)
    BY PortBurst
  <1>2. PortCount' = PortCount
    BY <1>1, EngineWorked DEF PortCount
  <1>3. PortState = "Closing"
    BY DEF PortState, AxiPoisoned
  <1>4. (AwValid \/ ArValid \/ axiOwed # {}) \in BOOLEAN /\ (AwValid \/ ArValid \/ axiOwed # {})' \in BOOLEAN
    OBVIOUS
  <1>5. CASE axiState' = "Poisoned"
    <2>1. PortState' = "Dead"
      BY <1>1, <1>5 DEF PortState, AxiPoisoned
    <2>2. AwValid \/ ArValid \/ axiOwed # {}
      BY <1>5, EngineWorked, DeathOwed
    <2>3. Port!MpDie(hostAbort)
      BY <1>1, <1>2, <1>3, <1>4, <2>1, <2>2 DEF Port!MpDie, Port!MpLatch, Port!MpBusy
    <2> QED BY <1>1, <2>3, PortSteps
  <1>6. CASE axiState' # "Poisoned"
    <2>1. axiState' \in {"WriteAddr", "WriteData", "WriteResp", "Respond"}
      BY <1>6, EngineWorked
    <2>2. PortState' = "Closing"
      BY <1>1, <2>1 DEF PortState, AxiPoisoned
    <2>3. Port!MpClose(hostAbort)
      BY <1>1, <1>2, <1>3, <1>4, <2>2 DEF Port!MpClose, Port!MpLatch, Port!MpBusy
    <2> QED BY <1>1, <2>3, PortSteps
  <1> QED BY <1>5, <1>6

\* The client's words cross the port.
LEMMA PortLoads ==
    ASSUME BrInv, BrInv', PortHeld, NEW valid \in BOOLEAN, NEW ready \in BOOLEAN, NEW word \in Words, NEW req \in Request,
           Edge(valid, ready, word, req), brState = "Data", axiState = "LoadWrite"
    PROVE  [Port!MpNext]_(Port!mpVars)
  <1> DEFINE abort == BusAbort(hostAbort)
  <1>1. /\ hostAbort \in BOOLEAN /\ brAborted \in BOOLEAN /\ PortReq \in PortAsked /\ PortReq' = PortReq
        /\ brReq' = brReq /\ brState' = "Data" /\ brAborted' = (brAborted \/ hostAbort)
        /\ axiCmd.words = brReq.words /\ axiCmd.write = brReq.write /\ abort = (hostAbort \/ brAborted)
    BY PortBurst
  <1>2. (abort \/ axiAborted) = (hostAbort \/ brAborted)
    BY <1>1 DEF PortHeld
  <1>3. /\ axiCmd.write = TRUE /\ Len(axiTaken) = axiIndex /\ axiTaken \in Seq(Words)
        /\ axiIndex \in Nat /\ axiCmd.words \in Nat
    <2>1. axiCmd.write /\ axiCmd.write \in BOOLEAN /\ axiCmd.words \in Nat
      BY DEF BrInv, BurstInv, Streaming, ReadStream, EngineInv, AxiControlTypes
    <2>2. WriteStream /\ axiTaken \in Seq(Words) /\ axiIndex \in 0 .. MaxWords - 1
      BY <2>1 DEF BrInv, BurstInv, Streaming, EngineInv, HistoryIn, StorageIn
    <2> QED BY <2>1, <2>2 DEF WriteStream
  <1>4. PortReq.write = TRUE /\ PortReq.words = axiCmd.words
    BY <1>1, <1>3, PortRequest
  <1>5. PortState = "Moving" /\ PortCount = axiIndex /\ PortCount' = Len(axiTaken')
    BY <1>1, <1>3 DEF PortState, PortCount, AxiPoisoned
  <1>6. ~(AwValid \/ ArValid \/ axiOwed # {})
    BY NothingOwed
  <1>7. AxiGiveUp(abort) \/ AxiLoadWrite(abort, word) \/ AxiWait(abort, BusCmdValid(hostAbort), valid /\ ~BrAborting(hostAbort), ready /\ ~BrAborting(hostAbort), BusDoneReady)
    <2>1. /\ AxiTick(abort, BusCmdValid(hostAbort), BusCmd,
                     brState = "Data" /\ valid /\ ~BrAborting(hostAbort), word,
                     brState = "ReadPte" \/ (brState = "Data" /\ ready /\ ~BrAborting(hostAbort)),
                     BusDoneReady, DdrWord(word))
          /\ abort \in BOOLEAN /\ AxiControlTypes
      BY Wiring
    <2>2. AxiGiveUp(abort) \/ AxiLoadWrite(abort, word)
          \/ AxiWait(abort, BusCmdValid(hostAbort), brState = "Data" /\ valid /\ ~BrAborting(hostAbort),
                     brState = "ReadPte" \/ (brState = "Data" /\ ready /\ ~BrAborting(hostAbort)), BusDoneReady)
      BY <2>1, ActiveArms, Zenon
    <2>3. /\ (brState = "Data" /\ valid /\ ~BrAborting(hostAbort)) = (valid /\ ~BrAborting(hostAbort))
          /\ (brState = "ReadPte" \/ (brState = "Data" /\ ready /\ ~BrAborting(hostAbort))) = (ready /\ ~BrAborting(hostAbort))
      OBVIOUS
    <2> QED BY <2>2, <2>3
  <1> HIDE DEF abort
  <1>8. CASE AxiGiveUp(abort)
    <2>1. axiState' = "Respond" /\ UNCHANGED <<axiTaken, axiOwed>> /\ (hostAbort \/ brAborted)
      BY <1>2, <1>8 DEF AxiGiveUp, AxiAborting, axiHistory
    <2>2. PortState' = "Closing" /\ PortCount' = PortCount
      BY <1>1, <1>3, <1>5, <2>1 DEF PortState, AxiPoisoned
    <2>3. ~(AwValid \/ ArValid \/ axiOwed # {})'
      BY <1>6, <2>1 DEF AwValid, ArValid
    <2>4. Port!MpCut(hostAbort)
      BY <1>1, <1>5, <1>6, <2>1, <2>2, <2>3 DEF Port!MpCut, Port!MpAborting, Port!MpLatch, Port!MpBusy
    <2> QED BY <1>1, <2>4, PortSteps
  <1>9. CASE AxiLoadWrite(abort, word)
    <2>1. /\ axiTaken' = Append(axiTaken, word) /\ axiOwed' = axiOwed /\ ~hostAbort /\ ~brAborted
          /\ axiState' = IF axiIndex + 1 = axiCmd.words THEN "WriteAddr" ELSE "LoadWrite"
      BY <1>2, <1>9 DEF AxiLoadWrite, AxiInReady, AxiAborting, AxiFinalWord
    <2>2. PortCount' = PortCount + 1
      BY <1>3, <1>5, <2>1, Appended
    <2>3. PortState' = IF axiIndex + 1 = axiCmd.words THEN "Closing" ELSE "Moving"
      BY <1>1, <2>1 DEF PortState, AxiPoisoned
    <2>4. (AwValid \/ ArValid \/ axiOwed # {})' = (axiIndex + 1 = axiCmd.words)
      BY <1>6, <2>1 DEF AwValid, ArValid
    <2>5. Port!MpMove(hostAbort)
      <3>1. (PortCount + 1 = PortReq.words) = (axiIndex + 1 = axiCmd.words)
        BY <1>4, <1>5
      <3> QED BY <1>1, <1>4, <1>5, <2>1, <2>2, <2>3, <2>4, <3>1
              DEF Port!MpMove, Port!MpInReady, Port!MpAborting, Port!MpLast
    <2> QED BY <1>1, <2>5, PortSteps
  <1>10. CASE AxiWait(abort, BusCmdValid(hostAbort), valid /\ ~BrAborting(hostAbort), ready /\ ~BrAborting(hostAbort), BusDoneReady)
    <2>1. UNCHANGED <<axiState, axiTaken, axiOwed>> /\ ~hostAbort /\ ~brAborted
      BY <1>2, <1>10 DEF AxiWait, AxiAborting, axiHistory
    <2>2. PortState' = PortState /\ PortCount' = PortCount
      BY <1>1, <1>3, <1>5, <2>1 DEF PortState, AxiPoisoned
    <2>3. (AwValid \/ ArValid \/ axiOwed # {})' = (AwValid \/ ArValid \/ axiOwed # {})
      BY <2>1 DEF AwValid, ArValid
    <2> QED BY <1>1, <2>1, <2>2, <2>3
  <1> QED BY <1>7, <1>8, <1>9, <1>10

LEMMA PortGives ==
    ASSUME BrInv, BrInv', PortHeld, NEW valid \in BOOLEAN, NEW ready \in BOOLEAN, NEW word \in Words, NEW req \in Request,
           Edge(valid, ready, word, req), brState = "Data", axiState = "ReadOut"
    PROVE  [Port!MpNext]_(Port!mpVars)
  <1> DEFINE abort == BusAbort(hostAbort)
  <1>1. /\ hostAbort \in BOOLEAN /\ brAborted \in BOOLEAN /\ PortReq \in PortAsked /\ PortReq' = PortReq
        /\ brReq' = brReq /\ brState' = "Data" /\ brAborted' = (brAborted \/ hostAbort)
        /\ axiCmd.words = brReq.words /\ axiCmd.write = brReq.write /\ abort = (hostAbort \/ brAborted)
    BY PortBurst
  <1>2. (abort \/ axiAborted) = (hostAbort \/ brAborted)
    BY <1>1 DEF PortHeld
  <1>3. /\ axiCmd.write = FALSE /\ Len(axiGiven) = axiIndex /\ axiGiven \in Seq(DdrWords) /\ axiBuffer \in DdrWords
        /\ axiIndex \in Nat /\ axiCmd.words \in Nat
    <2>1. ~axiCmd.write /\ axiCmd.write \in BOOLEAN /\ axiCmd.words \in Nat
      BY DEF BrInv, BurstInv, Streaming, WriteStream, EngineInv, AxiControlTypes
    <2>2. ReadStream /\ axiGiven \in Seq(DdrWords) /\ axiBuffer \in DdrWords /\ axiIndex \in 0 .. MaxWords - 1
      BY <2>1 DEF BrInv, BurstInv, Streaming, EngineInv, HistoryIn, StorageIn
    <2> QED BY <2>1, <2>2 DEF ReadStream
  <1>4. PortReq.write = FALSE /\ PortReq.words = axiCmd.words
    BY <1>1, <1>3, PortRequest
  <1>5. PortState = "Moving" /\ PortCount = axiIndex /\ PortCount' = Len(axiGiven')
    BY <1>1, <1>3 DEF PortState, PortCount, AxiPoisoned
  <1>6. ~(AwValid \/ ArValid \/ axiOwed # {})
    BY NothingOwed
  <1>7. \/ AxiGiveUp(abort) \/ AxiReadOut(abort)
        \/ \E c, i, o, d : AxiWait(abort, c, i, o, d)
    <2>1. /\ AxiTick(abort, BusCmdValid(hostAbort), BusCmd,
                     brState = "Data" /\ valid /\ ~BrAborting(hostAbort), word,
                     brState = "ReadPte" \/ (brState = "Data" /\ ready /\ ~BrAborting(hostAbort)),
                     BusDoneReady, DdrWord(word))
          /\ abort \in BOOLEAN /\ AxiControlTypes
      BY Wiring
    <2>2. AxiGiveUp(abort) \/ AxiReadOut(abort)
          \/ AxiWait(abort, BusCmdValid(hostAbort), brState = "Data" /\ valid /\ ~BrAborting(hostAbort),
                     brState = "ReadPte" \/ (brState = "Data" /\ ready /\ ~BrAborting(hostAbort)), BusDoneReady)
      BY <2>1, ActiveArms, Zenon
    <2> QED BY <2>2, Zenon
  <1> HIDE DEF abort
  <1>8. CASE AxiGiveUp(abort)
    <2>1. axiState' = "Respond" /\ UNCHANGED <<axiGiven, axiOwed>> /\ (hostAbort \/ brAborted)
      BY <1>2, <1>8 DEF AxiGiveUp, AxiAborting, axiHistory
    <2>2. PortState' = "Closing" /\ PortCount' = PortCount
      BY <1>1, <1>3, <1>5, <2>1 DEF PortState, AxiPoisoned
    <2>3. ~(AwValid \/ ArValid \/ axiOwed # {})'
      BY <1>6, <2>1 DEF AwValid, ArValid
    <2>4. Port!MpCut(hostAbort)
      BY <1>1, <1>5, <1>6, <2>1, <2>2, <2>3 DEF Port!MpCut, Port!MpAborting, Port!MpLatch, Port!MpBusy
    <2> QED BY <1>1, <2>4, PortSteps
  <1>9. CASE AxiReadOut(abort)
    <2>1. /\ axiGiven' = Append(axiGiven, axiBuffer) /\ axiOwed' = axiOwed /\ ~hostAbort /\ ~brAborted
          /\ axiState' = IF axiIndex + 1 = axiCmd.words THEN "Respond" ELSE "ReadOut"
      BY <1>2, <1>9 DEF AxiReadOut, AxiOutValid, AxiAborting, AxiFinalWord
    <2>2. PortCount' = PortCount + 1
      BY <1>3, <1>5, <2>1, Appended
    <2>3. PortState' = IF axiIndex + 1 = axiCmd.words THEN "Closing" ELSE "Moving"
      BY <1>1, <2>1 DEF PortState, AxiPoisoned
    <2>4. ~(AwValid \/ ArValid \/ axiOwed # {})'
      BY <1>6, <2>1 DEF AwValid, ArValid
    <2>5. Port!MpMove(hostAbort)
      <3>1. (PortCount + 1 = PortReq.words) = (axiIndex + 1 = axiCmd.words)
        BY <1>4, <1>5
      <3> QED BY <1>1, <1>4, <1>5, <2>1, <2>2, <2>3, <2>4, <3>1
              DEF Port!MpMove, Port!MpOutValid, Port!MpAborting, Port!MpLast
    <2> QED BY <1>1, <2>5, PortSteps
  <1>10. CASE \E c, i, o, d : AxiWait(abort, c, i, o, d)
    <2>1. UNCHANGED <<axiState, axiGiven, axiOwed>> /\ ~hostAbort /\ ~brAborted
      BY <1>2, <1>10 DEF AxiWait, AxiAborting, axiHistory
    <2>2. PortState' = PortState /\ PortCount' = PortCount
      BY <1>1, <1>3, <1>5, <2>1 DEF PortState, AxiPoisoned
    <2>3. (AwValid \/ ArValid \/ axiOwed # {})' = (AwValid \/ ArValid \/ axiOwed # {})
      BY <2>1 DEF AwValid, ArValid
    <2> QED BY <1>1, <2>1, <2>2, <2>3
  <1> QED BY <1>7, <1>8, <1>9, <1>10

\* The engine has answered, and the bridge passes it on.
LEMMA PortReports ==
    ASSUME BrInv, BrInv', PortHeld, NEW valid \in BOOLEAN, NEW ready \in BOOLEAN, NEW word, NEW req \in Request,
           Edge(valid, ready, word, req), brState = "Data", axiState = "Respond"
    PROVE  Port!MpNext
  <1>1. /\ hostAbort \in BOOLEAN /\ brAborted \in BOOLEAN /\ PortReq \in PortAsked /\ PortReq' = PortReq
        /\ brReq' = brReq /\ brState' = "Respond" /\ brAborted' = (brAborted \/ hostAbort)
    BY PortBurst
  <1>2. brFault' = IF hostAbort \/ brAborted THEN 11 ELSE axiFault
    <2>1. BrData(hostAbort)
      BY Wiring, BridgeArms
    <2> QED BY <2>1 DEF BrData, AxiDoneValid, BrRefuse, BrDataFault, BrAborting
  <1>3. axiState' = "Idle" /\ axiOwed' = axiOwed
    <2>1. AxiRetire(BusAbort(hostAbort))
      BY EngineMoves DEF BusDoneReady
    <2> QED BY <2>1 DEF AxiRetire
  <1>4. ~(AwValid \/ ArValid \/ axiOwed # {}) /\ ~(AwValid \/ ArValid \/ axiOwed # {})'
    BY <1>3, NothingOwed DEF AwValid, ArValid
  <1>5. PortState = "Closing" /\ PortState' = "Answer" /\ PortCount' = 0
    BY <1>1, <1>3 DEF PortState, PortCount, AxiPoisoned
  <1>6. axiFault \in {0, 11, 12} /\ (axiFault = 0 => PortCount = PortReq.words)
    <2>1. axiFault = 0 => PortCount = brReq.words
      BY Reported DEF PortCount
    <2> QED BY <2>1, Reported, PortRequest
  <1>7. axiFault = 11 => brAborted
    BY DEF PortHeld
  <1>8. brFault' \in IF hostAbort \/ brAborted THEN {11}
                     ELSE IF PortCount = PortReq.words THEN {0} \cup {10, 12} ELSE {10, 12}
    BY <1>2, <1>6, <1>7
  <1>9. Port!MpClose(hostAbort)
    BY <1>1, <1>4, <1>5, <1>8 DEF Port!MpClose, Port!MpLatch, Port!MpBusy, Port!MpAborting
  <1> QED BY <1>1, <1>9, PortSteps

\* Every clock edge of the bridge is one of the port, or none.
LEMMA PortEdge ==
    ASSUME BrInv, BrInv', PortHeld, NEW valid \in BOOLEAN, NEW ready \in BOOLEAN, NEW word, NEW req \in Request,
           Edge(valid, ready, word, req), brState = "Data" => word \in Words, ~BrBusy => req \in Requests
    PROVE  PortHeld' /\ [Port!MpNext]_(Port!mpVars)
  <1>1. CASE brState = "Idle"
    BY <1>1, PortIdle
  <1>2. CASE brState \in {"StartTranslate", "WaitTranslate", "StartData"}
    BY <1>2, PortOpen
  <1>3. CASE brState = "ReadPte"
    BY <1>3, PortWalk
  <1>4. CASE brState = "Respond"
    BY <1>4, PortAnswer
  <1>5. CASE brState = "Data"
    <2>1. PortHeld' /\ axiState # "Idle" /\ word \in Words
      BY <1>5, PortBurst
    <2>2. axiState \in AxiStates
      BY DEF BrInv, BurstInv, EngineInv, AxiControlTypes
    <2>3. CASE axiState = "Poisoned"
      <3>1. brReq' = brReq /\ brState' = brState /\ brAborted' = (brAborted \/ hostAbort)
        BY <1>5, <2>3, PortBurst
      <3> QED BY <2>1, <2>3, <3>1, PortDeath
    <2> QED BY <1>5, <2>1, <2>2, <2>3, PortFetch, PortWrites, PortLoads, PortGives, PortReports DEF AxiStates
  <1> QED BY <1>1, <1>2, <1>3, <1>4, <1>5 DEF BrInv, BrTypeOK, BrStates

\* And the host's remapping is none.
LEMMA PortStep ==
    ASSUME BrInv, BrInv', PortHeld, [BrNext]_brVars
    PROVE  PortHeld' /\ [Port!MpNext]_(Port!mpVars)
  <1>1. CASE UNCHANGED <<brRegs, axiVars>>
    <2>1. /\ brState' = brState /\ brReq' = brReq /\ brAborted' = brAborted /\ brFault' = brFault
          /\ axiState' = axiState /\ axiAborted' = axiAborted /\ axiFault' = axiFault
          /\ axiOwed' = axiOwed /\ axiTaken' = axiTaken /\ axiGiven' = axiGiven
      BY <1>1 DEF brRegs, axiVars, axiRegs, axiHistory
    <2>2. PortState' = PortState /\ PortReq' = PortReq /\ PortCount' = PortCount
      BY <2>1 DEF PortState, PortReq, PortCount, AxiPoisoned
    <2>3. PortHeld'
      BY <2>1 DEF PortHeld
    <2> QED BY <2>1, <2>2, <2>3 DEF AwValid, ArValid
  <1>2. CASE BrHostRemap
    BY <1>1, <1>2 DEF BrHostRemap
  <1>3. CASE UNCHANGED brVars
    BY <1>1, <1>3 DEF brVars, brMachine
  <1> QED BY <1>2, <1>3, Steps, PortEdge

LEMMA PortStart == ASSUME BrStart PROVE PortHeld /\ Port!MpInit
  BY DEF BrStart, BrInit, AxiInit, PortHeld, Port!MpInit, Port!mpNoReq, PortState, PortReq, PortCount,
         AxiPoisoned, AwValid, ArValid

(* What the fabric above relies on, for any tables, requests and behaviour   *)
(* of DDR: every step of bridge, translator and engine together is a step of *)
(* the port's contract or invisible to it.  So at most one request is open,  *)
(* its words cross in one go, fault 0 is answered only after all of them,    *)
(* and the bus is used only while a request is open.                         *)
THEOREM BrPort == BrSpec => BrImplementsPort
  <1> DEFINE Held == BrInv /\ PortHeld
  <1>1. BrStart => Held /\ Port!MpInit
    BY StartInv, PortStart
  <1>2. Held /\ [BrNext]_brVars => Held' /\ [Port!MpNext]_(Port!mpVars)
    BY NextKeeps, PortStep
  <1> HIDE DEF Held
  <1> QED BY <1>1, <1>2, PTL DEF BrSpec, BrImplementsPort, Port!MpSpec
=============================================================================
