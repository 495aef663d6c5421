------------------------- MODULE HartService_proofs -------------------------
(***************************************************************************)
(* Theorems about the two harts, for any jobs, any size of the sequence    *)
(* numbers from three on, any context and any number of calls: a call is   *)
(* served exactly once and returns how it went, and the control page tells *)
(* the truth wherever a run is stopped.                                    *)
(***************************************************************************)
EXTENDS HartService, TLAPS

-----------------------------------------------------------------------------
(* The inductive invariant. *)

BootWrites == {"ClearMagic", "ClearReady", "ClearRequest", "ClearCompletion", "ClearStatus", "ClearCount", "SetMagic"}
Booting == {"Validate", "Open", "ClearAnswer"} \cup BootWrites
InCalls == {"Publish", "Ring", "Await", "Sleep", "Read", "Collect", "Compare"}
Between == {"Chunk", "Select", "Report"}
H0States == {"Off", "WaitReady", "Finish", "Halt"} \cup Booting \cup InCalls \cup Between
H1States ==
    {"Off", "Begin", "WaitMagic", "SetReady", "Wait", "Sleep", "Take", "AckRequest", "Check", "Execute",
     "SetStatus", "SetCompletion", "Answer", "Halt"}

Seqs == 0 .. SeqSize - 1
Statuses == {"Ok", "Failed"}
Errors == {"None", "Request", "Model", "Prefill", "Decode"}

Controls == [state : Nat, error : Errors, cache : Nat, generated : Nat, transfers : Nat]
Records ==
    [magic : BOOLEAN, ready : BOOLEAN, request : Seqs, completion : Seqs,
     status : Statuses, transfers : Nat, job : Jobs \cup {NoJob}]

HsTypeOK ==
    /\ hsHost \in {"Idle", "Loaded", "Running"} /\ hsRequest \in Requests /\ hsCancel \in BOOLEAN /\ hsDone \in BOOLEAN
    /\ hsControl \in Controls /\ hsShared \in Records
    /\ mbData \in [0 .. 1 -> Seqs] /\ mbPend \in [0 .. 1 -> BOOLEAN]
    /\ h0pc \in H0States /\ h0seq \in Seqs /\ h0returned \in Seqs /\ h0committed \in Nat /\ h0step \in Nat
    /\ h1pc \in H1States /\ h1seq \in Seqs /\ h1status \in Statuses /\ h1job \in Jobs \cup {NoJob}
    /\ hsCalls \in Nat /\ hsMoves \in Nat

\* Both harts are off until the runner starts them on a blank record.
HeldOff ==
    /\ hsHost # "Running" \/ hsCancel => h0pc = "Off"
    /\ h0pc = "Off" <=> h1pc = "Off"
    /\ hsHost = "Loaded" => hsShared = BlankShared

\* Nothing is on its way between the harts.
Quiet == ~mbPend[0] /\ ~mbPend[1]
Resting == h1pc \in {"Wait", "Sleep"} /\ Quiet

\* The record when hart 0 has set it up, and when hart 1 has said it is ready.
Greeted == [BlankShared EXCEPT !.magic = TRUE]
Met == [Greeted EXCEPT !.ready = TRUE]

\* Hart 1 does not pass the magic word before hart 0 has written it, and its
\* ready word is not cleared any more once it has.
Boots ==
    /\ h0pc \in Booting => hsShared = BlankShared /\ h1pc \in {"Begin", "WaitMagic"} /\ Quiet
    /\ h0pc = "WaitReady" =>
          /\ hsShared = IF h1pc \in {"Wait", "Sleep"} THEN Met ELSE Greeted
          /\ h1pc \in {"Begin", "WaitMagic", "SetReady", "Wait", "Sleep"} /\ Quiet

\* The stations of a call: hart 1 has the number in its mailbox, has taken it,
\* has run the job, has completed it, and has answered.
Asked ==
    /\ h1pc \in {"Wait", "Sleep", "Take", "AckRequest"}
    /\ mbPend[0] /\ mbData[0] = h0seq /\ ~mbPend[1]
    /\ h1pc = "AckRequest" => h1seq = h0seq
Taken ==
    /\ h1pc \in {"Check", "Execute", "SetStatus", "SetCompletion", "Halt"} /\ Quiet /\ h1seq = h0seq
    /\ h1pc = "Execute" => h1job = hsShared.job
    /\ h1pc = "SetCompletion" => hsShared.status = h1status
Completed == h1pc = "Answer" /\ Quiet /\ h1seq = h0seq
Returned == h1pc \in {"Wait", "Sleep"} /\ mbPend[1] /\ ~mbPend[0] /\ mbData[1] = h0seq

\* Where a call is, as hart 0 sees it.
Serves ==
    /\ h0pc \in Between => Resting /\ hsShared.completion = hsShared.request
    /\ h0pc \in InCalls => h0seq # 0 /\ hsShared.job \in Jobs
    /\ h0pc = "Publish" => Resting /\ hsShared.request # h0seq /\ hsShared.completion # h0seq
    /\ h0pc = "Ring" => Resting /\ hsShared.completion # h0seq
    /\ h0pc \in InCalls \ {"Publish"} => hsShared.request = h0seq
    /\ h0pc \in {"Await", "Sleep"} =>
          IF hsShared.completion = h0seq THEN Completed \/ Returned ELSE Asked \/ Taken
    /\ h0pc \in {"Read", "Collect"} => Returned /\ hsShared.completion = h0seq
    /\ h0pc \in {"Collect", "Compare"} => h0returned = h0seq
    /\ h0pc = "Compare" => Resting /\ hsShared.completion = h0seq

\* What became of the job, once it has run.
Outcome == IF h1pc = "SetStatus" THEN h1status ELSE hsShared.status

\* Every transfer that was made is counted, unless its job failed.
Counts ==
    /\ h0pc \in Booting \cup {"WaitReady"} => hsCalls = 0 /\ hsMoves = 0
    /\ h0pc \in Between => hsShared.transfers = hsMoves
    /\ h0pc \in InCalls => IF HasRun THEN Outcome = "Ok" => hsMoves = hsShared.transfers
                           ELSE hsMoves = hsShared.transfers + (IF hsShared.job \in Transfers THEN 1 ELSE 0)

\* The control page follows the generation loop.
Running == h0pc \notin {"Off", "Finish", "Halt"}

Generates ==
    /\ Running => hsControl.error = "None" /\ hsControl.state # 4
                  /\ hsControl.cache = h0committed /\ hsControl.generated = h0step
    /\ h0pc \in Booting \cup {"WaitReady"} => h0committed = 0 /\ h0step = 0
    /\ Running /\ h0pc # "Validate" => Valid(hsRequest)
    /\ h0pc \in {"Chunk"} \cup InCalls =>
          /\ h0step < hsRequest.generation
          /\ h0committed = IF h0step = 0 THEN 0 ELSE hsRequest.prompt + h0step - 1
    /\ h0pc = "Select" => h0step < hsRequest.generation /\ h0committed = hsRequest.prompt + h0step
    /\ h0pc = "Report" => /\ h0step = hsRequest.generation
                          /\ h0committed = hsRequest.prompt + h0step - 1

HsInv == HsTypeOK /\ HeldOff /\ Boots /\ Serves /\ Counts /\ Generates /\ HsReport
-----------------------------------------------------------------------------
(* The operators of the model. *)

LEMMA RequestType == ASSUME hsRequest \in Requests
                     PROVE  hsRequest.prompt \in Nat /\ hsRequest.generation \in Nat
  BY HsAssumption DEF Requests

LEMMA FailsWithFacts == ASSUME hsControl \in Controls, NEW error \in Errors, FailsWith(error)
                        PROVE  /\ hsControl' \in Controls /\ h0pc' = "Finish"
                               /\ hsControl'.state = 5 /\ hsControl'.error = error
                               /\ hsControl'.cache = hsControl.cache
                               /\ hsControl'.generated = hsControl.generated
  BY DEF Controls, FailsWith

\* A sequence number is never zero and never the one before it.
LEMMA NextSeqFacts == ASSUME NEW n \in Seqs PROVE NextSeq(n) \in Seqs /\ NextSeq(n) # 0 /\ NextSeq(n) # n
  <1>0. SeqSize \in Nat /\ SeqSize > 2 /\ n \in 0 .. SeqSize - 1
    BY HsAssumption DEF Seqs
  <1>1. CASE n + 1 < SeqSize
    <2>1. (n + 1) % SeqSize = n + 1
      BY <1>0, <1>1
    <2> QED BY <1>0, <1>1, <2>1 DEF NextSeq, Seqs
  <1>2. CASE n + 1 = SeqSize
    <2>1. (n + 1) % SeqSize = 0
      BY <1>0, <1>2
    <2> QED BY <1>0, <1>2, <2>1 DEF NextSeq, Seqs
  <1> QED BY <1>0, <1>1, <1>2

-----------------------------------------------------------------------------
(* Every step of hart 0, and then every step of hart 1, keeps it. *)

LEMMA H0ValidatesKeeps == ASSUME HsInv, H0Validates PROVE HsInv'
  <1> USE DEF HsInv, H0Validates, H0Frame, H0At, hostVars, h1Vars, mbVars, countVars, h0Locals, FailsWith
  <1>r. hsRequest.prompt \in Nat /\ hsRequest.generation \in Nat
    BY RequestType DEF HsTypeOK
  <1>f. h0pc' = "Finish" => /\ hsControl' \in Controls /\ hsControl'.state = 5 /\ hsControl'.error \in {"Request"}
                            /\ hsControl'.cache = hsControl.cache
                            /\ hsControl'.generated = hsControl.generated
    BY FailsWithFacts DEF HsTypeOK, Errors
  <1>s. h0pc' \in H0States /\ (h0pc' # "Finish" => hsControl' \in Controls)
    BY DEF HsTypeOK, Controls, H0States, Booting, BootWrites, InCalls, Between
  <1>o. h0pc' = "Open" => /\ Valid(hsRequest) /\ hsControl'.state = 1 /\ hsControl'.error = hsControl.error
                          /\ hsControl'.cache = hsControl.cache /\ hsControl'.generated = hsControl.generated
    BY DEF HsTypeOK, Controls
  <1>z. (h0pc' = "Open" \/ h0pc' = "Finish") /\ h0pc = "Validate"
    OBVIOUS
  <1>v. hsRequest' = hsRequest /\ (Valid(hsRequest) <=> Valid(hsRequest)')
    BY DEF Valid
  <1>1. HsTypeOK'
    BY <1>f, <1>s DEF HsTypeOK
  <1>2. HeldOff'
    BY DEF HeldOff
  <1>3. Boots'
    BY <1>1 DEF HsTypeOK, Boots, Booting, BootWrites, Quiet, BlankShared
  <1>4. Serves'
    BY <1>1 DEF HsTypeOK, Serves, InCalls, Between, Resting, Quiet, Asked, Taken, Completed, Returned
  <1>5. Counts'
    BY <1>1 DEF HsTypeOK, Counts, Serves, Booting, BootWrites, InCalls, Between, HasRun, InCall, Outcome
  <1>6. Generates'
    BY <1>1, <1>f, <1>o, <1>z, <1>v DEF Generates, Running, Booting, BootWrites, InCalls
  <1>7. HsReport'
    BY <1>1, <1>r, <1>f, <1>o, <1>z DEF HsTypeOK, Controls, HsReport, Generates, Counts, Running, Booting
  <1> QED BY <1>1, <1>2, <1>3, <1>4, <1>5, <1>6, <1>7

LEMMA H0OpensKeeps == ASSUME HsInv, H0Opens PROVE HsInv'
  <1> USE DEF HsInv, H0Opens, H0Frame, H0At, hostVars, h1Vars, mbVars, countVars, h0Locals, FailsWith
  <1>r. hsRequest.prompt \in Nat /\ hsRequest.generation \in Nat
    BY RequestType DEF HsTypeOK
  <1>f. h0pc' = "Finish" => /\ hsControl' \in Controls /\ hsControl'.state = 5 /\ hsControl'.error \in {"Model"}
                            /\ hsControl'.cache = hsControl.cache
                            /\ hsControl'.generated = hsControl.generated
    BY FailsWithFacts DEF HsTypeOK, Errors
  <1>s. h0pc' \in H0States /\ (h0pc' # "Finish" => hsControl' \in Controls)
    BY DEF HsTypeOK, Controls, H0States, Booting, BootWrites, InCalls, Between
  <1>1. HsTypeOK'
    BY <1>f, <1>s DEF HsTypeOK
  <1>2. HeldOff'
    BY DEF HeldOff
  <1>3. Boots'
    BY <1>1 DEF HsTypeOK, Boots, Booting, BootWrites, Quiet, BlankShared
  <1>4. Serves'
    BY <1>1 DEF HsTypeOK, Serves, InCalls, Between, Resting, Quiet, Asked, Taken, Completed, Returned
  <1>5. Counts'
    BY <1>1 DEF HsTypeOK, Counts, Serves, Booting, BootWrites, InCalls, Between, HasRun, InCall, Outcome
  <1>6. Generates'
    BY <1>1 DEF HsTypeOK, Generates, Running, Booting, BootWrites, InCalls
  <1>7. HsReport'
    BY <1>1, <1>r, <1>f DEF HsTypeOK, Controls, HsReport, Generates, Running
  <1> QED BY <1>1, <1>2, <1>3, <1>4, <1>5, <1>6, <1>7

LEMMA H0PreparesKeeps == ASSUME HsInv, H0Prepares PROVE HsInv'
  <1> USE DEF HsInv, H0Prepares, H0Frame, H0At, hostVars, h1Vars, mbVars, countVars, h0Locals, PrepareWrites, BootWrites
  <1>b. hsShared = BlankShared /\ h0pc \in BootWrites /\ h0pc \in Booting
    BY DEF Boots, Booting
  <1>a. hsShared' = [hsShared EXCEPT ![PrepareWrites[h0pc].field] = PrepareWrites[h0pc].value] /\ h0pc' = PrepareWrites[h0pc].next
    BY <1>b
  <1>h. (hsShared' = BlankShared /\ h0pc' \in Booting) \/ (hsShared' = Greeted /\ h0pc' = "WaitReady")
    <2>1. CASE h0pc = "ClearMagic"
      <3>1. hsShared' = [hsShared EXCEPT !.magic = FALSE] /\ h0pc' = "ClearReady"
        BY <1>a, <2>1
      <3>2. hsShared.magic = FALSE
        BY <1>b DEF BlankShared
      <3>3. [hsShared EXCEPT !.magic = hsShared.magic] = hsShared
        BY DEF HsTypeOK, Records
      <3>4. hsShared' = BlankShared
        BY <1>b, <3>1, <3>2, <3>3, Zenon
      <3> QED BY <3>1, <3>4 DEF Booting
    <2>2. CASE h0pc = "ClearReady"
      <3>1. hsShared' = [hsShared EXCEPT !.ready = FALSE] /\ h0pc' = "ClearRequest"
        BY <1>a, <2>2
      <3>2. hsShared.ready = FALSE
        BY <1>b DEF BlankShared
      <3>3. [hsShared EXCEPT !.ready = hsShared.ready] = hsShared
        BY DEF HsTypeOK, Records
      <3>4. hsShared' = BlankShared
        BY <1>b, <3>1, <3>2, <3>3, Zenon
      <3> QED BY <3>1, <3>4 DEF Booting
    <2>3. CASE h0pc = "ClearRequest"
      <3>1. hsShared' = [hsShared EXCEPT !.request = 0] /\ h0pc' = "ClearCompletion"
        BY <1>a, <2>3
      <3>2. hsShared.request = 0
        BY <1>b DEF BlankShared
      <3>3. [hsShared EXCEPT !.request = hsShared.request] = hsShared
        BY DEF HsTypeOK, Records
      <3>4. hsShared' = BlankShared
        BY <1>b, <3>1, <3>2, <3>3, Zenon
      <3> QED BY <3>1, <3>4 DEF Booting
    <2>4. CASE h0pc = "ClearCompletion"
      <3>1. hsShared' = [hsShared EXCEPT !.completion = 0] /\ h0pc' = "ClearStatus"
        BY <1>a, <2>4
      <3>2. hsShared.completion = 0
        BY <1>b DEF BlankShared
      <3>3. [hsShared EXCEPT !.completion = hsShared.completion] = hsShared
        BY DEF HsTypeOK, Records
      <3>4. hsShared' = BlankShared
        BY <1>b, <3>1, <3>2, <3>3, Zenon
      <3> QED BY <3>1, <3>4 DEF Booting
    <2>5. CASE h0pc = "ClearStatus"
      <3>1. hsShared' = [hsShared EXCEPT !.status = "Ok"] /\ h0pc' = "ClearCount"
        BY <1>a, <2>5
      <3>2. hsShared.status = "Ok"
        BY <1>b DEF BlankShared
      <3>3. [hsShared EXCEPT !.status = hsShared.status] = hsShared
        BY DEF HsTypeOK, Records
      <3>4. hsShared' = BlankShared
        BY <1>b, <3>1, <3>2, <3>3, Zenon
      <3> QED BY <3>1, <3>4 DEF Booting
    <2>6. CASE h0pc = "ClearCount"
      <3>1. hsShared' = [hsShared EXCEPT !.transfers = 0] /\ h0pc' = "ClearAnswer"
        BY <1>a, <2>6
      <3>2. hsShared.transfers = 0
        BY <1>b DEF BlankShared
      <3>3. [hsShared EXCEPT !.transfers = hsShared.transfers] = hsShared
        BY DEF HsTypeOK, Records
      <3>4. hsShared' = BlankShared
        BY <1>b, <3>1, <3>2, <3>3, Zenon
      <3> QED BY <3>1, <3>4 DEF Booting
    <2>7. CASE h0pc = "SetMagic"
      BY <1>a, <1>b, <2>7 DEF Greeted
    <2> QED BY <1>b, <2>1, <2>2, <2>3, <2>4, <2>5, <2>6, <2>7
  <1>t. BlankShared \in Records /\ Greeted \in Records
    <2>1. BlankShared \in Records /\ BlankShared.magic = FALSE
      BY HsAssumption DEF BlankShared, Records, Seqs, Statuses
    <2> QED BY <2>1 DEF Greeted, Records
  <1>x. h1pc \in {"Begin", "WaitMagic"} /\ Quiet
    BY <1>b DEF Boots
  <1>1. HsTypeOK'
    BY <1>h, <1>t DEF HsTypeOK, H0States
  <1>2. HeldOff'
    BY <1>b, <1>h DEF HeldOff, Booting
  <1>3. Boots'
    BY <1>b, <1>h, <1>x DEF Boots, Booting, Quiet
  <1>4. Serves'
    BY <1>h DEF Serves, InCalls, Between, Booting
  <1>5. Counts'
    BY <1>b, <1>h DEF Counts, InCalls, Between, Booting
  <1>6. Generates'
    BY <1>1 DEF HsTypeOK, Generates, Running, Booting, BootWrites, InCalls
  <1>7. HsReport'
    BY <1>1 DEF HsTypeOK, HsReport
  <1> QED BY <1>1, <1>2, <1>3, <1>4, <1>5, <1>6, <1>7

LEMMA H0ClearsAnswerKeeps == ASSUME HsInv, H0ClearsAnswer PROVE HsInv'
  <1> USE DEF HsInv, H0ClearsAnswer, H0Frame, H0At, hostVars, h1Vars, mbVars, countVars, h0Locals, MbAck
  <1>1. HsTypeOK'
    BY HsAssumption DEF HsTypeOK, H0States, H1States, Booting, BootWrites, InCalls, Between, Errors, Statuses, Seqs, Requests, Controls, Records
  <1>2. HeldOff'
    BY DEF HeldOff
  <1>3. Boots'
    BY <1>1 DEF HsTypeOK, Boots, Booting, BootWrites, Quiet, BlankShared
  <1>4. Serves'
    BY <1>1 DEF HsTypeOK, Serves, InCalls, Between, Resting, Quiet, Asked, Taken, Completed, Returned
  <1>5. Counts'
    BY <1>1 DEF HsTypeOK, Counts, Serves, Booting, BootWrites, InCalls, Between, HasRun, InCall, Outcome
  <1>6. Generates'
    BY <1>1 DEF HsTypeOK, Generates, Running, Booting, BootWrites, InCalls
  <1>7. HsReport'
    BY <1>1 DEF HsTypeOK, HsReport
  <1> QED BY <1>1, <1>2, <1>3, <1>4, <1>5, <1>6, <1>7

LEMMA H0SeesReadyKeeps == ASSUME HsInv, H0SeesReady PROVE HsInv'
  <1> USE DEF HsInv, H0SeesReady, H0Frame, H0At, hostVars, h1Vars, mbVars, countVars, h0Locals
  <1>r. hsRequest.prompt \in Nat /\ hsRequest.generation \in Nat
    BY RequestType DEF HsTypeOK
  <1>b. /\ h1pc \in {"Wait", "Sleep"} /\ Quiet
        /\ hsShared.completion = 0 /\ hsShared.request = 0 /\ hsShared.transfers = 0
    BY DEF Boots, Greeted, Met, BlankShared
  <1>1. HsTypeOK'
    BY HsAssumption DEF HsTypeOK, H0States, H1States, Booting, BootWrites, InCalls, Between, Errors, Statuses, Seqs, Requests, Controls, Records
  <1>2. HeldOff'
    BY DEF HeldOff
  <1>3. Boots'
    BY <1>1 DEF HsTypeOK, Boots, Booting, BootWrites, Quiet, BlankShared
  <1>4. Serves'
    BY <1>b DEF Serves, InCalls, Between, Resting, Quiet
  <1>5. Counts'
    BY <1>b DEF Counts, Booting, BootWrites, InCalls, Between
  <1>6. Generates'
    BY <1>1, <1>r DEF HsTypeOK, Controls, Generates, Running, Booting, BootWrites, InCalls, Valid
  <1>7. HsReport'
    BY <1>1 DEF HsTypeOK, HsReport
  <1> QED BY <1>1, <1>2, <1>3, <1>4, <1>5, <1>6, <1>7

LEMMA H0FillsKeeps == ASSUME HsInv, H0Fills PROVE HsInv'
  <1> USE DEF HsInv, H0Fills, H0Frame, H0At, hostVars, h1Vars, mbVars, countVars, h0Locals
  <1>r. hsRequest.prompt \in Nat /\ hsRequest.generation \in Nat
    BY RequestType DEF HsTypeOK
  <1>n. h0seq' \in Seqs /\ h0seq' # 0 /\ h0seq' # hsShared.request
    BY NextSeqFacts DEF HsTypeOK, Records
  <1>j. PICK job \in Jobs : /\ hsShared' = [hsShared EXCEPT !.job = job, !.status = "Failed"]
                            /\ hsMoves' = IF job \in Transfers THEN hsMoves + 1 ELSE hsMoves
    OBVIOUS
  <1>s. /\ hsShared' \in Records /\ hsShared'.job \in Jobs /\ hsShared'.transfers = hsShared.transfers
        /\ hsShared'.request = hsShared.request /\ hsShared'.completion = hsShared.completion
        /\ hsMoves' = hsMoves + (IF hsShared'.job \in Transfers THEN 1 ELSE 0)
    <2>1. hsShared \in Records /\ job \in Jobs /\ "Failed" \in Statuses /\ hsMoves \in Nat
      BY DEF HsTypeOK, Statuses
    <2>2. /\ hsShared' \in Records /\ hsShared'.job = job /\ hsShared'.transfers = hsShared.transfers
          /\ hsShared'.request = hsShared.request /\ hsShared'.completion = hsShared.completion
      BY <1>j, <2>1 DEF Records
    <2>3. hsMoves' = hsMoves + (IF job \in Transfers THEN 1 ELSE 0)
      BY <1>j, <2>1
    <2> QED BY <2>1, <2>2, <2>3
  <1>q. Resting /\ hsShared.completion = hsShared.request /\ hsShared.transfers = hsMoves
    BY DEF Serves, Counts, Between
  <1>u. h0pc = "Chunk" /\ h0pc' = "Publish" /\ hsCalls' = hsCalls + 1
    OBVIOUS
  <1>1. HsTypeOK'
    BY <1>n, <1>s, <1>u DEF HsTypeOK, H0States, Booting, BootWrites, InCalls, Between
  <1>2. HeldOff'
    BY <1>u DEF HeldOff
  <1>3. Boots'
    BY <1>u DEF Boots, Booting, BootWrites
  <1>4. Serves'
    BY <1>n, <1>s, <1>q, <1>u DEF Serves, InCalls, Between, Resting, Quiet
  <1>5. Counts'
    BY <1>n, <1>s, <1>q, <1>u DEF HasRun, Counts, Booting, BootWrites, InCalls, Between, Resting
  <1>6. Generates'
    BY <1>u DEF Generates, Running, Booting, BootWrites, InCalls
  <1>7. HsReport'
    BY <1>1, <1>r, <1>u DEF HsTypeOK, Controls, HsReport, Generates, Running
  <1> QED BY <1>1, <1>2, <1>3, <1>4, <1>5, <1>6, <1>7

LEMMA H0PublishesKeeps == ASSUME HsInv, H0Publishes PROVE HsInv'
  <1> USE DEF HsInv, H0Publishes, H0Frame, H0At, hostVars, h1Vars, mbVars, countVars, h0Locals
  <1>1. HsTypeOK'
    BY HsAssumption DEF HsTypeOK, H0States, H1States, Booting, BootWrites, InCalls, Between, Errors, Statuses, Seqs, Requests, Controls, Records
  <1>2. HeldOff'
    BY DEF HeldOff
  <1>3. Boots'
    BY <1>1 DEF HsTypeOK, Boots, Booting, BootWrites, Quiet, BlankShared
  <1>4. Serves'
    BY <1>1 DEF HsTypeOK, Serves, InCalls, Between, Resting, Quiet, Asked, Taken, Completed, Returned
  <1>5. Counts'
    BY <1>1 DEF HsTypeOK, Counts, Serves, Booting, BootWrites, InCalls, Between, HasRun, InCall, Outcome
  <1>6. Generates'
    BY <1>1 DEF HsTypeOK, Generates, Running, Booting, BootWrites, InCalls
  <1>7. HsReport'
    BY <1>1 DEF HsTypeOK, HsReport
  <1> QED BY <1>1, <1>2, <1>3, <1>4, <1>5, <1>6, <1>7

LEMMA H0RingsKeeps == ASSUME HsInv, H0Rings PROVE HsInv'
  <1> USE DEF HsInv, H0Rings, H0Frame, H0At, hostVars, h1Vars, mbVars, countVars, h0Locals, MbSend
  <1>1. HsTypeOK'
    BY HsAssumption DEF HsTypeOK, H0States, H1States, Booting, BootWrites, InCalls, Between, Errors, Statuses, Seqs, Requests, Controls, Records
  <1>2. HeldOff'
    BY DEF HeldOff
  <1>3. Boots'
    BY <1>1 DEF HsTypeOK, Boots, Booting, BootWrites, Quiet, BlankShared
  <1>4. Serves'
    BY <1>1 DEF HsTypeOK, Serves, InCalls, Between, Resting, Quiet, Asked, Taken, Completed, Returned
  <1>5. Counts'
    BY <1>1 DEF HsTypeOK, Counts, Serves, Booting, BootWrites, InCalls, Between, HasRun, InCall, Outcome
  <1>6. Generates'
    BY <1>1 DEF HsTypeOK, Generates, Running, Booting, BootWrites, InCalls
  <1>7. HsReport'
    BY <1>1 DEF HsTypeOK, HsReport
  <1> QED BY <1>1, <1>2, <1>3, <1>4, <1>5, <1>6, <1>7

LEMMA H0AwaitsKeeps == ASSUME HsInv, H0Awaits PROVE HsInv'
  <1> USE DEF HsInv, H0Awaits, H0Frame, H0At, hostVars, h1Vars, mbVars, countVars, h0Locals
  <1>1. HsTypeOK'
    BY HsAssumption DEF HsTypeOK, H0States, H1States, Booting, BootWrites, InCalls, Between, Errors, Statuses, Seqs, Requests, Controls, Records
  <1>2. HeldOff'
    BY DEF HeldOff
  <1>3. Boots'
    BY <1>1 DEF HsTypeOK, Boots, Booting, BootWrites, Quiet, BlankShared
  <1>4. Serves'
    BY <1>1 DEF HsTypeOK, Serves, InCalls, Between, Resting, Quiet, Asked, Taken, Completed, Returned
  <1>5. Counts'
    BY <1>1 DEF HsTypeOK, Counts, Serves, Booting, BootWrites, InCalls, Between, HasRun, InCall, Outcome
  <1>6. Generates'
    BY <1>1 DEF HsTypeOK, Generates, Running, Booting, BootWrites, InCalls
  <1>7. HsReport'
    BY <1>1 DEF HsTypeOK, HsReport
  <1> QED BY <1>1, <1>2, <1>3, <1>4, <1>5, <1>6, <1>7

LEMMA H0ReadsKeeps == ASSUME HsInv, H0Reads PROVE HsInv'
  <1> USE DEF HsInv, H0Reads, H0Frame, H0At, hostVars, h1Vars, mbVars, countVars, h0Locals
  <1>1. HsTypeOK'
    BY HsAssumption DEF HsTypeOK, H0States, H1States, Booting, BootWrites, InCalls, Between, Errors, Statuses, Seqs, Requests, Controls, Records
  <1>2. HeldOff'
    BY DEF HeldOff
  <1>3. Boots'
    BY <1>1 DEF HsTypeOK, Boots, Booting, BootWrites, Quiet, BlankShared
  <1>4. Serves'
    BY <1>1 DEF HsTypeOK, Serves, InCalls, Between, Resting, Quiet, Asked, Taken, Completed, Returned
  <1>5. Counts'
    BY <1>1 DEF HsTypeOK, Counts, Serves, Booting, BootWrites, InCalls, Between, HasRun, InCall, Outcome
  <1>6. Generates'
    BY <1>1 DEF HsTypeOK, Generates, Running, Booting, BootWrites, InCalls
  <1>7. HsReport'
    BY <1>1 DEF HsTypeOK, HsReport
  <1> QED BY <1>1, <1>2, <1>3, <1>4, <1>5, <1>6, <1>7

LEMMA H0CollectsKeeps == ASSUME HsInv, H0Collects PROVE HsInv'
  <1> USE DEF HsInv, H0Collects, H0Frame, H0At, hostVars, h1Vars, mbVars, countVars, h0Locals, MbAck
  <1>1. HsTypeOK'
    BY HsAssumption DEF HsTypeOK, H0States, H1States, Booting, BootWrites, InCalls, Between, Errors, Statuses, Seqs, Requests, Controls, Records
  <1>2. HeldOff'
    BY DEF HeldOff
  <1>3. Boots'
    BY <1>1 DEF HsTypeOK, Boots, Booting, BootWrites, Quiet, BlankShared
  <1>4. Serves'
    BY <1>1 DEF HsTypeOK, Serves, InCalls, Between, Resting, Quiet, Asked, Taken, Completed, Returned
  <1>5. Counts'
    BY <1>1 DEF HsTypeOK, Counts, Serves, Booting, BootWrites, InCalls, Between, HasRun, InCall, Outcome
  <1>6. Generates'
    BY <1>1 DEF HsTypeOK, Generates, Running, Booting, BootWrites, InCalls
  <1>7. HsReport'
    BY <1>1 DEF HsTypeOK, HsReport
  <1> QED BY <1>1, <1>2, <1>3, <1>4, <1>5, <1>6, <1>7

LEMMA H0ComparesKeeps == ASSUME HsInv, H0Compares PROVE HsInv'
  <1> USE DEF HsInv, H0Compares, H0Frame, H0At, hostVars, h1Vars, mbVars, countVars, h0Locals, FailsWith, CallSucceeded, PartError
  <1>r. hsRequest.prompt \in Nat /\ hsRequest.generation \in Nat
    BY RequestType DEF HsTypeOK
  <1>f. h0pc' = "Finish" => /\ hsControl' \in Controls /\ hsControl'.state = 5 /\ hsControl'.error \in {"Prefill", "Decode"}
                            /\ hsControl'.cache = hsControl.cache
                            /\ hsControl'.generated = hsControl.generated
    BY FailsWithFacts DEF HsTypeOK, Errors
  <1>s. h0pc' \in H0States /\ (h0pc' # "Finish" => hsControl' \in Controls)
    BY DEF HsTypeOK, Controls, H0States, Booting, BootWrites, InCalls, Between
  <1>1. HsTypeOK'
    BY <1>f, <1>s DEF HsTypeOK
  <1>2. HeldOff'
    BY DEF HeldOff
  <1>3. Boots'
    BY <1>1 DEF HsTypeOK, Boots, Booting, BootWrites, Quiet, BlankShared
  <1>4. Serves'
    BY <1>1 DEF HsTypeOK, Serves, InCalls, Between, Resting, Quiet, Asked, Taken, Completed, Returned
  <1>5. Counts'
    BY <1>1, <1>f DEF HsTypeOK, Counts, Serves, Booting, BootWrites, InCalls, Between, HasRun, InCall, Outcome, Resting
  <1>6. Generates'
    BY <1>1 DEF HsTypeOK, Generates, Running, Booting, BootWrites, InCalls
  <1>7. HsReport'
    BY <1>1, <1>r, <1>f DEF HsTypeOK, Controls, HsReport, Generates, Running
  <1> QED BY <1>1, <1>2, <1>3, <1>4, <1>5, <1>6, <1>7

LEMMA H0GivesUpKeeps == ASSUME HsInv, H0GivesUp PROVE HsInv'
  <1> USE DEF HsInv, H0GivesUp, H0Frame, H0At, hostVars, h1Vars, mbVars, countVars, h0Locals, FailsWith, PartError
  <1>r. hsRequest.prompt \in Nat /\ hsRequest.generation \in Nat
    BY RequestType DEF HsTypeOK
  <1>f. h0pc' = "Finish" => /\ hsControl' \in Controls /\ hsControl'.state = 5 /\ hsControl'.error \in {"Prefill", "Decode"}
                            /\ hsControl'.cache = hsControl.cache
                            /\ hsControl'.generated = hsControl.generated
    BY FailsWithFacts DEF HsTypeOK, Errors
  <1>s. h0pc' \in H0States /\ (h0pc' # "Finish" => hsControl' \in Controls)
    BY DEF HsTypeOK, Controls, H0States, Booting, BootWrites, InCalls, Between
  <1>1. HsTypeOK'
    BY <1>f, <1>s DEF HsTypeOK
  <1>2. HeldOff'
    BY DEF HeldOff
  <1>3. Boots'
    BY <1>1 DEF HsTypeOK, Boots, Booting, BootWrites, Quiet, BlankShared
  <1>4. Serves'
    BY <1>1 DEF HsTypeOK, Serves, InCalls, Between, Resting, Quiet, Asked, Taken, Completed, Returned
  <1>5. Counts'
    BY <1>1 DEF HsTypeOK, Counts, Serves, Booting, BootWrites, InCalls, Between, HasRun, InCall, Outcome
  <1>6. Generates'
    BY <1>1 DEF HsTypeOK, Generates, Running, Booting, BootWrites, InCalls
  <1>7. HsReport'
    BY <1>1, <1>r, <1>f DEF HsTypeOK, Controls, HsReport, Generates, Running
  <1> QED BY <1>1, <1>2, <1>3, <1>4, <1>5, <1>6, <1>7

LEMMA H0CommitsKeeps == ASSUME HsInv, H0Commits PROVE HsInv'
  <1> USE DEF HsInv, H0Commits, H0Frame, H0At, hostVars, h1Vars, mbVars, countVars, h0Locals
  <1>r. hsRequest.prompt \in Nat /\ hsRequest.generation \in Nat
    BY RequestType DEF HsTypeOK
  <1>c. /\ hsControl' \in Controls /\ h0committed' = hsRequest.prompt + h0step
        /\ hsControl'.cache = h0committed' /\ hsControl'.state = hsControl.state
        /\ hsControl'.error = hsControl.error /\ hsControl'.generated = hsControl.generated
    BY <1>r DEF HsTypeOK, Controls, Generates
  <1>v. /\ hsRequest.prompt >= 1 /\ hsRequest.prompt + hsRequest.generation <= MaxContext
        /\ h0step < hsRequest.generation /\ hsControl.error = "None" /\ hsControl.state # 4 /\ hsControl.generated = h0step
    BY <1>r, HsAssumption DEF Generates, Running, Valid
  <1>1. HsTypeOK'
    BY <1>r, <1>c DEF HsTypeOK, H0States, Booting, BootWrites, InCalls, Between
  <1>2. HeldOff'
    BY DEF HeldOff
  <1>3. Boots'
    BY <1>1 DEF HsTypeOK, Boots, Booting, BootWrites, Quiet, BlankShared
  <1>4. Serves'
    BY <1>1 DEF HsTypeOK, Serves, InCalls, Between, Resting, Quiet, Asked, Taken, Completed, Returned
  <1>5. Counts'
    BY <1>1 DEF HsTypeOK, Counts, Serves, Booting, BootWrites, InCalls, Between, HasRun, InCall, Outcome
  <1>6. Generates'
    BY <1>1, <1>r, <1>c, <1>v DEF HsTypeOK, Controls, Generates, Running, Booting, BootWrites, InCalls
  <1>7. HsReport'
    BY <1>1, <1>r, <1>c, <1>v, HsAssumption DEF HsTypeOK, Controls, HsReport
  <1> QED BY <1>1, <1>2, <1>3, <1>4, <1>5, <1>6, <1>7

LEMMA H0SelectsKeeps == ASSUME HsInv, H0Selects PROVE HsInv'
  <1> USE DEF HsInv, H0Selects, H0Frame, H0At, hostVars, h1Vars, mbVars, countVars, h0Locals, MoreTokens
  <1>r. hsRequest.prompt \in Nat /\ hsRequest.generation \in Nat
    BY RequestType DEF HsTypeOK
  <1>c. /\ hsControl' \in Controls /\ h0step' = h0step + 1 /\ h0committed' = h0committed
        /\ hsControl'.cache = hsControl.cache /\ hsControl'.state = hsControl.state
        /\ hsControl'.error = hsControl.error /\ hsControl'.generated = h0step'
    BY <1>r DEF HsTypeOK, Controls
  <1>v. /\ hsRequest.prompt >= 1 /\ hsRequest.prompt + hsRequest.generation <= MaxContext
        /\ h0step < hsRequest.generation /\ hsControl.error = "None" /\ hsControl.state # 4
        /\ h0committed = hsRequest.prompt + h0step /\ hsControl.cache = h0committed /\ hsControl.generated = h0step
    BY <1>r, HsAssumption DEF Generates, Running, Valid
  <1>n. h0pc' = IF h0step' < hsRequest.generation THEN "Chunk" ELSE "Report"
    OBVIOUS
  <1>1. HsTypeOK'
    BY HsAssumption DEF HsTypeOK, H0States, H1States, Booting, BootWrites, InCalls, Between, Errors, Statuses, Seqs, Requests, Controls, Records
  <1>2. HeldOff'
    BY DEF HeldOff
  <1>3. Boots'
    BY <1>1 DEF HsTypeOK, Boots, Booting, BootWrites, Quiet, BlankShared
  <1>4. Serves'
    BY <1>1 DEF HsTypeOK, Serves, InCalls, Between, Resting, Quiet, Asked, Taken, Completed, Returned
  <1>5. Counts'
    BY <1>1 DEF HsTypeOK, Counts, Serves, Booting, BootWrites, InCalls, Between, HasRun, InCall, Outcome
  <1>6. Generates'
    BY <1>1, <1>r, <1>c, <1>v, <1>n DEF HsTypeOK, Controls, Generates, Running, Booting, BootWrites, InCalls
  <1>7. HsReport'
    BY <1>1, <1>r, <1>c, <1>v, HsAssumption DEF HsTypeOK, Controls, HsReport
  <1> QED BY <1>1, <1>2, <1>3, <1>4, <1>5, <1>6, <1>7

LEMMA H0ReportsKeeps == ASSUME HsInv, H0Reports PROVE HsInv'
  <1> USE DEF HsInv, H0Reports, H0Frame, H0At, hostVars, h1Vars, mbVars, countVars, h0Locals
  <1>r. hsRequest.prompt \in Nat /\ hsRequest.generation \in Nat
    BY RequestType DEF HsTypeOK
  <1>c. /\ hsControl' \in Controls /\ hsControl'.cache = hsControl.cache /\ hsControl'.transfers = hsShared.transfers
        /\ hsControl'.error = hsControl.error /\ hsControl'.generated = hsControl.generated
    BY DEF HsTypeOK, Controls, Records
  <1>1. HsTypeOK'
    BY <1>c DEF HsTypeOK, H0States, Booting, BootWrites, InCalls, Between
  <1>2. HeldOff'
    BY DEF HeldOff
  <1>3. Boots'
    BY <1>1 DEF HsTypeOK, Boots, Booting, BootWrites, Quiet, BlankShared
  <1>4. Serves'
    BY <1>1 DEF HsTypeOK, Serves, InCalls, Between, Resting, Quiet, Asked, Taken, Completed, Returned
  <1>5. Counts'
    BY <1>1 DEF HsTypeOK, Counts, Serves, Booting, BootWrites, InCalls, Between, HasRun, InCall, Outcome
  <1>6. Generates'
    BY <1>1 DEF HsTypeOK, Generates, Running, Booting, BootWrites, InCalls
  <1>7. HsReport'
    BY <1>1, <1>r, <1>c DEF HsTypeOK, Controls, HsReport, Generates, Running, Counts, Between, Valid
  <1> QED BY <1>1, <1>2, <1>3, <1>4, <1>5, <1>6, <1>7

LEMMA H0FinishesKeeps == ASSUME HsInv, H0Finishes PROVE HsInv'
  <1> USE DEF HsInv, H0Finishes, H0Frame, H0At, hostVars, h1Vars, mbVars, countVars, h0Locals
  <1>1. HsTypeOK'
    BY HsAssumption DEF HsTypeOK, H0States, H1States, Booting, BootWrites, InCalls, Between, Errors, Statuses, Seqs, Requests, Controls, Records
  <1>2. HeldOff'
    BY DEF HeldOff
  <1>3. Boots'
    BY <1>1 DEF HsTypeOK, Boots, Booting, BootWrites, Quiet, BlankShared
  <1>4. Serves'
    BY <1>1 DEF HsTypeOK, Serves, InCalls, Between, Resting, Quiet, Asked, Taken, Completed, Returned
  <1>5. Counts'
    BY <1>1 DEF HsTypeOK, Counts, Serves, Booting, BootWrites, InCalls, Between, HasRun, InCall, Outcome
  <1>6. Generates'
    BY <1>1 DEF HsTypeOK, Generates, Running, Booting, BootWrites, InCalls
  <1>7. HsReport'
    BY <1>1 DEF HsTypeOK, HsReport
  <1> QED BY <1>1, <1>2, <1>3, <1>4, <1>5, <1>6, <1>7

LEMMA H0TrapsKeeps == ASSUME HsInv, H0Traps PROVE HsInv'
  <1> USE DEF HsInv, H0Traps, H0Frame, H0At, hostVars, h1Vars, mbVars, countVars, h0Locals
  <1>1. HsTypeOK'
    BY HsAssumption DEF HsTypeOK, H0States, H1States, Booting, BootWrites, InCalls, Between, Errors, Statuses, Seqs, Requests, Controls, Records
  <1>2. HeldOff'
    BY DEF HeldOff
  <1>3. Boots'
    BY <1>1 DEF HsTypeOK, Boots, Booting, BootWrites, Quiet, BlankShared
  <1>4. Serves'
    BY <1>1 DEF HsTypeOK, Serves, InCalls, Between, Resting, Quiet, Asked, Taken, Completed, Returned
  <1>5. Counts'
    BY <1>1 DEF HsTypeOK, Counts, Serves, Booting, BootWrites, InCalls, Between, HasRun, InCall, Outcome
  <1>6. Generates'
    BY <1>1 DEF HsTypeOK, Generates, Running, Booting, BootWrites, InCalls
  <1>7. HsReport'
    BY <1>1 DEF HsTypeOK, HsReport
  <1> QED BY <1>1, <1>2, <1>3, <1>4, <1>5, <1>6, <1>7

\* Hart 1 writes neither the control page nor anything of the generation loop.
LEMMA ControlKept ==
    ASSUME HsInv, UNCHANGED <<hsRequest, hsControl, hsCalls, hsMoves, h0pc, h0committed, h0step>>
    PROVE  Generates' /\ HsReport'
  BY DEF HsInv, Generates, HsReport, Running, Valid

LEMMA H1BeginsKeeps == ASSUME HsInv, H1Begins PROVE HsInv'
  <1> USE DEF HsInv, H1Begins, H1Frame, H1At, hostVars, mbVars, h0Vars, countVars, h0Locals, MbAck
  <1>1. HsTypeOK'
    BY HsAssumption DEF HsTypeOK, H0States, H1States, Booting, BootWrites, InCalls, Between, Errors, Statuses, Seqs, Requests, Controls, Records
  <1>2. HeldOff'
    BY DEF HeldOff
  <1>3. Boots'
    BY <1>1 DEF HsTypeOK, Boots, Booting, BootWrites, Quiet, BlankShared
  <1>4. Serves'
    BY <1>1 DEF HsTypeOK, Serves, InCalls, Between, Resting, Quiet, Asked, Taken, Completed, Returned
  <1>5. Counts'
    BY <1>1 DEF HsTypeOK, Counts, Serves, Booting, BootWrites, InCalls, Between, HasRun, InCall, Outcome
  <1>6. Generates' /\ HsReport'
    BY ControlKept
  <1> QED BY <1>1, <1>2, <1>3, <1>4, <1>5, <1>6

LEMMA H1SeesMagicKeeps == ASSUME HsInv, H1SeesMagic PROVE HsInv'
  <1> USE DEF HsInv, H1SeesMagic, H1Frame, H1At, hostVars, mbVars, h0Vars, countVars, h0Locals
  <1>1. HsTypeOK'
    BY HsAssumption DEF HsTypeOK, H0States, H1States, Booting, BootWrites, InCalls, Between, Errors, Statuses, Seqs, Requests, Controls, Records
  <1>2. HeldOff'
    BY DEF HeldOff
  <1>3. Boots'
    BY <1>1 DEF HsTypeOK, Boots, Booting, BootWrites, Quiet, BlankShared
  <1>4. Serves'
    BY <1>1 DEF HsTypeOK, Serves, InCalls, Between, Resting, Quiet, Asked, Taken, Completed, Returned
  <1>5. Counts'
    BY <1>1 DEF HsTypeOK, Counts, Serves, Booting, BootWrites, InCalls, Between, HasRun, InCall, Outcome
  <1>6. Generates' /\ HsReport'
    BY ControlKept
  <1> QED BY <1>1, <1>2, <1>3, <1>4, <1>5, <1>6

LEMMA H1SetsReadyKeeps == ASSUME HsInv, H1SetsReady PROVE HsInv'
  <1> USE DEF HsInv, H1SetsReady, H1Frame, H1At, hostVars, mbVars, h0Vars, countVars, h0Locals
  <1>s. hsShared' \in Records
    BY DEF HsTypeOK, Records
  <1>b. h0pc = "WaitReady" => hsShared' = Met
    BY DEF Boots, Greeted, Met, BlankShared
  <1>1. HsTypeOK'
    BY <1>s DEF HsTypeOK, H1States
  <1>2. HeldOff'
    BY DEF HeldOff
  <1>3. Boots'
    BY <1>b DEF Boots, Quiet
  <1>4. Serves'
    BY <1>1 DEF HsTypeOK, Serves, InCalls, Between, Resting, Quiet, Asked, Taken, Completed, Returned
  <1>5. Counts'
    BY <1>1 DEF HsTypeOK, Counts, Serves, Booting, BootWrites, InCalls, Between, HasRun, InCall, Outcome
  <1>6. Generates' /\ HsReport'
    BY ControlKept
  <1> QED BY <1>1, <1>2, <1>3, <1>4, <1>5, <1>6

LEMMA H1WaitsKeeps == ASSUME HsInv, H1Waits PROVE HsInv'
  <1> USE DEF HsInv, H1Waits, H1Frame, H1At, hostVars, mbVars, h0Vars, countVars, h0Locals
  <1>1. HsTypeOK'
    BY HsAssumption DEF HsTypeOK, H0States, H1States, Booting, BootWrites, InCalls, Between, Errors, Statuses, Seqs, Requests, Controls, Records
  <1>2. HeldOff'
    BY DEF HeldOff
  <1>3. Boots'
    BY DEF HsTypeOK, Boots, Quiet
  <1>4. Serves'
    BY <1>1 DEF HsTypeOK, Serves, InCalls, Between, Resting, Quiet, Asked, Taken, Completed, Returned
  <1>5. Counts'
    BY <1>1 DEF HsTypeOK, Counts, Serves, Booting, BootWrites, InCalls, Between, HasRun, InCall, Outcome
  <1>6. Generates' /\ HsReport'
    BY ControlKept
  <1> QED BY <1>1, <1>2, <1>3, <1>4, <1>5, <1>6

LEMMA H1TakesKeeps == ASSUME HsInv, H1Takes PROVE HsInv'
  <1> USE DEF HsInv, H1Takes, H1Frame, H1At, hostVars, mbVars, h0Vars, countVars, h0Locals
  <1>1. HsTypeOK'
    BY HsAssumption DEF HsTypeOK, H0States, H1States, Booting, BootWrites, InCalls, Between, Errors, Statuses, Seqs, Requests, Controls, Records
  <1>2. HeldOff'
    BY DEF HeldOff
  <1>3. Boots'
    BY <1>1 DEF HsTypeOK, Boots, Booting, BootWrites, Quiet, BlankShared
  <1>4. Serves'
    BY <1>1 DEF HsTypeOK, Serves, InCalls, Between, Resting, Quiet, Asked, Taken, Completed, Returned
  <1>5. Counts'
    BY <1>1 DEF HsTypeOK, Counts, Serves, Booting, BootWrites, InCalls, Between, HasRun, InCall, Outcome
  <1>6. Generates' /\ HsReport'
    BY ControlKept
  <1> QED BY <1>1, <1>2, <1>3, <1>4, <1>5, <1>6

LEMMA H1AcksKeeps == ASSUME HsInv, H1Acks PROVE HsInv'
  <1> USE DEF HsInv, H1Acks, H1Frame, H1At, hostVars, mbVars, h0Vars, countVars, h0Locals, MbAck
  <1>1. HsTypeOK'
    BY HsAssumption DEF HsTypeOK, H0States, H1States, Booting, BootWrites, InCalls, Between, Errors, Statuses, Seqs, Requests, Controls, Records
  <1>2. HeldOff'
    BY DEF HeldOff
  <1>3. Boots'
    BY <1>1 DEF HsTypeOK, Boots, Booting, BootWrites, Quiet, BlankShared
  <1>4. Serves'
    BY <1>1 DEF HsTypeOK, Serves, InCalls, Between, Resting, Quiet, Asked, Taken, Completed, Returned
  <1>5. Counts'
    BY <1>1 DEF HsTypeOK, Counts, Serves, Booting, BootWrites, InCalls, Between, HasRun, InCall, Outcome
  <1>6. Generates' /\ HsReport'
    BY ControlKept
  <1> QED BY <1>1, <1>2, <1>3, <1>4, <1>5, <1>6

LEMMA H1ChecksKeeps == ASSUME HsInv, H1Checks PROVE HsInv'
  <1> USE DEF HsInv, H1Checks, H1Frame, H1At, hostVars, mbVars, h0Vars, countVars, h0Locals
  <1>1. HsTypeOK'
    BY HsAssumption DEF HsTypeOK, H0States, H1States, Booting, BootWrites, InCalls, Between, Errors, Statuses, Seqs, Requests, Controls, Records
  <1>2. HeldOff'
    BY DEF HeldOff
  <1>3. Boots'
    BY <1>1 DEF HsTypeOK, Boots, Booting, BootWrites, Quiet, BlankShared
  <1>4. Serves'
    BY <1>1 DEF HsTypeOK, Serves, InCalls, Between, Resting, Quiet, Asked, Taken, Completed, Returned
  <1>5. Counts'
    BY <1>1 DEF HsTypeOK, Counts, Serves, Booting, BootWrites, InCalls, Between, HasRun, InCall, Outcome
  <1>6. Generates' /\ HsReport'
    BY ControlKept
  <1> QED BY <1>1, <1>2, <1>3, <1>4, <1>5, <1>6

LEMMA H1ExecutesKeeps == ASSUME HsInv, H1Executes PROVE HsInv'
  <1> USE DEF HsInv, H1Executes, H1Frame, H1At, hostVars, mbVars, h0Vars, countVars, h0Locals
  <1>p. /\ h1pc = "Execute" /\ h1pc' = "SetStatus" /\ h1seq' = h1seq
        /\ h0pc' = h0pc /\ h0seq' = h0seq /\ h0returned' = h0returned
        /\ hsMoves' = hsMoves /\ hsCalls' = hsCalls /\ mbData' = mbData /\ mbPend' = mbPend
    OBVIOUS
  <1>c. h0pc \in Booting \cup Between \cup InCalls \cup {"WaitReady", "Off"} =>
            /\ h0pc \in {"Await", "Sleep"} /\ Taken /\ hsShared.completion # h0seq
            /\ hsShared.request = h0seq /\ h0seq # 0 /\ hsShared.job \in Jobs
    BY DEF Serves, HeldOff, Boots, Booting, Between, InCalls, Resting, Asked, Taken, Completed, Returned
  <1>s. /\ hsShared'.request = hsShared.request /\ hsShared'.completion = hsShared.completion
        /\ hsShared'.job = hsShared.job /\ h1status' \in Statuses /\ hsShared.transfers \in Nat
        /\ (h1job \in Transfers /\ h1status' = "Ok" => hsShared'.transfers = hsShared.transfers + 1)
        /\ (h1job \in Leaves => hsShared'.transfers = hsShared.transfers)
    BY HsAssumption DEF HsTypeOK, Records, Statuses
  <1>1. HsTypeOK'
    BY HsAssumption DEF HsTypeOK, H0States, H1States, Booting, BootWrites, InCalls, Between, Errors, Statuses, Seqs, Requests, Controls, Records
  <1>2. HeldOff'
    BY DEF HeldOff
  <1>3. Boots'
    BY <1>p, <1>c DEF Boots, Booting, InCalls
  <1>4. Serves'
    BY <1>p, <1>c, <1>s DEF Serves, InCalls, Between, Booting, Taken, Quiet
  <1>5. Counts'
    <2>1. h0pc \in Booting \cup Between \cup InCalls \cup {"WaitReady"} =>
            hsMoves = hsShared.transfers + (IF hsShared.job \in Transfers THEN 1 ELSE 0)
      BY <1>p, <1>c DEF Counts, Taken, HasRun, InCalls
    <2>2. h0pc \in InCalls => h1job = hsShared.job /\ hsShared.job \in Jobs /\ h0pc \notin Booting \cup {"WaitReady"} \cup Between
      BY <1>p, <1>c DEF Taken, InCalls, Booting, BootWrites, Between
    <2>3. Outcome' = h1status' /\ (h0pc \in InCalls => HasRun')
      BY <1>p DEF Outcome, HasRun, InCall, InCalls
    <2>4. h0pc \in InCalls => (h1status' = "Ok" => hsMoves' = hsShared'.transfers)
      BY <1>p, <1>s, <2>1, <2>2, HsAssumption DEF Jobs
    <2>5. h0pc \notin Booting \cup Between \cup {"WaitReady"}
      BY <1>c DEF Booting, BootWrites, Between
    <2> QED BY <1>p, <2>3, <2>4, <2>5 DEF Counts, InCalls
  <1>6. Generates' /\ HsReport'
    BY ControlKept
  <1> QED BY <1>1, <1>2, <1>3, <1>4, <1>5, <1>6

LEMMA H1SetsStatusKeeps == ASSUME HsInv, H1SetsStatus PROVE HsInv'
  <1> USE DEF HsInv, H1SetsStatus, H1Frame, H1At, hostVars, mbVars, h0Vars, countVars, h0Locals
  <1>1. HsTypeOK'
    BY HsAssumption DEF HsTypeOK, H0States, H1States, Booting, BootWrites, InCalls, Between, Errors, Statuses, Seqs, Requests, Controls, Records
  <1>2. HeldOff'
    BY DEF HeldOff
  <1>3. Boots'
    BY <1>1 DEF HsTypeOK, Boots, Booting, BootWrites, Quiet, BlankShared
  <1>4. Serves'
    BY <1>1 DEF HsTypeOK, Serves, InCalls, Between, Resting, Quiet, Asked, Taken, Completed, Returned
  <1>5. Counts'
    BY <1>1 DEF HsTypeOK, Counts, Serves, Booting, BootWrites, InCalls, Between, HasRun, InCall, Outcome
  <1>6. Generates' /\ HsReport'
    BY ControlKept
  <1> QED BY <1>1, <1>2, <1>3, <1>4, <1>5, <1>6

LEMMA H1SetsCompletionKeeps == ASSUME HsInv, H1SetsCompletion PROVE HsInv'
  <1> USE DEF HsInv, H1SetsCompletion, H1Frame, H1At, hostVars, mbVars, h0Vars, countVars, h0Locals
  <1>1. HsTypeOK'
    BY HsAssumption DEF HsTypeOK, H0States, H1States, Booting, BootWrites, InCalls, Between, Errors, Statuses, Seqs, Requests, Controls, Records
  <1>2. HeldOff'
    BY DEF HeldOff
  <1>3. Boots'
    BY <1>1 DEF HsTypeOK, Boots, Booting, BootWrites, Quiet, BlankShared
  <1>4. Serves'
    BY <1>1 DEF HsTypeOK, Serves, InCalls, Between, Resting, Quiet, Asked, Taken, Completed, Returned
  <1>5. Counts'
    BY <1>1 DEF HsTypeOK, Counts, Serves, Booting, BootWrites, InCalls, Between, HasRun, InCall, Outcome, Asked, Taken, Completed, Returned, Resting, Quiet
  <1>6. Generates' /\ HsReport'
    BY ControlKept
  <1> QED BY <1>1, <1>2, <1>3, <1>4, <1>5, <1>6

LEMMA H1AnswersKeeps == ASSUME HsInv, H1Answers PROVE HsInv'
  <1> USE DEF HsInv, H1Answers, H1Frame, H1At, hostVars, mbVars, h0Vars, countVars, h0Locals, MbSend
  <1>1. HsTypeOK'
    BY HsAssumption DEF HsTypeOK, H0States, H1States, Booting, BootWrites, InCalls, Between, Errors, Statuses, Seqs, Requests, Controls, Records
  <1>2. HeldOff'
    BY DEF HeldOff
  <1>3. Boots'
    BY <1>1 DEF HsTypeOK, Boots, Booting, BootWrites, Quiet, BlankShared
  <1>4. Serves'
    BY <1>1 DEF HsTypeOK, Serves, InCalls, Between, Resting, Quiet, Asked, Taken, Completed, Returned
  <1>5. Counts'
    BY <1>1 DEF HsTypeOK, Counts, Serves, Booting, BootWrites, InCalls, Between, HasRun, InCall, Outcome
  <1>6. Generates' /\ HsReport'
    BY ControlKept
  <1> QED BY <1>1, <1>2, <1>3, <1>4, <1>5, <1>6

LEMMA H1TrapsKeeps == ASSUME HsInv, H1Traps PROVE HsInv'
  <1> USE DEF HsInv, H1Traps, H1Frame, H1At, hostVars, mbVars, h0Vars, countVars, h0Locals
  <1>1. HsTypeOK'
    BY HsAssumption DEF HsTypeOK, H0States, H1States, Booting, BootWrites, InCalls, Between, Errors, Statuses, Seqs, Requests, Controls, Records
  <1>2. HeldOff'
    BY DEF HeldOff
  <1>3. Boots'
    BY <1>1 DEF HsTypeOK, Boots, Booting, BootWrites, Quiet, BlankShared
  <1>4. Serves'
    BY <1>1 DEF HsTypeOK, Serves, InCalls, Between, Resting, Quiet, Asked, Taken, Completed, Returned
  <1>5. Counts'
    BY <1>1 DEF HsTypeOK, Counts, Serves, Booting, BootWrites, InCalls, Between, HasRun, InCall, Outcome
  <1>6. Generates' /\ HsReport'
    BY ControlKept
  <1> QED BY <1>1, <1>2, <1>3, <1>4, <1>5, <1>6

-----------------------------------------------------------------------------
(* The runner and the fabric, which stop and start both harts. *)

LEMMA MailboxReset == Silent \in [0 .. 1 -> Seqs] /\ NonePending \in [0 .. 1 -> BOOLEAN]
  <1>1. 0 \in Seqs
    BY HsAssumption DEF Seqs
  <1> QED BY <1>1 DEF Silent, NonePending

LEMMA HsInitInv == ASSUME HsInit PROVE HsInv
  <1> USE DEF HsInit
  <1>1. hsShared \in Records /\ hsControl \in Controls
    BY HsAssumption DEF BlankShared, FreshControl, Records, Controls, Seqs, Statuses, Errors
  <1>2. HsTypeOK
    <2>1. 0 \in Seqs /\ "Ok" \in Statuses /\ "Off" \in H0States /\ "Off" \in H1States
      BY HsAssumption DEF Seqs, Statuses, H0States, H1States
    <2> QED BY <1>1, <2>1, MailboxReset DEF HsTypeOK
  <1>3. hsControl.cache = 0 /\ hsControl.error = "None" /\ hsControl.state = 0
    BY DEF FreshControl
  <1> QED BY <1>2, <1>3 DEF HsInv, HeldOff, Boots, Serves, Counts, Generates, HsReport, Running,
                            Booting, BootWrites, InCalls, Between

LEMMA HostLoadsKeeps == ASSUME HsInv, HostLoads PROVE HsInv'
  <1> USE DEF HsInv, HostLoads, mbVars, h0Vars, h1Vars, countVars, h0Locals, Loaded
  <1>1. BlankShared \in Records
    BY HsAssumption DEF BlankShared, Records, Seqs, Statuses
  <1>2. HsTypeOK'
    BY <1>1 DEF HsTypeOK
  <1>3. h0pc = "Off" /\ h0pc' = "Off" /\ h1pc' = "Off" /\ HeldOff'
    BY DEF HeldOff
  <1>4. HsReport'
    BY DEF HsReport
  <1> QED BY <1>2, <1>3, <1>4 DEF Boots, Serves, Counts, Generates, Running, Booting, BootWrites, InCalls, Between

LEMMA HostStartsKeeps == ASSUME HsInv, HostStarts PROVE HsInv'
  <1> USE DEF HsInv, HostStarts, Forgotten
  <1>1. h0pc' = "Validate" /\ h1pc' = "Begin" /\ hsShared' = BlankShared /\ hsControl' = FreshControl
    BY DEF HeldOff
  <1>2. BlankShared \in Records /\ FreshControl \in Controls
    BY HsAssumption DEF BlankShared, FreshControl, Records, Controls, Seqs, Statuses, Errors
  <1>3. HsTypeOK'
    <2>1. 0 \in Seqs /\ "Ok" \in Statuses /\ "Validate" \in H0States /\ "Begin" \in H1States
      BY HsAssumption DEF Seqs, Statuses, H0States, H1States, Booting
    <2> QED BY <1>1, <1>2, <2>1, MailboxReset DEF HsTypeOK
  <1>4. FreshControl.cache = 0 /\ FreshControl.error = "None" /\ FreshControl.state = 0 /\ FreshControl.generated = 0
    BY DEF FreshControl
  <1>5. Quiet' /\ h0committed' = 0 /\ h0step' = 0 /\ hsCalls' = 0 /\ hsMoves' = 0
    BY DEF Quiet, NonePending
  <1>6. HeldOff' /\ Boots' /\ Serves' /\ Counts'
    BY <1>1, <1>5 DEF HeldOff, Boots, Serves, Counts, Booting, BootWrites, InCalls, Between
  <1>7. Generates' /\ HsReport'
    BY <1>1, <1>4, <1>5 DEF Generates, HsReport, Running, InCalls
  <1> QED BY <1>3, <1>6, <1>7

\* A stopped run leaves the control page, and what it says, as it was.
LEMMA StoppedKeeps ==
    ASSUME HsInv, HsTypeOK', h0pc' = "Off", h1pc' = "Off", hsHost' \in {"Idle", "Running"},
           UNCHANGED <<hsRequest, hsControl, hsShared, hsCalls, hsMoves>>
    PROVE  HsInv'
  <1>1. HeldOff' /\ HsReport'
    BY DEF HsInv, HeldOff, HsReport
  <1> QED BY <1>1 DEF HsInv, Boots, Serves, Counts, Generates, Running, Booting, BootWrites, InCalls, Between

LEMMA HostReturnsKeeps == ASSUME HsInv, HostReturns PROVE HsInv'
  <1>1. HsTypeOK'
    BY HsAssumption DEF HsInv, HsTypeOK, HostReturns, Stopped, Forgotten, mbVars, countVars, H0States, H1States, Seqs, Statuses
  <1> QED BY <1>1, StoppedKeeps DEF HostReturns, Stopped, countVars

LEMMA FabricFailsKeeps == ASSUME HsInv, FabricFails PROVE HsInv'
  <1>1. HsTypeOK'
    BY DEF HsInv, HsTypeOK, FabricFails, Stopped, mbVars, countVars, h0Locals, H0States, H1States
  <1> QED BY <1>1, StoppedKeeps DEF FabricFails, Stopped, countVars

LEMMA HsStutterKeeps == ASSUME HsInv, UNCHANGED hsVars PROVE HsInv'
  <1> USE DEF hsVars, hostVars, mbVars, h0Vars, h1Vars, countVars, h0Locals
  <1>1. HsTypeOK' /\ HeldOff'
    BY DEF HsInv, HsTypeOK, HeldOff
  <1>2. Boots' /\ Serves'
    BY DEF HsInv, Boots, Serves, Quiet, Resting, Asked, Taken, Completed, Returned
  <1>3. Counts' /\ Generates' /\ HsReport'
    BY DEF HsInv, Counts, Generates, HsReport, HasRun, InCall, Outcome, Running, Valid
  <1> QED BY <1>1, <1>2, <1>3 DEF HsInv

LEMMA HsNextKeeps == ASSUME HsInv, [HsNext]_hsVars PROVE HsInv'
  <1>1. CASE HostLoads \/ HostStarts \/ HostReturns \/ FabricFails
    BY <1>1, HostLoadsKeeps, HostStartsKeeps, HostReturnsKeeps, FabricFailsKeeps
  <1>2. CASE H0Step
    BY <1>2, H0ValidatesKeeps, H0OpensKeeps, H0PreparesKeeps, H0ClearsAnswerKeeps, H0SeesReadyKeeps, H0FillsKeeps,
       H0PublishesKeeps, H0RingsKeeps, H0AwaitsKeeps, H0ReadsKeeps, H0CollectsKeeps, H0ComparesKeeps, H0GivesUpKeeps,
       H0CommitsKeeps, H0SelectsKeeps, H0ReportsKeeps, H0FinishesKeeps, H0TrapsKeeps DEF H0Step
  <1>3. CASE H1Step
    BY <1>3, H1BeginsKeeps, H1SeesMagicKeeps, H1SetsReadyKeeps, H1WaitsKeeps, H1TakesKeeps, H1AcksKeeps, H1ChecksKeeps,
       H1ExecutesKeeps, H1SetsStatusKeeps, H1SetsCompletionKeeps, H1AnswersKeeps, H1TrapsKeeps DEF H1Step
  <1>4. CASE UNCHANGED hsVars
    BY <1>4, HsStutterKeeps
  <1> QED BY <1>1, <1>2, <1>3, <1>4 DEF HsNext

(* Whatever is stopped or fails, and wherever: hart 1 is at the station of   *)
(* the call that hart 0 believes it is at, no pending bit is left behind,    *)
(* the counts of the record are those of the run, and the control page       *)
(* follows the generation loop.                                              *)
THEOREM HsInvariant == HsSpec => []HsInv
  <1> QED BY HsInitInv, HsNextKeeps, PTL DEF HsSpec

(* The control page tells the truth wherever the harts stop: m5_run.py reads *)
(* it after the done bit, a cancellation or its own timeout.                 *)
THEOREM HsReportCorrect == HsSpec => []HsReport
  <1>1. HsInv => HsReport
    BY DEF HsInv
  <1> QED BY HsInvariant, <1>1, PTL

-----------------------------------------------------------------------------
(* A call is served exactly once: every step is a step of HartCalls or       *)
(* changes nothing that its caller can see.                                  *)

LEMMA OutsideCalls == ASSUME ~InCall, ~InCall', CallResult' = CallResult PROVE UNCHANGED Calls!hcVars
  BY DEF Calls!hcVars, CallPhase, CallJob, JobServed, CallOutcome, HasRun

LEMMA InsideCall ==
    ASSUME InCall, InCall', HasRun' = HasRun, hsShared'.job = hsShared.job,
           HasRun => h1job' = h1job /\ CallOutcome' = CallOutcome
    PROVE  UNCHANGED Calls!hcVars
  <1>1. CallResult = "Ok" /\ CallResult' = "Ok"
    BY DEF InCall, CallResult
  <1>2. CallPhase' = CallPhase /\ CallJob' = CallJob
    BY DEF CallPhase, CallJob
  <1>3. JobServed' = JobServed /\ CallOutcome' = CallOutcome
    BY DEF JobServed, CallOutcome
  <1> QED BY <1>1, <1>2, <1>3 DEF Calls!hcVars

LEMMA H0OutsideCalls ==
    ASSUME HsInv, HsInv',
           \/ H0Validates \/ H0Opens \/ H0Prepares \/ H0ClearsAnswer \/ H0SeesReady
           \/ H0Commits \/ H0Selects \/ H0Reports \/ H0Finishes \/ H0Traps
    PROVE  UNCHANGED Calls!hcVars
  <1>1. CASE H0Validates \/ H0Opens
    <2>1. h0pc \in {"Validate", "Open"} /\ h0pc' \in {"Open", "ClearMagic", "Finish"}
      BY <1>1 DEF H0Validates, H0Opens, FailsWith
    <2>2. h0pc' = "Finish" => hsControl'.error \in {"Request", "Model"}
      BY <1>1, FailsWithFacts DEF HsInv, HsTypeOK, Errors, H0Validates, H0Opens
    <2> QED BY <2>1, <2>2, OutsideCalls DEF InCall, CallResult
  <1>2. CASE H0Prepares \/ H0ClearsAnswer \/ H0SeesReady \/ H0Commits \/ H0Selects \/ H0Reports
    <2>1. h0pc \in Booting \cup Between \cup {"WaitReady"}
      BY <1>2 DEF H0Prepares, H0ClearsAnswer, H0SeesReady, H0Commits, H0Selects, H0Reports, H0At, PrepareWrites, Booting, BootWrites, Between
    <2>2. h0pc' \in Booting \cup Between \cup {"WaitReady", "Finish"}
      BY <1>2 DEF H0Prepares, H0ClearsAnswer, H0SeesReady, H0Commits, H0Selects, H0Reports, H0At, PrepareWrites, Booting, BootWrites, Between
    <2>3. h0pc' = "Finish" => hsControl'.error = "None"
      <3>1. SUFFICES ASSUME h0pc' = "Finish" PROVE hsControl'.error = "None"
        OBVIOUS
      <3>2. H0Reports
        BY <1>2, <3>1 DEF H0Prepares, H0ClearsAnswer, H0SeesReady, H0Commits, H0Selects, H0At, PrepareWrites
      <3> QED BY <3>2 DEF HsInv, HsTypeOK, Controls, H0Reports, H0At, Generates, Running
    <2> QED BY <2>1, <2>2, <2>3, OutsideCalls DEF InCall, CallResult, Booting, BootWrites, Between
  <1>3. CASE H0Finishes \/ H0Traps
    <2>1. hsControl' = hsControl /\ h0pc' \in {"Finish", "Halt"} /\ h0pc \in {"Finish", "Validate", "Open", "Chunk", "Select"}
      BY <1>3 DEF H0Finishes, H0Traps, H0At
    <2>2. h0pc # "Finish" => hsControl.error = "None"
      BY <2>1 DEF HsInv, Generates, Running
    <2> QED BY <2>1, <2>2, OutsideCalls DEF InCall, CallResult
  <1> QED BY <1>1, <1>2, <1>3

LEMMA H0InsideCall ==
    ASSUME HsInv, H0Publishes \/ H0Rings \/ H0Awaits \/ H0Reads \/ H0Collects
    PROVE  UNCHANGED Calls!hcVars
  <1>1. /\ InCall /\ InCall' /\ UNCHANGED <<h0seq, h1pc, h1job, h1status>>
        /\ hsShared'.job = hsShared.job /\ hsShared'.completion = hsShared.completion /\ hsShared'.status = hsShared.status
    BY DEF HsInv, HsTypeOK, Records, H0Publishes, H0Rings, H0Awaits, H0Reads, H0Collects, H0At, H0Frame, InCall, h0Locals, h1Vars
  <1> QED BY <1>1, InsideCall DEF HasRun, CallOutcome

LEMMA CallIsMade == ASSUME HsInv, H0Fills PROVE Calls!HcCall
  <1>1. h0pc = "Chunk" /\ h0pc' = "Publish" /\ Resting /\ h1pc' = h1pc /\ ~InCall /\ InCall'
    BY DEF HsInv, H0Fills, H0At, H0Frame, h1Vars, Serves, Between, InCall
  <1>2. hsShared'.job \in Jobs /\ hsShared'.completion = hsShared.request
    BY DEF HsInv, HsTypeOK, Records, H0Fills, H0At, Serves, Between
  <1>3. h0seq' # hsShared.request
    BY NextSeqFacts DEF HsInv, HsTypeOK, Records, H0Fills
  <1>4. ~HasRun /\ ~HasRun'
    BY <1>1, <1>2, <1>3 DEF HasRun, Resting
  <1>5. CallResult = "Ok" /\ CallResult' = "Ok"
    BY <1>1 DEF CallResult
  <1> QED BY <1>1, <1>2, <1>4, <1>5 DEF Calls!HcCall, CallPhase, CallJob, JobServed, CallOutcome

LEMMA CallReturns == ASSUME HsInv, H0Compares PROVE Calls!HcReturn
  <1>1. /\ h0pc = "Compare" /\ h0pc' \in {"Chunk", "Finish"} /\ Resting /\ InCall /\ ~InCall'
        /\ hsShared.completion = h0seq /\ h0returned = h0seq
    BY DEF HsInv, H0Compares, Serves, InCall, FailsWith
  <1>2. HasRun /\ ~HasRun' /\ CallPhase = "Served" /\ CallOutcome = hsShared.status
    BY <1>1 DEF HasRun, Resting, CallPhase, CallOutcome
  <1>3. CASE hsShared.status = "Ok"
    <2>1. h0pc' = "Chunk"
      BY <1>1, <1>3 DEF H0Compares, CallSucceeded
    <2> QED BY <1>1, <1>2, <1>3, <2>1 DEF Calls!HcReturn, Calls!NotCalling, CallPhase, CallJob, JobServed, CallOutcome, CallResult
  <1>4. CASE hsShared.status = "Failed"
    <2>1. h0pc' = "Finish" /\ hsControl'.error \in {"Prefill", "Decode"}
      BY <1>4, FailsWithFacts DEF HsInv, HsTypeOK, Errors, H0Compares, CallSucceeded, PartError
    <2> QED BY <1>1, <1>2, <1>4, <2>1 DEF Calls!HcReturn, Calls!NotCalling, CallPhase, CallJob, JobServed, CallOutcome, CallResult
  <1> QED BY <1>3, <1>4 DEF HsInv, HsTypeOK, Records, Statuses

LEMMA CallIsGivenUp == ASSUME HsInv, H0GivesUp PROVE Calls!HcGiveUp
  <1>1. h0pc = "Chunk" /\ h0pc' = "Finish" /\ hsControl'.error \in {"Prefill", "Decode"}
    BY FailsWithFacts DEF HsInv, HsTypeOK, Errors, H0GivesUp, PartError
  <1>2. ~InCall /\ ~InCall' /\ ~HasRun /\ ~HasRun'
    BY <1>1 DEF InCall, HasRun
  <1> QED BY <1>1, <1>2 DEF Calls!HcGiveUp, Calls!NotCalling, CallPhase, CallJob, JobServed, CallOutcome, CallResult

LEMMA CallIsServed == ASSUME HsInv, H1Executes PROVE Calls!HcServe \/ UNCHANGED Calls!hcVars
  <1>1. /\ h1pc = "Execute" /\ h1pc' = "SetStatus" /\ h0pc' = h0pc /\ h0seq' = h0seq /\ hsControl' = hsControl
        /\ h1status' \in {"Ok", "Failed"} /\ hsShared'.job = hsShared.job
        /\ h1job' = IF hsShared.job = h1job THEN h1job ELSE NoJob
    BY DEF HsInv, HsTypeOK, Records, H1Executes, H1At, H1Frame, h0Vars, h0Locals
  <1>2. CASE ~InCall
    BY <1>1, <1>2, OutsideCalls DEF InCall, CallResult
  <1>3. CASE InCall
    <2>1. h1job = hsShared.job /\ hsShared.completion # h0seq
      BY <1>1, <1>3 DEF HsInv, Serves, InCall, InCalls, Resting, Asked, Taken, Completed, Returned
    <2>2. InCall' /\ ~HasRun /\ HasRun' /\ CallResult = "Ok" /\ CallResult' = "Ok"
      BY <1>1, <1>3, <2>1 DEF InCall, HasRun, CallResult
    <2> QED BY <1>1, <1>3, <2>1, <2>2 DEF Calls!HcServe, CallPhase, CallJob, JobServed, CallOutcome
  <1> QED BY <1>2, <1>3

\* Until the job is run hart 1 has not passed Execute; once it is completed
\* hart 1 only answers.
LEMMA H1Stations ==
    ASSUME HsInv, InCall
    PROVE  /\ HasRun /\ hsShared.completion # h0seq => Taken /\ h1pc \in {"SetStatus", "SetCompletion"}
           /\ hsShared.completion = h0seq => h1pc \in {"Wait", "Sleep", "Answer"} /\ ~mbPend[0]
           /\ h1pc = "Check" => h1seq = h0seq /\ h0seq # 0 /\ hsShared.request = h0seq
           /\ h1pc = "SetCompletion" => hsShared.status = h1status /\ h1seq = h0seq
  BY DEF HsInv, Serves, InCall, InCalls, HasRun, Resting, Quiet, Asked, Taken, Completed, Returned

LEMMA H1OtherSteps ==
    ASSUME HsInv,
           \/ H1Begins \/ H1SeesMagic \/ H1SetsReady \/ H1Waits \/ H1Takes \/ H1Acks \/ H1Checks
           \/ H1SetsStatus \/ H1SetsCompletion \/ H1Answers \/ H1Traps
    PROVE  UNCHANGED Calls!hcVars
  <1>1. h0pc' = h0pc /\ h0seq' = h0seq /\ hsControl' = hsControl
    BY DEF H1Begins, H1SeesMagic, H1SetsReady, H1Waits, H1Takes, H1Acks, H1Checks, H1SetsStatus, H1SetsCompletion,
           H1Answers, H1Traps, H1Frame, h0Vars, h0Locals
  <1>2. CASE ~InCall
    BY <1>1, <1>2, OutsideCalls DEF InCall, CallResult
  <1>3. CASE InCall
    <2>0. InCall' /\ hsShared'.job = hsShared.job
      BY <1>1, <1>3 DEF InCall, HsInv, HsTypeOK, Records, H1Begins, H1SeesMagic, H1SetsReady, H1Waits, H1Takes, H1Acks, H1Checks,
                        H1SetsStatus, H1SetsCompletion, H1Answers, H1Traps, H1Frame, H1At
    <2>1. CASE H1Begins \/ H1SeesMagic \/ H1SetsReady \/ H1Waits \/ H1Takes \/ H1Acks \/ H1Answers \/ H1Traps
      <3>1. /\ h1pc \notin {"SetStatus", "SetCompletion"} /\ h1pc' \notin {"SetStatus", "SetCompletion"}
            /\ hsShared'.completion = hsShared.completion /\ hsShared'.status = hsShared.status /\ h1job' = h1job
        BY <2>1 DEF HsInv, HsTypeOK, Records, H1Begins, H1SeesMagic, H1SetsReady, H1Waits, H1Takes, H1Acks, H1Answers, H1Traps, H1At
      <3> QED BY <1>1, <1>3, <2>0, <3>1, InsideCall DEF HasRun, CallOutcome
    <2>2. CASE H1Checks
      <3>1. h1pc = "Check" /\ h1pc' = "Execute" /\ hsShared' = hsShared
        BY <1>3, <2>2, H1Stations DEF H1Checks
      <3>2. ~HasRun /\ ~HasRun'
        BY <1>1, <1>3, <3>1, H1Stations DEF HasRun
      <3> QED BY <1>3, <2>0, <3>2, InsideCall DEF HasRun
    <2>3. CASE H1SetsStatus
      <3>1. /\ h1pc = "SetStatus" /\ h1pc' = "SetCompletion" /\ hsShared'.status = h1status
            /\ hsShared'.completion = hsShared.completion /\ h1job' = h1job
        BY <2>3 DEF HsInv, HsTypeOK, Records, H1SetsStatus, H1At
      <3>2. HasRun /\ HasRun'
        BY <1>3, <2>0, <3>1 DEF HasRun
      <3> QED BY <1>3, <2>0, <3>1, <3>2, InsideCall DEF CallOutcome
    <2>4. CASE H1SetsCompletion
      <3>1. /\ h1pc = "SetCompletion" /\ h1pc' = "Answer" /\ hsShared'.status = hsShared.status
            /\ hsShared'.completion = h1seq /\ h1job' = h1job
        BY <2>4 DEF HsInv, HsTypeOK, Records, H1SetsCompletion, H1At
      <3>2. HasRun /\ HasRun'
        BY <1>1, <1>3, <2>0, <3>1, H1Stations DEF HasRun
      <3> QED BY <1>3, <2>0, <3>1, <3>2, InsideCall DEF CallOutcome
    <2> QED BY <2>1, <2>2, <2>3, <2>4
  <1> QED BY <1>2, <1>3

LEMMA HartsStart == ASSUME HsInv, HostStarts PROVE Calls!HcStart
  <1>1. h0pc = "Off" /\ h0pc' = "Validate"
    BY DEF HsInv, HeldOff, HostStarts
  <1>2. ~InCall /\ ~InCall' /\ ~HasRun /\ ~HasRun'
    BY <1>1 DEF InCall, HasRun
  <1> QED BY <1>1, <1>2 DEF Calls!HcStart, CallPhase, CallJob, JobServed, CallOutcome, CallResult

LEMMA HartsStop == ASSUME HostReturns \/ FabricFails PROVE Calls!HcStop
  <1>1. h0pc' = "Off"
    BY DEF HostReturns, FabricFails, Stopped
  <1>2. ~InCall' /\ ~HasRun'
    BY <1>1 DEF InCall, HasRun
  <1> QED BY <1>1, <1>2 DEF Calls!HcStop, Calls!NotCalling, CallPhase, CallJob, JobServed, CallOutcome, CallResult

LEMMA CallsStep == ASSUME HsInv, HsInv', [HsNext]_hsVars PROVE [Calls!HcNext]_(Calls!hcVars)
  <1> USE DEF Calls!HcNext
  <1>1. CASE HostLoads
    <2>1. h0pc = "Off" /\ h0pc' = "Off"
      BY <1>1 DEF HostLoads, HsInv, HeldOff, h0Vars
    <2> QED BY <2>1, OutsideCalls DEF InCall, CallResult
  <1>2. CASE HostStarts \/ HostReturns \/ FabricFails
    BY <1>2, HartsStart, HartsStop
  <1>3. CASE H0Step
    BY <1>3, H0OutsideCalls, H0InsideCall, CallIsMade, CallReturns, CallIsGivenUp DEF H0Step
  <1>4. CASE H1Step
    BY <1>4, CallIsServed, H1OtherSteps DEF H1Step
  <1>5. CASE UNCHANGED hsVars
    BY <1>5 DEF hsVars, h0Vars, h1Vars, h0Locals, Calls!hcVars, CallPhase, CallJob, JobServed, CallOutcome, CallResult, HasRun, InCall
  <1> QED BY <1>1, <1>2, <1>3, <1>4, <1>5 DEF HsNext

(* hardware_gemm, hardware_sfpu and pa_context_parallel: a call is served    *)
(* exactly once, on the job it filled, and returns how that job went, for    *)
(* any size of the sequence numbers from three on.                           *)
THEOREM HsCallsCorrect == HsSpec => HsImplementsCalls
  <1>1. ASSUME HsInit PROVE Calls!HcInit
    <2>1. ~InCall /\ ~HasRun
      BY <1>1 DEF HsInit, InCall, HasRun
    <2> QED BY <1>1, <2>1 DEF HsInit, Calls!HcInit, Calls!NotCalling, CallPhase, CallJob, JobServed, CallOutcome, CallResult
  <1> QED BY <1>1, CallsStep, HsInvariant, PTL DEF HsSpec, HsImplementsCalls, Calls!HcSpec
=============================================================================
