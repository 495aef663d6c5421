--------------------------- MODULE CampaignAudit ---------------------------
(***************************************************************************)
(* What a measurement campaign is frozen to, what it records, and what the *)
(* audits accept: the sweep, the maximum-context and the startup campaigns *)
(* share the runner (m5_sweep) and most of the audit.  Host times are in   *)
(* hundredths of a second, one fabric cycle is scaled to CycleTime of      *)
(* them; a digest is the thing it digests, wrapped.  The closing           *)
(* assumptions are facts TLC computes.                                     *)
(***************************************************************************)
EXTENDS SequencesExt, Integers

Second    == 100
CycleTime == 2
Absent    == -1
Sha(x)    == [sha256 |-> x]
SumOf(s)  == LET first[n \in 0 .. Len(s)] == IF n = 0 THEN 0 ELSE first[n - 1] + s[n] IN first[Len(s)]
Field(s, f) == <<>> \o [i \in DOMAIN s |-> s[i][f]]

-----------------------------------------------------------------------------
(* Policies: the trials, in order, each with a bound on its time. *)

TrialOf(kind, case, new, past, profile, bound, capture, role) ==
    [kind |-> kind, case |-> case, new |-> new, past |-> past, profile |-> profile,
     bound |-> bound, capture |-> capture, role |-> role, ordinal |-> 0]

Full(case, new, seconds, capture, role) ==
    TrialOf("full", case, new, Absent, FALSE, seconds * Second, capture, role)

CachedRuns(past, n, profile) ==
    [i \in 1 .. n |-> TrialOf("cached", "", 1, past, profile, 45 * Second + 15 * past, FALSE, "injected_valid_cache")]

TrialNamed(t) == <<t.kind, t.case, t.new, t.past, t.profile>>
\* The ordinal that keeps the names of repeated trials apart.
Numbered(matrix) ==
    <<>> \o [i \in DOMAIN matrix |-> [matrix[i] EXCEPT !.ordinal =
        Cardinality({j \in 1 .. i : TrialNamed(matrix[j]) = TrialNamed(matrix[i])})]]

Lengths == <<[case |-> "story_length_1", tokens |-> 1, bound |-> 30],
             [case |-> "story_length_16", tokens |-> 16, bound |-> 130],
             [case |-> "story_length_32", tokens |-> 32, bound |-> 240],
             [case |-> "story_length_64", tokens |-> 64, bound |-> 450]>>
Pasts == <<1, 8, 32, 128, 512, 1023>>
Profiled == <<13, 128, 1023>>
FlatMap(Op(_), s) == FlattenSeq([i \in DOMAIN s |-> Op(s[i])])

SweepMatrix ==
    Numbered(<<Full("story", 2, 110, TRUE, "original_anchor"), Full("science", 1, 70, FALSE, "original_anchor"),
               Full("computing", 1, 70, FALSE, "original_anchor")>>
             \o CachedRuns(13, 3, FALSE)
             \o [i \in 1 .. 4 |-> Full(Lengths[i].case, 1, Lengths[i].bound, FALSE, "synthetic_prefill_length")]
             \o <<Full("story", 1, 100, FALSE, "output_length"), Full("story", 4, 140, FALSE, "output_length"),
                  Full("story", 16, 290, FALSE, "uninterrupted_generation"),
                  Full("story", 16, 290, FALSE, "uninterrupted_generation"),
                  Full("science", 16, 260, FALSE, "uninterrupted_generation")>>
             \o FlatMap(LAMBDA past : CachedRuns(past, 2, FALSE), Pasts)
             \o FlatMap(LAMBDA past : CachedRuns(past, 1, TRUE), Profiled)
             \o <<Full("computing", 16, 260, FALSE, "optional_content_replication")>>)

Pinned(images) == [name \in images |-> Sha(<<name>>)]
SweepImages == {"m5_runtime.bin", "m5_profile.bin", "m5_pynq.bit", "m5_pynq.hwh", "m5_run.py",
                "m5_opt_profile.py", "m5_opt_release_check.py", "fixtures"}

PolicyOf(matrix, pinned) ==
    [git |-> "frozen", budget |-> 3600 * Second, reserve |-> 120 * Second,
     referenceBudget |-> 600 * Second, clock |-> 91, matrix |-> matrix, pinned |-> pinned]
SweepPolicy == PolicyOf(SweepMatrix, Pinned(SweepImages))

\* Two forwards at the end of the context, alone or with the original requests.
TwoForwards(profile) ==
    <<TrialOf("cached", "", 1, 1022, profile, 240 * Second, FALSE, "cold_initialization"),
      TrialOf("cached", "", 1, 1023, profile, 120 * Second, FALSE, "last_slot")>>

ContextFull ==
    <<Full("story", 2, 180, TRUE, "original"), Full("science", 1, 180, FALSE, "optimized"),
      Full("computing", 1, 180, FALSE, "optimized"), Full("story", 2, 180, FALSE, "optimized")>>

ContextMatrix(repetitions, diagnostic, full) ==
    Numbered(FlattenSeq([n \in 1 .. repetitions |-> TwoForwards(diagnostic)])
             \o (IF full THEN ContextFull ELSE <<>>))
ContextAdmits(baseline, diagnostic, full) == ~(baseline /\ (diagnostic \/ full))

StartupMatrix(plain, full, skipPrefill, repetitions) ==
    LET prefill == TrialOf("cached", "", 1, 0, ~plain, 120 * Second, FALSE, "actual_prefill")
        once == TwoForwards(~plain) \o (IF skipPrefill THEN <<>> ELSE <<prefill>>)
                \o (IF full THEN <<Full("story", 2, 180, TRUE, ""), Full("story", 2, 180, FALSE, ""),
                                   Full("science", 1, 180, FALSE, ""), Full("computing", 1, 180, FALSE, "")>>
                            ELSE <<>>)
        again == SelectSeq(once, LAMBDA t : ~t.capture)
    IN  Numbered(once \o FlattenSeq([r \in 1 .. repetitions - 1 |-> again]))
StartupAdmits(plain, repetitions) == repetitions = 1 \/ plain

-----------------------------------------------------------------------------
(* The independent references: what the CPU runtime answered, step by step. *)

Oracle(of, step) == [token |-> <<"token", of, step>>, logits |-> <<"logits", of, step>>, kv |-> <<"kv", of, step>>]
Prompt(of, n) == [of |-> of, len |-> n]
Case(of, n, steps) == [id |-> of, input |-> Prompt(of, n), steps |-> [k \in 1 .. steps |-> Oracle(of, k)]]
PromptLength == [story |-> 13, science |-> 8, computing |-> 8]
Fixtures == [c \in DOMAIN PromptLength |-> Case(c, PromptLength[c], 20)]

\* A cache of `past` positions and the forward that follows it.
Seed(past, before, after, role) ==
    [past |-> past, token |-> before.token, kv |-> before.kv, expected |-> after, role |-> role,
     prompt |-> Prompt("token", 1)]

(* The sweep's references are prepared in this order: the cache of the      *)
(* story, four prompt lengths, six caches.  The alarm that ends preparation *)
(* leaves those it has; another exception fails it.                         *)
Products == 1 + Len(Lengths) + Len(Pasts)
SweepReferences(policy, done, ending) ==
    LET lengths == SelectSeq(Lengths, LAMBDA l : \E i \in 1 .. Len(Lengths) : Lengths[i] = l /\ i < done)
        pasts == {Pasts[i] : i \in {j \in DOMAIN Pasts : 1 + Len(Lengths) + j <= done}}
        added == {lengths[i].case : i \in DOMAIN lengths}
        tokensOf(c) == lengths[CHOOSE i \in DOMAIN lengths : lengths[i].case = c].tokens
    IN  [status |-> IF ending = "error" THEN "FAIL" ELSE "PASS",
         policySha |-> Sha(policy),
         elapsed |-> IF ending = "timeout" THEN policy.referenceBudget + 1 ELSE 120 * Second,
         skips |-> IF ending = "timeout" THEN <<done + 1>> ELSE <<>>,
         case |-> "story",
         cases |-> [c \in DOMAIN Fixtures \cup added |->
                      IF c \in added THEN Case(c, tokensOf(c), 1) ELSE Fixtures[c]],
         seeds |-> [n \in pasts \cup {13 : i \in 1 .. done} |->
                      IF n = 13 THEN Seed(13, Oracle("story", 1), Oracle("story", 2), "")
                                ELSE Seed(n, Oracle("stream", n), Oracle("stream", n + 1), "")]]

\* Two genuine forwards after a prefill of 1022: the second starts from what the first left.
TwoForwardSeeds(of) ==
    [past \in {1022, 1023} |->
        IF past = 1022
        THEN Seed(past, Oracle(of, past), Oracle(of, past + 1), "cold_initialization_in_model")
        ELSE Seed(past, Oracle(of, past), Oracle(of, past + 1), "warm_last_slot")]

Bound(policy, of, seeds) ==
    [status |-> "PASS", policySha |-> Sha(policy), elapsed |-> 300 * Second, skips |-> <<>>, case |-> of,
     cases |-> Fixtures, seeds |-> seeds]
ContextReferences(policy, of) == Bound(policy, of, TwoForwardSeeds(of))

PrefillSeed(case) ==
    [past |-> 0, token |-> <<"none">>, kv |-> <<"none">>, expected |-> Fixtures[case].steps[1],
     role |-> "actual_prompt_prefill", prompt |-> Fixtures[case].input]
StartupReferences(policy, of, case) ==
    Bound(policy, of, [past \in {0, 1022, 1023} |-> IF past = 0 THEN PrefillSeed(case) ELSE TwoForwardSeeds(of)[past]])

-----------------------------------------------------------------------------
(* The firmware's profile: nested intervals in a fixed order. *)

PhaseOrder ==
    <<<<1, 0>>>> \o [i \in 1 .. 96 |-> <<2 + ((i - 1) % 8), (i - 1) \div 8>>]
                 \o <<<<10, 0>>, <<11, 0>>, <<12, 0>>>>

Covered(phases) == [i \in DOMAIN phases |-> <<phases[i].kind, phases[i].layer>>] = PhaseOrder

\* p.gemm and p.sfpu are inside p.service, which is inside p.cycles.
Nested(p) == 0 <= p.gemm + p.sfpu /\ p.gemm + p.sfpu <= p.service /\ p.service <= p.cycles

\* parse_profile: the trace is refused unless the header's totals are those of the records.
ProfileParses(header, phases, enabled) ==
    /\ header.stop > header.start
    /\ \A i \in DOMAIN phases :
          phases[i].kind \in 1 .. 12 /\ phases[i].layer < 12 /\ phases[i].cycles > 0 /\ Nested(phases[i])
    /\ IF enabled
       THEN /\ Covered(phases)
            /\ SumOf(Field(phases, "cycles")) <= header.stop - header.start
            /\ \A f \in {"service", "gemm", "sfpu", "jobs"} : SumOf(Field(phases, f)) = header[f]
       ELSE phases = <<>> /\ header.service = 0 /\ header.gemm = 0 /\ header.sfpu = 0

Parsed(header, phases, enabled) ==
    LET cycles == header.stop - header.start
        when(c) == IF enabled THEN c * CycleTime ELSE Absent
    IN  [cycles |-> cycles, model |-> cycles * CycleTime, profiled |-> enabled,
         phases |-> [i \in DOMAIN phases |->
             [kind |-> phases[i].kind, layer |-> phases[i].layer, cycles |-> phases[i].cycles,
              service |-> phases[i].service, rest |-> phases[i].cycles - phases[i].service,
              gemm |-> phases[i].gemm, sfpu |-> phases[i].sfpu, jobs |-> phases[i].jobs]],
         service |-> when(header.service), rest |-> when(cycles - header.service),
         gemm |-> when(header.gemm), sfpu |-> when(header.sfpu),
         tail |-> IF enabled THEN cycles - SumOf(Field(phases, "cycles")) ELSE Absent,
         jobs |-> header.jobs]

(* Sixteen counters of a startup diagnostic: 0 is the cold initialisation,  *)
(* 1 to 4 inside it, 13 the preparation of the caches, 14 and 15 the first  *)
(* and all demands (m5_startup_run.details, check_initial_coverage).        *)
Counter(d, i) == d[i + 1]
DetailsParse(d, rows) ==
    /\ Len(d) \in {13, 14, 16}
    /\ \A i \in DOMAIN d : d[i].calls = 0 => d[i].cycles = 0
    /\ SumOf([i \in 1 .. 4 |-> Counter(d, i).cycles]) <= Counter(d, 0).cycles
    /\ (Len(d) >= 14 /\ Counter(d, 13).calls > 0) =>
          Counter(d, 13).calls = 12 /\ Counter(d, 0).cycles <= Counter(d, 13).cycles
    /\ Len(d) = 16 =>
          LET first == Counter(d, 14)
              all == Counter(d, 15)
          IN  /\ first.cycles <= all.cycles /\ first.calls <= all.calls
              /\ all.calls > 0 => all.calls = 144 * rows /\ first.calls \in {0, 144}

FirstUse(d, cold, rows) ==
    /\ Counter(d, 0).calls = (IF cold THEN 144 ELSE 0) /\ Counter(d, 13).calls = 12
    /\ Counter(d, 14).calls = (IF cold THEN 144 ELSE 0) /\ Counter(d, 15).calls = 144 * rows

InitialCoverage(result, rows) ==
    result.derived.version = 2 =>
        /\ Len(result.detail) = 16
        /\ result.role \in {"cold_initialization_in_model", "actual_prompt_prefill", "warm_last_slot"}
        /\ FirstUse(result.detail, result.role # "warm_last_slot", rows)

\* Work put off to the first demand still counts as initialisation.
Required(d) == (Counter(d, 13).cycles + Counter(d, 14).cycles) * CycleTime

-----------------------------------------------------------------------------
(* A campaign on the board, as it is recorded. *)

\* `image` is the firmware the request ran.
MeasuredFull(trial, case, took, image, digest) ==
    LET n == trial.new
        model == took - 10
    IN  [id |-> case.id, prompt |-> case.input, tokens |-> [k \in 1 .. n |-> case.steps[k].token],
         cache |-> case.input.len + n - 1, decode |-> [k \in 1 .. n - 1 |-> 2],
         ttft |-> model - 2 * (n - 1), prefill |-> model - 2 * (n - 1) - 1, model |-> model,
         device |-> took - 9, request |-> took - 8, delivered |-> took - 5, rate |-> <<n, took - 5>>,
         traces |-> IF trial.capture THEN 5 ELSE 0, workspace |-> 1000,
         logits |-> case.steps[n].logits, kv |-> case.steps[n].kv, image |-> image, firmware |-> digest]

StandardPhases ==
    [i \in 1 .. Len(PhaseOrder) |->
        [kind |-> PhaseOrder[i][1], layer |-> PhaseOrder[i][2], cycles |-> 3, service |-> 2, gemm |-> 1, sfpu |-> 1, jobs |-> 1]]
StandardDetail(cold, rows) ==
    LET first(cycles) == [calls |-> IF cold THEN 144 ELSE 0, cycles |-> IF cold THEN cycles ELSE 0]
    IN  [i \in 1 .. 16 |->
            CASE i = 1       -> first(4)
              [] i \in 2 .. 5 -> first(1)
              [] i = 14      -> [calls |-> 12, cycles |-> 9]
              [] i = 15      -> first(6)
              [] i = 16      -> [calls |-> 144 * rows, cycles |-> 8]
              [] OTHER       -> [calls |-> 12, cycles |-> 1]]

MeasuredCached(trial, seed, took, previous, digest) ==
    LET phases == IF trial.profile THEN StandardPhases ELSE <<>>
        spent(f) == SumOf(Field(phases, f))
        header == [start |-> 7, stop |-> 7 + ((took - 10) \div CycleTime), service |-> spent("service"),
                   gemm |-> spent("gemm"), sfpu |-> spent("sfpu"), jobs |-> 100]
        parsed == Parsed(header, phases, trial.profile)
        rows == seed.prompt.len
        warm == seed.role = "warm_last_slot"
        detail == StandardDetail(~warm, rows)
    IN  [status |-> "PASS", token |-> seed.expected.token, cache |-> seed.past + rows, firmware |-> digest,
         logits |-> seed.expected.logits, kv |-> seed.expected.kv, delivered |-> took - 5, workspace |-> 1000,
         initial |-> seed.past, input |-> seed.prompt, role |-> seed.role, baseline |-> FALSE,
         derived |-> [version |-> 2, cold |-> 144, appended |-> 144 * (IF warm THEN 2 ELSE rows),
                      updated |-> IF warm THEN previous[1].derived.updated + 1 ELSE 9],
         detail |-> IF trial.profile THEN detail ELSE <<>>, required |-> IF trial.profile THEN Required(detail) ELSE Absent,
         cycles |-> parsed.cycles, model |-> parsed.model, profiled |-> parsed.profiled, phases |-> parsed.phases,
         service |-> parsed.service, rest |-> parsed.rest, gemm |-> parsed.gemm, sfpu |-> parsed.sfpu,
         tail |-> parsed.tail]

Admitted(elapsed, bound, policy) == bound > 0 /\ elapsed >= 0 /\ elapsed + bound + policy.reserve <= policy.budget

Available(t, refs) == IF t.kind = "full" THEN t.case \in DOMAIN refs.cases ELSE t.past \in DOMAIN refs.seeds

Item(t, status, reason, started, took, results) ==
    [trial |-> t, status |-> status, reason |-> reason, started |-> started, took |-> took,
     exceeded |-> took > t.bound, partial |-> FALSE, result |-> results]

ImageOf(t, pinned) ==
    IF t.kind = "cached" THEN "m5_profile.bin"
    ELSE IF t.capture /\ "m5_trace.bin" \in DOMAIN pinned THEN "m5_trace.bin" ELSE "m5_runtime.bin"

ResultOf(t, refs, took, previous, policy) ==
    LET image == ImageOf(t, policy.pinned)
        digest == policy.pinned[image]
    IN  IF t.kind = "full" THEN MeasuredFull(t, refs.cases[t.case], took, image, digest)
        ELSE MeasuredCached(t, refs.seeds[t.past], took, previous, digest)

(* The trials in their order: one without its reference, or that could      *)
(* consume the reserve, is skipped; one that fails (trial `failing`), or    *)
(* that the alarm strikes, ends the campaign.                               *)
Campaign(policy, refs, provision, took, failing) ==
    LET run(s, i) ==
            LET t == policy.matrix[i]
                add(item) == [s EXCEPT !.trials = Append(@, item)]
                late == s.elapsed + took[i] > policy.budget - policy.reserve
                r == ResultOf(t, refs, took[i], s.previous, policy)
            IN  IF s.stopped THEN s
                ELSE IF ~Available(t, refs) THEN add(Item(t, "SKIP", "unavailable", 0, 0, <<>>))
                ELSE IF ~Admitted(s.elapsed, t.bound, policy) THEN add(Item(t, "SKIP", "reserve", 0, 0, <<>>))
                ELSE IF i = failing \/ late
                THEN [add(Item(t, "FAIL", "error", s.elapsed, took[i], <<>>)) EXCEPT !.stopped = TRUE]
                ELSE [add(Item(t, "PASS", "", s.elapsed, took[i], <<r>>)) EXCEPT
                         !.elapsed = @ + took[i], !.previous = IF t.kind = "cached" THEN <<r>> ELSE <<>>]
        end == FoldLeft(run, [elapsed |-> provision, trials |-> <<>>, previous |-> <<>>, stopped |-> FALSE],
                        [i \in DOMAIN policy.matrix |-> i])
    IN  [status |-> IF end.stopped THEN "FAIL" ELSE "PASS", policy |-> policy, trials |-> end.trials,
         error |-> IF end.stopped THEN "error" ELSE "", elapsed |-> end.elapsed + Second,
         within |-> end.elapsed + Second <= policy.budget, clock |-> policy.clock, allocated |-> 65012,
         policySha |-> Sha(policy), refSha |-> Sha(refs), shas |-> policy.pinned,
         unload |-> TRUE, cleanupError |-> FALSE, owner |-> 0,
         reopened |-> [owner |-> 0, pages |-> 0, pte |-> 0],
         rejection |-> [state |-> 5, error |-> 1, cache |-> 17, generated |-> 19, output |-> TRUE,
                        regions |-> {"k", "v", "k8", "kunits"}, recovered |-> TRUE]]

-----------------------------------------------------------------------------
(* What the audits ask of every campaign. *)

Kept(report, refs, policy) ==
    /\ refs.status = "PASS" /\ report.within /\ 0 < report.elapsed /\ report.elapsed <= 3600 * Second
    /\ policy.budget = 3600 * Second /\ policy.reserve = 120 * Second
    /\ policy.clock = 91 /\ report.clock = 91 /\ report.allocated = 65012

GivenBack(report) ==
    /\ report.unload /\ ~report.cleanupError /\ report.owner = 0
    /\ report.reopened.owner = 0 /\ report.reopened.pages = 0 /\ report.reopened.pte = 0

Bindings(report, refs, policy) ==
    /\ report.policySha = refs.policySha
    /\ \A name \in DOMAIN policy.pinned : name \in DOMAIN report.shas /\ report.shas[name] = policy.pinned[name]

Trials(report) == Field(report.trials, "trial")

InTime(item) == item.started >= 0 /\ item.started + item.trial.bound + 120 * Second <= 3600 * Second

\* Model time inside delivery inside the case; all logits and the whole valid cache.
Measured(item, r, expected) ==
    /\ 0 < r.model /\ r.model < r.delivered /\ r.delivered <= item.took
    /\ r.logits = expected.logits /\ r.kv = expected.kv

SameRequest(r, case, n) ==
    /\ r.id = case.id /\ r.prompt = case.input /\ r.cache = case.input.len + n - 1
    /\ r.tokens = [k \in 1 .. n |-> case.steps[k].token]

Timeline(r, n) == Len(r.decode) = n - 1 /\ r.ttft + SumOf(r.decode) = r.model

\* Every phase, each nested, and the totals: nothing counted twice, nothing dropped.
ProfileHolds(r) ==
    /\ Covered(r.phases)
    /\ \A i \in DOMAIN r.phases : Nested(r.phases[i]) /\ r.phases[i].rest = r.phases[i].cycles - r.phases[i].service
    /\ \A f \in {"service", "gemm", "sfpu"} : SumOf(Field(r.phases, f)) * CycleTime = r[f]
    /\ r.service + r.rest = r.model

Unprofiled(r) == r.phases = <<>> /\ r.service = Absent
Boundary(r, trial) == r.model = r.cycles * CycleTime /\ r.profiled = trial.profile

\* The rejected request changed no output and no cache, and the board went on.
Rejection(x) ==
    /\ x.state = 5 /\ x.error = 1 /\ x.cache = 17 /\ x.generated = 19 /\ x.output /\ x.recovered
    /\ x.regions = {"k", "v", "k8", "kunits"}

-----------------------------------------------------------------------------
(* The sweep. *)

Reasons == {"unavailable", "reserve"}

SweepFull(r, trial, case) ==
    LET n == trial.new IN
    /\ SameRequest(r, case, n) /\ Timeline(r, n) /\ \A k \in DOMAIN r.decode : r.decode[k] > 0
    /\ 0 < r.prefill /\ r.prefill <= r.ttft /\ r.ttft <= r.model
    /\ r.device <= r.request /\ r.request <= r.delivered /\ r.rate = <<n, r.delivered>>
    /\ trial.capture => r.traces = 5

SweepCached(r, trial, seed, pinned) ==
    /\ r.status = "PASS" /\ r.token = seed.expected.token /\ r.cache = trial.past + 1
    /\ r.firmware = pinned["m5_profile.bin"] /\ Boundary(r, trial)
    /\ IF trial.profile THEN ProfileHolds(r) ELSE Unprofiled(r)

SweepItem(item, refs, pinned) ==
    LET t == item.trial IN
    \/ item.status = "SKIP" /\ item.reason \in Reasons
    \/ /\ item.status = "PASS" /\ item.took > 0 /\ item.exceeded = (item.took > t.bound) /\ InTime(item)
       /\ Available(t, refs)
       /\ LET r == item.result[1] IN
          IF t.kind = "full"
          THEN SweepFull(r, t, refs.cases[t.case]) /\ Measured(item, r, refs.cases[t.case].steps[t.new])
          ELSE SweepCached(r, t, refs.seeds[t.past], pinned) /\ Measured(item, r, refs.seeds[t.past].expected)

SweepGates(passed) ==
    LET count(P(_)) == Len(SelectSeq(passed, P)) IN
    /\ count(LAMBDA t : t.role = "original_anchor") = 3
    /\ count(LAMBDA t : t.role = "uninterrupted_generation") >= 2
    /\ count(LAMBDA t : t.kind = "cached" /\ t.past = 13 /\ ~t.profile) = 3

Stats(v) ==
    [n |-> Len(v), total |-> SumOf(v),
     least |-> CHOOSE x \in ToSet(v) : \A y \in ToSet(v) : x <= y,
     most |-> CHOOSE x \in ToSet(v) : \A y \in ToSet(v) : x >= y]

\* Continuation intervals: the token's ordinal and the cache before its forward.
Continuation(report) ==
    FlatMap(LAMBDA item :
        IF item.status # "PASS" \/ item.trial.kind # "full" THEN <<>>
        ELSE [k \in DOMAIN item.result[1].decode |->
                [of |-> item.trial, token |-> k + 1, past |-> item.result[1].prompt.len + k - 1,
                 interval |-> item.result[1].decode[k]]],
        report.trials)

SampleRow(item) ==
    LET t == item.trial
        r == item.result[1]
        base == [trial |-> t, status |-> item.status, reason |-> item.reason, took |-> item.took, exceeded |-> item.exceeded]
    IN  IF item.status # "PASS" THEN [base |-> base]
        ELSE [base |-> base, model |-> r.model, delivered |-> r.delivered, tokens |-> IF t.kind = "full" THEN Len(r.tokens) ELSE 1,
              prompt |-> IF t.kind = "full" THEN r.prompt.len ELSE 0, workspace |-> r.workspace]

PhaseTotals(r) ==
    [kind \in {r.phases[i].kind : i \in DOMAIN r.phases} |->
        LET ps == SelectSeq(r.phases, LAMBDA p : p.kind = kind)
        IN  [f \in {"cycles", "service", "rest", "gemm", "sfpu", "jobs"} |-> SumOf(Field(ps, f))]]

SweepSummary(report) ==
    LET rows == [i \in DOMAIN report.trials |-> SampleRow(report.trials[i])]
        passed == SelectSeq(rows, LAMBDA row : row.base.status = "PASS")
        key(row) == TrialNamed(row.base.trial)
        group(k) == SelectSeq(passed, LAMBDA row : key(row) = k)
        full == SelectSeq(passed, LAMBDA row : row.base.trial.kind = "full")
        profiles == SelectSeq(report.trials, LAMBDA i : i.status = "PASS" /\ i.trial.profile)
        count(s) == Len(SelectSeq(rows, LAMBDA row : row.base.status = s))
    IN  [rows |-> rows,
         groups |-> [k \in {key(passed[i]) : i \in DOMAIN passed} |->
             [trials |-> [i \in DOMAIN group(k) |-> group(k)[i].base.trial],
              model |-> Stats(Field(group(k), "model")), delivered |-> Stats(Field(group(k), "delivered")),
              aggregate |-> <<SumOf(Field(group(k), "tokens")), SumOf(Field(group(k), "delivered"))>>]],
         profiles |-> [i \in DOMAIN profiles |->
             [trial |-> profiles[i].trial, model |-> profiles[i].result[1].model,
              phases |-> PhaseTotals(profiles[i].result[1])]],
         planned |-> Len(report.policy.matrix), passes |-> count("PASS"), skips |-> count("SKIP"), fails |-> count("FAIL"),
         prompts |-> ToSet(Field(full, "prompt")), workspaces |-> ToSet(Field(passed, "workspace")),
         aggregate |-> <<SumOf(Field(full, "tokens")), SumOf(Field(full, "delivered"))>>,
         charged |-> <<SumOf(Field(full, "tokens")), report.elapsed>>]

SweepAccepts(e) ==
    LET report == e.campaign
        refs == e.references
        policy == e.policy
    IN  /\ e.status = "PASS" /\ policy = report.policy /\ policy.referenceBudget = 600 * Second /\ policy.git = "frozen"
        /\ report.status = "PASS" /\ Kept(report, refs, policy)
        /\ 0 < refs.elapsed /\ refs.elapsed <= 601 * Second
        /\ GivenBack(report) /\ Bindings(report, refs, policy)
        /\ Trials(report) = policy.matrix
        /\ \A i \in DOMAIN report.trials : SweepItem(report.trials[i], refs, policy.pinned)
        /\ SweepGates(SelectSeq(Trials(report), LAMBDA t :
              \E i \in DOMAIN report.trials : report.trials[i].trial = t /\ report.trials[i].status = "PASS"))
        /\ e.summary = SweepSummary(report)

SweepEvidence(policy, refs, report) ==
    [status |-> "PASS", policy |-> policy, campaign |-> report, references |-> refs, summary |-> SweepSummary(report)]

-----------------------------------------------------------------------------
(* The maximum-context campaigns. *)

\* The result a warm forward continues: that of the cached trial just before it.
Preceding(report, i) ==
    IF i > 1 /\ report.trials[i - 1].trial.kind = "cached" THEN report.trials[i - 1].result ELSE <<>>

\* A warm sample starts from exactly what the forward before it left.
WarmFollows(seed, previous) ==
    /\ previous # <<>> /\ previous[1].cache = seed.past
    /\ previous[1].token = seed.token /\ previous[1].kv = seed.kv

AllPassed(item) == ~item.exceeded /\ 0 < item.took /\ item.took <= item.trial.bound /\ InTime(item)

ContextCached(r, trial, seed, previous, pinned) ==
    LET warm == r.role = "warm_last_slot" IN
    /\ r.status = "PASS" /\ r.cache = trial.past + 1 /\ r.token = seed.expected.token
    /\ r.firmware = pinned["m5_profile.bin"] /\ Boundary(r, trial)
    /\ warm => WarmFollows(seed, previous)
    /\ ~r.baseline =>
          /\ r.derived.cold = 144 /\ r.derived.appended = (IF warm THEN 288 ELSE 144)
          /\ warm => r.derived.updated >= previous[1].derived.updated
    /\ IF trial.profile THEN ProfileHolds(r) ELSE Unprofiled(r) /\ r.detail = <<>>

ContextFullHolds(r, trial, case, traceMissing) ==
    /\ SameRequest(r, case, trial.new) /\ Timeline(r, trial.new)
    /\ (trial.capture /\ ~traceMissing) => r.traces = 5

(* One campaign on record failed: its eighth trial lacked a fixture after   *)
(* the request itself had passed.  It is audited as that and nothing else.  *)
ContextAccepts(report, refs, failedAttempt) ==
    LET policy == report.policy
        matrix == IF failedAttempt THEN SubSeq(policy.matrix, 1, 8) ELSE policy.matrix
    IN  /\ report.status = (IF failedAttempt THEN "FAIL" ELSE "PASS")
        /\ Kept(report, refs, policy) /\ policy.referenceBudget = 600 * Second
        /\ policy.pinned["m5_pynq.bit"] = Sha(<<"m5_pynq.bit">>) /\ policy.pinned["m5_pynq.hwh"] = Sha(<<"m5_pynq.hwh">>)
        /\ GivenBack(report) /\ Rejection(report.rejection) /\ Bindings(report, refs, policy)
        /\ Trials(report) = matrix
        /\ failedAttempt => /\ report.error = "FileNotFoundError" /\ Len(report.trials) = 8
                            /\ report.trials[8].trial.case = "science" /\ report.trials[8].trial.capture
        /\ \A i \in DOMAIN report.trials :
              LET item == report.trials[i]
                  missing == failedAttempt /\ i = 8
                  t == item.trial
                  r == item.result[1]
              IN  /\ item.status = (IF missing THEN "FAIL" ELSE "PASS") /\ item.partial = missing /\ AllPassed(item)
                  /\ Available(t, refs)
                  /\ IF t.kind = "cached"
                     THEN /\ ContextCached(r, t, refs.seeds[t.past], Preceding(report, i), policy.pinned)
                          /\ Measured(item, r, refs.seeds[t.past].expected)
                     ELSE /\ ContextFullHolds(r, t, refs.cases[t.case], missing)
                          /\ Measured(item, r, refs.cases[t.case].steps[t.new])

Of(report, P(_)) == [i \in DOMAIN SelectSeq(report.trials, P) |-> SelectSeq(report.trials, P)[i].result[1]]
PooledStats(results, f) == IF results = <<>> THEN <<>> ELSE <<Stats(Field(results, f))>>

ContextSummary(report) ==
    LET role(x) == Of(report, LAMBDA i : i.trial.kind = "cached" /\ i.result[1].role = x)
        full == SelectSeq(report.trials, LAMBDA i : i.trial.kind = "full" /\ i.status = "PASS")
        warm == role("warm_last_slot")
    IN  [status |-> report.status, elapsed |-> report.elapsed, trials |-> Len(report.trials),
         warmDelivered |-> PooledStats(warm, "delivered"), warmModel |-> PooledStats(warm, "model"),
         coldDelivered |-> PooledStats(role("cold_initialization_in_model"), "delivered"),
         full |-> [i \in DOMAIN full |-> <<full[i].trial, full[i].result[1].model, full[i].result[1].delivered>>]]

\* e.reports[name] for every campaign of the goal; the last lines are its speed gate.
ContextCloses(e, campaigns) ==
    LET final(name) == e.reports[name]
        cachedOf(name, past) == SelectSeq(final(name).trials, LAMBDA i : i.trial.past = past)
        seeds(name, past) == e.references[name].seeds[past]
    IN  /\ e.status = "PASS" /\ ~e.m6Started /\ DOMAIN e.reports = campaigns
        /\ \A name \in campaigns : ContextAccepts(e.reports[name], e.references[name], name = "qualification_attempt")
        /\ e.summary = [name \in campaigns |-> ContextSummary(e.reports[name])]
        /\ \A name \in {"final_story", "final_science"} :
              /\ Len(cachedOf(name, 1023)) = 3
              /\ \A i \in 1 .. 3 : LET item == cachedOf(name, 1023)[i] IN
                    ~item.trial.profile /\ item.result[1].delivered <= 10 * Second
              /\ \A b \in {"m5_profile.bin", "m5_runtime.bin"} : final(name).policy.pinned[b] = e.binaries[b]
              /\ \A i \in DOMAIN final(name).trials :
                    final(name).trials[i].trial.kind = "cached" => ~final(name).trials[i].result[1].baseline
        /\ \A b \in {"m5_profile.bin", "m5_runtime.bin"} : final("matched_baseline").policy.pinned[b] = Sha(<<b>>)
        /\ LET full == SelectSeq(Trials(final("final_story")), LAMBDA t : t.kind = "full") IN
           [i \in DOMAIN full |-> <<full[i].case, full[i].new, full[i].capture>>] =
           [i \in 1 .. 4 |-> <<ContextFull[i].case, ContextFull[i].new, ContextFull[i].capture>>]
        /\ \A past \in {1022, 1023} :
              /\ seeds("matched_baseline", past).expected = seeds("final_story", past).expected
              /\ seeds("matched_baseline", past).kv = seeds("final_story", past).kv
              /\ seeds("matched_baseline", past).token = seeds("final_story", past).token

-----------------------------------------------------------------------------
(* The startup campaigns. *)

StartupCached(r, trial, seed, previous, pinned) ==
    LET rows == seed.prompt.len
        warm == r.role = "warm_last_slot"
    IN  /\ r.status = "PASS" /\ r.initial = trial.past /\ r.input = seed.prompt /\ r.cache = trial.past + rows
        /\ r.token = seed.expected.token /\ r.firmware = pinned["m5_profile.bin"] /\ r.role = seed.role
        /\ IF warm THEN /\ WarmFollows(seed, previous) /\ r.derived.appended = 288
                        /\ r.derived.updated >= previous[1].derived.updated
                   ELSE r.derived.appended = 144 * rows
        /\ r.derived.cold = 144 /\ Boundary(r, trial) /\ r.workspace <= 2609152
        /\ IF trial.profile
           THEN /\ ProfileHolds(r) /\ SumOf(Field(r.phases, "cycles")) + r.tail = r.cycles
                /\ r.derived.version = 2 =>
                      /\ Len(r.detail) = 16 /\ FirstUse(r.detail, ~warm, rows)
                      /\ r.required = Required(r.detail) /\ 0 <= r.required /\ r.required <= r.model
                      /\ Counter(r.detail, 14).cycles <= Counter(r.detail, 15).cycles
           ELSE Unprofiled(r) /\ r.detail = <<>>

StartupFull(r, trial, case, pinned) ==
    LET image == IF trial.capture THEN "m5_trace.bin" ELSE "m5_runtime.bin" IN
    /\ SameRequest(r, case, trial.new) /\ r.image = image /\ r.firmware = pinned[image]
    /\ trial.capture => r.traces = 5
    /\ Timeline(r, trial.new) /\ r.rate = <<trial.new, r.delivered>> /\ r.workspace <= 2609152

StartupAccepts(report, refs) ==
    LET policy == report.policy IN
    /\ report.status = "PASS" /\ Kept(report, refs, policy) /\ GivenBack(report)
    /\ Bindings(report, refs, policy) /\ Rejection(report.rejection) /\ Trials(report) = policy.matrix
    /\ \A i \in DOMAIN report.trials :
          LET item == report.trials[i]
              t == item.trial
              r == item.result[1]
          IN  /\ item.status = "PASS" /\ AllPassed(item) /\ Available(t, refs)
              /\ IF t.kind = "cached"
                 THEN /\ StartupCached(r, t, refs.seeds[t.past], Preceding(report, i), policy.pinned)
                      /\ Measured(item, r, refs.seeds[t.past].expected)
                 ELSE /\ StartupFull(r, t, refs.cases[t.case], policy.pinned)
                      /\ Measured(item, r, refs.cases[t.case].steps[t.new])

\* The references are the canonical ones, whatever the campaign's stage carries.
ReferencesAccepted(refs) ==
    /\ refs.case \in {"story", "science"}
    /\ \A past \in {1022, 1023} : refs.seeds[past] = TwoForwardSeeds(refs.case)[past]
    /\ refs.cases = Fixtures
    /\ \E c \in DOMAIN Fixtures : refs.seeds[0].prompt = Fixtures[c].input /\ refs.seeds[0].expected = Fixtures[c].steps[1]

\* A stage as it lies on disk: the measured policy and references are the files there.
StageAccepted(stage) ==
    /\ StartupAccepts(stage.campaign, stage.references) /\ ReferencesAccepted(stage.references)
    /\ stage.campaign.policy = stage.policy /\ stage.campaign.policySha = Sha(stage.policy)
    /\ stage.campaign.refSha = Sha(stage.references)
    /\ \A name \in DOMAIN stage.policy.pinned : stage.deployed[name] = stage.policy.pinned[name]

StartupSummary(report) ==
    LET role(x) == Of(report, LAMBDA i : i.trial.kind = "cached" /\ i.result[1].role = x)
        full == SelectSeq(report.trials, LAMBDA i : i.trial.kind = "full")
    IN  [status |-> report.status, elapsed |-> report.elapsed,
         cached |-> [x \in {"cold_initialization_in_model", "warm_last_slot", "actual_prompt_prefill"} |->
            [delivered |-> PooledStats(role(x), "delivered"), model |-> PooledStats(role(x), "model"),
             required |-> SelectSeq(Field(role(x), "required"), LAMBDA c : c # Absent)]],
         full |-> [i \in DOMAIN full |-> <<full[i].trial, full[i].result[1].model, full[i].result[1].delivered>>]]

(* Every selected repetition is within its limit: an average conceals none. *)
Repeated(items, limit, P(_)) ==
    Len(items) >= 3 /\ \A i \in DOMAIN items : P(items[i]) /\ items[i].result[1].delivered <= limit

FinalAccepted(reports, refs, binaries, overlay) ==
    LET sel(name, P(_)) == SelectSeq(reports[name].trials, P)
        finals == [story |-> "final_story", science |-> "final_science"]
        diagnostics == [story |-> "diagnostic_story", science |-> "diagnostic_science"]
        full == sel("final_story", LAMBDA i : i.trial.kind = "full") \o sel("final_science", LAMBDA i : i.trial.kind = "full")
        pinned(name) == reports[name].policy.pinned
    IN  /\ \A prefix \in DOMAIN finals :
              LET cold == sel(diagnostics[prefix], LAMBDA i : i.trial.past = 1022) IN
              /\ refs[finals[prefix]].case = prefix /\ refs[diagnostics[prefix]].case = prefix
              /\ \A n \in DOMAIN overlay :
                    pinned(finals[prefix])[n] = overlay[n] /\ pinned(diagnostics[prefix])[n] = overlay[n]
              /\ \A n \in {"m5_runtime.bin", "m5_profile.bin", "m5_trace.bin"} : pinned(finals[prefix])[n] = binaries[n]
              /\ \A gate \in {<<1022, 20 * Second>>, <<1023, 10 * Second>>} :
                    Repeated(sel(finals[prefix], LAMBDA i : i.trial.past = gate[1]), gate[2],
                             LAMBDA i : ~i.trial.profile /\ i.result[1].derived.version = 2)
              /\ pinned(diagnostics[prefix])["m5_profile.bin"] = binaries["m5_detail.bin"]
              /\ cold # <<>>
              /\ \A i \in DOMAIN cold : /\ cold[i].trial.profile /\ cold[i].result[1].required <= 10 * Second
                                        /\ cold[i].result[1].delivered <= 20 * Second
        /\ \A gate \in {<<"science", 1, 10>>, <<"computing", 1, 10>>, <<"story", 2, 20>>} :
              Repeated(SelectSeq(full, LAMBDA i : i.trial.case = gate[1] /\ ~i.trial.capture), gate[3] * Second,
                       LAMBDA i : i.trial.new = gate[2])
        /\ \E i \in DOMAIN full : full[i].trial.case = "story" /\ full[i].trial.capture

(* The overlay: timing in picoseconds, block RAM in halves.  The mirror of  *)
(* the data reads costs sixteen more and must be proven by the reports.     *)
HardwareAccepted(r, resets, mirror) ==
    /\ r.constrained /\ r.checks = 12
    /\ r.routed = r.routable /\ r.routable > 0 /\ r.routeErrors = 0
    /\ r.drc = <<<<"RTSTAT-10", "Warning", 1>>>> /\ r.methodology = <<<<"LUTAR-1", "Warning", resets>>>>
    /\ r.wns >= 250 /\ r.tns = 0 /\ r.hold > 0 /\ r.ths = 0 /\ r.dsp = 0
    /\ r.bram = (IF mirror THEN 255 ELSE 223)
    /\ r.fastHarts = {0, 1} /\ r.fetchMirror /\ (mirror => r.dataMirror)
    /\ r.files = {"m5_pynq.bit", "m5_pynq.hwh", "m5_pynq_final.dcp"}

-----------------------------------------------------------------------------
(* What the audits are relied on for, evaluated. *)

Every(policy, took) == [i \in DOMAIN policy.matrix |-> took]
Bounds(policy) == [i \in DOMAIN policy.matrix |-> policy.matrix[i].bound]

SweepRun(done, ending, provision, took, failing) ==
    LET refs == SweepReferences(SweepPolicy, done, ending)
    IN  SweepEvidence(SweepPolicy, refs, Campaign(SweepPolicy, refs, provision, took, failing))

ASSUME SweepTrialsNamed ==
    \A i, j \in DOMAIN SweepMatrix :
        TrialNamed(SweepMatrix[i]) = TrialNamed(SweepMatrix[j]) /\ SweepMatrix[i].ordinal = SweepMatrix[j].ordinal => i = j

(* The order of the policy protects what the audit requires: 1449 s of     *)
(* staging and provisioning may precede the trials, and every one of them  *)
(* may take its whole bound, without a required trial being skipped.       *)
ASSUME SweepRequiredFit ==
    /\ SweepAccepts(SweepRun(Products, "done", 1449 * Second, Bounds(SweepPolicy), 0))
    /\ ~SweepAccepts(SweepRun(Products, "done", 1450 * Second, Bounds(SweepPolicy), 0))

(* A campaign closes whatever the alarm kept of its references, if it kept *)
(* the first cache, and whether or not trials were slow or skipped.        *)
ASSUME SweepCloses ==
    \A done \in 0 .. Products, took \in {Every(SweepPolicy, 10 * Second), [Bounds(SweepPolicy) EXCEPT ![3] = @ + Second]} :
        LET e == SweepRun(done, IF done = Products THEN "done" ELSE "timeout", 100 * Second, took, 0)
        IN  e.campaign.status = "PASS" /\ (SweepAccepts(e) <=> done > 0)

\* A trial that fails, or that the alarm strikes, leaves a campaign no audit accepts.
ASSUME SweepFailureStays ==
    /\ \A i \in DOMAIN SweepMatrix : ~SweepAccepts(SweepRun(Products, "done", Second, Every(SweepPolicy, 9 * Second), i))
    /\ LET e == SweepRun(Products, "done", Second, [Every(SweepPolicy, 9 * Second) EXCEPT ![5] = 3480 * Second], 0)
       IN  e.campaign.status = "FAIL" /\ ~SweepAccepts(e)
    /\ ~SweepAccepts(SweepRun(Products, "error", Second, Every(SweepPolicy, 9 * Second), 0))

\* One tick per token after the first, at the cache it was computed from.
ASSUME ContinuationComplete ==
    LET c == Continuation(SweepRun(Products, "done", Second, Every(SweepPolicy, 9 * Second), 0).campaign)
    IN  \A t \in ToSet(SweepMatrix) : t.kind = "full" =>
            LET rows == SelectSeq(c, LAMBDA row : row.of = t)
            IN  /\ Len(rows) = t.new - 1
                /\ \A k \in DOMAIN rows : rows[k].token = k + 1 /\
                      rows[k].past = SweepReferences(SweepPolicy, Products, "done").cases[t.case].input.len + k - 1

\* Every single falsification of a result; the statistics are recomputed after it.
ForgedResults(t, r) ==
    <<[r EXCEPT !.cache = @ + 1], [r EXCEPT !.logits = <<"forged">>], [r EXCEPT !.kv = <<"forged">>],
      [r EXCEPT !.delivered = r.model], [r EXCEPT !.model = @ - 2]>>
    \o (IF t.kind = "full"
        THEN <<[r EXCEPT !.tokens = Tail(@)], [r EXCEPT !.tokens[1] = <<"forged">>], [r EXCEPT !.id = "forged"],
               [r EXCEPT !.prompt.len = @ + 1], [r EXCEPT !.decode = Append(@, 1)], [r EXCEPT !.ttft = @ + 1]>>
        ELSE <<[r EXCEPT !.token = <<"forged">>], [r EXCEPT !.firmware = Sha(<<"forged">>)],
               [r EXCEPT !.cycles = @ + 1], [r EXCEPT !.profiled = ~@]>>)
    \o (IF t.kind = "cached" /\ t.profile
        THEN <<[r EXCEPT !.phases = Tail(@)], [r EXCEPT !.phases = <<@[2], @[1]>> \o SubSeq(@, 3, Len(@))],
               [r EXCEPT !.phases[9].service = @ + 1], [r EXCEPT !.phases[9].rest = @ + 1],
               [r EXCEPT !.phases[9].gemm = 2, !.gemm = @ + CycleTime], [r EXCEPT !.sfpu = @ + CycleTime],
               [r EXCEPT !.rest = @ - 1]>>
        ELSE <<>>)

ForgedItems(item) ==
    <<[item EXCEPT !.status = "FAIL"], [item EXCEPT !.status = "SKIP", !.reason = "slow"],
      [item EXCEPT !.started = 3480 * Second], [item EXCEPT !.exceeded = ~@], [item EXCEPT !.trial.bound = @ + 1]>>
    \o [i \in DOMAIN ForgedResults(item.trial, item.result[1]) |->
           [item EXCEPT !.result = <<ForgedResults(item.trial, item.result[1])[i]>>]]

ForgedReports(report, changed) ==
    <<[report EXCEPT !.elapsed = 3601 * Second], [report EXCEPT !.within = FALSE], [report EXCEPT !.unload = FALSE],
      [report EXCEPT !.cleanupError = TRUE], [report EXCEPT !.owner = 1], [report EXCEPT !.reopened.pages = 1],
      [report EXCEPT !.reopened.pte = 1], [report EXCEPT !.shas["m5_runtime.bin"] = Sha(<<"forged">>)],
      [report EXCEPT !.policySha = Sha(<<>>)], [report EXCEPT !.clock = 90], [report EXCEPT !.allocated = @ - 1],
      [report EXCEPT !.trials = Tail(@)], [report EXCEPT !.trials = <<@[2], @[1]>> \o SubSeq(@, 3, Len(@))]>>
    \o FlattenSeq([i \in DOMAIN report.trials |->
         IF report.trials[i].trial \in changed
         THEN [n \in DOMAIN ForgedItems(report.trials[i]) |-> [report EXCEPT !.trials[i] = ForgedItems(report.trials[i])[n]]]
         ELSE <<>>])

ASSUME SweepRefusesForgery ==
    LET e == SweepRun(Products, "done", 100 * Second, Every(SweepPolicy, 9 * Second), 0)
        forged == ForgedReports(e.campaign, ToSet(SweepMatrix))
    IN  /\ SweepAccepts(e)
        /\ \A n \in DOMAIN forged : ~SweepAccepts(SweepEvidence(SweepPolicy, e.references, forged[n]))
        /\ ~SweepAccepts([e EXCEPT !.summary.aggregate[2] = @ - 1])

\* What the trace parser lets through, the audit's own accounting accepts.
ASSUME ParserAgrees ==
    \A n \in {1, 2, 50, 100}, c \in 0 .. 3, s \in 0 .. 3, g \in 0 .. 2, slack \in {-1, 0, 5} :
        LET phases == [StandardPhases EXCEPT ![n].cycles = c, ![n].service = s, ![n].gemm = g]
            spent(f) == SumOf(Field(phases, f))
            header == [start |-> 0, stop |-> spent("cycles") + slack, service |-> spent("service"),
                       gemm |-> spent("gemm"), sfpu |-> spent("sfpu"), jobs |-> 100]
        IN  ProfileParses(header, phases, TRUE) <=>
                slack >= 0 /\ c > 0 /\ ProfileHolds(Parsed(header, phases, TRUE))

OverlayFiles == {"m5_pynq.bit", "m5_pynq.hwh"}
Binaries == {"m5_runtime.bin", "m5_profile.bin", "m5_trace.bin"}
ReadyPolicy(matrix) == PolicyOf(matrix, Pinned(SweepImages \cup {"m5_context_ready_run.py"}))
StartupPolicy(matrix, profile) ==
    PolicyOf(matrix, [Pinned(OverlayFiles \cup Binaries \cup {"m5_startup_run.py"}) EXCEPT !["m5_profile.bin"] = Sha(<<profile>>)])

ContextRun(matrix, of, took) ==
    LET policy == ReadyPolicy(matrix)
    IN  Campaign(policy, ContextReferences(policy, of), 100 * Second, Every(policy, took), 0)
StartupRun(matrix, profile, provision, took(_)) ==
    LET policy == StartupPolicy(matrix, profile)
    IN  Campaign(policy, StartupReferences(policy, "story", "science"), provision, took(policy), 0)
RefsOf(report) == StartupReferences(report.policy, "story", "science")

\* A derived state, a boundary or an image that is not the one the trial asked for.
ForgedStarts(t, r) ==
    IF t.kind = "full"
    THEN <<[r EXCEPT !.image = "forged"], [r EXCEPT !.traces = 4, !.workspace = 2609153], [r EXCEPT !.rate[1] = @ + 1]>>
    ELSE <<[r EXCEPT !.derived.cold = 143], [r EXCEPT !.derived.appended = @ - 144], [r EXCEPT !.role = "forged"],
           [r EXCEPT !.role = IF @ = "warm_last_slot" THEN "cold_initialization_in_model" ELSE "warm_last_slot"],
           [r EXCEPT !.input.len = @ + 1], [r EXCEPT !.initial = @ + 1]>>
         \o (IF t.profile THEN <<[r EXCEPT !.detail[15].calls = 1], [r EXCEPT !.detail[15].cycles = 9],
                                 [r EXCEPT !.required = 0], [r EXCEPT !.tail = @ + 1]>> ELSE <<>>)
StartupForgeries(report) ==
    ForgedReports(report, ToSet(Trials(report)))
    \o <<[report EXCEPT !.rejection.output = FALSE], [report EXCEPT !.rejection.regions = @ \ {"v"}]>>
    \o FlattenSeq([i \in DOMAIN report.trials |->
          LET item == report.trials[i] IN
          [n \in DOMAIN ForgedStarts(item.trial, item.result[1]) |->
              [report EXCEPT !.trials[i].result = <<ForgedStarts(item.trial, item.result[1])[n]>>]]])

(* Every matrix the preparation admits fits the budget with each trial at   *)
(* its bound and 240 s of provisioning, and closes; with a trial of it over *)
(* its bound, or without its warm trial's predecessor, it does not.         *)
ASSUME StartupFits ==
    \A plain, full, skip \in BOOLEAN, n \in {1, 3} : StartupAdmits(plain, n) =>
        LET m == StartupMatrix(plain, full, skip, n)
            report == StartupRun(m, "m5_profile.bin", 240 * Second, Bounds)
            slow == StartupRun(m, "m5_profile.bin", 0, LAMBDA p : [Bounds(p) EXCEPT ![Len(m)] = @ + 1])
            alone == [report EXCEPT !.policy.matrix = Tail(@), !.trials = Tail(@)]
        IN  /\ StartupAccepts(report, RefsOf(report)) /\ ~StartupAccepts(slow, RefsOf(slow))
            /\ ~StartupAccepts([alone EXCEPT !.policySha = Sha(alone.policy)], RefsOf(alone))

ASSUME StartupRefusesForgery ==
    \A plain \in BOOLEAN :
        LET report == StartupRun(StartupMatrix(plain, TRUE, FALSE, 1), "m5_profile.bin", Second, LAMBDA p : Every(p, 9 * Second))
            forged == StartupForgeries(report)
        IN  /\ ReferencesAccepted(RefsOf(report))
            /\ \A n \in DOMAIN forged : ~StartupAccepts(forged[n], RefsOf(report))

ContextRefs(report) == ContextReferences(report.policy, "story")
\* The attempt on record: a capture without its fixture, struck after the request had passed.
FailedAttempt ==
    LET matrix == [ContextMatrix(3, FALSE, TRUE) EXCEPT ![8].capture = TRUE]
        policy == ReadyPolicy(matrix)
        struck == Campaign(policy, ContextReferences(policy, "story"), Second, Every(policy, 9 * Second), 8)
        partial == ResultOf(matrix[8], ContextRefs(struck), 9 * Second, <<>>, policy)
    IN  [struck EXCEPT !.error = "FileNotFoundError", !.trials[8].partial = TRUE, !.trials[8].result = <<partial>>]

\* A failed attempt is accepted as that one failure only, and no passing campaign as it.
ASSUME FailureIsNotSuccess ==
    LET good == ContextRun(ContextMatrix(3, FALSE, TRUE), "story", 9 * Second)
        refs == ContextRefs(FailedAttempt)
    IN  /\ ContextAccepts(good, ContextRefs(good), FALSE) /\ ~ContextAccepts(good, ContextRefs(good), TRUE)
        /\ ContextAccepts(FailedAttempt, refs, TRUE) /\ ~ContextAccepts(FailedAttempt, refs, FALSE)
        /\ ~ContextAccepts([FailedAttempt EXCEPT !.error = "TimeoutError"], refs, TRUE)
        /\ ~ContextAccepts([FailedAttempt EXCEPT !.trials[8].result[1].kv = <<"forged">>], refs, TRUE)

(* The goal of the maximum-context work: three warm samples within 10 s,    *)
(* against a baseline of the untouched firmware on the same seeds.          *)
ContextGoal(took) ==
    LET matrix == [name \in {"final_story", "final_science", "matched_baseline"} |->
                      ContextMatrix(3, FALSE, name = "final_story")]
        of(name) == IF name = "final_science" THEN "science" ELSE "story"
        run(name) == ContextRun(matrix[name], of(name), took)
        old(report) == [report EXCEPT !.trials = [i \in DOMAIN @ |-> [@[i] EXCEPT !.result[1].baseline = TRUE]]]
        reports == [name \in DOMAIN matrix \cup {"qualification_attempt"} |->
            CASE name = "qualification_attempt" -> FailedAttempt
              [] name = "matched_baseline"      -> old(run(name))
              [] OTHER                          -> run(name)]
    IN  [status |-> "PASS", m6Started |-> FALSE, reports |-> reports,
         references |-> [name \in DOMAIN reports |->
            ContextReferences(reports[name].policy, IF name \in DOMAIN matrix THEN of(name) ELSE "story")],
         summary |-> [name \in DOMAIN reports |-> ContextSummary(reports[name])],
         binaries |-> [b \in {"m5_profile.bin", "m5_runtime.bin"} |-> Sha(<<b>>)]]
ASSUME ContextGoalHolds ==
    LET e == ContextGoal(9 * Second)
        names == DOMAIN e.reports
        other == ContextReferences(e.reports["matched_baseline"].policy, "science")
    IN  /\ ContextCloses(e, names) /\ ~ContextCloses(ContextGoal(11 * Second), names)
        /\ ~ContextCloses([e EXCEPT !.m6Started = TRUE], names)
        /\ \A name \in names : ~ContextCloses([e EXCEPT !.reports[name].trials[1].result[1].delivered = @ - 1], names)
        /\ ~ContextCloses([e EXCEPT !.references["matched_baseline"] = other], names)
        /\ \A d, f \in BOOLEAN : ContextAdmits(TRUE, d, f) =>
              \A t \in ToSet(ContextMatrix(3, d, f)) : t.kind = "cached" /\ ~t.profile

\* What the runner lets through of a trial's counters, and what it gives, the audit accepts.
ASSUME DetailsAgree ==
    \A cold \in BOOLEAN, rows \in {1, 8}, i \in {1, 2, 14, 15, 16}, c \in {-1, 0, 1}, n \in {-132, 0, 144} :
        LET d == [StandardDetail(cold, rows) EXCEPT ![i].cycles = @ + c, ![i].calls = @ + n]
            result == [derived |-> [version |-> 2], detail |-> d,
                       role |-> IF cold THEN "actual_prompt_prefill" ELSE "warm_last_slot"]
        IN  /\ (c = 0 /\ n = 0) => (DetailsParse(d, rows) /\ InitialCoverage(result, rows))
            /\ (DetailsParse(d, rows) /\ InitialCoverage(result, rows) /\ i # 2) => n = 0

\* A stage closes on the files its campaign ran, not on others of the same content elsewhere.
Stage ==
    LET report == StartupRun(StartupMatrix(FALSE, TRUE, FALSE, 1), "m5_detail.bin", Second, LAMBDA p : Every(p, 9 * Second))
    IN  [campaign |-> report, policy |-> report.policy, references |-> RefsOf(report), deployed |-> report.policy.pinned]
ASSUME StageRefusesOthers ==
    LET s == Stage
        again == [s.policy EXCEPT !.budget = 3599 * Second]
        foreign == StartupReferences(s.policy, "science", "science")
    IN  /\ StageAccepted(s)
        /\ ~StageAccepted([s EXCEPT !.policy = again]) /\ ~StageAccepted([s EXCEPT !.references = foreign])
        /\ \A name \in DOMAIN s.deployed : ~StageAccepted([s EXCEPT !.deployed[name] = Sha(<<"forged">>)])
        /\ \A x \in DOMAIN StartupSummary(s.campaign).cached :
              StartupSummary(s.campaign).cached[x].required = <<Required(StandardDetail(x # "warm_last_slot", 1))>>

(* The speed gates hold of each repetition: one sample over its limit is    *)
(* refused however fast the others were.                                    *)
FinalReports(took) ==
    LET plain(p) == [i \in DOMAIN p.matrix |-> took]
        final == StartupRun(StartupMatrix(TRUE, TRUE, TRUE, 3), "m5_profile.bin", Second, plain)
        diagnostic == StartupRun(StartupMatrix(FALSE, FALSE, FALSE, 1), "m5_detail.bin", Second, plain)
    IN  [name \in {"final_story", "final_science", "diagnostic_story", "diagnostic_science"} |->
            IF name \in {"final_story", "final_science"} THEN final ELSE diagnostic]
FinalRefs == [name \in {"final_story", "final_science", "diagnostic_story", "diagnostic_science"} |->
                 [case |-> IF name \in {"final_story", "diagnostic_story"} THEN "story" ELSE "science"]]
AcceptedFinal(reports) ==
    FinalAccepted(reports, FinalRefs, [b \in Binaries \cup {"m5_detail.bin"} |-> Sha(<<b>>)], Pinned(OverlayFiles))
Limit(t) == IF t.past = 1022 \/ t.new = 2 THEN 20 * Second ELSE 10 * Second
ASSUME NoAverageWaiver ==
    LET reports == FinalReports(9 * Second) IN
    /\ AcceptedFinal(reports)
    /\ \A i \in DOMAIN reports["final_story"].trials, name \in {"final_story", "final_science"}, late \in {0, 1} :
          LET t == reports[name].trials[i].trial IN
          AcceptedFinal([reports EXCEPT ![name].trials[i].result[1].delivered = Limit(t) + late])
              <=> late = 0 \/ t.capture
    /\ \A name \in DOMAIN reports :
          ~AcceptedFinal([reports EXCEPT ![name].policy.pinned["m5_profile.bin"] = Sha(<<"forged">>)])

\* A margin below 0.250 ns, a new finding, or a mirror not proven by the reports is refused.
GoodHardware(resets, mirror) ==
    [constrained |-> TRUE, checks |-> 12, routed |-> 9, routable |-> 9, routeErrors |-> 0,
     drc |-> <<<<"RTSTAT-10", "Warning", 1>>>>, methodology |-> <<<<"LUTAR-1", "Warning", resets>>>>,
     wns |-> 250, tns |-> 0, hold |-> 1, ths |-> 0, dsp |-> 0, bram |-> IF mirror THEN 255 ELSE 223,
     fastHarts |-> {0, 1}, fetchMirror |-> TRUE, dataMirror |-> mirror,
     files |-> OverlayFiles \cup {"m5_pynq_final.dcp"}]
ASSUME HardwareGates ==
    \A resets \in {6, 9}, mirror, claimed \in BOOLEAN :
        LET r == GoodHardware(resets, mirror) IN
        /\ HardwareAccepted(r, resets, claimed) <=> mirror = claimed
        /\ \A bad \in {[r EXCEPT !.wns = 249], [r EXCEPT !.hold = 0], [r EXCEPT !.routed = 8], [r EXCEPT !.dsp = 1],
                       [r EXCEPT !.fastHarts = {0}]} : ~HardwareAccepted(bad, resets, mirror)
        /\ ~HardwareAccepted(r, resets + 1, mirror)
        /\ ~HardwareAccepted([r EXCEPT !.drc = @ \o r.methodology], resets, mirror)
=============================================================================
