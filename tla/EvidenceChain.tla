--------------------------- MODULE EvidenceChain ---------------------------
(***************************************************************************)
(* The closures of the M5 work, each an evidence file of digests and       *)
(* reports over the working tree, and the audits that hold them together:  *)
(* every audit runs the one before it.  A path is <<kind, closure,         *)
(* directory, file>>.  A file has a name of its contents, two files the    *)
(* same name if they are the same byte for byte; a digest is that name,    *)
(* wrapped.  Times are those of CampaignAudit.  Probes and the counters    *)
(* inside a phase are left out.                                            *)
(* The closing assumptions are facts TLC computes; the board programs that *)
(* make the evidence files are run next to them.                           *)
(***************************************************************************)
EXTENDS CampaignAudit, BoardScript

Closures == <<"m5", "opt", "fast", "iterate", "scalar", "search", "tenth", "sweep", "context", "startup">>
Position(c) == CHOOSE i \in DOMAIN Closures : Closures[i] = c
Before(c) == Closures[Position(c) - 1]

File(name, says) == [name |-> <<name>>, says |-> says]
Opaque(name) == File(name, <<>>)
Digest(f) == Sha(f.name)
With(tree, files) == files @@ tree
Says(tree, p) == tree[p].says

EvidenceFile(c)  == <<"docs", c, "", "evidence.json">>
PolicyFile(c)    == <<"source", c, "", "performance_policy.json">>
CompleteFile(c)  == <<"source", c, "", "complete_policy.json">>
PhysicalFile     == <<"docs", "m5", "", "physical.json">>
Runner(f)        == <<"zynq", "", "", f>>
Controller       == <<"runtime", "", "", "pa_m5_hw.c">>
SeedFile         == <<"build", "seed", "", "manifest.json">>
FixtureFile      == <<"build", "fixtures", "", "manifest.json">>
Built(c, d, f)   == <<"build", c, d, f>>
OverlayFile(c, n) == Built(c, "hardware", n)
HardwareReports(c) == Built(c, "hardware", "reports")

-----------------------------------------------------------------------------
(* Manifests: the files an evidence file binds. *)

Digests(paths, tree) == [p \in paths |-> Digest(tree[p])]
Matches(listed, tree) == \A p \in DOMAIN listed : p \in DOMAIN tree /\ Digest(tree[p]) = listed[p]

Harness(c) == {"m5_run.py", "m5_opt_profile.py"}
              \cup (IF c = "opt" THEN {} ELSE IF c = "fast" THEN {"m5_fast_profile.py"} ELSE {"m5_iterate_profile.py"})
ReleaseRunners(c) == {"m5_opt_release_check.py"} \cup (IF c = "opt" THEN {} ELSE {"m5_fast_complete.py"})

SourcePaths(c, tree) ==
    {p \in DOMAIN tree : p[1] = "source" /\ p[2] = c}
    \cup (CASE c \in {"opt", "fast", "iterate", "scalar", "search", "tenth"} -> {Runner(f) : f \in Harness(c) \cup ReleaseRunners(c)}
            [] c = "sweep"   -> {Runner("m5_sweep.py")}
            [] c = "context" -> {Runner("m5_context_ready_run.py"), Runner("m5_context_run.py")}
            [] c = "startup" -> {Runner("m5_startup_run.py")}
            [] OTHER         -> {Runner("m5_run.py")})
    \cup (IF c \in {"scalar", "search", "tenth"} THEN {PolicyFile("iterate")} ELSE {})
    \cup (IF c = "scalar" THEN {CompleteFile("iterate")} ELSE {})
    \cup (IF c \in {"iterate", "scalar"} THEN {Controller} ELSE {})

\* The globs of the build directories, the prior evidence and the shared inputs.
ArtifactPaths(c, tree) ==
    {p \in DOMAIN tree : p[1] = "build" /\ p[2] = c}
    \cup (IF c \in {"fast", "iterate", "scalar", "search", "tenth"} THEN {EvidenceFile(Before(c))} ELSE {})
    \cup (IF c \in {"opt", "fast", "iterate", "scalar"} THEN {SeedFile} ELSE {})
    \cup (IF c \in {"m5", "opt", "fast", "iterate"} THEN {FixtureFile} ELSE {})
    \cup (IF c = "iterate" THEN {OverlayFile("fast", n) : n \in OverlayFiles} ELSE {})
    \cup (IF c = "m5" THEN {PhysicalFile} ELSE {})

\* From the fast closure on the audit lists the tree again; m5 and opt check only what they recorded.
Listed(c, e, tree) ==
    /\ Position(c) > 2 => /\ DOMAIN e.sources = SourcePaths(c, tree)
                          /\ DOMAIN e.artifacts = ArtifactPaths(c, tree)
    /\ Matches(e.sources, tree) /\ Matches(e.artifacts, tree)

-----------------------------------------------------------------------------
(* Candidates: each closure measures several, in order, and decides. *)

Candidates(c) ==
    CASE c = "opt"     -> <<"baseline", "shift", "metadata", "reuse">>
      [] c = "fast"    -> <<"fast_only", "prepared", "requant">>
      [] c = "iterate" -> <<"cycle1", "cycle2", "cycle3">>
      [] c = "scalar"  -> <<"arithmetic", "lookup", "metadata", "affine">>
      [] c = "search"  -> <<"lto", "fusion", "product">>
      [] c = "tenth"   -> <<"round", "factor", "reciprocal">>
Final(c) == Candidates(c)[Len(Candidates(c))]
Retained(c) == SelectSeq(Candidates(c), LAMBDA n : n \notin {"cycle2", "lto"})
Decisions(c) == [n \in ToSet(Candidates(c)) |->
                    CASE n = "cycle2" -> "DEFER_NO_MATERIAL_GAIN" [] n = "lto" -> "REJECT_NO_GAIN" [] OTHER -> "RETAIN"]

\* opt and fast sample every candidate; the others compare one diagnostic each and sample the release.
Sampled(c) == IF c \in {"opt", "fast"} THEN ToSet(Candidates(c)) ELSE {"measurement"}
Decoded(c) == ToSet(Candidates(c)) \cup Sampled(c)
DirectoryOf(c, name) == IF name = "measurement" THEN Final(c) ELSE name
ImageFile(c, name) ==
    IF name = "fast_only" THEN Built("opt", "reuse", "m5_profile.bin")
    ELSE Built(c, DirectoryOf(c, name), "m5_profile.bin")
ReportNames(c) == Decoded(c) \cup {"complete", "release"} \cup (IF c = "opt" THEN {} ELSE {"campaign"})
                  \cup (IF c = "iterate" THEN {"rejected_clock"} ELSE {})
ReportFile(c, name) ==
    Built(c, IF name \in ToSet(Candidates(c)) THEN name ELSE IF name = "rejected_clock" THEN "c2" ELSE Final(c),
          IF name \in ToSet(Candidates(c)) THEN "diagnostic.json" ELSE name)

Samples == <<"unprofiled_measured_1", "unprofiled_measured_2", "unprofiled_measured_3">>
Roles(measured) ==
    <<"profiled_diagnostic">> \o (IF measured THEN <<"unprofiled_warmup">> \o Samples ELSE <<"unprofiled_diagnostic">>)

StatisticsFor(report) ==
    LET of(f) == Stats(Field(SelectSeq(report.runs, LAMBDA r : r.role \in ToSet(Samples)), f))
    IN  [model |-> of("model"), delivered |-> of("delivered")]

Mean(stats) == <<stats.total, stats.n>>
Quicker(a, b) == a[1] * b[2] < b[1] * a[2]
Diagnostic(report) == <<report.runs[2].model, 1>>
Descending(s) == \A i \in 1 .. Len(s) - 1 : Quicker(s[i + 1], s[i])

ReleaseStatistics(c, e) ==
    CASE c = "opt" -> e.statistics["reuse"] [] c = "fast" -> e.statistics["requant"] [] OTHER -> e.statistics["final"]

(* Every retained candidate is faster than what was retained before it; a   *)
(* rejected one must have been no faster.                                   *)
DecisionsHold(c, e, old) ==
    LET kept == Retained(c)
        diagnosed == [i \in DOMAIN kept |-> Diagnostic(e.reports[kept[i]])]
        mean(n) == Mean(e.statistics[n].model)
        base == ReleaseStatistics(Before(c), old)
        final == ReleaseStatistics(c, e)
    IN  /\ c # "opt" => e.decisions = Decisions(c)
        /\ CASE c = "opt"  -> Descending([i \in DOMAIN kept |-> mean(kept[i])])
             [] c = "fast" -> Descending(<<mean("slow")>> \o [i \in DOMAIN kept |-> mean(kept[i])])
             [] OTHER      -> Descending(<<Mean(base.model)>> \o diagnosed)
        /\ c \in {"iterate", "scalar", "search", "tenth"} => Quicker(Mean(final.delivered), Mean(base.delivered))
        /\ c \in {"search", "tenth"} => Quicker(Mean(final.model), Mean(base.model))
        /\ c = "search" => ~Quicker(Diagnostic(e.reports["lto"]), Mean(base.model))
        /\ c = "tenth" => final.delivered.total <= 10 * Second * final.delivered.n

StatisticsHold(c, e, old) ==
    /\ \A n \in Sampled(c) :
          e.statistics[IF n = "measurement" THEN "final" ELSE n] = StatisticsFor(e.reports[n])
    /\ c = "fast" => e.statistics["slow"] = old.statistics["reuse"]
    /\ c \in {"iterate", "scalar", "search", "tenth"} => e.statistics["baseline"] = ReleaseStatistics(Before(c), old)

-----------------------------------------------------------------------------
(* One measured decode. *)

DigestsOf(c, name, policy, tree) ==
    [f \in Harness(c) |-> Digest(tree[Runner(f)])]
    @@ [n \in OverlayFiles |-> CASE c = "opt"  -> Digest(tree[OverlayFile("m5", n)])
                                 [] c = "fast" -> Digest(tree[OverlayFile("fast", n)])
                                 [] OTHER      -> policy.overlay[n]]
    @@ ("m5_profile.bin" :> Digest(tree[ImageFile(c, name)]))
    @@ ("seed" :> Digest(tree[SeedFile]))

RunHolds(c, run, k, role, image, seed) ==
    /\ run.status = "PASS" /\ run.role = role /\ run.profiled = (k = 1) /\ run.firmware = image
    /\ run.token = seed.expected.token /\ run.logits = seed.expected.logits /\ run.kv = seed.expected.kv
    /\ run.cache = 14
    /\ 0 < run.model /\ run.model < run.delivered /\ run.delivered < 120 * Second
    /\ c # "opt" => run.model = run.cycles * CycleTime
    /\ c \notin {"opt", "fast"} => run.ordinal = k /\ (k > 1 => run.phases = <<>> /\ run.service = Absent /\ run.tail = Absent)

\* Phases in their order, nested, and their totals those of the decode.
AccountHolds(c, run) ==
    /\ Covered(run.phases) /\ \A i \in DOMAIN run.phases : Nested(run.phases[i])
    /\ SumOf(Field(run.phases, "cycles")) + run.tail = run.cycles
    /\ SumOf(Field(run.phases, "jobs")) = run.jobs
    /\ \A f \in {"service", "gemm", "sfpu"} : SumOf(Field(run.phases, f)) * CycleTime = run[f]
    /\ c # "opt" => run.service + run.rest = run.model
    /\ c \notin {"opt", "fast"} => \A i \in DOMAIN run.phases : run.phases[i].rest = run.phases[i].cycles - run.phases[i].service

Returned(report) == report.status = "PASS" /\ report.owner = 0 /\ ~report.cleanupError

DecodeHolds(c, name, report, policy, tree) ==
    LET roles == Roles(name \in Sampled(c))
        expected == DigestsOf(c, name, policy, tree)
        seed == Says(tree, SeedFile)
    IN  /\ Returned(report) /\ report.policy = policy
        /\ IF c \in {"opt", "fast"} THEN \A k \in DOMAIN expected : report.shas[k] = expected[k] ELSE report.shas = expected
        /\ Len(report.runs) = Len(roles)
        /\ \A k \in DOMAIN roles : RunHolds(c, report.runs[k], k, roles[k], expected["m5_profile.bin"], seed)
        /\ AccountHolds(c, report.runs[1])

-----------------------------------------------------------------------------
(* The complete requests, the campaign around them, and the release. *)

CompleteMatrix == <<Full("story", 2, 180, TRUE, ""), Full("science", 1, 180, FALSE, ""), Full("computing", 1, 180, FALSE, "")>>
Exact(c) == {"id", "tokens", "logits", "kv", "cache", "traces"}
            \cup (IF c \in {"search", "tenth"} THEN {"prompt", "workspace"} ELSE {})

\* m5, opt and fast compare with the references, the others with the result before them.
RequestHolds(c, run, trial, before) ==
    /\ 0 < run.model /\ run.model < run.delivered /\ run.delivered < 600 * Second
    /\ IF c \in {"m5", "opt", "fast"}
       THEN LET case == Fixtures[trial.case] IN
            /\ run.id = trial.case /\ run.tokens = [k \in 1 .. trial.new |-> case.steps[k].token]
            /\ run.logits = case.steps[trial.new].logits /\ run.kv = case.steps[trial.new].kv
            /\ run.cache = case.input.len + trial.new - 1
       ELSE \A f \in Exact(c) : run[f] = before[f]

\* What a complete run may be of: the named files, or the former ones with a new firmware.
CompleteDigests(c, old, policy, tree) ==
    LET firmware == Digest(tree[Built(c, Final(c), "m5_runtime.bin")])
        fresh == ("firmware_file" :> firmware) @@ ("firmware_readback" :> firmware)
    IN  CASE c = "opt"     -> fresh @@ [n \in OverlayFiles |-> Digest(tree[OverlayFile("m5", n)])]
          [] c = "fast"    -> fresh @@ [n \in OverlayFiles |-> Digest(tree[OverlayFile("fast", n)])]
                              @@ [n \in {"model", "layout"} |-> old.reports["complete"].shas[n]]
                              @@ ("fixtures" :> policy.reference) @@ ("policy" :> Digest(tree[CompleteFile(c)]))
          [] c = "iterate" -> fresh @@ policy.overlay
                              @@ [n \in {"model", "layout"} |-> old.reports["complete"].shas[n]]
                              @@ ("fixtures" :> policy.reference) @@ ("policy" :> Digest(tree[CompleteFile(c)]))
          [] OTHER         -> fresh @@ old.reports["complete"].shas

CompleteHolds(c, complete, old, policy, tree) ==
    LET prior == old.reports["complete"]
        expected == CompleteDigests(c, old, policy, tree)
    IN  /\ Returned(complete) /\ complete.allocated = 65012
        /\ complete.policy = (IF c \in {"opt", "fast", "iterate"} THEN Says(tree, CompleteFile(c)) ELSE prior.policy)
        /\ c \in {"fast", "iterate"} => complete.policy.parent = Digest(tree[PolicyFile(c)])
        /\ IF c \in {"scalar", "search", "tenth"} THEN complete.shas = expected
           ELSE \A k \in DOMAIN expected : complete.shas[k] = expected[k]
        /\ Len(complete.runs) = 3
        /\ \A i \in 1 .. 3 : RequestHolds(c, complete.runs[i], complete.policy.matrix[i], prior.runs[i])
        /\ c \in {"opt", "fast"} => complete.runs[1].traces = (IF c = "fast" THEN prior.runs[1].traces ELSE 5)
        /\ IF c = "opt" THEN Rejection(complete.rejection) ELSE complete.rejection = prior.rejection

CampaignHolds(report, tree) ==
    /\ report.status = "PASS" /\ report.watchdog = 1200 /\ 0 < report.elapsed /\ report.elapsed < 1200
    /\ report.runner = Digest(tree[Runner("m5_fast_complete.py")]) /\ report.checked = Digest(tree[Runner("m5_run.py")])

ReleaseHolds(c, report, tree) ==
    /\ report.status = "PASS" /\ report.owner = 0 /\ report.pages = 0
    /\ c # "opt" => report.pte = 0 /\ report.runner = Digest(tree[Runner("m5_opt_release_check.py")])

\* The firmware built again from nothing is the same, and its controller is the qualified one.
ImageKinds(c) == {"m5_runtime.bin"} \cup (IF c = "opt" THEN {} ELSE {"m5_profile.bin"})
                 \cup (IF c \in {"scalar", "search", "tenth"} THEN {"m5_fine.bin"} ELSE {})
Reproduced(c, tree) ==
    /\ \A f \in ImageKinds(c) : Digest(tree[Built(c, Final(c), f)]) = Digest(tree[Built(c, "repro", f)])
    /\ \A d \in {Final(c), "repro"} :
          /\ c \notin {"opt", "fast"} => Digest(tree[Built(c, d, "hardware.c")]) = Digest(tree[Controller])
          /\ c \in {"search", "tenth"} =>
                LET derivation == Says(tree, Built(c, d, "derivation.json"))
                IN  derivation.variant = Final(c) /\ Matches(derivation.files, tree)

\* What the logs of a directory must say.
Markers(c, d) ==
    {"native"} \cup (IF c = "fast" /\ d = "repro" THEN {} ELSE {"exact"})
    \cup (IF c \in {"scalar", "search", "tenth"} THEN {"cache", "quantize", "norm"} ELSE {})
    \cup (IF c = "opt" THEN {"edge"} ELSE {})
    \cup (IF d = Final(c) THEN {"unload"} ELSE {})
    \cup (IF d = Final(c) /\ c # "scalar" THEN {"physical"} ELSE {})
Logged(c) == CASE c = "opt" -> {Final(c)} [] c = "iterate" -> ToSet(Candidates(c)) \cup {"repro"} [] OTHER -> {Final(c), "repro"}
LogsHold(c, tree) == \A d \in Logged(c) : Markers(c, d) \subseteq Says(tree, Built(c, d, "logs"))

\* The overlay's reports, read again (timing in picoseconds).
FastHardware(r) ==
    /\ r.constrained /\ r.checks = 12 /\ r.routed = r.routable /\ r.routable > 0 /\ r.routeErrors = 0
    /\ r.drc = <<<<"RTSTAT-10", "Warning", 1>>>> /\ r.methodology = <<<<"LUTAR-1", "Warning", 6>>>>
    /\ r.wns >= 250 /\ r.tns = 0 /\ r.hold > 0 /\ r.ths = 0 /\ r.dsp = 0 /\ r.fastHarts = {0, 1}
HardwareHolds(e, tree) ==
    LET r == Says(tree, HardwareReports("fast")) IN FastHardware(r) /\ e.hardware = r

-----------------------------------------------------------------------------
(* The audit of each closure on its own evidence. *)

\* The committed physical report is the one accepted, of the qualified build and the frozen policy.
M5Holds(e, tree) ==
    LET model == e.reports["complete"]
    IN  /\ e.status = "PASS" /\ Matches(e.sources, tree) /\ Matches(e.artifacts, tree)
        /\ e.hardware.wns >= 250 /\ e.hardware.tns = 0 /\ e.hardware.hold > 0 /\ e.hardware.dsp = 0
        /\ model = Says(tree, PhysicalFile)
        /\ Returned(model) /\ model.policy = Says(tree, PolicyFile("m5")) /\ model.allocated = 65012
        /\ \A n \in OverlayFiles : model.shas[n] = Digest(tree[OverlayFile("m5", n)])
        /\ model.shas["firmware_readback"] = model.shas["firmware_file"]
        /\ Len(model.runs) = 3
        /\ \A i \in 1 .. 3 : RequestHolds("m5", model.runs[i], model.policy.matrix[i], <<>>)
        /\ model.runs[1].traces = 5 /\ Rejection(model.rejection)

\* The seed every decode starts from, and the evidence a policy was frozen after.
ImportsHold(c, policy, tree) ==
    LET seed == Says(tree, SeedFile) IN
    /\ c = "opt" => seed.status = "PASS" /\ seed.policy = Digest(tree[PolicyFile("opt")])
                    /\ seed.fixtures = policy.reference /\ policy.reference = Digest(tree[FixtureFile])
    /\ c # "opt" => policy.seed = Digest(tree[SeedFile]) /\ policy.baseline = Digest(tree[EvidenceFile(Before(c))])
    /\ c = "iterate" => seed.policy = policy.seedPolicy /\ seed.fixtures = policy.reference

\* opt, fast, iterate, scalar, search and tenth: files, decodes, decisions, firmware, requests, release.
SpeedHolds(c, e, tree) ==
    LET old == Says(tree, EvidenceFile(Before(c)))
        frozen == IF c \in {"opt", "fast", "iterate"} THEN c ELSE "iterate"
        policy == Says(tree, PolicyFile(frozen))
    IN  /\ e.status = "PASS" /\ Listed(c, e, tree)
        /\ \A n \in ReportNames(c) : e.reports[n] = Says(tree, ReportFile(c, n))
        /\ frozen = c => e.policy = policy /\ ImportsHold(c, policy, tree)
        /\ frozen # c => e.baseline = Digest(tree[EvidenceFile(Before(c))])
        /\ c \in {"fast", "iterate"} => HardwareHolds(e, tree)
        /\ \A n \in Decoded(c) : DecodeHolds(c, n, e.reports[n], policy, tree)
        /\ StatisticsHold(c, e, old) /\ DecisionsHold(c, e, old)
        /\ c = "fast" => Digest(tree[ImageFile(c, "fast_only")]) = policy.firmware
        /\ c = "iterate" => LET r == e.reports["rejected_clock"] IN
              r.status = "FAIL" /\ r.runs = <<>> /\ r.owner = 0 /\ ~r.cleanupError
        /\ Reproduced(c, tree) /\ LogsHold(c, tree)
        /\ CompleteHolds(c, e.reports["complete"], old, policy, tree)
        /\ c # "opt" => CampaignHolds(e.reports["campaign"], tree)
        /\ ReleaseHolds(c, e.reports["release"], tree)

\* The campaigns of the goal, and what the startup release selects.
GoodContext == ContextGoal(9 * Second)
ContextReports == GoodContext.reports
Selection == [resets |-> 6, mirror |-> FALSE]

SweepFiles(e, tree) ==
    LET old == Says(tree, EvidenceFile("tenth")).reports["complete"] IN
    /\ e.hardware = Says(tree, EvidenceFile("fast")).hardware /\ Listed("sweep", e, tree)
    /\ e.baseline = Digest(tree[EvidenceFile("tenth")])
    /\ \A n \in {"policy", "campaign", "references", "summary"} : e[n] = Says(tree, Built("sweep", "v1", n))
    /\ e.campaign.shas["m5_sweep.py"] = Digest(tree[Runner("m5_sweep.py")])
    /\ e.campaign.shas["model"] = old.shas["model"] /\ e.campaign.shas["layout"] = old.shas["layout"]
    /\ e.campaign.rejection = old.rejection
    /\ \E i \in DOMAIN e.campaign.trials :
          /\ e.campaign.trials[i].trial.capture
          /\ e.campaign.trials[i].result[1].traces = old.runs[1].traces
    /\ \A n \in DOMAIN Fixtures : e.references.cases[n] = Fixtures[n]

ContextFiles(e, tree) ==
    /\ e.baseline = Digest(tree[EvidenceFile("sweep")])
    /\ e.hardware = Says(tree, EvidenceFile("fast")).hardware /\ Listed("context", e, tree)
    /\ \A n \in DOMAIN e.reports :
          /\ e.reports[n] = Says(tree, Built("context", n, "campaign"))
          /\ e.references[n] = Says(tree, Built("context", n, "references"))
    /\ \A n \in {"final_story", "final_science", "matched_baseline"}, f \in {"m5_context_ready_run.py"} :
          e.reports[n].policy.pinned[f] = Digest(tree[Runner(f)])
    /\ \A b \in DOMAIN e.binaries, d \in {"masked", "repro"} : Digest(tree[Built("context", d, b)]) = e.binaries[b]
    /\ \A d \in {"masked", "repro"} :
          LET derivation == Says(tree, Built("context", d, "derivation.json"))
          IN  derivation.variant = "masked" /\ Matches(derivation.files, tree)
    /\ {"native", "ready", "score", "product", "local", "combined"} \subseteq Says(tree, Built("context", "repro", "logs"))

\* Every retained campaign on disk, the chosen one or not.
Retentions(tree) == {p[3] : p \in {q \in DOMAIN tree : q[1] = "build" /\ q[2] = "startup" /\ q[4] = "campaign"}}
StageOnDisk(name, tree) == [f \in {"campaign", "policy", "references", "deployed"} |-> Says(tree, Built("startup", name, f))]

StartupFiles(e, tree) ==
    /\ Listed("startup", e, tree)
    /\ e.baseline = Digest(tree[EvidenceFile("context")])
    /\ e.hardware = Says(tree, HardwareReports("startup")) /\ HardwareAccepted(e.hardware, e.selection.resets, e.selection.mirror)
    /\ \A n \in DOMAIN e.overlay : Digest(tree[OverlayFile("startup", n)]) = e.overlay[n]
    /\ \A b \in DOMAIN e.binaries, d \in {"final", "repro"} : Digest(tree[Built("startup", d, b)]) = e.binaries[b]
    /\ \A d \in {"final", "repro"} : {"native", "ready", "rejection", "batch"} \subseteq Says(tree, Built("startup", d, "logs"))
    /\ Says(tree, Built("startup", "synthesis", "fetch_sources")) = Says(tree, Built("startup", "model", "fetch_sources"))
    /\ \A d \in {"memory", "accelerators", "probe"} :
          Says(tree, Built("startup", d, "manifest.json")) = Digest(tree[Built("startup", "model", "archive")])
    /\ DOMAIN e.reports = Retentions(tree)
    /\ \A n \in DOMAIN e.reports :
          LET stage == StageOnDisk(n, tree)
          IN  e.reports[n] = stage.campaign /\ e.references[n] = stage.references /\ StageAccepted(stage)

StartupCloses(e) ==
    /\ e.status = "PASS" /\ ~e.m6Started
    /\ \A n \in DOMAIN e.reports : StartupAccepts(e.reports[n], e.references[n])
    /\ e.summary = [n \in DOMAIN e.reports |-> StartupSummary(e.reports[n])]
    /\ FinalAccepted(e.reports, e.references, e.binaries, e.overlay)

(* A file an audit opens and does not find ends it; the conjuncts are in an *)
(* order of their own, as any of them refuses.                              *)
Opened(c, tree) ==
    {SeedFile} \cup {EvidenceFile(Closures[i]) : i \in 1 .. Position(c) - 1}
    \cup (IF c \in {"opt", "fast", "iterate", "scalar", "search", "tenth"}
          THEN {FixtureFile, Controller, PolicyFile("iterate")} \cup {Runner(f) : f \in Harness(c) \cup ReleaseRunners(c)}
          ELSE {})
Present(c, e, tree) ==
    DOMAIN e.sources \cup DOMAIN e.artifacts \cup (Opened(c, tree) \ (IF Position(c) < 4 THEN {PolicyFile("iterate")} ELSE {}))
        \subseteq DOMAIN tree

Holds(c, e, tree) ==
    /\ Present(c, e, tree)
    /\ CASE c = "m5"      -> M5Holds(e, tree)
         [] c = "sweep"   -> SweepFiles(e, tree) /\ SweepAccepts(e)
         [] c = "context" -> ContextFiles(e, tree) /\ ContextCloses(e, DOMAIN ContextReports)
         [] c = "startup" -> StartupFiles(e, tree) /\ StartupCloses(e)
         [] OTHER         -> SpeedHolds(c, e, tree)

\* Each audit's main runs the audit before it.
Audit(c, tree) ==
    LET passes[i \in 0 .. Position(c)] ==
            i = 0 \/ (/\ passes[i - 1] /\ EvidenceFile(Closures[i]) \in DOMAIN tree
                     /\ Holds(Closures[i], Says(tree, EvidenceFile(Closures[i])), tree))
    IN  passes[Position(c)]

-----------------------------------------------------------------------------
(* Collection: digests of the files as they are, accepted before written. *)

ReportsOf(c, tree) ==
    IF c = "context" THEN [n \in DOMAIN ContextReports |-> Says(tree, Built("context", n, "campaign"))]
    ELSE IF c = "startup" THEN [n \in Retentions(tree) |-> Says(tree, Built("startup", n, "campaign"))]
    ELSE [n \in ReportNames(c) |-> Says(tree, ReportFile(c, n))]
ReferencesOf(c, tree) ==
    [n \in DOMAIN ReportsOf(c, tree) |-> Says(tree, Built(c, n, "references"))]

SpeedStatistics(c, reports, tree) ==
    LET old == Says(tree, EvidenceFile(Before(c)))
        own == [n \in {IF m = "measurement" THEN "final" ELSE m : m \in Sampled(c)} |->
                   StatisticsFor(reports[IF n = "final" THEN "measurement" ELSE n])]
    IN  CASE c = "opt"  -> own
          [] c = "fast" -> own @@ ("slow" :> old.statistics["reuse"])
          [] OTHER      -> own @@ ("baseline" :> ReleaseStatistics(Before(c), old))

Evidence(c, tree) ==
    LET sources == Digests(SourcePaths(c, tree), tree)
        artifacts == Digests(ArtifactPaths(c, tree), tree)
        baseline == Digest(tree[EvidenceFile(Before(c))])
        hardware == Says(tree, EvidenceFile("fast")).hardware
        sweep(n) == Says(tree, Built("sweep", "v1", n))
    IN  CASE c = "sweep" ->
               [status |-> "PASS", sources |-> sources, artifacts |-> artifacts, baseline |-> baseline, hardware |-> hardware,
                policy |-> sweep("policy"), campaign |-> sweep("campaign"), references |-> sweep("references"),
                summary |-> sweep("summary")]
          [] c = "context" ->
               [status |-> "PASS", m6Started |-> FALSE, sources |-> sources, artifacts |-> artifacts, baseline |-> baseline,
                hardware |-> hardware, reports |-> ReportsOf(c, tree), references |-> ReferencesOf(c, tree),
                summary |-> [n \in DOMAIN ReportsOf(c, tree) |-> ContextSummary(ReportsOf(c, tree)[n])],
                binaries |-> [b \in {"m5_profile.bin", "m5_runtime.bin"} |-> Digest(tree[Built(c, "masked", b)])]]
          [] c = "startup" ->
               [status |-> "PASS", m6Started |-> FALSE, sources |-> sources, artifacts |-> artifacts, baseline |-> baseline,
                selection |-> Selection, hardware |-> Says(tree, HardwareReports(c)),
                reports |-> ReportsOf(c, tree), references |-> ReferencesOf(c, tree),
                summary |-> [n \in DOMAIN ReportsOf(c, tree) |-> StartupSummary(ReportsOf(c, tree)[n])],
                binaries |-> [b \in Binaries \cup {"m5_detail.bin"} |-> Digest(tree[Built(c, "final", b)])],
                overlay |-> [n \in OverlayFiles |-> Digest(tree[OverlayFile(c, n)])]]
          [] OTHER ->
               [status |-> "PASS", sources |-> sources, artifacts |-> artifacts, decisions |-> Decisions(c),
                reports |-> ReportsOf(c, tree), statistics |-> SpeedStatistics(c, ReportsOf(c, tree), tree),
                policy |-> IF c \in {"opt", "fast", "iterate"} THEN Says(tree, PolicyFile(c)) ELSE <<>>,
                baseline |-> baseline,
                hardware |-> IF c \in {"fast", "iterate"} THEN Says(tree, HardwareReports("fast")) ELSE <<>>]

\* What an evidence file says follows from the files it binds.
EvidenceOf(c, e) ==
    File(<<c, e.sources, e.artifacts, IF c \in {"sweep", "context", "startup"} THEN e.baseline ELSE <<>>>>, e)

(* All but the sweep and the context refuse to replace evidence, and those  *)
(* two, like the startup, run the earlier audits only after they have       *)
(* written; scalar, search and tenth do so first, opt, fast and iterate not *)
(* at all.                                                                  *)
Collect(c, tree) ==
    LET e == Evidence(c, tree)
        written == With(tree, EvidenceFile(c) :> EvidenceOf(c, e))
        left(passed, t) == [passed |-> passed, tree |-> t]
    IN  IF \/ c \notin {"sweep", "context"} /\ EvidenceFile(c) \in DOMAIN tree
           \/ c \in {"scalar", "search", "tenth"} /\ ~Audit(Before(c), tree)
           \/ ~Holds(c, e, tree)
        THEN left(FALSE, tree)
        ELSE left(c \in {"sweep", "context", "startup"} => Audit(c, written), written)

-----------------------------------------------------------------------------
(* Honest work: what each stage leaves in the tree before it is collected. *)

\* Fabric cycles of a decode by each candidate.
Cycles ==
    [opt |-> [baseline |-> 800, shift |-> 780, metadata |-> 760, reuse |-> 740],
     fast |-> [fast_only |-> 720, prepared |-> 700, requant |-> 680],
     iterate |-> [cycle1 |-> 660, cycle2 |-> 670, cycle3 |-> 640],
     scalar |-> [arithmetic |-> 620, lookup |-> 600, metadata |-> 580, affine |-> 560],
     search |-> [lto |-> 565, fusion |-> 540, product |-> 520],
     tenth |-> [round |-> 510, factor |-> 500, reciprocal |-> 490]]
Speeds == DOMAIN Cycles

Decoding(k, role, image, cycles) ==
    LET phases == IF k = 1 THEN StandardPhases ELSE <<>>
        spent(f) == SumOf(Field(phases, f))
        header == [start |-> 0, stop |-> cycles, service |-> spent("service"), gemm |-> spent("gemm"),
                   sfpu |-> spent("sfpu"), jobs |-> 100]
        answer == Fixtures["story"].steps[2]
    IN  Parsed(header, phases, k = 1)
        @@ [ordinal |-> k, role |-> role, status |-> "PASS", firmware |-> image, token |-> answer.token,
            logits |-> answer.logits, kv |-> answer.kv, cache |-> 14, delivered |-> cycles * CycleTime + 2]

Refused == SweepRun(1, "timeout", Second, Every(SweepPolicy, 9 * Second), 0).campaign.rejection
CompleteRun(policy, shas) ==
    [status |-> "PASS", owner |-> 0, cleanupError |-> FALSE, allocated |-> 65012, policy |-> policy, shas |-> shas,
     runs |-> [i \in 1 .. 3 |->
         LET t == policy.matrix[i] IN
         MeasuredFull([t EXCEPT !.capture = i = 1], Fixtures[t.case], 40 * Second, "m5_runtime.bin", shas["firmware_file"])],
     rejection |-> Refused]

Images(c, d, n) == [f \in {Built(c, d, k) : k \in ImageKinds(c) \cup {"m5_profile.bin"}} |-> Opaque(<<c, n, f[4]>>)]
\* A candidate's build; the released one is built twice.
Builds(c) ==
    LET names == Candidates(c)
        all == [f \in UNION {DOMAIN Images(c, names[i], names[i]) : i \in DOMAIN names} |-> Opaque(<<c, f[3], f[4]>>)]
               @@ Images(c, "repro", Final(c))
        logs == [f \in {Built(c, d, "logs") : d \in ToSet(names) \cup {"repro"}} |-> File(f, Markers(c, f[3]))]
        hardware == [f \in {Built(c, d, "hardware.c") : d \in {Final(c), "repro"}} |-> Opaque("pa_m5_hw.c")]
    IN  all @@ logs @@ hardware
Derivations(c, tree) ==
    [f \in {Built(c, d, "derivation.json") : d \in {Final(c), "repro"}} |->
        File(f, [variant |-> Final(c), files |-> Digests({Built(c, f[3], "hardware.c")}, tree)])]

Reported(c, cycles, tree) ==
    LET policy == Says(tree, PolicyFile(IF c \in {"opt", "fast"} THEN c ELSE "iterate"))
        shas(n) == DigestsOf(c, n, policy, tree)
        roles(n) == Roles(n \in Sampled(c))
        decode(n) ==
            [status |-> "PASS", owner |-> 0, cleanupError |-> FALSE, policy |-> policy, shas |-> shas(n),
             runs |-> [k \in DOMAIN roles(n) |->
                 Decoding(k, roles(n)[k], shas(n)["m5_profile.bin"], cycles[DirectoryOf(c, n)])]]
        old == Says(tree, EvidenceFile(Before(c)))
        expected == CompleteDigests(c, old, policy, tree)
        digests == IF c = "opt" THEN expected @@ [n \in {"model", "layout"} |-> Digest(Opaque(n))] ELSE expected
        request == IF c \in {"opt", "fast", "iterate"} THEN Says(tree, CompleteFile(c)) ELSE old.reports["complete"].policy
        other(n) ==
            CASE n = "complete" -> CompleteRun(request, digests)
              [] n = "campaign" -> [status |-> "PASS", watchdog |-> 1200, elapsed |-> 400,
                                    runner |-> Digest(tree[Runner("m5_fast_complete.py")]), checked |-> Digest(tree[Runner("m5_run.py")])]
              [] n = "release"  -> [status |-> "PASS", owner |-> 0, pages |-> 0, pte |-> 0,
                                    runner |-> Digest(tree[Runner("m5_opt_release_check.py")])]
              [] OTHER          -> [status |-> "FAIL", owner |-> 0, cleanupError |-> FALSE, runs |-> <<>>]
    IN  [f \in {ReportFile(c, n) : n \in ReportNames(c)} |->
            LET n == CHOOSE m \in ReportNames(c) : ReportFile(c, m) = f
            IN  File(<<f, cycles>>, IF n \in Decoded(c) THEN decode(n) ELSE other(n))]

\* The policies are frozen after the evidence before them is.
Policies(c, tree) ==
    LET policy == [matrix |-> CompleteMatrix, reference |-> Digest(tree[FixtureFile]),
                   seed |-> IF c = "opt" THEN <<>> ELSE Digest(tree[SeedFile]),
                   baseline |-> IF c = "opt" THEN <<>> ELSE Digest(tree[EvidenceFile(Before(c))]),
                   overlay |-> [n \in OverlayFiles |-> Digest(Opaque(n))],
                   seedPolicy |-> IF c = "opt" THEN <<>> ELSE Says(tree, SeedFile).policy,
                   firmware |-> IF c = "fast" THEN Digest(tree[ImageFile(c, "fast_only")]) ELSE <<>>]
        frozen == File(PolicyFile(c), policy)
        complete == [matrix |-> CompleteMatrix, parent |-> Digest(frozen)]
        seed == [status |-> "PASS", expected |-> Fixtures["story"].steps[2], fixtures |-> Digest(tree[FixtureFile]),
                 policy |-> Digest(frozen)]
    IN  (PolicyFile(c) :> frozen) @@ (CompleteFile(c) :> File(CompleteFile(c), complete))
        @@ (IF c = "opt" THEN SeedFile :> File("seed", seed) ELSE <<>>)

SpeedWork(c, cycles, tree) ==
    LET source == <<"source", c, "", "kernels.c">> :> Opaque("kernels")
        frozen == With(With(tree, source), IF c \in {"opt", "fast", "iterate"} THEN Policies(c, tree) ELSE <<>>)
        shared == IF c = "fast" THEN (HardwareReports(c) :> File("hardware", GoodHardware(6, FALSE)))
                                     @@ [p \in {OverlayFile(c, n) : n \in OverlayFiles} |-> Opaque(p[4])] ELSE <<>>
        built == With(frozen, shared @@ Builds(c))
        derived == With(built, IF c \in {"search", "tenth"} THEN Derivations(c, built) ELSE <<>>)
    IN  With(derived, Reported(c, cycles, derived))

\* The closure written by hand, the runners and the shared inputs.
Foundation ==
    LET model == CompleteRun([matrix |-> CompleteMatrix],
                             [n \in OverlayFiles |-> Digest(Opaque(<<"m5", n>>))]
                             @@ [n \in {"firmware_file", "firmware_readback"} |-> Digest(Opaque(<<"m5", "runtime">>))])
        runners == UNION {Harness(c) \cup ReleaseRunners(c) : c \in {"opt", "fast", "iterate"}}
                   \cup {"m5_sweep.py", "m5_context_ready_run.py", "m5_context_run.py", "m5_startup_run.py"}
        base == [p \in {Runner(f) : f \in runners} |-> Opaque(p[4])]
                @@ [p \in {OverlayFile("m5", n) : n \in OverlayFiles} |-> Opaque(<<"m5", p[4]>>)]
                @@ (Controller :> Opaque("pa_m5_hw.c")) @@ (FixtureFile :> Opaque("fixtures"))
                @@ (PolicyFile("m5") :> File("policy", [matrix |-> CompleteMatrix]))
                @@ (PhysicalFile :> File("physical", model))
        evidence == [status |-> "PASS", sources |-> Digests(SourcePaths("m5", base), base),
                     artifacts |-> Digests(ArtifactPaths("m5", base), base), hardware |-> GoodHardware(6, FALSE),
                     reports |-> [n \in {"complete"} |-> model]]
    IN  With(base, EvidenceFile("m5") :> EvidenceOf("m5", evidence))

SweepWork(tree) ==
    LET policy == PolicyOf(SweepMatrix, Pinned(SweepImages \cup {"m5_sweep.py"}))
        refs == SweepReferences(policy, Products, "done")
        report == Campaign(policy, refs, 100 * Second, Every(policy, 9 * Second), 0)
        campaign == [report EXCEPT !.shas = @ @@ [n \in {"model", "layout"} |-> Digest(Opaque(n))]]
        says == [policy |-> policy, references |-> refs, campaign |-> campaign, summary |-> SweepSummary(campaign)]
    IN  With(tree, [p \in {Built("sweep", "v1", n) : n \in DOMAIN says} |-> File(p, says[p[4]])])

ContextWork(tree) ==
    LET files == {Built("context", n, f) : n \in DOMAIN ContextReports, f \in {"campaign", "references"}}
        images == {Built("context", d, b) : d \in {"masked", "repro"}, b \in {"m5_profile.bin", "m5_runtime.bin"}}
        built == With(tree, [p \in images |-> Opaque(p[4])]
                            @@ [p \in files |-> File(p, IF p[4] = "campaign" THEN ContextReports[p[3]] ELSE GoodContext.references[p[3]])]
                            @@ (<<"source", "context", "", "kernels.c">> :> Opaque("kernels")))
        logs == Built("context", "repro", "logs") :> File("logs", {"native", "ready", "score", "product", "local", "combined"})
    IN  With(built, logs @@ [p \in {Built("context", d, "derivation.json") : d \in {"masked", "repro"}} |->
             File(p, [variant |-> "masked", files |-> Digests({<<"source", "context", "", "kernels.c">>}, built)])])

StartupStage(name) ==
    LET of == IF name \in {"final_science", "diagnostic_science"} THEN "science" ELSE "story"
        final == name \in {"final_story", "final_science"}
        matrix == StartupMatrix(final, final, final, IF final THEN 3 ELSE 1)
        policy == StartupPolicy(matrix, IF final THEN "m5_profile.bin" ELSE "m5_detail.bin")
        refs == StartupReferences(policy, of, "science")
    IN  [campaign |-> Campaign(policy, refs, Second, Every(policy, 9 * Second), 0), policy |-> policy,
         references |-> refs, deployed |-> policy.pinned]
StartupStages == [n \in {"final_story", "final_science", "diagnostic_story", "diagnostic_science", "early"} |-> StartupStage(n)]
StartupWork(tree) ==
    LET files == {Built("startup", n, f) : n \in DOMAIN StartupStages, f \in {"campaign", "policy", "references", "deployed"}}
        images == {Built("startup", d, b) : d \in {"final", "repro"}, b \in Binaries \cup {"m5_detail.bin"}}
                  \cup {OverlayFile("startup", n) : n \in OverlayFiles}
                  \cup {Built("startup", "model", "archive"), Built("startup", "model", "fetch_sources"),
                        Built("startup", "synthesis", "fetch_sources")}
        built == With(tree, [p \in images |-> Opaque(p[4])] @@ [p \in files |-> File(p, StartupStages[p[3]][p[4]])]
                            @@ (HardwareReports("startup") :> File("hardware", GoodHardware(6, FALSE)))
                            @@ [p \in {Built("startup", d, "logs") : d \in {"final", "repro"}} |->
                                    File(p, {"native", "ready", "rejection", "batch"})])
    IN  With(built, [p \in {Built("startup", d, "manifest.json") : d \in {"memory", "accelerators", "probe"}} |->
                        File(p, Digest(built[Built("startup", "model", "archive")]))])

Work(c, cycles, tree) ==
    CASE c = "sweep"   -> SweepWork(tree)
      [] c = "context" -> ContextWork(tree)
      [] c = "startup" -> StartupWork(tree)
      [] OTHER         -> SpeedWork(c, cycles, tree)

\* The tree before each collection, and the tree after it.
Chain ==
    LET extend(done, c) ==
            LET tree == Work(c, IF c \in Speeds THEN Cycles[c] ELSE <<>>, Last(done).collected.tree)
            IN  Append(done, [before |-> tree, collected |-> Collect(c, tree)])
    IN  FoldLeft(extend, <<[before |-> Foundation, collected |-> [passed |-> TRUE, tree |-> Foundation]]>>, Tail(Closures))
Tree == Chain[Len(Closures)].collected.tree

-----------------------------------------------------------------------------
(* What the chain is relied on for, evaluated. *)

\* Work that was measured and decided honestly closes, stage after stage.
ASSUME ChainCloses ==
    (\A i \in DOMAIN Closures : Chain[i].collected.passed) /\ Audit("startup", Tree)

EvidenceIn(c, tree) == Says(tree, EvidenceFile(c))
Recorded(c) == DOMAIN EvidenceIn(c, Tree).sources \cup DOMAIN EvidenceIn(c, Tree).artifacts
Changed(p, tree) == [tree EXCEPT ![p].name = Append(@, "changed")]
Without(p, tree) == [q \in DOMAIN tree \ {p} |-> tree[q]]

(* A recorded file that changes or goes is noticed by the closure that      *)
(* recorded it, so by every later audit; so is evidence of a closure by     *)
(* those after it.                                                          *)
ASSUME ChangeNoticed ==
    /\ \A i \in DOMAIN Closures : \A p \in Recorded(Closures[i]) :
          LET c == Closures[i] IN
          ~Holds(c, EvidenceIn(c, Tree), Changed(p, Tree)) /\ ~Holds(c, EvidenceIn(c, Tree), Without(p, Tree))
    /\ \A i \in 2 .. Len(Closures) - 1 :
          ~Audit("startup", Changed(EvidenceFile(Closures[i]), Tree)) /\ ~Audit("startup", Without(EvidenceFile(Closures[i]), Tree))

(* The one binding no digest makes: opt does not record the evidence of m5, *)
(* so m5's may be replaced by any that its own audit accepts.               *)
ASSUME FirstLinkOpen == Audit("startup", Changed(EvidenceFile("m5"), Tree))

\* A file nobody recorded is noticed where the audit lists the tree again: not in m5 and opt.
ASSUME AdditionNoticed ==
    \A i \in DOMAIN Closures : \A kind \in {"source", "build"} :
        LET c == Closures[i]
            p == <<kind, c, Final("opt"), "unrecorded">>
            more == With(Tree, p :> Opaque("unrecorded"))
        IN  Holds(c, EvidenceIn(c, Tree), more) <=> i <= 2

Redone(c, cycles) == Collect(c, Work(c, cycles, Chain[Position(c)].before))
\* The measurement a candidate has to beat.
Rival(c, n) ==
    LET kept == Retained(c)
        i == CHOOSE j \in DOMAIN kept : kept[j] = n
        last == Before(c)
    IN  IF i > 1 THEN Cycles[c][kept[i - 1]] ELSE Cycles[last][Final(last)]

(* A candidate is retained only if it beats the one before it, a rejected   *)
(* one must have lost, one deferred may be anything; and the last release   *)
(* delivers its token in 10 s.                                              *)
ASSUME NoGainNotRetained ==
    /\ \A c \in Speeds : \A n \in ToSet(Retained(c)) \ (IF c = "opt" THEN {"baseline"} ELSE {}) :
          ~Redone(c, [Cycles[c] EXCEPT ![n] = Rival(c, n)]).passed
    /\ \A d \in {-1, 0} : Redone("search", [Cycles["search"] EXCEPT !.lto = Cycles["scalar"].affine + d]).passed <=> d = 0
    /\ \A d \in {400, 900} : Redone("iterate", [Cycles["iterate"] EXCEPT !.cycle2 = d]).passed
    /\ \A d \in {499, 500} : Redone("tenth", [round |-> 512, factor |-> 510, reciprocal |-> d]).passed <=> d = 499

(* One report or file falsified before the collection, so that every digest *)
(* taken of it agrees: the collector refuses and writes nothing.            *)
Falsified(c) ==
    LET tree == Chain[Position(c)].before
        at(n) == ReportFile(c, n)
        alter(p, G(_)) == [tree EXCEPT ![p].says = G(@)]
        decoded == {at(n) : n \in Decoded(c)}
        complete == at("complete")
        edits(p) == {alter(p, LAMBDA r : [r EXCEPT !.status = "FAIL"]), alter(p, LAMBDA r : [r EXCEPT !.owner = 1])}
        decode(p) ==
            {alter(p, LAMBDA r : [r EXCEPT !.cleanupError = TRUE]), alter(p, LAMBDA r : [r EXCEPT !.runs = SubSeq(@, 1, Len(@) - 1)]),
             alter(p, LAMBDA r : [r EXCEPT !.policy.reference = Sha(<<>>)]),
             alter(p, LAMBDA r : [r EXCEPT !.shas["m5_pynq.bit"] = Sha(<<>>)]),
             alter(p, LAMBDA r : [r EXCEPT !.runs[2].kv = <<"forged">>]), alter(p, LAMBDA r : [r EXCEPT !.runs[2].firmware = Sha(<<>>)]),
             alter(p, LAMBDA r : [r EXCEPT !.runs[1].tail = @ + 1]),
             alter(p, LAMBDA r : [r EXCEPT !.runs[1].phases = <<@[2], @[1]>> \o SubSeq(@, 3, Len(@))])}
        requests ==
            {alter(complete, LAMBDA r : [r EXCEPT !.allocated = @ - 1]), alter(complete, LAMBDA r : [r EXCEPT !.runs = Tail(@)]),
             alter(complete, LAMBDA r : [r EXCEPT !.runs[3].kv = <<"forged">>]), alter(complete, LAMBDA r : [r EXCEPT !.runs[1].traces = 4]),
             alter(complete, LAMBDA r : [r EXCEPT !.rejection.output = FALSE]),
             alter(complete, LAMBDA r : [r EXCEPT !.shas["firmware_readback"] = Sha(<<>>)]),
             alter(at("release"), LAMBDA r : [r EXCEPT !.pages = 1])}
        late == IF c = "opt" THEN {} ELSE {alter(at("campaign"), LAMBDA r : [r EXCEPT !.elapsed = 1200])}
        files == {Changed(Built(c, "repro", f), tree) : f \in ImageKinds(c)}
                 \cup {[tree EXCEPT ![Built(c, Final(c), "logs")].says = @ \ {m}] : m \in Markers(c, Final(c))}
                 \cup (IF c \in {"opt", "fast"} THEN {} ELSE {Changed(Built(c, "repro", "hardware.c"), tree)})
    IN  UNION {edits(p) \cup decode(p) : p \in decoded} \cup edits(complete) \cup requests \cup late \cup files
ASSUME FalsifiedNotCollected ==
    \A c \in Speeds : \A tree \in Falsified(c) : Collect(c, tree) = [passed |-> FALSE, tree |-> tree]

(* Evidence once written stays, except of the sweep and the context: those  *)
(* two are written again, even on a tree whose earlier audits fail, and a   *)
(* later closure then refuses what no longer is what it was built on.       *)
ASSUME EvidenceStays ==
    /\ \A i \in 2 .. Len(Closures) :
          LET c == Closures[i]
              source == <<"source", "sweep", "", "added">>
          IN  /\ c \notin {"sweep", "context"} => Collect(c, Tree) = [passed |-> FALSE, tree |-> Tree]
              /\ c = "sweep" =>
                    LET again == Collect(c, With(Tree, source :> Opaque("added")))
                        broken == Collect(c, Changed(ImageFile("tenth", "reciprocal"), Tree))
                    IN  /\ again.passed /\ Audit("sweep", again.tree) /\ ~Audit("context", again.tree)
                        /\ ~broken.passed /\ Collect(c, Tree).tree = Tree

(* The startup closure speaks of every campaign on disk: one made after the *)
(* collection, or one that failed and was kept, leaves it unclosed.         *)
ASSUME NoCampaignOmitted ==
    LET before == Chain[Len(Closures)].before
        kept == [p \in {Built("startup", "late", f) : f \in DOMAIN StartupStages["early"]} |->
                    File(p, StartupStages["early"][p[4]])]
        failed == [before EXCEPT ![Built("startup", "early", "campaign")].says = [@ EXCEPT !.status = "FAIL"]]
        hidden == [p \in {q \in DOMAIN Tree : q[2] # "startup" \/ q[3] # "early"} |-> Tree[p]]
    IN  /\ Collect("startup", With(before, kept)).passed
        /\ ~Audit("startup", With(Tree, kept)) /\ ~Audit("startup", hidden)
        /\ ~Collect("startup", failed).passed
=============================================================================
