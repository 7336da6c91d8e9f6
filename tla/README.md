# Formal models of the Tinfoil conformance suite

TLA+ models of the program in `src/`: the cross-SDK conformance harness, the
reports it makes, the tools a port is accepted with and the generators that write
the fixtures of both suites.
TLC checks the models on small instances; TLAPS proves the central theorems for
every value of the constants. Paths below are relative to `src/` unless they
start with `tla/`.

## 1. What the system is

The repository tests several SDKs (Rust, JS, Go, Python, …) that verify the same
attestation evidence. A *fixture* is a directory with `manifest.yaml`,
`input.json` and sometimes `expected.json`. Each SDK ships a command that takes a
stage name and the fixture on stdin and answers with an exit code (0 accept, 10
reject, 20 unsupported, 30 malformed input, 1 internal error) and a JSON body.
The *harness* asks every SDK about every fixture, compares the answers with the
manifests, writes `results.json` and `results.md` and links the newest report as
`results/latest`. Two other programs read `results.json`: `divergence-report` and
`gen_report.py`. A second, newer suite (v3) has its own generators and a small
adapter runner of its own.

### Components

| component | state it keeps | operations | talks to | status |
|---|---|---|---|---|
| vector runner `harness/tinfoil_conformance/runner.py` | none between calls | discover fixtures and public-API variants, gate on stage and capabilities, ask an SDK with a timeout, compare the answer | SDK subprocesses; called by `cli.py` | modelled: `Runner` |
| `run` command `cli.py` with `report.py`'s writers | capabilities and the grid of verdicts (memory); `results/<second>/results.{json,md}` and the `latest` link (disk) | load capabilities, double loop, write, relink, exit code | the runner; other runs through the shared directory | modelled: `ConformanceRun`, promise in `SuitePromise` |
| `divergence-report` `divergence.py` | lookup table of codes per fixture, four tables | read manifests, `analyze`, render | reads `results.json` of an earlier run and the vectors tree | `analyze` modelled: `Divergence`; rendering left out |
| coverage part of `results.md` `report.py:144-211` | one cell per code and SDK | `_render_coverage_section` | called by `write_markdown` | modelled: `GapReport` |
| gap report `gen_report.py` | leaderboard of capabilities, behaviour matrix | `build_leaderboard`, `build_matrix`, render | reads `results.json`, calls `analyze` | leaderboard and matrix modelled: `GapReport`; rendering left out |
| v3 adapter tools `tools/run_adapter.py`, `compare_adapters.py` | the entries of a report in memory, the report file | run fixtures through one adapter, compare two reports, verify a live enclave with all adapters | adapter subprocesses; each other through report files | modelled: `AdapterLane` |
| suite gate `tools/validate_suite.py` | counters | check each fixture against the schemas, count the spec coverage | `SPEC_COVERAGE*.md`, schemas | the expectation of a fixture is `Valid` in `LaneRules`; the rest is not modelled |
| pipelines `.github/workflows/` | job status, artifacts | build SDKs, run, report, publish | everything above | not modelled |
| v1 fixture scripts `fixturegen/*.py` | none: they write fixtures | measurements, hardware registers, enclave certificates, Sigstore bundles, SEV and TDX quotes, whole flows, each with one deliberate fault | `vectors/`, read by the runner | modelled: `MeasurementVectors` … `FullFlowVectors` |
| v3 generators `fixturegen/v3/` | none | whole v3 documents and their layers | `vectors/v3/`, read by the lane | modelled: `V3Envelope` … `V3Suite` |
| synthetic libraries `fixturegen/lib/` | keys | sign, log, stamp, quote | the scripts above | modelled down to what is signed over what; encodings left out |
| vectors and schemas | data | – | read by the runner | data, abstracted into fixtures |
| SDK binaries | – | `capabilities`, one subcommand per stage | asked by the runner | external: any answer of a set |

### What is hard about it

The harness is sequential inside one process. What makes it hard is around it.

* **SDK subprocesses** are other people's programs. They hang, crash, print no
  JSON, print JSON of the wrong shape. `run_fixture` reads their bodies with
  `.get`, so some shapes raise and take the whole run down, and
  so does a body that is not UTF-8.
* **Everything is in memory until the end.** A failure in the loop leaves
  nothing; a failure while writing leaves a truncated file.
* **The output directory is shared.** Directories are named after a whole second
  and made with `exist_ok`; `latest` is replaced by look, `unlink`, `symlink_to`,
  three separate steps. Two runs, or a run killed in between, meet there.
* **Gates decide what is tested at all.** A fixture an SDK does not support is a
  skip and no failure; a gate that is too wide hides failures and one too narrow
  runs the SDK in the wrong mode. The public-API variants make a second case of
  one fixture, and are sound only for codes that fire before any policy gate.
* **The reports join by name**: results by SDK name, manifests by id, path and
  directory name, last one wins.
* **The fixtures must fail for one reason.** A reject fixture with two faults
  makes correct SDKs disagree, and boundary fixtures lie one unit apart.

### What makes each component correct

* Runner: a pass is earned (`PassIsEarned`); a variant runs only where the SDK
  declared the hooks (`HooksDeclared`) and never passes for a code the fixture is
  not about (`NoMisleadingPass`); what is kept for a case and an SDK is that SDK's
  outcome on that case (`ResultsAreOwn`).
* Run: all or nothing, and the exit code follows from what was published
  (`KeepsPromise`); no failure is lost (`NoFailureLost`); a run ends even if an
  SDK hangs (`Terminates`).
* Reports on disk: `latest` leads to a whole report (`LatestComplete`), finished
  reports stay (`ReportsKept`), the link is lost only in the middle of a swap
  (`LatestLostOnlyMidSwap`) and moves forward (`LatestNewest`).
* Divergence report: rows show their own fixture's codes
  (`RowsShowTheirOwnCodes`), a split among passing SDKs is among allowed codes
  (`PassingSplitsAreAllowed`), the capability table explains the unequal skips
  (`UnequalSkipsAreExplained`).
* Gap report and coverage: who is to fix what does not depend on the order of the
  SDKs (`TargetsIgnoreOrder`), the matrix and the divergence table say the same of
  one file (`MatrixAgreesWithTable`), a split shown as substantive is one somebody
  failed for (`BehaviorSplitsAreFailures`), a tick in the coverage section was
  earned (`CoverageIsEarned`).
* Adapter tools: a lane's exit code speaks of the report it left
  (`ExitMatchesReport`), a comparison is of two whole reports (`ComparedWhole`),
  agreement of outputs and agreement of verdicts go together
  (`IdenticalMeansSameStatus`, `PassesAgree`), and the live lane does not depend on
  the order of its adapters (`LiveAgreed`).
* Generators: a vector never fails an SDK that does nothing wrong, in whatever
  order it checks (`FaultlessPasses`, with a list of those where the order decides);
  the mistake a vector is about is not hidden by another fault (`CatchesItsFlaw`); an
  SDK that owns up to a missing feature is skipped and not failed
  (`HonestGapsNeverFail`), unless the vector was to fail it all the same
  (`RegressionsFailLoudly`, violated); pinned fields are read where the report has
  them (`PinnedFieldsAreCanonical`, violated).

The full list of what can go wrong, each at its line, is `hazards` in
`PROJECT.json`.

## 2. The modules

```
Runner ──EXTENDS── ConformanceRun ──INSTANCE── SuitePromise
   │                    ├── MCConformanceRun        (TLC instances)
   │                    └── ConformanceRun_proofs   (TLAPS: the directory)
   │                            └── ConformanceRun_verdicts  (TLAPS: the grid)
   ├────EXTENDS── Divergence ── Divergence_proofs
   │                    └── GapReport ── GapReport_proofs
   │                            └── MCDivergence
   └────EXTENDS── VectorKit
                        ├── MeasurementVectors ── EnclaveCertVectors ──┐
                        ├── SigstoreStack ── SigstoreVectors ──────────┤
                        │     └─ MerkleTree ── MerkleTree_proofs       │
                        ├── SevVectors, TdxVectors ── FullFlowVectors ─┤
                        └── V3Envelope ─ V3Provenance ─ V3Policy       │
                              ─ V3Sev ─ V3Golden ─ V3Tdx               │
                              V3Timestamps, V3Approvals ── V3Suite ────┤
                                                                       │
LaneRules ── AdapterLane ── MCAdapterLane                 FixtureSuite ┘
    │             ├──────── AdapterLane_proofs                 ├── MCFixtureSuite
    │             └INSTANCE PortAcceptance                     └── FixtureSuite_proofs
    └──INSTANCE── FixtureSuite                   (with MerkleTree_proofs)
```

`LeastElement` holds the facts about least and greatest numbers that three of the
proof modules search with.

### Runner

Pure operators, one per function of `runner.py`.

| operator | code |
|---|---|
| `PublicApiVariantApplicable`, `HasVariant`, `FixtureCases`, `CaseBefore` | `public_api_variant_applicable`, `discover_fixture_cases`, the sort in `discover_fixtures` |
| `RequiredCaps`, `RequiredCapabilitiesSatisfied`, `Supported` | the gate at the head of `run_fixture` |
| `CannotPlan`, `RaisesOn` | where the code raises instead of returning a result |
| `OutputsAgree`, `SameValue` | `diff_outputs` |
| `CodeAccepted`, `StageAccepted`, `Passes`, `Verdict` | the comparison in `run_fixture` |
| `FixtureResults`, `SkipReasons` | all that `run_fixture` can return for a case, by the set of possible answers |

Fixtures, declarations and answers are records over small sets; the header of
the module says what each field stands for.

### ConformanceRun

`cmd_run` for any number of processes (`Runs`). Each has a program counter `pc`,
an `outcome` ("none" while it lives), the capabilities loaded so far, the pairs
still to run (`todo`), the grid (`results`) and its directory (`dir`). The disk
is `json`, `md` (what the two files of each second hold) and `latest`. `asked`,
`bad` and `ended` are history variables that no action reads.

| action | code |
|---|---|
| `LoadCapabilities`, `CapabilitiesFail` | `load_sdk_capabilities`, the `except` of `cmd_run` (exit 2) |
| `DiscoverFixtures` | discovery and "no fixtures found"; `PlanRaises` where it raises |
| `SkipPair`, `AskSdk`, `PlanRaises` | head of `run_fixture` for the next pair of the double loop |
| `SdkAnswers`, `AnswerRaises`, `SdkTimesOut` | `subprocess.run` returning or timing out, and the comparison |
| `MakeOutDir`, `OpenJson`, `WriteJson`, `OpenMd`, `WriteMd` | `mkdir`; `write_text`, which truncates and then writes, twice |
| `LookAtLatest`, `UnlinkLatest`, `LinkLatest` | `is_symlink`/`exists`, `unlink`, `symlink_to` |
| `PublishRaises` | any of these refused by the file system or by another run |
| `Conclude` | `return 1 if any_fail else 0` |
| `Tick`, `Kill` | the clock; a signal |

Two processes interleave between any two of these steps. A process may be killed
at any step after its start. Within a pair, the verdict and the entry into the
grid are one step: nothing outside the process sees them apart.

### SuitePromise

The abstract specification of a run: publish a whole grid in one step or nothing;
end "failed" or "ok" by what that grid holds; be refused before publishing; or
die. `ConformanceRun` refines it: a grid is published when `results.json` is
completely written (`PublishedGrid`), and its cells are the statuses in memory
then.

### Divergence

`analyze` on any `results.json` the runner can have written: `Init` lets every
cell be any result `Runner`'s gate and verdict can produce for its fixture and
SDK (`FixtureResults`; `PublishedResultsAreRead` proves that a run writes nothing
else). The directory walk has no defined order, so `ReadManifest` takes the
manifests one by one in any order; `MissManifest` passes over one that has
disappeared or does not load. `Analyze` computes the tables; `AnalyzeRaises` is
the `AttributeError` on a body that is a JSON array. `RecordedRuns` is the
constant that says which vectors, SDKs and declarations the file was made with.

### GapReport

Operators over the state of `Divergence`: two more programs read the same file.

| operator | code |
|---|---|
| `Declaring`, `Agreeing`, `FirstMet`, `ConsensusHolders`, `Deviators`, `Kind` | `build_leaderboard`; `Counter.most_common(1)` takes the value met first of several equally frequent, so the order of the SDKs is a parameter |
| `BehaviorCell`, `Ran`, `Outcomes`, `DivergenceClass` | `behavior_cell`, `build_matrix` |
| `Pinning`, `CoverageCell` | `_render_coverage_section` of `report.py` |

### AdapterLane

The v3 suite's tools, as `docs/PORTING_PLAYBOOK.md` puts them together: a lane for
the reference and one for the port, the comparison of their reports, the live
lane. Each lane has a program counter, the fixtures it has not come to (`todo`),
the entries of its report in memory, a report file and the exit of its last run;
the comparator has what it read of the first report (`held`) and its verdict.

| action | code |
|---|---|
| `StartLane` | `main` up to the loop, with any choice of `--dirs` |
| `RunFixture`, `LaneRaises` | `run_fixture`, and the `AttributeError` on a body that is no object |
| `OpenReport`, `WriteReport` | `open(…, "w")` truncates, `json.dump` writes; then the exit |
| `KillLane` | a signal |
| `LoadFirst`, `Compare`, `ComparatorRaises` | the two loads of `compare_adapters.py`, its loop, a file that does not load |
| `Live` | `run_live`; it shares nothing with the lanes and is one step |

`Entry`, `AsExpected` and `Valid` are the decisions of `run_fixture` and
`validate_fixture`, in the module `LaneRules` because `FixtureSuite` judges by them
too; `Identical` and `LiveExit` are those of `compare_adapters.py` and `run_live`. Adapters
answer anything in `Answers`; a lane may be run again while the comparator reads.

### PortAcceptance

The abstract specification of accepting a port: a lane begins, gives up the report of
its last run, publishes the verdicts of a whole set of fixtures with the exit code they
earn, or dies; the comparator takes a report of each side and may call them identical
only if they give every admitted fixture the same verdict. Its reports hold verdicts and
no outputs. `AdapterLane` refines it (`PortIsJudgedByVerdicts`): a truncated report is no
report, a readable one stands for its statuses (`VerdictsOf`), and the comparator of the
code, which looks at outputs and never at a status, must still keep what is said of
statuses. The playbook's "definition of done" is exactly that inference: a reference that
passes, zero divergences, hence a port that passes.

### VectorKit, and the vectors of the v1 suite

The generators run once, write files and forget. There is no interleaving in them;
what can go wrong is that the vector they write is not the one they describe, and
nothing notices until an SDK that is right fails it, or one that is wrong passes.
So a vector is modelled as what the script builds (`doc`), what it expects (`exit`,
`codes`, `outputs`), what it asks for (`caps`) and what its notes say it catches
(`catches`); and beside the vectors of a family stands the verifier its
expectations are written for, as the set of *all* codes that apply to a document.

| module | scripts | the verifier |
|---|---|---|
| `MeasurementVectors` | `measurement_fixtures.py`, `hardware_measurements_fixtures.py` | comparison of two measurements; hardware registers against a list |
| `EnclaveCertVectors` | `enclave_cert_fixtures.py` | names of the certificate, key and hash in base32 pieces |
| `MerkleTree`, `SigstoreStack` | `lib/rekor.py`, `fulcio.py`, `sct.py`, `dsse.py`, `bundle.py`, `trust_root.py`, `spec.py` | – (what the two below build from) |
| `SigstoreVectors` | `signed_fixtures.py`, `policy_variations.py`, `coverage_fixtures.py` | certificate chain, SCTs, timestamps, log entry and inclusion, signature, statement, policy |
| `SevVectors` | `attestation_sev_phase1` … `6`, `lib/sev_synth.py` | chain, CRL, report, TCB and policy |
| `TdxVectors` | `attestation_tdx_phase2` … `4b`, `lib/tdx_synth.py` | chain, CRLs, TCB Info, QE Identity, quote, TCB status and policy |
| `FullFlowVectors` | `verify_full_phase1_fixtures.py`, `verify_full_tdx_happy.py` | bundle, attestation, measurement, comparison, each naming its stage |

Each builder of the library is one operator and takes the arguments the script
takes (`BuildBundle` of a spec, `BuildSev` of a report, …): what is signed is
signed over the value of that moment, so a field changed afterwards is a broken
signature here as there. Mutations of a frozen production bundle start from a bundle
whose log position is an input (`SeedTrees`).

A flaw is a string that the verifier's rules look at: `flaw = "TCB floor excluded"`
turns one `<=` into `<`. An SDK without a flaw is the verifier itself.

### The vectors of the v3 suite

One module per generator or pair of them, each rule under its id in
`docs/SPEC_COVERAGE_V3.md` ("S19", or "S19-floor" where the vectors split it). A
flaw with a rule's name is an SDK without the rule.

| module | generators |
|---|---|
| `V3Envelope` | `gen_envelope.py`; the base document and the shape of a vector |
| `V3Provenance` | `gen_provenance.py`, `sigstore_synth.py` |
| `V3Policy` | `gen_policy.py` |
| `V3Sev` | `gen_sev.py`, `gen_frozen_time.py`, `v3/sev_synth.py` |
| `V3Golden` | `gen_golden.py`, `gen_freshness.py`: whole documents |
| `V3Tdx` | `gen_tdx.py`, `gen_golden_tdx.py` |
| `V3Timestamps` | `gen_rfc3161.py`, `lib/tsa.py` |
| `V3Approvals` | `gen_approval_bundle.py`, the Rekor v2 entries of `lib/rekor.py` |
| `V3Suite` | `gen_embedded_roots.py`; all vectors and the verifier of each stage |

A whole document goes through envelope, provenance, quote and policy in that order
and the first layer that refuses names the code (`FirstRefusal`); within a layer
the rules may be checked in any order.

### FixtureSuite

Puts one vector at a time to one SDK `[flaw, honest]`.

| action | code |
|---|---|
| `Present` | the gate of `run_fixture` (`Supported` of `Runner`), given what the SDK declares; the lane of the v3 suite has no gate |
| `AnswerReject`, `AnswerAccept` | the SDK: of the codes that apply, any one; if none does, accept with its facts |
| `Judge` | v1: `Verdict` of `Runner`; v3: `Status` of `LaneRules` |
| `Record` | the result is kept, the next vector taken up |

So the models of runner and lane judge the vectors the generators really write, and
the SDK is anything between "does nothing wrong" and "makes the one mistake the
vector is about", in any order of checks. An honest SDK with a missing feature says
so in its capabilities; a dishonest one does not.

What the verifiers assume, where the documents leave a choice: collateral is not
looked at if `tcb_evaluation_required` is false; the default policy is the bit rules
of SPEC 4.8.1 and 4.8.2; the least TCB evaluation number is 0 unless the policy sets
it; an SDK with a system clock applies it to the PCK chain; v3 vectors that pin no
time are checked at a clock within every certificate's validity, after every CRL's
issue; an approval without a pinned-key rule is checked with the first pinned key.

## 3. What TLC checks

| run | instance | shows |
|---|---|---|
| `one_run` | 1 process, 1 SDK, 9 suites, 3 declarations, 15 answers, variants on | every branch of the runner: types, `HooksDeclared`, `NoMisleadingPass`, `PassIsEarned`, `NoFailureLost`, `ResultsAreOwn`, the refinement `KeepsPromise` and `Terminates` |
| `concurrent_runs` | 2 processes, 2 SDKs, 1 fixture, 2 seconds | the shared directory under every interleaving and every death: `LatestComplete`, `ReportsKept`, `LatestLostOnlyMidSwap`, `LatestNewest` and the inductive `PublishInv` |
| `divergence_report` | 6 trees of 2 fixtures with 2 SDKs, 1 fixture with 4 SDKs, one that all skip with 4 and 5 SDKs; 7 answers, every order of the walk | the divergence table: `LookupInv`, `RowsShowTheirOwnCodes`, `PassingSplitsAreAllowed`, `UnequalSkipsAreExplained`; the gap report: `TargetsIgnoreOrder`, `MatrixAgreesWithTable`, `BehaviorSplitsAreFailures`; the coverage section: `CoverageIsEarned` |
| `fixture_suite` | every vector of both generators, one at a time; per vector a faultless SDK, one per mistake its notes name and, in v1, one per missing feature; logs of 2, 5 and 6 entries | `FaultlessPasses`, `CatchesItsFlaw`, `HonestGapsNeverFail` |
| `adapter_lanes` | a reference and a port (run twice), 2 suites, 8 answers, 3 live adapters | lanes, deaths and the comparator in any order: `ReportInv`, `ExitMatchesReport`, `ComparedWhole`, `IdenticalMeansSameStatus`, `PassesAgree`, `LiveAgreed`, and the refinement `PortIsJudgedByVerdicts` |
| `same_name` | 2 SDKs of one name | violated: see finding 1 |
| `unchecked_code` | as `one_run` | violated: finding 2 |
| `each_allowed`, `one_capability_line` | as `divergence_report` | violated: findings 3 and 4 |
| `covered_fixtures` | as `adapter_lanes` | violated: finding 5 |
| `canonical_offsets`, `ungated_vectors` | as `fixture_suite` | violated: findings 6 and 7 |

### Bounds, and why they are enough

* **One process for the runner's own properties.** Processes share nothing but
  the disk, so verdicts, gates and exit codes of one do not depend on another.
* **Two fixtures at most.** No verdict depends on another fixture, except through
  the end of the run; two show the order, the skip of one and the death at the
  second. The nine suites hold an early-code reject, a reject that lists an
  early and a policy code, one that opted in to the variant, one with a stage, an
  accept, a malformed input, one that asks for public_api already, a broken
  manifest, one that is no mapping, a missing input, one that is no object and no
  fixtures at all.
* **Two processes for the directory.** Three interleaving runs are beyond a run
  of a few minutes; the theorems of section 4 cover any number. Two already reach
  the same second, a stale look at `latest`, a death in mid-swap and an older run
  that links after a newer one has.
* **`MaxClock = 2`** lets two runs take the same second or different ones;
  stamp 0 is the directory of a run made before them.
* **Two SDKs, two fixtures in the divergence report**: divergence is a relation
  between two SDKs and a clash of names one between two fixtures. The leaderboard
  counts votes: three against one and two against two need four SDKs, the number
  the pipeline runs, and a minority of more than one needs five.
* **One vector at a time.** No generator script reads what another wrote, and
  verdicts do not depend on each other. The vectors are all of them; what is
  bounded is the mistakes an SDK can make (those the notes, comments and rules
  name, one at a time) and the sizes of the log: 2 with the production entry
  first, 5 with it last and alone in its subtree, 6 with it in the middle.
* **Two lanes, the port's run twice.** Lanes share nothing but what the comparator
  reads; the second run is what rewrites a report between its two loads, and
  leaves an old report behind an exit that was not 0 or 1. Two fixtures of
  one directory give a partial report, and a lane over no directory beside one
  over this one gives two reports that do not match.
  Three live adapters are the least for which "all equal the first" and "all
  equal each other" could differ.

### Fairness

`FairSpec` has weak fairness of `HarnessStep(r)` for each process and nothing
else. It leaves out `LoadCapabilities` and `SdkAnswers`: no SDK is assumed to
answer. It may contain `CapabilitiesFail` and `SdkTimesOut` because both
subprocess calls have a timeout (10 s at `runner.py:100-105`, 30 s at
`runner.py:185`), so that a waiting process does go on by itself.
`Start`, `Tick` and `Kill` are the environment's. `Terminates` then says that a
run that started ends.

`CHECK_DEADLOCK FALSE` is set because a finished run really has no next step.

### Findings

1. **A repeated `--sdk` name loses failures** (`same_name`). The grid is keyed by
   name (`cli.py:46`) and nothing refuses the second: a failure of the first is
   overwritten and the run exits 0, although `README.md:187-188` says the exit
   code is non-zero if any fixture failed.
2. **Listed codes are not compared at exit 30** (`unchecked_code`).
   `vectors/enclave-cert/780-malformed-cert/manifest.yaml:7-8` expects exit 30
   with code `ENCLAVE_CERT_MALFORMED`; any code or none passes.
3. **Divergence rows are not all-allowed** (`each_allowed`). They list whatever
   codes were emitted, failing ones included; `divergence.py:8` and `:267` say
   each is allowed.
4. **One capability, two lines** (`one_capability_line`). An undeclared
   capability is filed under its whole message, a declared one with the wrong
   value under its path; `divergence.py:168-169` promises one line.
5. **A lane passes without covering anything** (`covered_fixtures`).
   `run_adapter.py:29` makes a SKIP of exit 20 whatever the fixture and no tool
   reads the adapter's capabilities, so an adapter that lists a stage and answers
   20 to it exits 0. `docs/CONFORMANCE_ADAPTER_SPEC.md:237` says the suite uses
   capabilities to gate fixtures, and lines 276-277 that a conforming adapter
   passes all fixtures they cover.
6. **A vector pins fields at other offsets than the report has**
   (`canonical_offsets`). The outputs of `attestation-sev/200` are read at 0x1E8
   (committed TCB), 0x1F0 (builds) and 0x1F8 (launch TCB), in
   `attestation_sev_phase1_fixtures.py:104`; the report has them at 0x1E0, 0x1E8
   and 0x1F0, and `lib/sev_synth.py:369-371` calls the later ones non-canonical. An
   SDK that reads the report as it is laid out fails the vector.
7. **A regression guard lets the regression off** (`ungated_vectors`). The comment on
   vector `verify-sigstore/069b`, `signed_fixtures.py:561-562`, says "NOT gated: every
   conformant SDK must reject, so a regression to V1-only fails loudly"; line 591 asks
   for `sigstore.oidc_issuer_v2_preferred`, so an SDK that reads the deprecated
   extension and says so is skipped. One that does not say so is failed
   (`CatchesItsFlaw`).

Smaller disagreements, which a property lists by name rather than a run of its
own, are in the next part.

### Vectors that do not do what they say

`FaultlessPasses`, `CatchesItsFlaw` and `HonestGapsNeverFail` hold for every vector
but those listed, by name, in `FailsEveryone`, `OrderDependent`, `Unfounded`,
`V3Unfounded` and `CalledUngated`. Of these the properties assert the opposite (nobody
passes; a listed and an unlisted code both apply; the mistake passes; the SDK is
skipped), so that a repaired vector breaks the run and leaves the list. The lists are
results of the model checking:

* **Nobody passes** `attestation-sev/200` (finding 6), nor 270 to 274, which require
  platform bits the report does not set and are written to fail until the
  specification has a clause (`attestation_sev_phase5`, `6`). 272 and 273 are called
  "not required by default" there and still fail.
* **Order decides** in `attestation-tdx/341` and `343`: at their date the frozen CRLs
  are as stale as the TCB Info, and an SDK that looks at CRLs first names a code
  neither lists. So it does in three Sigstore vectors that list a single code: `022`, a
  trust root without Fulcio CAs, whose notes (`policy_variations.py:439-441`) say that
  SCT errors may come first; `064`, a log entry of another time than the leaf's, whose
  notes (`signed_fixtures.py:378-379`) name `REKOR_INCLUSION_INVALID` as what some SDKs
  say and count on a list that line 385 does not give; and `091`, whose leaf no CA of
  the trust root issued, so that its SCTs cannot be checked either (its notes say that
  all SDKs give the one code, `coverage_fixtures.py:95`).
* **Called "NOT gated"** and gated: `069b` (finding 7). An SDK that admits the gap is
  skipped there, and `HonestGapsNeverFail` says so by name.
* **The frozen quote does not match the frozen collateral.** TEE_TCB_SVN 03 00 04 of
  the quote meets no level of the frozen TCB Info, so 326, 327, 335, 340, 342, 344 and
  345 reject for that alone: an SDK that never verifies the signature they are about
  passes them.
* **No difference is made** by 230 (`upper()` of 96 digits) and 480; 260 has a second
  fault that rejects it first.
* **v3 envelope e7, e9 to e12, e15, e16**: a replaced section no longer has the hash
  endorsed for it, which `gen_envelope.with_section` admits; an SDK without the
  section's rule still rejects at E15 to E17, with the same code.
* **v3 provenance p7, p8, p9, p11, p12, p13, p14**: a bundle that is built anew with a
  bare certificate names neither tag nor commit, a second fault; the docstring of
  `gen_provenance.py:4-8` calls every mutation a single-field change. p4-zero-sigs
  has no signature whose log entry could match.
* **v3 s1-report-version, t1-quote-version, t3-reserved-bytes**: the byte is changed
  after the report or quote was signed.

Seen on the way, without a run: the golden TD has attribute bit 30 (PKS) set and not
bit 28, while `docs/SPEC_COVERAGE_V3.md:278` wants 28 set and 30 clear; no v3 vector
exercises the appraisal window, version, imprint algorithm or size limit of RFC 3161
timestamps; the note key hint of checkpoint-bad-signature is not modelled; two SDKs that
differ are filed as a lone deviator, the second of the command line
(`gen_report.py:128`), which `TargetsIgnoreOrder` states, and a minority needs five.


## 4. What is proved

The proofs are checked by TLAPS and hold for any number of runs and SDKs, any
sets of suites, declarations and answers and any bound on the clock.

| theorem | module | states |
|---|---|---|
| `TypeCorrect` | `ConformanceRun_proofs` | `Spec => []TypeOK` |
| `PublishCorrect` | | `Spec => []PublishInv`, the inductive invariant of the directory |
| `LatestIsComplete`, `ReportsStay`, `LinkLostOnlyMidSwap`, `LinkNewest` | | the four directory properties |
| `FailureKept` | | `DistinctNames` implies `Spec => []NoFailureLost` |
| `GridCorrect` | `ConformanceRun_verdicts` | the inductive invariant of the grid |
| `HooksAreDeclared`, `PassesAreEarned`, `PassesDoNotMislead` | | the three properties of gates and verdicts |
| `ResultsAreTheirOwn`, `PublishedResultsAreRead` | | each entry of the grid is `run_fixture`'s of that case and SDK; a published entry is one `Divergence` starts from |
| `PromiseKept` | | `Spec => KeepsPromise`: every process implements `SuitePromise` |
| `LookupCorrect` | `Divergence_proofs` | the lookup table, for every order of the walk |
| `RowsAreTheirOwn`, `SplitsAreAllowed`, `SkipsAreExplained` | | the three report properties |
| `MatrixAgrees`, `BehaviorSplitsFail`, `CoverageEarned`, `OrderMakesNoDifference` | `GapReport_proofs` | the four properties of the gap report and the coverage section |
| `LaneCorrect` | `AdapterLane_proofs` | the inductive invariant of lanes, reports and comparator |
| `ReportsAreWhole`, `ExitIsOfTheReport`, `ComparisonIsWhole`, `AgreementIsStatus`, `PassesMeanAgreement`, `LiveMeansAgreement` | | the six invariants of the adapter tools |
| `AcceptanceIsSound` | | `Spec => PortIsJudgedByVerdicts`: lanes and comparator implement `PortAcceptance` |
| `AuditPathVerifies`, `OnlyTheAuditPathVerifies` | `MerkleTree_proofs` | the audit path of every leaf of every log is accepted; nothing but the log's leaf and path is |
| `BuiltEntriesVerify`, `AlteredEntriesAreRefused` | `FixtureSuite_proofs` | the same of the log entries the generators write |
| `BuiltBundlesAreJudgedBySpec`, `SeedSignaturesVerify` | | the codes found in the chain, SCTs, log, times and signature of a bundle are those its spec asks for |
| `BuiltApprovalsAreJudgedByContent`, `EntryLimitIsExact`, `AlteredWitnessesAreRefused` | | approvals in logs of every size, with any number of entries |
| `BuiltEnvelopesAreJudgedByItems`, `ReportDataBindTheSections`, `ReplacedSectionsAreRefused` | | envelopes with any sections |
| `TypeCorrect` | | `Spec => []TypeOK` of the suite: no vector or answer is of a shape runner or lane cannot read |
| `VerdictsFollowFromTheVector` | | a recorded verdict is one the harness can give to what that SDK can answer to that vector |
| `SeedTreeMakesNoDifference` | | wherever the production entry sits in its log, the vectors made of it ask the same of every SDK |
| `FaultlessPassesInEveryTree`, `FlawsAreCaughtInEveryTree`, `HonestGapsNeverFailInAnyTree` | | what TLC finds of the vectors for one place holds of every run of the suite, for any places |

**Assumptions.** `NumSdks` and `MaxClock` are positive; `Nothing`, `Directory`
and `Mixed` are no runs, no numbers and not each other (they are marks of the
model); a suite's domain is a set of naturals. In `AdapterLane` the two compared
lanes exist, the body of an answer is nothing, an object or something else, and
the mark for "no code" is none of the schema's codes, and the number of live
adapters is a natural. In `GapReport` a body that is no object has no code, no
manifest lists the mark for none and a run has finitely many SDKs; in
`ConformanceRun`, too, a body that is no object has no code. `FailureKept`,
`ResultsAreOwn` and `PublishedResultsAreRead` assume that the SDK names differ; finding 1 shows what happens if they do not. A
production entry (`SeedTrees`) lies in its log. That hashes and signatures are perfect
is built into the models and into every theorem about bundles.

**The argument for the directory.** None of the four properties is inductive.
`PublishInv` adds what they rest on:

* `DirInv`: a run has a directory exactly from `MakeOutDir` on, and no directory
  is of the future. Without it a fresh directory could be one somebody wrote to.
* `ReportInv`: what the two files of an unshared directory hold at each program
  counter. Without it "complete" at the link would not follow from the steps
  before it.
* `LinkInv`: the link was set by a run that reached the end, and is missing only
  in mid-swap. This is what ties `latest` to `ReportInv`.
* `EndedInv`: a run that ended before another started took no later second, and
  no linked run is hidden behind one that ended before it began. This gives
  `LatestNewest`.
* `ConcludedInv`: only a run that linked has a verdict. This gives `ReportsKept`.

`ReportInv` and its consequences speak only of directories no two runs share:
two runs of the same second do write the same files, and `Mixed` shows it.

`FailureKept` rests on one fact: with distinct names each pair writes its own
cell once, so a bad pair that was run still shows in the grid.

**The argument for the divergence report.** `LookupInv` is inductive and says
that the table holds exactly the keys of the manifests loaded so far, each with
the codes of a manifest that has the key. The tables are computed in one step, so
`TablesInv` states what they are then and that nothing changes afterwards; the
three properties follow, with `Unambiguous` where names matter.

**The argument for the gap report.** It has no state of its own: it is computed
from the cells and tables of a report that is done. `TablesInv` of `Divergence`
says what those are, and `RejectingEmit` that the SDKs the matrix files under
"reject" with a code are those the table lists with it; agreement of the two follows
in both directions. `CoverageEarned` adds `LookupInv` (a code the table finds is one
of the manifest's, or of another that has the same key) and the runner's verdict (a
pass on a reject with codes names one of them).

**The argument for the grid.** `GridInv` is `AskedInv`, `HooksDeclared` and
`PassIsEarned` together. `AskedInv` is what the other two need: nobody is asked
before the capabilities are loaded, so the declaration that gated a question does
not change under it, and only an SDK that was asked is waited for, so a verdict
belongs to a question that passed the gate. `NoMisleadingPass` follows from
`PassIsEarned` and from which fixtures get a variant.

**The argument for the entries.** `OwnInv` says that a run has everything to do until
its capabilities are known, that it asked an SDK only about what that SDK supports, and
that what it has done is in the grid as `FixtureResults` of `Runner` says. A record
keeps it because with distinct names no two pairs share a cell (`DistinctKeys`), and
reading a declaration because nothing has been done then. By `FilledInv` nothing is
left to do when `results.json` is complete: all of it is what `Divergence` starts from.

**The argument for the promise.** A process publishes in `WriteJson` and nowhere
else. `FilledInv` says that a cell is empty only while a pair that fills it is to be
run, and that from `MakeOutDir` on none is: what is published is a whole grid, of a
suite that is not empty, and it no longer changes until `Conclude` reads it. All other steps either leave the abstract state alone
or are `Refuse` or `Die`.

**The argument for the lanes.** `Inv` ties what a running lane holds and has to do
to a choice of directories, so that a lane that writes has run them all; every
readable file is then whole, and so is what the comparator took, whenever it
looked. `AgreementIsStatus` needs the suite gate: the comparator does not look at
the shape of a body, and for a valid fixture a body that is no object can agree
with no passing one. `LiveMeansAgreement` rests on the least index of an adapter that
emitted facts: if all equal that one, all equal each other.

**The argument for the acceptance of a port.** Each action of `AdapterLane` is one of
`PortAcceptance` or is not seen there. Two steps carry it. `WriteReport` publishes: by
`Inv` the lane holds an entry for each file of its directories and the file is the
truncated one, so what appears is a whole set of verdicts and the exit code is theirs.
`Compare` finds: reports whose outputs are identical hold equal statuses wherever the
fixture is valid (`SameVerdicts`), which is all the abstract step asks.

**The argument for the order of the SDKs.** `Counter.most_common` resolves a tie by
who was met first, so the order picks which of the largest groups is the consensus.
All largest groups are of one size, hence the number of deviators and the kind do
not depend on it (`DeviatorsCounted`, `KindIgnoresOrder`). Where fewer than half
deviate, two largest groups would together be more than all who declare, so there
is one only (`MajorityIsOne`); between two SDKs the first listed is the consensus.

**The argument for the log.** `LeastElement` has induction over the naturals in the
form the provers can use: a set of naturals that holds 0 and every successor holds
all. With it the recursive functions of `MerkleTree` are shown to exist and to be what
their definitions say (`DoubledIs`, `TreeIs`, `PathsAre`, `ClimbIs`). A subtree of
`n` leaves that begins at a multiple of the least power of two not below `n` is
climbed out of in as many steps as its audit path has hashes, and the hash then held is
its root (`SubtreeLeaves`, by induction over the size, with the right edge of the tree
as the hard case: there the climb skips the levels at which the smaller part has no
sibling). The whole log is one such subtree, which is `AuditPathVerifies`. For the
other direction, the way a climb goes depends on place and size and not on the hashes,
so two accepted climbs go side by side; they end in one root, and since a node holds
what was hashed they agree level by level down to the leaf (`ClimbUnique`).

**The argument for bundles.** Each lemma says what a verifier sees of one part of a
bundle built from a spec: the issuing CA, the SCTs whose times the log's key was valid
at, the entries (by the theorems about the log), the promised times. `SpecFaults` says
from the spec alone what should be found, and `BuiltBundlesAreJudgedBySpec` puts the
parts together. The size of the log and the place in it do not occur in `SpecFaults`;
`SeedSignaturesVerify` is the case of the bundle of 001, whose log TLC can only try in
the sizes given as `SeedTrees`; the argument for every place, below, is about all
vectors made of it.

**The argument for approvals and envelopes.** An entry of a Rekor v2 log is in order
(`InOrder`) by the same theorem about audit paths, so every rule on entries holds of
each of them; what is left is their number and the subject. For envelopes, `LadderIs`
and the injectivity of a hash carry `ReportDataBindTheSections`: equal report data are
of equal hashes, and equal hashes of equal sections. `ReplacedSectionsAreRefused` is
the other side of it, and the proof of the note in section 3 on e7, e10 and e11.

**The argument for the types of the suite.** `SuiteInv` is `TypeOK` and that `answer` is
of the kind the two answering actions write (`Answers`): none yet, a rejection with one
code or an acceptance with facts. Without the second part `Judge` could not be shown to
record a status, as there are answers on which runner and lane raise. That every
vector of the suite is of a family and, in v3, of a shape the lane accepts is proved
for each set of vectors by the operators that write them (`MeasurementVectorsAre`,
`SevVectorsAre`, `V3VectorsAre` and so on), not by listing them.

**The argument for every place in the log.** Vector 001 is a bundle frozen from
production. In the model its log entry sits at one of `SeedTrees`, and 33 vectors
are 001 or made of it by altering one part. TLC tries three places; that no other one
behaves differently is proved in three parts.

1. *Twins.* Two Sigstore blocks are twins if they differ in their log entries only and
   each entry has the log, index, time, body and promise of its counterpart and the same
   failures (`EntryTwins`): the audit path holds in both or in neither, and so for the
   root under the checkpoint. Every verifier, faultless or not, refuses twins for the
   same reasons (`TwinsFailAlike`) and reads the same facts (`TwinsReadAlike`).
2. *Altered alike.* `SeedsTwin`: 001 at one place and 001 at another are twins, and
   remain so under every alteration the scripts make. For the alterations of the entry
   itself (033, 034, 090, 093) that rests on the Merkle theorems: a flipped root or
   hash is refused at every place. A log of one entry has no hash to flip, hence
   `size >= 2` in the assumption on `SeedTrees`; production logs are not that small.
   The lemmas `IdentityVectorsTwin` to `FlowVectorsTwin` carry this over to each set of
   vectors, which gives `SeedTreeMakesNoDifference`.
3. *Runs.* `CaseInv` is the inductive invariant of a run: the answer is one that SDK can
   give to the vector it was shown, the verdict is pending or one for such an answer,
   and the gate alone decides on a skip. Hence `VerdictsFollowFromTheVector`, and each
   property of the run is one of the vectors: `Spared`, `Told` and `Excused` say it of a
   single vector over all its SDKs, and vectors that ask the same share it
   (`SameCaseSamePromise`).

The hypothesis of the last three theorems, that the fixed vectors and those of *one*
place keep the promise, is a statement over a finite list without variables. It is
what `fixture_suite` goes through when it presents every vector, to every SDK, with every
answer that SDK can give; the run holds it for three places, and the theorems take it
from there to all of them.

**Only model-checked.** `Terminates` is liveness under fairness, out of the prover's
reach. For `FaultlessPasses`, `CatchesItsFlaw` and `HonestGapsNeverFail` the case of each
vector is: whether a list of several hundred records, each with its own flaw, keeps a
promise is for TLC to evaluate one by one, which it does completely. What the theorems
add is that order, earlier vectors and the place of the production entry are not cases
left out.

## 5. What is abstracted or left out

* Values of capabilities: a scalar and a list are both a set of values; the four
  comparisons of the code are then "the sets meet". Letter case of output strings
  is kept, because `diff_outputs` ignores it; other text is not.
* An `expected.json` that does not parse, `rejection_code: []`, a manifest without
  `exit_code` and an ill-formed `--sdk` option do not occur in the model.
* The vectors tree does not change during a run (it may between the run and the
  divergence report).
* `write_text` is two steps, truncate and write. A text that meets another's may
  end as either or a mixture.
* `<fixture>::public_api` cases share their base fixture's codes in the
  divergence report and are not modelled there.
* In the adapter tools a JSON null is an absent member and `outputs` is an object;
  the order of the files within a lane is the suite's. `Live` is one step.
* Rendering of tables and Markdown: wording, no decision.
* In the vectors, hashes and signatures are perfect (a hash is what was hashed),
  keys are names, and encodings (DER, CBOR, base64, protobuf) are left out except
  where a vector is about one; then it is a flag of the document. A date is a day in
  the TDX documents, so "one second later" is the next day there.

**Not modelled**, and why:

* the HTML, Markdown and CSV of `gen_report.py` and its descriptions read from
  schemas and manifests; the rendering of `divergence.py`: wording, no decision;
* the input schema of `validate_suite.py` (type tests over a data file) and its count
  of the coverage matrix (a regular expression over one Markdown file; all five
  layers match it today, 121 rules, none open);
* the workflows: straight lines of shell steps on a fresh hosted runner. Under
  `set -e` a run that exits 1 ends the step before `gen_report.py`
  (`conformance-report.yml:156-158`), so a run with failures never gets its report;
* the byte encoders of `lib/der.py`, and the cryptographic library behind `keys.py`;
* `cmd_capabilities` and argument parsing: print and exit.

## 6. Plan

What remains, in order:

1. **One-fault theorems** for the policy and platform layers, as for the envelope: which
   documents break one rule and no other. Until then `CatchesItsFlaw` is their evidence,
   vector by vector.
2. **SuiteGate**: the input schema, if it grows rules that depend on each other.
