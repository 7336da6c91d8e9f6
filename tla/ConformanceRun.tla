--------------------------- MODULE ConformanceRun ---------------------------
(***************************************************************************)
(* cmd_run of harness/tinfoil_conformance/cli.py, for several processes     *)
(* that share one vectors tree and one output directory: load every SDK's   *)
(* capabilities, discover the cases, run case by case and SDK by SDK, then  *)
(* write results.json and results.md into a directory named after the       *)
(* current second and move the `latest` link to it.  A process may be       *)
(* killed between any two steps; nothing it holds in memory survives.       *)
(***************************************************************************)
EXTENDS Runner, Sequences

CONSTANTS
  Runs,               \* the processes
  NumSdks,            \* how many --sdk options each was given
  SdkName,            \* 1..NumSdks -> the name in that option
  Suites,             \* the vectors trees considered: sequences of fixtures
  Declarations,       \* what an SDK may declare as its capabilities
  Answers,            \* what an SDK may answer to one fixture
  PublicApiVariants,  \* --public-api-variants
  MaxClock,           \* bound on the clock, in seconds
  Nothing,            \* no file, no link, no directory
  Directory,          \* `latest` is a real directory and not a link
  Mixed               \* a file two writers wrote at once

Sdks == 1 .. NumSdks

ASSUME NumSdksAssumption == NumSdks \in Nat \ {0}
ASSUME SdkNameAssumption == DOMAIN SdkName = Sdks
ASSUME ClockAssumption   == MaxClock \in Nat \ {0}
ASSUME SuitesAssumption  == \A s \in Suites : DOMAIN s \subseteq Nat
\* A code is read from a JSON object.
ASSUME AnswersAssumption ==
  \A a \in Answers : a.body # "object" => a.code = NoCode
ASSUME MarkAssumption    ==
  /\ Nothing # Directory /\ Nothing # Mixed
  /\ {Nothing, Directory, Mixed}
       \cap (Runs \cup Nat \cup {"partial", "earlier"}) = {}
  /\ Runs \cap {"partial", "earlier"} = {}

Names  == {SdkName[k] : k \in Sdks}
Stamps == 0 .. MaxClock
Codes  == {a.code : a \in Answers} \cup {NoCode}
Exits  == {a.exit : a \in Answers} \cup {NoExit}

VARIABLES
  suite,    \* the vectors tree, the same for every run
  pc,       \* run -> where it is in cmd_run
  outcome,  \* run -> "none" while it lives, then how it ended
  caps,     \* run -> the declarations loaded so far, in --sdk order
  todo,     \* run -> the <<case, sdk>> pairs not run yet
  results,  \* run -> case and SDK name -> the FixtureResult kept in memory
  dir,      \* run -> the stamp of its output directory, or Nothing
  clock,    \* the second strftime would print
  json,     \* stamp -> what its results.json holds
  md,       \* stamp -> what its results.md holds
  latest,   \* what the `latest` link names
  asked,    \* history: the pairs whose SDK was started on the fixture
  bad,      \* history: the pairs that earned "fail" or "error"
  ended     \* history: run -> the runs that had ended when it started

files == <<json, md, latest>>
vars  == <<suite, pc, outcome, caps, todo, results, dir, clock, json, md,
           latest, asked, bad, ended>>

-----------------------------------------------------------------------------
Cases == FixtureCases(suite, PublicApiVariants)
Pairs == Cases \X Sdks
Keys  == Cases \X Names

\* Slip: the entry of a call without an answer lacks the code.
BlankWithoutCode == [status |-> "none", exit |-> NoExit]

Blank == [status |-> "none", exit |-> NoExit, code |-> NoCode]

Entries == [status : Statuses \cup {"none"}, exit : Exits, code : Codes]

Fixture(pair) == suite[pair[1].dir]
Mode(pair)    == pair[1].mode
\* Slip: the grid is keyed by fixture and not by case.
KeyOfFixture(pair) == <<[pair[1] EXCEPT !.mode = "base"], SdkName[pair[2]]>>

Key(pair)     == <<pair[1], SdkName[pair[2]]>>

\* for fix in fixtures: for sdk in sdks
PairBefore(p, q) ==
  \/ CaseBefore(p[1], q[1])
  \/ p[1] = q[1] /\ p[2] < q[2]

Due(r, pair) ==
  /\ pair \in todo[r]
  /\ \A other \in todo[r] : ~PairBefore(other, pair)

Alive(r) == outcome[r] = "none"

Goto(r, there) == pc' = [pc EXCEPT ![r] = there]
End(r, how)    == outcome' = [outcome EXCEPT ![r] = how]

-----------------------------------------------------------------------------
Init ==
  /\ suite \in Suites
  /\ pc = [r \in Runs |-> "idle"]
  /\ outcome = [r \in Runs |-> "none"]
  /\ caps = [r \in Runs |-> << >>]
  /\ todo = [r \in Runs |-> Pairs]
  /\ results = [r \in Runs |-> [k \in Keys |-> Blank]]
  /\ dir = [r \in Runs |-> Nothing]
  /\ clock = 1
  \* Stamp 0 is the directory of a run made before any of these.
  /\ json = [s \in Stamps |-> IF s = 0 THEN "earlier" ELSE Nothing]
  /\ md = json
  /\ latest \in {Nothing, Directory, 0}
  /\ asked = [r \in Runs |-> {}]
  /\ bad = [r \in Runs |-> {}]
  /\ ended = [r \in Runs |-> {}]

Tick ==
  /\ clock < MaxClock
  /\ clock' = clock + 1
  /\ UNCHANGED <<suite, pc, outcome, caps, todo, results, dir, json, md,
                 latest, asked, bad, ended>>

Start(r) ==
  /\ Alive(r) /\ pc[r] = "idle"
  /\ Goto(r, "load")
  /\ ended' = [ended EXCEPT ![r] = {q \in Runs : ~Alive(q)}]
  /\ UNCHANGED <<suite, outcome, caps, todo, results, dir, clock, files,
                 asked, bad>>

\* One `<sdk> capabilities` call, in --sdk order.
LoadCapabilities(r) ==
  /\ Alive(r) /\ pc[r] = "load"
  /\ \E d \in Declarations : caps' = [caps EXCEPT ![r] = Append(@, d)]
  /\ Goto(r, IF Len(caps[r]) + 1 = NumSdks THEN "discover" ELSE "load")
  /\ UNCHANGED <<suite, outcome, todo, results, dir, clock, files, asked,
                 bad, ended>>

\* The call exits nonzero, prints no JSON, or is still running after 10 s:
\* nothing is run against any SDK.
CapabilitiesFail(r) ==
  /\ Alive(r) /\ pc[r] = "load"
  /\ End(r, "refused")
  /\ UNCHANGED <<suite, pc, caps, todo, results, dir, clock, files, asked,
                 bad, ended>>

DiscoverFixtures(r) ==
  /\ Alive(r) /\ pc[r] = "discover"
  /\ ~DiscoveryRaises(suite, PublicApiVariants)
  /\ IF Cases = {}
     THEN End(r, "refused") /\ UNCHANGED pc
     ELSE Goto(r, "run") /\ UNCHANGED outcome
  /\ UNCHANGED <<suite, caps, todo, results, dir, clock, files, asked, bad,
                 ended>>

-----------------------------------------------------------------------------
(* One pass through the double loop                                         *)

Record(r, pair, entry) ==
  /\ results' = [results EXCEPT ![r][Key(pair)] = entry]
  /\ todo' = [todo EXCEPT ![r] = @ \ {pair}]
  /\ bad' = [bad EXCEPT ![r] =
               IF entry.status \in {"fail", "error"} THEN @ \cup {pair} ELSE @]

SkipPair(r) ==
  /\ Alive(r) /\ pc[r] = "run"
  /\ \E pair \in todo[r] :
       /\ Due(r, pair)
       /\ ~CannotPlan(Fixture(pair), caps[r][pair[2]])
       /\ ~Supported(Fixture(pair), Mode(pair), caps[r][pair[2]])
       /\ Record(r, pair, [Blank EXCEPT !.status = "skip"])
  /\ UNCHANGED <<suite, pc, outcome, caps, dir, clock, files, asked, ended>>

\* subprocess.run(sdk.binary + [stage]): the SDK now works on the fixture.
AskSdk(r) ==
  /\ Alive(r) /\ pc[r] = "run"
  /\ \E pair \in todo[r] :
       /\ Due(r, pair)
       /\ ~CannotPlan(Fixture(pair), caps[r][pair[2]])
       /\ Supported(Fixture(pair), Mode(pair), caps[r][pair[2]])
       /\ Fixture(pair).input # "missing"
       /\ asked' = [asked EXCEPT ![r] = @ \cup {pair}]
  /\ Goto(r, "wait")
  /\ UNCHANGED <<suite, outcome, caps, todo, results, dir, clock, files, bad,
                 ended>>

\* discover_fixture_cases raises, or run_fixture does before the SDK is
\* started.  cmd_run catches neither.
PlanRaises(r) ==
  /\ Alive(r)
  /\ \/ pc[r] = "discover" /\ DiscoveryRaises(suite, PublicApiVariants)
     \/ /\ pc[r] = "run"
        /\ \E pair \in todo[r] :
             /\ Due(r, pair)
             /\ \/ CannotPlan(Fixture(pair), caps[r][pair[2]])
                \/ /\ Supported(Fixture(pair), Mode(pair), caps[r][pair[2]])
                   /\ Fixture(pair).input = "missing"
  /\ End(r, "raised")
  /\ UNCHANGED <<suite, pc, caps, todo, results, dir, clock, files, asked,
                 bad, ended>>

SdkAnswers(r) ==
  /\ Alive(r) /\ pc[r] = "wait"
  /\ \E pair \in todo[r], a \in Answers :
       /\ Due(r, pair)
       /\ LET verdict == Verdict(Fixture(pair), a) IN
            /\ verdict # "raise"
            /\ Record(r, pair, [status |-> verdict, exit |-> a.exit,
                                code |-> IF a.body = "garbage" THEN NoCode
                                         ELSE a.code])
  /\ Goto(r, "run")
  /\ UNCHANGED <<suite, outcome, caps, dir, clock, files, asked, ended>>

\* An answer whose body run_fixture cannot read ends the whole run.
AnswerRaises(r) ==
  /\ Alive(r) /\ pc[r] = "wait"
  /\ \E pair \in todo[r], a \in Answers :
       Due(r, pair) /\ Verdict(Fixture(pair), a) = "raise"
  /\ End(r, "raised")
  /\ UNCHANGED <<suite, pc, caps, todo, results, dir, clock, files, asked,
                 bad, ended>>

\* Slip: the call is made without a timeout.
NoTimeout(r) == FALSE /\ UNCHANGED vars

\* subprocess.TimeoutExpired after 30 s: the SDK is killed.
SdkTimesOut(r) ==
  /\ Alive(r) /\ pc[r] = "wait"
  /\ \E pair \in todo[r] :
       /\ Due(r, pair)
       /\ Record(r, pair, [Blank EXCEPT !.status = "error"])
  /\ Goto(r, "run")
  /\ UNCHANGED <<suite, outcome, caps, dir, clock, files, asked, ended>>

-----------------------------------------------------------------------------
(* Publishing                                                               *)

\* Slip: the link is set before there is anything behind it.
LinkBeforeWriting(r) ==
  /\ Alive(r) /\ pc[r] = "run"
  /\ todo[r] = {}
  /\ dir' = [dir EXCEPT ![r] = clock]
  /\ Goto(r, "look at latest")
  /\ UNCHANGED <<suite, outcome, caps, todo, results, clock, files, asked,
                 bad, ended>>

\* out_dir is named after the second and made with exist_ok=True.
MakeOutDir(r) ==
  /\ Alive(r) /\ pc[r] = "run"
  /\ todo[r] = {}
  /\ dir' = [dir EXCEPT ![r] = clock]
  /\ Goto(r, "open json")
  /\ UNCHANGED <<suite, outcome, caps, todo, results, clock, files, asked,
                 bad, ended>>

\* write_text truncates the file when it opens it ...
OpenJson(r) ==
  /\ Alive(r) /\ pc[r] = "open json"
  /\ json' = [json EXCEPT ![dir[r]] = "partial"]
  /\ Goto(r, "write json")
  /\ UNCHANGED <<suite, outcome, caps, todo, results, dir, clock, md, latest,
                 asked, bad, ended>>

\* ... and what it then writes replaces a text somebody else has written
\* meanwhile, or only the beginning of it.
Written(r, held) == IF held = "partial" THEN {r} ELSE {r, Mixed}

WriteJson(r) ==
  /\ Alive(r) /\ pc[r] = "write json"
  /\ \E text \in Written(r, json[dir[r]]) :
       json' = [json EXCEPT ![dir[r]] = text]
  /\ Goto(r, "open md")
  /\ UNCHANGED <<suite, outcome, caps, todo, results, dir, clock, md, latest,
                 asked, bad, ended>>

OpenMd(r) ==
  /\ Alive(r) /\ pc[r] = "open md"
  /\ md' = [md EXCEPT ![dir[r]] = "partial"]
  /\ Goto(r, "write md")
  /\ UNCHANGED <<suite, outcome, caps, todo, results, dir, clock, json,
                 latest, asked, bad, ended>>

\* Slip: the Markdown text is never flushed.
DropMd(r) ==
  /\ Alive(r) /\ pc[r] = "write md"
  /\ Goto(r, "look at latest")
  /\ UNCHANGED <<suite, outcome, caps, todo, results, dir, clock, files,
                 asked, bad, ended>>

WriteMd(r) ==
  /\ Alive(r) /\ pc[r] = "write md"
  /\ \E text \in Written(r, md[dir[r]]) :
       md' = [md EXCEPT ![dir[r]] = text]
  /\ Goto(r, "look at latest")
  /\ UNCHANGED <<suite, outcome, caps, todo, results, dir, clock, json,
                 latest, asked, bad, ended>>

\* Slip: a link that is there is left as it is.
KeepExistingLink(r) ==
  /\ Alive(r) /\ pc[r] = "look at latest"
  /\ Goto(r, IF latest = Nothing THEN "link" ELSE "conclude")
  /\ UNCHANGED <<suite, outcome, caps, todo, results, dir, clock, files,
                 asked, bad, ended>>

\* if latest.is_symlink() or latest.exists()
LookAtLatest(r) ==
  /\ Alive(r) /\ pc[r] = "look at latest"
  /\ Goto(r, IF latest = Nothing THEN "link" ELSE "unlink")
  /\ UNCHANGED <<suite, outcome, caps, todo, results, dir, clock, files,
                 asked, bad, ended>>

\* Slip: symlink_to is the else branch of the unlink.
UnlinkOnly(r) ==
  /\ Alive(r) /\ pc[r] = "unlink"
  /\ latest \notin {Nothing, Directory}
  /\ latest' = Nothing
  /\ Goto(r, "conclude")
  /\ UNCHANGED <<suite, outcome, caps, todo, results, dir, clock, json, md,
                 asked, bad, ended>>

UnlinkLatest(r) ==
  /\ Alive(r) /\ pc[r] = "unlink"
  /\ latest \notin {Nothing, Directory}
  /\ latest' = Nothing
  /\ Goto(r, "link")
  /\ UNCHANGED <<suite, outcome, caps, todo, results, dir, clock, json, md,
                 asked, bad, ended>>

LinkLatest(r) ==
  /\ Alive(r) /\ pc[r] = "link"
  /\ latest = Nothing
  /\ latest' = dir[r]
  /\ Goto(r, "conclude")
  /\ UNCHANGED <<suite, outcome, caps, todo, results, dir, clock, json, md,
                 asked, bad, ended>>

\* Another run moved the link between the look and the use of what it saw, or
\* `latest` is a real directory, or the disk refuses.
PublishRaises(r) ==
  /\ Alive(r)
  /\ \/ pc[r] = "run" /\ todo[r] = {}
     \/ pc[r] \in {"open json", "write json", "open md", "write md", "unlink",
                   "link"}
  /\ End(r, "raised")
  /\ UNCHANGED <<suite, pc, caps, todo, results, dir, clock, files, asked,
                 bad, ended>>

\* Slip: only a "fail" makes the exit code nonzero.
AnyFailNoError(r) == \E k \in Keys : results[r][k].status = "fail"

AnyFail(r) == \E k \in Keys : results[r][k].status \in {"fail", "error"}

\* return 1 if any_fail else 0
Conclude(r) ==
  /\ Alive(r) /\ pc[r] = "conclude"
  /\ End(r, IF AnyFail(r) THEN "failed" ELSE "ok")
  /\ UNCHANGED <<suite, pc, caps, todo, results, dir, clock, files, asked,
                 bad, ended>>

Kill(r) ==
  /\ Alive(r) /\ pc[r] # "idle"
  /\ End(r, "killed")
  /\ UNCHANGED <<suite, pc, caps, todo, results, dir, clock, files, asked,
                 bad, ended>>

-----------------------------------------------------------------------------
\* What the process does whatever the SDKs do: every step but those that wait
\* for an SDK to print something, and but for a signal.  Both calls have a
\* timeout, and that is a step of the process.
HarnessStep(r) ==
  \/ CapabilitiesFail(r) \/ DiscoverFixtures(r)
  \/ SkipPair(r) \/ AskSdk(r) \/ PlanRaises(r) \/ SdkTimesOut(r)
  \/ MakeOutDir(r) \/ OpenJson(r) \/ WriteJson(r) \/ OpenMd(r) \/ WriteMd(r)
  \/ LookAtLatest(r) \/ UnlinkLatest(r) \/ LinkLatest(r) \/ PublishRaises(r)
  \/ Conclude(r)

Next ==
  \/ Tick
  \/ \E r \in Runs :
       \/ Start(r) \/ HarnessStep(r)
       \/ LoadCapabilities(r) \/ SdkAnswers(r) \/ AnswerRaises(r) \/ Kill(r)

Spec == Init /\ [][Next]_vars

FairSpec == Spec /\ \A r \in Runs : WF_vars(HarnessStep(r))

-----------------------------------------------------------------------------
(* Properties                                                               *)

PCs == {"idle", "load", "discover", "run", "wait", "open json", "write json",
        "open md", "write md", "look at latest", "unlink", "link", "conclude"}

Outcomes == {"none", "ok", "failed", "refused", "raised", "killed"}

\* What a results file can hold.
Texts == Runs \cup {Nothing, Mixed, "partial", "earlier"}

(* The types of the variables.                                              *)
TypeOK ==
  /\ suite \in Suites
  /\ pc \in [Runs -> PCs]
  /\ outcome \in [Runs -> Outcomes]
  /\ caps \in [Runs -> Seq(Declarations)]
  /\ todo \in [Runs -> SUBSET Pairs]
  /\ results \in [Runs -> [Keys -> Entries]]
  /\ dir \in [Runs -> Stamps \cup {Nothing}]
  /\ clock \in Stamps
  /\ json \in [Stamps -> Texts]
  /\ md \in [Stamps -> Texts]
  /\ latest \in Stamps \cup {Nothing, Directory}
  /\ asked \in [Runs -> SUBSET Pairs]
  /\ bad \in [Runs -> SUBSET Pairs]
  /\ ended \in [Runs -> SUBSET Runs]

(* The public-API path of an SDK is exercised only if the SDK declared its  *)
(* hooks when this run loaded its capabilities: without them the real       *)
(* verifier would be judged on inputs it cannot be given.                   *)
HooksDeclared ==
  \A r \in Runs : \A pair \in asked[r] :
    Mode(pair) = "public_api" =>
      LET hook  == PublicApiStages[Fixture(pair).stage].capability
          flags == caps[r][pair[2]].flags
      IN  hook \in DOMAIN flags /\ "true" \in flags[hook]

(* No misleading pass: when a public-API variant nobody opted into passes,  *)
(* the SDK rejected it with a code of the checks before policy, so the pass *)
(* does not come from an unrelated gate of the production path.             *)
NoMisleadingPass ==
  \A r \in Runs : \A k \in Keys :
    LET fx == suite[k[1].dir] IN
      /\ k[1].mode = "public_api"
      /\ fx.variant = "unset"
      /\ results[r][k].status = "pass"
      => results[r][k].code \in PublicApiStages[fx.stage].codes

(* A pass in the grid is earned by an answer this run received for that     *)
(* very case: the exit the manifest wants and, for a reject with codes      *)
(* listed, one of those codes.                                              *)
PassIsEarned ==
  \A r \in Runs : \A k \in Keys :
    LET fx == suite[k[1].dir]
        e  == results[r][k]
    IN  e.status = "pass" =>
          /\ \E n \in Sdks : SdkName[n] = k[2] /\ <<k[1], n>> \in asked[r]
          /\ e.exit = fx.exit
          /\ fx.exit = Reject /\ fx.codes # {} => e.code \in fx.codes

(* A pass on a fixture whose manifest lists rejection codes carries one of   *)
(* those codes, whatever exit code it expects.                              *)
ListedCodeIsEarned ==
  \A r \in Runs : \A k \in Keys :
    LET fx == suite[k[1].dir] IN
      /\ fx.codes # {}
      /\ results[r][k].status = "pass"
      => results[r][k].code \in fx.codes

(* No failure is lost: a run that exits 0 had no failing or erring verdict  *)
(* at any time, whatever was stored or overwritten since.                   *)
NoFailureLost ==
  \A r \in Runs : outcome[r] = "ok" => bad[r] = {}

\* The names on the command line tell the SDKs apart.
DistinctNames ==
  \A j, k \in Sdks : SdkName[j] = SdkName[k] => j = k

(* What is kept for a case and an SDK is what run_fixture makes of that case *)
(* with that SDK's declaration, a skip exactly when the SDK does not support *)
(* it: no other case, SDK or later pass through the loop writes over it, if  *)
(* names are distinct.  It is what the divergence report may find.           *)
ResultsAreOwn ==
  DistinctNames =>
    \A r \in Runs : \A pair \in Pairs \ todo[r] :
      LET kept == results[r][Key(pair)]
      IN  \E res \in FixtureResults(Fixture(pair), Mode(pair), caps[r][pair[2]],
                                    Answers) :
            res.status = kept.status /\ res.code = kept.code

\* No second run took the same second for its directory.
Unshared(s) == \A p, q \in Runs : dir[p] = s /\ dir[q] = s => p = q

(* `latest` never leads to a report that is missing, half-written or mixed  *)
(* from two runs, whichever runs die and however they interleave, unless    *)
(* two runs published in the same second.                                   *)
LatestComplete ==
  latest \in Stamps /\ Unshared(latest) =>
    \/ latest = 0 /\ json[0] = "earlier" /\ md[0] = "earlier"
    \/ \E r \in Runs : /\ dir[r] = latest
                        /\ json[latest] = r /\ md[latest] = r

(* The reports of a run that reached its verdict stay as it wrote them.     *)
ReportsKept ==
  \A r \in Runs :
    outcome[r] \in {"ok", "failed"} /\ Unshared(dir[r]) =>
      json[dir[r]] = r /\ md[dir[r]] = r

Linked(r) == pc[r] = "conclude"

(* Once a run has set `latest`, the link is missing only while some run is  *)
(* between unlink and symlink_to, or because one died there.                *)
LatestLostOnlyMidSwap ==
  latest = Nothing /\ (\E r \in Runs : Linked(r))
    => \E r \in Runs : pc[r] = "link"

Overlap(p, q) == p \notin ended[q] /\ q \notin ended[p]

(* `latest` names an older directory than a run set only when the run it    *)
(* names overlapped with that one: a rerun after a finished run always moves *)
(* it on.                                                                   *)
LatestNewest ==
  \A q \in Runs :
    Linked(q) /\ latest \in Stamps /\ latest < dir[q]
      => \E p \in Runs : Linked(p) /\ dir[p] = latest /\ Overlap(p, q)

\* results.json is on disk.
Published(r) ==
  pc[r] \in {"open md", "write md", "look at latest", "unlink", "link",
             "conclude"}

\* From MakeOutDir on.
Publishing(r) ==
  pc[r] \in {"open json", "write json", "open md", "write md",
             "look at latest", "unlink", "link", "conclude"}

DirInv ==
  /\ clock \in 1 .. MaxClock
  /\ \A r \in Runs :
       IF Publishing(r) THEN dir[r] \in 1 .. clock ELSE dir[r] = Nothing

ReportInv ==
  /\ json[0] = "earlier" /\ md[0] = "earlier"
  /\ \A r \in Runs : Unshared(dir[r]) =>
       /\ pc[r] = "write json" => json[dir[r]] = "partial"
       /\ Published(r)         => json[dir[r]] = r
       /\ pc[r] = "write md"   => md[dir[r]] = "partial"
       /\ pc[r] \in {"look at latest", "unlink", "link", "conclude"}
                               => md[dir[r]] = r

LinkInv ==
  /\ latest \in Stamps \ {0} => \E r \in Runs : Linked(r) /\ dir[r] = latest
  /\ LatestLostOnlyMidSwap

EndedInv ==
  /\ \A p, q \in Runs : p \in ended[q] =>
       /\ ~Alive(p)
       /\ Publishing(p) /\ Publishing(q) => dir[p] <= dir[q]
  /\ \A q \in Runs : Linked(q) /\ latest \in Stamps =>
       \E p \in Runs : Linked(p) /\ dir[p] = latest /\ p \notin ended[q]

ConcludedInv == \A r \in Runs : outcome[r] \in {"ok", "failed"} => Linked(r)

(* What holds of the output directory in every state: each run's reports    *)
(* are in the state its program counter says, the link was set by a run     *)
(* that reached it, and no run is linked over by one that ended before it   *)
(* began.                                                                   *)
PublishInv ==
  DirInv /\ ReportInv /\ LinkInv /\ EndedInv /\ ConcludedInv

(* A run that started ends, even if an SDK never answers.                   *)
Terminates == \A r \in Runs : pc[r] = "load" ~> ~Alive(r)

\* Only an SDK that was started on the fixture is waited for, and none is
\* started before the capabilities are known.
AskedInv ==
  \A r \in Runs :
    /\ pc[r] \in {"idle", "load"} => asked[r] = {}
    /\ pc[r] = "wait" => \A pair \in todo[r] : Due(r, pair) => pair \in asked[r]

\* A cell is empty only while a pair that will fill it is still to be run, and
\* nothing is published before all of a grid that is not empty has been run.
FilledInv ==
  \A r \in Runs :
    /\ \A k \in Keys : results[r][k].status = "none" =>
         \E pair \in todo[r] : Key(pair) = k
    /\ Publishing(r) => todo[r] = {}
    /\ pc[r] \notin {"idle", "load", "discover"} => Cases # {}

\* What each run has published: its whole grid, or nothing.
PublishedGrid ==
  [r \in Runs |->
     IF Published(r) THEN [k \in Keys |-> results[r][k].status] ELSE << >>]

Promise == INSTANCE SuitePromise WITH keys <- Keys, grid <- PublishedGrid

(* Whatever happens, a run publishes its whole grid or nothing, and its     *)
(* exit code is decided by the grid it published.                           *)
KeepsPromise == Promise!Spec
=============================================================================
