---------------------------- MODULE AdapterLane ----------------------------
(***************************************************************************)
(* The v3 tools a port is accepted with (docs/PORTING_PLAYBOOK.md): a lane  *)
(* is tools/run_adapter.py run over a port's or the reference's adapter; it *)
(* leaves a report, tools/compare_adapters.py compares two of them, and     *)
(* run_adapter.py --live has all adapters verify one live enclave.          *)
(* validate_suite.py admits the fixtures.                                   *)
(*                                                                         *)
(* LaneRules judges one call.  A fixture also has                           *)
(*   dir, stage   its directory and subcommand                              *)
(***************************************************************************)
EXTENDS LaneRules, Naturals

CONSTANTS
  Suites,        \* the suites considered: sequences of fixtures
  Lanes,         \* the adapters, each with a report file of its own
  First, Second, \* the two whose reports are compared, in that order
  Answers,       \* what an adapter may answer to a fixture
  LiveAnswers,   \* what an adapter may answer to live-verify
  NumLive,       \* how many --adapter options --live is given
  LiveFacts,     \* the facts --live compares
  DeclaredStages,\* lane -> what its capabilities list; no tool here reads it
  MaxLaneRuns    \* lane -> bound on how often it is run

ASSUME LanesAssumption  == First \in Lanes /\ Second \in Lanes
ASSUME SuitesAssumption == \A s \in Suites : DOMAIN s \subseteq Nat
ASSUME AnswersAssumption ==
  \A a \in Answers : a.kind \in {"none", "falsy", "list", "object"}
ASSUME NumLiveAssumption == NumLive \in Nat

VARIABLES
  suite,    \* the fixtures under vectors/v3
  pc,       \* lane -> "idle", "running" or "dumping"
  runs,     \* lane -> how often it was started
  todo,     \* lane -> the fixtures it has not come to
  entries,  \* lane -> fixture -> the entry of its report so far, in memory
  file,     \* lane -> what its report file holds
  exit,     \* lane -> how its last run ended
  held,     \* what the comparator has read of the first report
  compared, \* how the comparison ended, and on what
  live      \* the --live run: how it ended, and what its adapters answered

vars == <<suite, pc, runs, todo, entries, file, exit, held, compared, live>>

Missing   == [readable |-> FALSE, truncated |-> FALSE]
Truncated == [readable |-> FALSE, truncated |-> TRUE]
Report(e) == [readable |-> TRUE, results |-> e]

NotCompared == [done |-> FALSE]

-----------------------------------------------------------------------------
(* The comparator                                                           *)

SameFacts(f, g) == DOMAIN f = DOMAIN g /\ \A k \in DOMAIN f : f[k] = g[k]

\* Slip: the exit code is left to the lanes.
IdenticalOutput(x, y) ==
  /\ x.output.accepted = y.output.accepted
  /\ x.output.code = y.output.code
  /\ SameFacts(x.output.facts, y.output.facts)

Identical(x, y) ==
  /\ x.exit = y.exit
  /\ x.output.accepted = y.output.accepted
  /\ x.output.code = y.output.code
  /\ SameFacts(x.output.facts, y.output.facts)

\* Slip: fixtures only one report has are not looked for.
NoDivergence(a, b) ==
  \A k \in DOMAIN a \cap DOMAIN b : Identical(a[k], b[k])

ComparedEqual(a, b) ==
  /\ DOMAIN a = DOMAIN b
  /\ \A k \in DOMAIN a : Identical(a[k], b[k])

CompareRaises(a, b) ==
  \E k \in DOMAIN a \cap DOMAIN b :
    \E o \in {a[k].output, b[k].output} :
      o.kind = "list" \/ (o.kind = "object" /\ o.rejection = "text")

-----------------------------------------------------------------------------
Fixtures == DOMAIN suite
Dirs     == {suite[i].dir : i \in Fixtures}

\* The fixtures of the directories named with --dirs.
FixturesIn(dirs) == {i \in Fixtures : suite[i].dir \in dirs}

Init ==
  /\ suite \in Suites
  /\ pc = [l \in Lanes |-> "idle"]
  /\ runs = [l \in Lanes |-> 0]
  /\ todo = [l \in Lanes |-> {}]
  /\ entries = [l \in Lanes |-> << >>]
  /\ file = [l \in Lanes |-> Missing]
  /\ exit = [l \in Lanes |-> "none"]
  /\ held = Missing
  /\ compared = NotCompared
  /\ live = [exit |-> "none", answers |-> << >>]

StartLane(l) ==
  /\ pc[l] = "idle"
  /\ runs[l] < MaxLaneRuns[l]
  /\ runs' = [runs EXCEPT ![l] = @ + 1]
  /\ \E dirs \in SUBSET Dirs : todo' = [todo EXCEPT ![l] = FixturesIn(dirs)]
  /\ entries' = [entries EXCEPT ![l] = << >>]
  /\ pc' = [pc EXCEPT ![l] = "running"]
  /\ UNCHANGED <<suite, file, exit, held, compared, live>>

\* run_fixture on the next file.
NextIn(l, i) == i \in todo[l] /\ \A j \in todo[l] : i <= j

\* Slip: a fixture whose answer cannot be read is left out of the report.
RunFixtureOrDrop(l) ==
  /\ pc[l] = "running"
  /\ \E i \in todo[l], a \in Answers :
       /\ NextIn(l, i)
       /\ entries' = IF Raises(suite[i], a) THEN entries
                     ELSE [entries EXCEPT ![l] =
                             [j \in DOMAIN entries[l] \cup {i} |->
                                IF j = i THEN Entry(suite[i], a) ELSE entries[l][j]]]
       /\ todo' = [todo EXCEPT ![l] = @ \ {i}]
  /\ UNCHANGED <<suite, pc, runs, file, exit, held, compared, live>>

RunFixture(l) ==
  /\ pc[l] = "running"
  /\ \E i \in todo[l], a \in Answers :
       /\ NextIn(l, i)
       /\ ~Raises(suite[i], a)
       /\ entries' = [entries EXCEPT ![l] =
                        [j \in DOMAIN entries[l] \cup {i} |->
                           IF j = i THEN Entry(suite[i], a) ELSE entries[l][j]]]
       /\ todo' = [todo EXCEPT ![l] = @ \ {i}]
  /\ UNCHANGED <<suite, pc, runs, file, exit, held, compared, live>>

\* The process is gone, and what it had in memory.
EndLane(l, how) ==
  /\ pc' = [pc EXCEPT ![l] = "idle"]
  /\ todo' = [todo EXCEPT ![l] = {}]
  /\ entries' = [entries EXCEPT ![l] = << >>]
  /\ exit' = [exit EXCEPT ![l] = how]

\* Nothing catches it: the run ends and its report is never opened.
LaneRaises(l) ==
  /\ pc[l] = "running"
  /\ \E i \in todo[l], a \in Answers : NextIn(l, i) /\ Raises(suite[i], a)
  /\ EndLane(l, "raised")
  /\ UNCHANGED <<suite, runs, file, held, compared, live>>

\* Slip: the report is opened before the fixtures are run.
DumpAsItGoes(l) ==
  /\ pc[l] = "running"
  /\ file' = [file EXCEPT ![l] = Report(entries[l])]
  /\ pc' = [pc EXCEPT ![l] = IF todo[l] = {} THEN "dumping" ELSE "running"]
  /\ UNCHANGED <<suite, runs, todo, entries, exit, held, compared, live>>

\* open(args.report, "w") truncates what was there.
OpenReport(l) ==
  /\ pc[l] = "running"
  /\ todo[l] = {}
  /\ file' = [file EXCEPT ![l] = Truncated]
  /\ pc' = [pc EXCEPT ![l] = "dumping"]
  /\ UNCHANGED <<suite, runs, todo, entries, exit, held, compared, live>>

\* Slip: the exit code is that of the last fixture alone (= for +=).
VerdictOfLast(e) ==
  IF \E i \in DOMAIN e : (\A j \in DOMAIN e : j <= i) /\ e[i].status = "FAIL"
  THEN "failed" ELSE "ok"

Verdict(e) ==
  IF \E i \in DOMAIN e : e[i].status = "FAIL" THEN "failed" ELSE "ok"

WriteReport(l) ==
  /\ pc[l] = "dumping"
  /\ file' = [file EXCEPT ![l] = Report(entries[l])]
  /\ EndLane(l, Verdict(entries[l]))
  /\ UNCHANGED <<suite, runs, held, compared, live>>

KillLane(l) ==
  /\ pc[l] # "idle"
  /\ EndLane(l, "killed")
  /\ UNCHANGED <<suite, runs, file, held, compared, live>>

\* The comparator loads the two reports one after the other.
LoadFirst ==
  /\ ~compared.done /\ ~held.readable
  /\ file[First].readable
  /\ held' = file[First]
  /\ UNCHANGED <<suite, pc, runs, todo, entries, file, exit, compared, live>>

Compare ==
  /\ ~compared.done /\ held.readable
  /\ file[Second].readable
  /\ LET a == held.results
         b == file[Second].results
     IN  /\ ~CompareRaises(a, b)
         /\ compared' = [done |-> TRUE, equal |-> ComparedEqual(a, b),
                         first |-> a, second |-> b]
  /\ held' = Missing
  /\ UNCHANGED <<suite, pc, runs, todo, entries, file, exit, live>>

\* A report that is missing, truncated or holds what is no object: no verdict,
\* and the comparator may be called again.
ComparatorRaises ==
  /\ ~compared.done /\ held.readable
  /\ \/ ~file[Second].readable
     \/ /\ file[Second].readable
        /\ CompareRaises(held.results, file[Second].results)
  /\ held' = Missing
  /\ UNCHANGED <<suite, pc, runs, todo, entries, file, exit, compared, live>>

-----------------------------------------------------------------------------
(* --live, the last line of the playbook                                    *)

LiveOutcome(a) ==
  IF a.exit = Unsupported THEN "skip"
  ELSE IF a.kind = "object" /\ a.exit = Accepted /\ a.accepted = "true"
       THEN "facts" ELSE "fail"

\* Slip: a fact is compared only where both adapters emit it.
SameIfBothEmit(f, g) ==
  \A k \in LiveFacts \cap DOMAIN f \cap DOMAIN g : f[k] = g[k]

SameLiveFacts(f, g) ==
  \A k \in LiveFacts :
    /\ k \in DOMAIN f <=> k \in DOMAIN g
    /\ k \in DOMAIN f => f[k] = g[k]

\* The first adapter that fails ends the run; else all are compared with the
\* first that produced facts.
LiveExit(answers) ==
  LET emitted == {i \in DOMAIN answers : LiveOutcome(answers[i]) = "facts"}
      base    == CHOOSE i \in emitted : \A j \in emitted : i <= j
  IN  IF \/ \E i \in DOMAIN answers : LiveOutcome(answers[i]) = "fail"
         \/ emitted = {}
         \/ \E i \in emitted :
              ~SameLiveFacts(answers[i].facts, answers[base].facts)
      THEN "failed" ELSE "ok"

\* Run when the comparator has found no divergence.  It shares nothing with
\* the lanes and is one step.
Live ==
  /\ compared.done /\ compared.equal
  /\ live.exit = "none"
  /\ \E answers \in [1 .. NumLive -> LiveAnswers] :
       live' = [exit |-> LiveExit(answers), answers |-> answers]
  /\ UNCHANGED <<suite, pc, runs, todo, entries, file, exit, held, compared>>

-----------------------------------------------------------------------------
Next ==
  \/ \E l \in Lanes :
       \/ StartLane(l) \/ RunFixture(l) \/ LaneRaises(l) \/ OpenReport(l)
       \/ WriteReport(l) \/ KillLane(l)
  \/ LoadFirst \/ Compare \/ ComparatorRaises
  \/ Live

Spec == Init /\ [][Next]_vars

-----------------------------------------------------------------------------
(* Properties                                                               *)

\* What a lane writes when it has run every file of some directories.
IsReport(e) ==
  /\ \E dirs \in SUBSET Dirs : DOMAIN e = FixturesIn(dirs)
  /\ \A i \in DOMAIN e : \E a \in Answers : e[i] = Entry(suite[i], a)

(* A lane in progress holds the entries of the files it has run and has the *)
(* rest of its directories to do; a report file, what the comparator read   *)
(* and what it compared are missing, truncated or whole.                    *)
ReportInv ==
  /\ suite \in Suites
  /\ pc \in [Lanes -> {"idle", "running", "dumping"}]
  /\ \A l \in Lanes : pc[l] # "idle" =>
       /\ \E dirs \in SUBSET Dirs :
            DOMAIN entries[l] \cup todo[l] = FixturesIn(dirs)
       /\ \A i \in DOMAIN entries[l] :
            \E a \in Answers : entries[l][i] = Entry(suite[i], a)
       /\ pc[l] = "dumping" => todo[l] = {}
  /\ \A r \in {file[l] : l \in Lanes} \cup {held} :
       \/ r \in {Missing, Truncated}
       \/ r = Report(r.results) /\ IsReport(r.results)
  /\ compared.done => IsReport(compared.first) /\ IsReport(compared.second)

(* A lane's exit code speaks of the report it left: it exits 0 or 1 only    *)
(* with a whole report on disk, and with 1 exactly if that shows a failure. *)
ExitMatchesReport ==
  \A l \in Lanes :
    pc[l] = "idle" /\ exit[l] \in {"ok", "failed"} =>
      /\ file[l].readable
      /\ exit[l] = "failed" <=>
           \E i \in DOMAIN file[l].results : file[l].results[i].status = "FAIL"

(* "0 divergent" is said only of two whole reports over the same fixtures:  *)
(* no lane that raised, was killed or is still writing lends half a report. *)
ComparedWhole ==
  compared.done /\ compared.equal =>
    \E dirs \in SUBSET Dirs :
      /\ DOMAIN compared.first = FixturesIn(dirs)
      /\ DOMAIN compared.second = FixturesIn(dirs)

(* Where the comparator finds two outputs identical, the lanes gave the     *)
(* fixture the same status: a port that agrees with a reference that passes *)
(* passes too.  It takes fixtures validate_suite.py admits.                 *)
IdenticalMeansSameStatus ==
  compared.done /\ compared.equal =>
    \A i \in DOMAIN compared.first :
      Valid(suite[i]) =>
        compared.first[i].status = compared.second[i].status

(* Two adapters that pass a valid fixture agree on all that it declares,    *)
(* without being compared: the verdict, the code and every fact.            *)
PassesAgree ==
  \A l, m \in Lanes :
    file[l].readable /\ file[m].readable =>
      \A i \in DOMAIN file[l].results \cap DOMAIN file[m].results :
        LET x == file[l].results[i]
            y == file[m].results[i]
        IN  Valid(suite[i]) /\ x.status = "PASS" /\ y.status = "PASS" =>
              /\ x.exit = Accepted <=> y.exit = Accepted
              /\ suite[i].code # NoCode => x.output.code = y.output.code
              /\ \A k \in DOMAIN suite[i].facts :
                   /\ k \in DOMAIN x.output.facts \cap DOMAIN y.output.facts
                   /\ x.output.facts[k] = y.output.facts[k]

(* --live exits 0 exactly when at least one adapter verified the enclave,   *)
(* every one that supports it did, and any two of those emitted the same    *)
(* facts: the order of --adapter makes no difference.                       *)
LiveAgreed ==
  live.exit # "none" =>
    LET s       == live.answers
        emitted == {i \in DOMAIN s : LiveOutcome(s[i]) = "facts"}
    IN  live.exit = "ok" <=>
          /\ emitted # {}
          /\ \A i \in DOMAIN s : LiveOutcome(s[i]) # "fail"
          /\ \A i, j \in emitted : \A k \in LiveFacts :
               /\ k \in DOMAIN s[i].facts <=> k \in DOMAIN s[j].facts
               /\ k \in DOMAIN s[i].facts => s[i].facts[k] = s[j].facts[k]

(* A lane that exits 0 has passed every fixture whose stage the adapter's   *)
(* capabilities list.                                                       *)
CoveredFixturesPass ==
  \A l \in Lanes :
    pc[l] = "idle" /\ exit[l] = "ok" =>
      \A i \in DOMAIN file[l].results :
        suite[i].stage \in DeclaredStages[l] =>
          file[l].results[i].status = "PASS"

\* What a reader of a report goes by: the verdicts of a whole one.
VerdictsOf(r) ==
  IF r.readable
  THEN [whole |-> TRUE, verdicts |-> [i \in DOMAIN r.results |-> r.results[i].status]]
  ELSE [whole |-> FALSE]

Acceptance ==
  INSTANCE PortAcceptance WITH
    groups   <- {FixturesIn(dirs) : dirs \in SUBSET Dirs},
    admitted <- {i \in Fixtures : Valid(suite[i])},
    busy     <- {l \in Lanes : pc[l] # "idle"},
    report   <- [l \in Lanes |-> VerdictsOf(file[l])],
    ended    <- exit,
    taken    <- VerdictsOf(held),
    finding  <- IF ~compared.done THEN "none"
                ELSE IF compared.equal THEN "identical" ELSE "divergent"

(* A lane publishes the verdicts of all it was given or nothing, and the    *)
(* comparator, which looks at outputs alone, finds two reports identical    *)
(* only if they give every admitted fixture the same verdict.               *)
PortIsJudgedByVerdicts == Acceptance!Spec
=============================================================================
