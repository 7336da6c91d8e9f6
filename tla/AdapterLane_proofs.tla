------------------------- MODULE AdapterLane_proofs -------------------------
(***************************************************************************)
(* Proofs about AdapterLane, for any suites, lanes and answers and however  *)
(* often each lane is run, killed or raises.                                *)
(***************************************************************************)
EXTENDS AdapterLane, LeastElement

\* What EXCEPT needs to know of the state.
Typed ==
  /\ pc \in [Lanes -> {"idle", "running", "dumping"}]
  /\ DOMAIN todo = Lanes /\ DOMAIN entries = Lanes
  /\ DOMAIN file = Lanes /\ DOMAIN exit = Lanes

\* A whole report, or none.
ReportOK(r) ==
  \/ r \in {Missing, Truncated}
  \/ r = Report(r.results) /\ IsReport(r.results)

\* The conjuncts of ReportInv, lane by lane.
LaneOK(l) ==
  pc[l] # "idle" =>
    /\ \E dirs \in SUBSET Dirs :
         DOMAIN entries[l] \cup todo[l] = FixturesIn(dirs)
    /\ \A i \in DOMAIN entries[l] :
         \E a \in Answers : entries[l][i] = Entry(suite[i], a)
    /\ pc[l] = "dumping" => todo[l] = {} /\ file[l] = Truncated

ExitOK(l) ==
  pc[l] = "idle" /\ exit[l] \in {"ok", "failed"} =>
    /\ file[l].readable
    /\ exit[l] = "failed" <=>
         \E i \in DOMAIN file[l].results : file[l].results[i].status = "FAIL"

\* The comparator's verdict is about two whole reports it read.
ComparedInv ==
  compared.done =>
    /\ IsReport(compared.first) /\ IsReport(compared.second)
    /\ compared.equal <=> ComparedEqual(compared.first, compared.second)
    /\ ~CompareRaises(compared.first, compared.second)

Inv ==
  /\ suite \in Suites
  /\ Typed
  /\ \A l \in Lanes : LaneOK(l) /\ ExitOK(l) /\ ReportOK(file[l])
  /\ ReportOK(held)
  /\ ComparedInv

-----------------------------------------------------------------------------
(* Facts about the definitions                                              *)

(* Before any lane is started no report exists.                             *)
LEMMA InitInv == Init => Inv
<1> SUFFICES ASSUME Init PROVE Inv
  OBVIOUS
<1>1. Typed /\ suite \in Suites
  BY DEF Init, Typed
<1>2. ~compared.done
  BY DEF Init, NotCompared
<1>3. \A l \in Lanes : LaneOK(l) /\ ExitOK(l) /\ ReportOK(file[l])
  BY DEF Init, LaneOK, ExitOK, ReportOK
<1>4. QED
  BY <1>1, <1>2, <1>3 DEF Init, Inv, ComparedInv, ReportOK

(* What a report is depends on the suite alone.                             *)
LEMMA SameSuite ==
  ASSUME suite' = suite
  PROVE  /\ Dirs' = Dirs
         /\ \A dirs : FixturesIn(dirs)' = FixturesIn(dirs)
         /\ \A e : IsReport(e)' <=> IsReport(e)
         /\ \A r : ReportOK(r)' <=> ReportOK(r)
<1>1. Dirs' = Dirs /\ \A dirs : FixturesIn(dirs)' = FixturesIn(dirs)
  BY DEF Dirs, FixturesIn, Fixtures
<1>2. \A e : IsReport(e)' <=> IsReport(e)
  BY <1>1 DEF IsReport
<1>3. QED
  BY <1>1, <1>2 DEF ReportOK

(* The lanes a step does not touch, and the comparator's verdict, stay as   *)
(* they were.                                                               *)
LEMMA OthersKept ==
  ASSUME Inv, suite' = suite,
         NEW m \in Lanes, pc'[m] = pc[m], todo'[m] = todo[m],
         entries'[m] = entries[m], file'[m] = file[m], exit'[m] = exit[m]
  PROVE  (LaneOK(m) /\ ExitOK(m) /\ ReportOK(file[m]))'
<1>1. LaneOK(m)'
  BY SameSuite DEF Inv, LaneOK
<1>2. ExitOK(m)'
  BY DEF Inv, ExitOK
<1>3. ReportOK(file[m])'
  BY SameSuite DEF Inv
<1>4. QED
  BY <1>1, <1>2, <1>3

(* A verdict of the comparator stays.                                       *)
LEMMA VerdictKept ==
  ASSUME Inv, suite' = suite, compared' = compared
  PROVE  ComparedInv'
BY SameSuite DEF Inv, ComparedInv

-----------------------------------------------------------------------------
(* The lanes                                                                *)

(* What the step of one lane l has to keep.                                 *)
LEMMA LaneStep ==
  ASSUME Inv, NEW l \in Lanes, UNCHANGED <<suite, held, compared>>, Typed',
         \A m \in Lanes \ {l} :
           /\ pc'[m] = pc[m] /\ todo'[m] = todo[m] /\ entries'[m] = entries[m]
           /\ file'[m] = file[m] /\ exit'[m] = exit[m],
         LaneOK(l)', ExitOK(l)', ReportOK(file[l])'
  PROVE  Inv'
<1>1. \A m \in Lanes : (LaneOK(m) /\ ExitOK(m) /\ ReportOK(file[m]))'
  BY OthersKept
<1>2. ReportOK(held)' /\ ComparedInv'
  BY SameSuite, VerdictKept DEF Inv
<1>3. QED
  BY <1>1, <1>2 DEF Inv

(* A lane that starts has all files of its directories to do.               *)
LEMMA StartLaneInv ==
  ASSUME Inv, NEW l \in Lanes, StartLane(l) PROVE Inv'
<1>1. PICK dirs \in SUBSET Dirs : todo' = [todo EXCEPT ![l] = FixturesIn(dirs)]
  BY DEF StartLane
<1>2. /\ pc'[l] = "running" /\ entries'[l] = << >>
      /\ todo'[l] = FixturesIn(dirs) /\ file' = file /\ exit' = exit
      /\ suite' = suite
  BY <1>1 DEF StartLane, Inv, Typed
<1>3. Typed'
  BY <1>1 DEF StartLane, Inv, Typed
<1>4. LaneOK(l)'
  <2>1. DOMAIN entries'[l] = {}
    BY <1>2
  <2>2. DOMAIN entries'[l] \cup todo'[l] = FixturesIn(dirs)'
    BY <1>2, <2>1, SameSuite
  <2>3. dirs \in SUBSET Dirs'
    BY <1>2, SameSuite
  <2>4. QED
    BY <1>2, <2>1, <2>2, <2>3 DEF LaneOK
<1>5. ExitOK(l)' /\ ReportOK(file[l])'
  BY <1>2, SameSuite DEF Inv, ExitOK
<1>6. QED
  BY <1>1, <1>3, <1>4, <1>5, LaneStep DEF StartLane, Inv, Typed

(* An entry made joins those in memory, and its file leaves those to do.    *)
LEMMA RunFixtureInv ==
  ASSUME Inv, NEW l \in Lanes, RunFixture(l) PROVE Inv'
<1>1. PICK i \in todo[l], a \in Answers :
        /\ entries' = [entries EXCEPT ![l] =
                         [j \in DOMAIN entries[l] \cup {i} |->
                            IF j = i THEN Entry(suite[i], a) ELSE entries[l][j]]]
        /\ todo' = [todo EXCEPT ![l] = @ \ {i}]
  BY DEF RunFixture
<1>2. /\ pc[l] = "running" /\ pc' = pc /\ file' = file /\ exit' = exit
      /\ suite' = suite
  BY DEF RunFixture
<1>3. /\ todo'[l] = todo[l] \ {i}
      /\ DOMAIN entries'[l] = DOMAIN entries[l] \cup {i}
      /\ \A j \in DOMAIN entries'[l] :
           entries'[l][j] = IF j = i THEN Entry(suite[i], a) ELSE entries[l][j]
  BY <1>1 DEF Inv, Typed
<1>4. Typed'
  BY <1>1, <1>2 DEF Inv, Typed
<1>5. LaneOK(l)'
  <2>1. LaneOK(l)
    BY DEF Inv
  <2>2. PICK dirs \in SUBSET Dirs :
          DOMAIN entries[l] \cup todo[l] = FixturesIn(dirs)
    BY <1>2, <2>1 DEF LaneOK
  <2>3. DOMAIN entries'[l] \cup todo'[l] = FixturesIn(dirs)'
    BY <1>2, <1>3, <2>2, SameSuite
  <2>4. \A j \in DOMAIN entries'[l] :
          \E b \in Answers : entries'[l][j] = Entry(suite'[j], b)
    BY <1>2, <1>3, <2>1 DEF LaneOK
  <2>5. dirs \in SUBSET Dirs'
    BY <1>2, SameSuite
  <2>6. QED
    BY <1>2, <2>3, <2>4, <2>5 DEF LaneOK
<1>6. ExitOK(l)' /\ ReportOK(file[l])'
  BY <1>2, SameSuite DEF Inv, ExitOK
<1>7. QED
  BY <1>1, <1>2, <1>4, <1>5, <1>6, LaneStep DEF RunFixture, Inv, Typed

(* A run that ends without a report leaves the one that was there.          *)
LEMMA EndLaneInv ==
  ASSUME Inv, NEW l \in Lanes, NEW how \in {"raised", "killed"}, EndLane(l, how),
         UNCHANGED <<suite, file, held, compared>>
  PROVE  Inv'
<1>1. Typed' /\ pc'[l] = "idle" /\ exit'[l] = how
  BY DEF EndLane, Inv, Typed
<1>2. LaneOK(l)' /\ ExitOK(l)' /\ ReportOK(file[l])'
  BY <1>1, SameSuite DEF LaneOK, ExitOK, Inv
<1>3. QED
  BY <1>1, <1>2, LaneStep DEF EndLane, Inv, Typed

(* A report that is opened is truncated until it is written.                *)
LEMMA OpenReportInv ==
  ASSUME Inv, NEW l \in Lanes, OpenReport(l) PROVE Inv'
<1>1. /\ Typed' /\ pc[l] = "running" /\ todo[l] = {} /\ suite' = suite
      /\ pc'[l] = "dumping" /\ file'[l] = Truncated
      /\ entries' = entries /\ todo' = todo
  BY DEF OpenReport, Inv, Typed
<1>2. LaneOK(l)'
  BY <1>1, SameSuite DEF Inv, LaneOK
<1>3. ExitOK(l)' /\ ReportOK(file[l])'
  BY <1>1 DEF ExitOK, ReportOK
<1>4. QED
  BY <1>1, <1>2, <1>3, LaneStep DEF OpenReport, Inv, Typed

(* What is written is whole, and the exit code is computed from it.         *)
LEMMA WriteReportInv ==
  ASSUME Inv, NEW l \in Lanes, WriteReport(l) PROVE Inv'
<1>1. /\ Typed' /\ pc[l] = "dumping" /\ suite' = suite
      /\ pc'[l] = "idle" /\ file'[l] = Report(entries[l])
      /\ exit'[l] = Verdict(entries[l])
  BY DEF WriteReport, EndLane, Inv, Typed
<1>2. LaneOK(l)
  BY DEF Inv
<1>3. IsReport(entries[l])
  BY <1>1, <1>2 DEF LaneOK, IsReport
<1>4. file'[l].readable /\ file'[l].results = entries[l]
  BY <1>1 DEF Report
<1>5. ReportOK(file[l])'
  BY <1>1, <1>3, <1>4, SameSuite DEF ReportOK
<1>6. LaneOK(l)'
  BY <1>1 DEF LaneOK
<1>7. ExitOK(l)'
  BY <1>1, <1>4 DEF ExitOK, Verdict
<1>8. QED
  BY <1>1, <1>5, <1>6, <1>7, LaneStep DEF WriteReport, EndLane, Inv, Typed

-----------------------------------------------------------------------------
(* The comparator                                                           *)

(* Steps that leave the lanes and their files alone.                        *)
LEMMA LanesKept ==
  ASSUME Inv, UNCHANGED <<suite, pc, todo, entries, file, exit>>,
         ReportOK(held'), ComparedInv'
  PROVE  Inv'
<1>1. Typed'
  BY DEF Inv, Typed
<1>2. \A m \in Lanes : (LaneOK(m) /\ ExitOK(m) /\ ReportOK(file[m]))'
  BY OthersKept
<1>3. ReportOK(held)'
  BY SameSuite
<1>4. QED
  BY <1>1, <1>2, <1>3 DEF Inv

(* What the comparator reads is a lane's whole report.                      *)
LEMMA LoadFirstInv == ASSUME Inv, LoadFirst PROVE Inv'
<1>1. ReportOK(held')
  BY LanesAssumption DEF LoadFirst, Inv
<1>2. ComparedInv'
  BY VerdictKept DEF LoadFirst
<1>3. QED
  BY <1>1, <1>2, LanesKept DEF LoadFirst

(* Nothing that can be read is half a report.                               *)
LEMMA ReadableIsWhole ==
  ASSUME NEW r, ReportOK(r), r.readable
  PROVE  IsReport(r.results)
BY DEF ReportOK, Missing, Truncated

(* A comparison is of two whole reports.                                    *)
LEMMA CompareInv == ASSUME Inv, Compare PROVE Inv'
<1> DEFINE a == held.results
           b == file[Second].results
<1>1. /\ held.readable /\ file[Second].readable /\ ~CompareRaises(a, b)
      /\ compared' = [done |-> TRUE, equal |-> ComparedEqual(a, b),
                      first |-> a, second |-> b]
      /\ held' = Missing /\ suite' = suite
  BY DEF Compare
<1>2. IsReport(a) /\ IsReport(b)
  BY <1>1, LanesAssumption, ReadableIsWhole DEF Inv
<1>3. /\ compared'.first = a /\ compared'.second = b
      /\ compared'.equal = ComparedEqual(a, b)
  BY <1>1
<1>4. ComparedInv'
  BY <1>1, <1>2, <1>3, SameSuite DEF ComparedInv
<1>5. ReportOK(held')
  BY <1>1 DEF ReportOK
<1>6. QED
  BY <1>4, <1>5, LanesKept DEF Compare

(* Every step keeps the invariant.                                          *)
LEMMA NextInv == Inv /\ [Next]_vars => Inv'
<1> SUFFICES ASSUME Inv, [Next]_vars PROVE Inv'
  OBVIOUS
<1>1. ASSUME NEW l \in Lanes, StartLane(l) PROVE Inv'
  BY <1>1, StartLaneInv
<1>2. ASSUME NEW l \in Lanes, RunFixture(l) PROVE Inv'
  BY <1>2, RunFixtureInv
<1>3. ASSUME NEW l \in Lanes, LaneRaises(l) \/ KillLane(l) PROVE Inv'
  BY <1>3, EndLaneInv DEF LaneRaises, KillLane
<1>4. ASSUME NEW l \in Lanes, OpenReport(l) PROVE Inv'
  BY <1>4, OpenReportInv
<1>5. ASSUME NEW l \in Lanes, WriteReport(l) PROVE Inv'
  BY <1>5, WriteReportInv
<1>6. CASE LoadFirst
  BY <1>6, LoadFirstInv
<1>7. CASE Compare
  BY <1>7, CompareInv
<1>8. CASE ComparatorRaises
  <2>1. ReportOK(held')
    BY <1>8 DEF ComparatorRaises, ReportOK
  <2>2. QED
    BY <1>8, <2>1, LanesKept, VerdictKept DEF ComparatorRaises
<1>9. CASE Live \/ UNCHANGED vars
  <2>1. UNCHANGED <<suite, pc, todo, entries, file, exit, held, compared>>
    BY <1>9 DEF Live, vars
  <2>2. QED
    BY <2>1, LanesKept, VerdictKept DEF Inv
<1>10. QED
  BY <1>1, <1>2, <1>3, <1>4, <1>5, <1>6, <1>7, <1>8, <1>9 DEF Next

(* In every behaviour reports are whole and exit codes speak of them.       *)
THEOREM LaneCorrect == Spec => []Inv
<1>1. QED
  BY InitInv, NextInv, PTL DEF Spec

-----------------------------------------------------------------------------
(* The properties the run checks                                            *)

(* Memory, report files and what the comparator read are missing, truncated *)
(* or whole, and no half-run lane has a report of its half.                 *)
THEOREM ReportsAreWhole == Spec => []ReportInv
<1>1. Inv => ReportInv
  BY DEF Inv, Typed, LaneOK, ReportOK, ComparedInv, ReportInv
<1>2. QED
  BY <1>1, LaneCorrect, PTL

(* Exit 0 or 1 of a lane speaks of the whole report it left on disk.        *)
THEOREM ExitIsOfTheReport == Spec => []ExitMatchesReport
<1>1. Inv => ExitMatchesReport
  BY DEF Inv, ExitOK, ExitMatchesReport
<1>2. QED
  BY <1>1, LaneCorrect, PTL

(* "0 divergent" is said of two whole reports over the same fixtures.       *)
THEOREM ComparisonIsWhole == Spec => []ComparedWhole
<1>1. Inv => ComparedWhole
  BY DEF Inv, ComparedInv, IsReport, ComparedEqual, ComparedWhole
<1>2. QED
  BY <1>1, LaneCorrect, PTL

(* Of two entries the comparator calls identical, a pass of one is a pass   *)
(* of the other: what is left out of the comparison, the shape of the JSON, *)
(* makes no difference to a fixture that is valid.                          *)
LEMMA IdenticalPasses ==
  ASSUME NEW fx, Valid(fx), NEW a \in Answers, NEW b \in Answers,
         Identical(Entry(fx, a), Entry(fx, b)),
         OutputOf(b).kind # "list", AsExpected(fx, a), a.exit # Unsupported
  PROVE  AsExpected(fx, b)
<1>1. OutputOf(a) = [kind |-> a.kind, accepted |-> a.accepted,
                     rejection |-> a.rejection, code |-> a.code,
                     facts |-> a.facts]
  BY DEF OutputOf, AsExpected
<1>2. /\ a.exit = b.exit
      /\ a.accepted = OutputOf(b).accepted /\ a.code = OutputOf(b).code
      /\ SameFacts(a.facts, OutputOf(b).facts)
  BY <1>1 DEF Identical, Entry
<1>3. b.kind \in {"none", "falsy", "list", "object"}
  BY AnswersAssumption
<1>4. CASE b.kind \in {"none", "falsy"}
  <2>1. a.accepted = "absent" /\ a.code = NoCode
    BY <1>2, <1>4 DEF OutputOf, NoOutput
  <2>2. QED
    BY <2>1, TaxonomyAssumption DEF AsExpected, Valid
<1>5. CASE b.kind \notin {"none", "falsy"}
  <2>1. OutputOf(b) = [kind |-> b.kind, accepted |-> b.accepted,
                       rejection |-> b.rejection, code |-> b.code,
                       facts |-> b.facts]
    BY <1>2, <1>5 DEF OutputOf
  <2>2. b.kind = "object"
    BY <1>3, <1>5, <2>1
  <2>3. /\ a.accepted = b.accepted /\ a.code = b.code
        /\ SameFacts(a.facts, b.facts)
    BY <1>2, <2>1
  <2>4. FactsAsDeclared(fx, a) => FactsAsDeclared(fx, b)
    BY <2>3 DEF FactsAsDeclared, SameFacts
  <2>5. QED
    BY <1>2, <2>2, <2>3, <2>4 DEF AsExpected
<1>6. QED
  BY <1>4, <1>5

(* Two entries the comparator calls identical have one status.              *)
LEMMA IdenticalStatus ==
  ASSUME NEW fx, Valid(fx), NEW a \in Answers, NEW b \in Answers,
         Identical(Entry(fx, a), Entry(fx, b)),
         OutputOf(a).kind # "list", OutputOf(b).kind # "list"
  PROVE  Status(fx, a) = Status(fx, b)
<1>1. a.exit = b.exit
  BY DEF Identical, Entry
<1>2. Identical(Entry(fx, b), Entry(fx, a))
  BY DEF Identical, SameFacts
<1>3. CASE a.exit = Unsupported
  BY <1>1, <1>3 DEF Status
<1>4. CASE a.exit # Unsupported
  BY <1>1, <1>2, <1>4, IdenticalPasses DEF Status
<1>5. QED
  BY <1>3, <1>4

(* So have two whole reports that the comparator calls identical, wherever  *)
(* the fixture is valid.                                                    *)
LEMMA SameVerdicts ==
  ASSUME NEW r, NEW s, IsReport(r), IsReport(s), ComparedEqual(r, s),
         ~CompareRaises(r, s), NEW i \in DOMAIN r, Valid(suite[i])
  PROVE  i \in DOMAIN s /\ r[i].status = s[i].status
<1>1. i \in DOMAIN s /\ Identical(r[i], s[i])
  BY DEF ComparedEqual
<1>2. PICK a \in Answers : r[i] = Entry(suite[i], a)
  BY DEF IsReport
<1>3. PICK b \in Answers : s[i] = Entry(suite[i], b)
  BY <1>1 DEF IsReport
<1>4. r[i].output.kind # "list" /\ s[i].output.kind # "list"
  BY <1>1 DEF CompareRaises
<1>5. OutputOf(a).kind # "list" /\ OutputOf(b).kind # "list"
  BY <1>2, <1>3, <1>4 DEF Entry
<1>6. Status(suite[i], a) = Status(suite[i], b)
  BY <1>1, <1>2, <1>3, <1>5, IdenticalStatus
<1>7. QED
  BY <1>1, <1>2, <1>3, <1>6 DEF Entry

(* A port that agrees with a reference that passes, passes.                 *)
THEOREM AgreementIsStatus == Spec => []IdenticalMeansSameStatus
<1>1. Inv => IdenticalMeansSameStatus
  BY SameVerdicts DEF Inv, ComparedInv, IdenticalMeansSameStatus
<1>2. QED
  BY <1>1, LaneCorrect, PTL

(* An entry that passes shows what its fixture declares.                    *)
LEMMA PassShows ==
  ASSUME NEW fx, Valid(fx), NEW a \in Answers, Entry(fx, a).status = "PASS"
  PROVE  LET x == Entry(fx, a)
         IN  /\ x.exit = Accepted <=> fx.accepted
             /\ fx.code # NoCode => x.output.code = fx.code
             /\ \A k \in DOMAIN fx.facts :
                  k \in DOMAIN x.output.facts /\ x.output.facts[k] = fx.facts[k]
<1>1. Status(fx, a) = "PASS"
  BY DEF Entry
<1>2. a.exit # Unsupported /\ AsExpected(fx, a)
  BY <1>1 DEF Status
<1>3. OutputOf(a) = [kind |-> a.kind, accepted |-> a.accepted,
                     rejection |-> a.rejection, code |-> a.code,
                     facts |-> a.facts]
  BY <1>2 DEF OutputOf, AsExpected
<1>4. Accepted \notin {Rejected, Malformed}
  BY DEF Accepted, Rejected, Malformed
<1>5. QED
  BY <1>2, <1>3, <1>4 DEF Entry, AsExpected, FactsAsDeclared, Valid

(* Two adapters that pass a fixture agree on all that it declares.          *)
THEOREM PassesMeanAgreement == Spec => []PassesAgree
<1>1. Inv => PassesAgree
  <2> SUFFICES ASSUME Inv, NEW l \in Lanes, NEW m \in Lanes,
                      file[l].readable, file[m].readable,
                      NEW i \in DOMAIN file[l].results \cap DOMAIN file[m].results,
                      Valid(suite[i]),
                      file[l].results[i].status = "PASS",
                      file[m].results[i].status = "PASS"
               PROVE  LET x == file[l].results[i]
                          y == file[m].results[i]
                      IN  /\ x.exit = Accepted <=> y.exit = Accepted
                          /\ suite[i].code # NoCode =>
                               x.output.code = y.output.code
                          /\ \A k \in DOMAIN suite[i].facts :
                               /\ k \in DOMAIN x.output.facts
                                          \cap DOMAIN y.output.facts
                               /\ x.output.facts[k] = y.output.facts[k]
    BY DEF PassesAgree
  <2>1. IsReport(file[l].results) /\ IsReport(file[m].results)
    BY ReadableIsWhole DEF Inv
  <2>2. PICK a \in Answers : file[l].results[i] = Entry(suite[i], a)
    BY <2>1 DEF IsReport
  <2>3. PICK b \in Answers : file[m].results[i] = Entry(suite[i], b)
    BY <2>1 DEF IsReport
  <2>4. QED
    BY <2>2, <2>3, PassShows
<1>2. QED
  BY <1>1, LaneCorrect, PTL

-----------------------------------------------------------------------------
(* --live                                                                   *)

LiveInv ==
  live.exit # "none" =>
    /\ live.answers \in [1 .. NumLive -> LiveAnswers]
    /\ live.exit = LiveExit(live.answers)

(* The first adapter that emits facts stands for all: agreeing with it is   *)
(* agreeing with one another, and it exists where any emits facts at all.   *)
LEMMA BaseStandsForAll ==
  ASSUME NEW s, DOMAIN s \subseteq Nat
  PROVE  LET emitted == {i \in DOMAIN s : LiveOutcome(s[i]) = "facts"}
         IN  LiveExit(s) = "ok" <=>
               /\ emitted # {}
               /\ \A i \in DOMAIN s : LiveOutcome(s[i]) # "fail"
               /\ \A i, j \in emitted : SameLiveFacts(s[i].facts, s[j].facts)
<1> DEFINE emitted == {i \in DOMAIN s : LiveOutcome(s[i]) = "facts"}
           base    == CHOOSE i \in emitted : \A j \in emitted : i <= j
           agree   == \A i \in emitted : SameLiveFacts(s[i].facts, s[base].facts)
<1>1. LiveExit(s) = "ok" <=>
        /\ emitted # {}
        /\ \A i \in DOMAIN s : LiveOutcome(s[i]) # "fail"
        /\ agree
  BY DEF LiveExit
<1>2. ASSUME emitted # {} PROVE base \in emitted
  <2>1. \E i \in emitted : \A j \in emitted : i <= j
    <3>1. emitted \subseteq Nat
      OBVIOUS
    <3> HIDE DEF emitted
    <3>2. QED
      BY <1>2, <3>1, LeastNat
  <2>2. QED
    BY <2>1
<1> HIDE DEF emitted, base
<1>3. ASSUME emitted # {}, agree, NEW i \in emitted, NEW j \in emitted
      PROVE  SameLiveFacts(s[i].facts, s[j].facts)
  BY <1>3 DEF SameLiveFacts
<1>4. ASSUME emitted # {},
             \A i, j \in emitted : SameLiveFacts(s[i].facts, s[j].facts)
      PROVE  agree
  BY <1>2, <1>4
<1>5. QED
  BY <1>1, <1>3, <1>4 DEF emitted

(* What --live answers it computed from what the adapters answered.         *)
LEMMA LiveCorrect == Spec => []LiveInv
<1>1. Init => LiveInv
  BY DEF Init, LiveInv
<1>2. LiveInv /\ [Next]_vars => LiveInv'
  <2> SUFFICES ASSUME LiveInv, [Next]_vars PROVE LiveInv'
    OBVIOUS
  <2>1. CASE Live
    <3>1. PICK answers \in [1 .. NumLive -> LiveAnswers] :
            live' = [exit |-> LiveExit(answers), answers |-> answers]
      BY <2>1 DEF Live
    <3>2. live'.exit = LiveExit(answers) /\ live'.answers = answers
      BY <3>1
    <3>3. QED
      BY <3>2 DEF LiveInv
  <2>2. CASE live' = live
    BY <2>2 DEF LiveInv
  <2>3. Live \/ live' = live
    BY DEF Next, vars, StartLane, RunFixture, LaneRaises, OpenReport,
           WriteReport, KillLane, LoadFirst, Compare, ComparatorRaises
  <2>4. QED
    BY <2>1, <2>2, <2>3
<1>3. QED
  BY <1>1, <1>2, PTL DEF Spec

(* --live exits 0 exactly if some adapter verified the enclave, none failed *)
(* and any two that verified it emitted the same facts, in whatever order   *)
(* the adapters were named.                                                 *)
THEOREM LiveMeansAgreement == Spec => []LiveAgreed
<1>1. LiveInv => LiveAgreed
  <2> SUFFICES ASSUME LiveInv, live.exit # "none"
               PROVE  LET s       == live.answers
                          emitted == {i \in DOMAIN s : LiveOutcome(s[i]) = "facts"}
                      IN  live.exit = "ok" <=>
                            /\ emitted # {}
                            /\ \A i \in DOMAIN s : LiveOutcome(s[i]) # "fail"
                            /\ \A i, j \in emitted :
                                 SameLiveFacts(s[i].facts, s[j].facts)
    BY DEF LiveAgreed, SameLiveFacts
  <2>1. DOMAIN live.answers = 1 .. NumLive /\ live.exit = LiveExit(live.answers)
    BY DEF LiveInv
  <2>2. DOMAIN live.answers \subseteq Nat
    BY <2>1, NumLiveAssumption
  <2>3. QED
    BY <2>1, <2>2, BaseStandsForAll
<1>2. QED
  BY <1>1, LiveCorrect, PTL

-----------------------------------------------------------------------------
(* The lanes and the comparator implement PortAcceptance                    *)

Groups   == {FixturesIn(dirs) : dirs \in SUBSET Dirs}
Admitted == {i \in Fixtures : Valid(suite[i])}
Busy     == {l \in Lanes : pc[l] # "idle"}
Reports  == [l \in Lanes |-> VerdictsOf(file[l])]
Finding  == IF ~compared.done THEN "none"
            ELSE IF compared.equal THEN "identical" ELSE "divergent"

(* What the reports on disk stand for.                                      *)
LEMMA NoVerdicts ==
  /\ VerdictsOf(Missing) = [whole |-> FALSE]
  /\ VerdictsOf(Truncated) = [whole |-> FALSE]
  /\ \A e : VerdictsOf(Report(e)) =
            [whole |-> TRUE, verdicts |-> [i \in DOMAIN e |-> e[i].status]]
BY DEF VerdictsOf, Missing, Truncated, Report

(* At the start nothing is known on either side.                            *)
LEMMA InitAcceptance == Init => Acceptance!Init
BY NoVerdicts DEF Init, Acceptance!Init, Acceptance!NoReport, NotCompared

(* The fixtures are the same all along.                                     *)
LEMMA FixturesStay ==
  ASSUME suite' = suite PROVE Groups' = Groups /\ Admitted' = Admitted
BY DEF Groups, Admitted, FixturesIn, Dirs, Fixtures

(* A lane that starts is busy, and that is all there is to see.             *)
LEMMA BeginStep ==
  ASSUME Inv, NEW l \in Lanes, StartLane(l) PROVE Acceptance!Begin(l)
<1>1. /\ pc[l] = "idle" /\ pc' = [pc EXCEPT ![l] = "running"]
      /\ UNCHANGED <<suite, file, exit, held, compared>>
  BY DEF StartLane
<1>2. l \notin Busy /\ Busy' = Busy \cup {l}
  BY <1>1 DEF Busy, Inv, Typed
<1>3. UNCHANGED <<Groups, Admitted, Reports, exit, VerdictsOf(held), Finding>>
  BY <1>1, FixturesStay DEF Reports, Finding, VerdictsOf
<1>4. QED
  BY <1>2, <1>3 DEF Acceptance!Begin, Groups, Admitted, Busy, Reports, Finding

(* A fixture that ran is nothing to see.                                    *)
LEMMA RunStep ==
  ASSUME Inv, NEW l \in Lanes, RunFixture(l) PROVE UNCHANGED Acceptance!vars
<1>1. UNCHANGED <<suite, pc, file, exit, held, compared>>
  BY DEF RunFixture
<1>2. UNCHANGED <<Groups, Admitted, Busy, Reports, exit, VerdictsOf(held), Finding>>
  BY <1>1, FixturesStay DEF Busy, Reports, Finding, VerdictsOf
<1>3. QED
  BY <1>2 DEF Acceptance!vars, Groups, Admitted, Busy, Reports, Finding

(* Opening the report gives up the one before.                              *)
LEMMA OpenStep ==
  ASSUME Inv, NEW l \in Lanes, OpenReport(l) PROVE Acceptance!GiveUpReport(l)
<1>1. /\ pc[l] = "running" /\ pc' = [pc EXCEPT ![l] = "dumping"]
      /\ file' = [file EXCEPT ![l] = Truncated]
      /\ UNCHANGED <<suite, exit, held, compared>>
  BY DEF OpenReport
<1>2. l \in Busy /\ Busy' = Busy
  BY <1>1 DEF Busy, Inv, Typed
<1>3. Reports' = [Reports EXCEPT ![l] = [whole |-> FALSE]]
  BY <1>1, NoVerdicts DEF Reports, Inv, Typed
<1>4. UNCHANGED <<Groups, Admitted, exit, VerdictsOf(held), Finding>>
  BY <1>1, FixturesStay DEF Finding, VerdictsOf
<1>5. QED
  BY <1>2, <1>3, <1>4
  DEF Acceptance!GiveUpReport, Acceptance!NoReport, Groups, Admitted, Busy, Reports, Finding

(* The report written holds a verdict for each fixture the lane was given,  *)
(* and the exit code is the one they earn.                                  *)
LEMMA PublishStep ==
  ASSUME Inv, NEW l \in Lanes, WriteReport(l) PROVE Acceptance!Publish(l)
<1> DEFINE e == entries[l]
           g == [i \in DOMAIN e |-> e[i].status]
<1>1. /\ pc[l] = "dumping" /\ pc' = [pc EXCEPT ![l] = "idle"]
      /\ file' = [file EXCEPT ![l] = Report(e)]
      /\ exit' = [exit EXCEPT ![l] = Verdict(e)]
      /\ UNCHANGED <<suite, held, compared>>
  BY DEF WriteReport, EndLane
<1>2. LaneOK(l)
  BY DEF Inv
<1>3. PICK dirs \in SUBSET Dirs : DOMAIN e = FixturesIn(dirs)
  BY <1>1, <1>2 DEF LaneOK
<1>4. g \in [FixturesIn(dirs) -> Acceptance!Verdicts]
  <2>1. \A fx, a : Entry(fx, a).status \in {"PASS", "FAIL", "SKIP"}
    BY DEF Entry, Status
  <2>2. \A i \in DOMAIN e : e[i].status \in {"PASS", "FAIL", "SKIP"}
    BY <1>1, <1>2, <2>1 DEF LaneOK
  <2>3. QED
    BY <1>3, <2>2 DEF Acceptance!Verdicts
<1>5. FixturesIn(dirs) \in Groups
  BY DEF Groups
<1>6. l \in Busy /\ Busy' = Busy \ {l}
  BY <1>1 DEF Busy, Inv, Typed
<1>7. Reports[l] = [whole |-> FALSE]
  BY <1>1, <1>2, NoVerdicts DEF Reports, LaneOK
<1>8. Reports' = [Reports EXCEPT ![l] = Acceptance!Whole(g)]
  BY <1>1, NoVerdicts DEF Reports, Inv, Typed, Acceptance!Whole
<1>9. Verdict(e) = Acceptance!Conclusion(g)
  BY DEF Verdict, Acceptance!Conclusion
<1>10. UNCHANGED <<Groups, Admitted, VerdictsOf(held), Finding>>
  BY <1>1, FixturesStay DEF Finding, VerdictsOf
<1> HIDE DEF e, g
<1>11. QED
  BY <1>1, <1>4, <1>5, <1>6, <1>7, <1>8, <1>9, <1>10
  DEF Acceptance!Publish, Acceptance!NoReport, Groups, Admitted, Busy, Reports, Finding

(* A lane that raised or was killed leaves what was on disk.                *)
LEMMA DieStep ==
  ASSUME Inv, NEW l \in Lanes, LaneRaises(l) \/ KillLane(l) PROVE Acceptance!Die(l)
<1>1. PICK end \in {"raised", "killed"} :
        /\ pc[l] # "idle" /\ pc' = [pc EXCEPT ![l] = "idle"]
        /\ exit' = [exit EXCEPT ![l] = end]
        /\ UNCHANGED <<suite, file, held, compared>>
  BY DEF LaneRaises, KillLane, EndLane
<1>2. l \in Busy /\ Busy' = Busy \ {l}
  BY <1>1 DEF Busy, Inv, Typed
<1>3. UNCHANGED <<Groups, Admitted, Reports, VerdictsOf(held), Finding>>
  BY <1>1, FixturesStay DEF Reports, Finding, VerdictsOf
<1>4. QED
  BY <1>1, <1>2, <1>3 DEF Acceptance!Die, Groups, Admitted, Busy, Reports, Finding

(* The comparator's first read.                                             *)
LEMMA TakeStep ==
  ASSUME Inv, LoadFirst PROVE Acceptance!Take
<1>1. /\ ~compared.done /\ file[First].readable /\ held' = file[First]
      /\ UNCHANGED <<suite, pc, file, exit, compared>>
  BY DEF LoadFirst
<1>2. Reports[First].whole /\ VerdictsOf(held)' = Reports[First]
  BY <1>1, LanesAssumption DEF Reports, VerdictsOf
<1>3. Finding = "none"
  BY <1>1 DEF Finding
<1>4. UNCHANGED <<Groups, Admitted, Busy, Reports, exit, Finding>>
  BY <1>1, FixturesStay DEF Busy, Reports, Finding
<1>5. QED
  BY <1>2, <1>3, <1>4 DEF Acceptance!Take, Groups, Admitted, Busy, Reports, Finding

(* Outputs found identical are verdicts that agree.                         *)
LEMMA FindStep ==
  ASSUME Inv, Compare PROVE Acceptance!Find
<1> DEFINE r == held.results
           s == file[Second].results
           verdicts(x) == [i \in DOMAIN x |-> x[i].status]
<1>1. /\ ~compared.done /\ held.readable /\ file[Second].readable
      /\ ~CompareRaises(r, s) /\ held' = Missing
      /\ compared' = [done |-> TRUE, equal |-> ComparedEqual(r, s),
                      first |-> r, second |-> s]
      /\ UNCHANGED <<suite, pc, file, exit>>
  BY DEF Compare
<1>2. IsReport(r) /\ IsReport(s)
  BY <1>1, LanesAssumption, ReadableIsWhole DEF Inv
<1>3. /\ VerdictsOf(held) = [whole |-> TRUE, verdicts |-> verdicts(r)]
      /\ Reports[Second] = [whole |-> TRUE, verdicts |-> verdicts(s)]
  BY <1>1, LanesAssumption DEF Reports, VerdictsOf
<1>4. /\ Finding = "none"
      /\ Finding' = IF ComparedEqual(r, s) THEN "identical" ELSE "divergent"
  BY <1>1 DEF Finding
<1>5. ASSUME ComparedEqual(r, s)
      PROVE  Acceptance!Agree(verdicts(r), verdicts(s))
  <2>1. DOMAIN r = DOMAIN s
    BY <1>5 DEF ComparedEqual
  <2>2. \A i \in DOMAIN r \cap Admitted : r[i].status = s[i].status
    BY <1>1, <1>2, <1>5, SameVerdicts DEF Admitted
  <2>3. QED
    BY <2>1, <2>2 DEF Acceptance!Agree, Admitted
<1>6. VerdictsOf(held)' = [whole |-> FALSE]
  BY <1>1, NoVerdicts DEF VerdictsOf
<1>7. UNCHANGED <<Groups, Admitted, Busy, Reports, exit>>
  BY <1>1, FixturesStay DEF Busy, Reports
<1> HIDE DEF r, s, verdicts
<1>8. /\ VerdictsOf(held).whole /\ VerdictsOf(held).verdicts = verdicts(r)
      /\ Reports[Second].whole /\ Reports[Second].verdicts = verdicts(s)
  BY <1>3
<1>9. /\ Finding' \in {"identical", "divergent"}
      /\ Finding' = "identical" =>
           Acceptance!Agree(VerdictsOf(held).verdicts, Reports[Second].verdicts)
  BY <1>4, <1>5, <1>8
<1>10. QED
  BY <1>4, <1>6, <1>7, <1>8, <1>9
  DEF Acceptance!Find, Acceptance!NoReport, Groups, Admitted, Busy, Reports, Finding

(* A comparator that raises found nothing.                                  *)
LEMMA AbandonStep ==
  ASSUME Inv, ComparatorRaises PROVE Acceptance!Abandon
<1>1. held' = Missing /\ UNCHANGED <<suite, pc, file, exit, compared>>
  BY DEF ComparatorRaises
<1>2. VerdictsOf(held)' = [whole |-> FALSE]
  BY <1>1, NoVerdicts DEF VerdictsOf
<1>3. UNCHANGED <<Groups, Admitted, Busy, Reports, exit, Finding>>
  BY <1>1, FixturesStay DEF Busy, Reports, Finding
<1>4. QED
  BY <1>2, <1>3
  DEF Acceptance!Abandon, Acceptance!NoReport, Groups, Admitted, Busy, Reports, Finding

(* Every step is one the promise allows, or is not seen there.              *)
LEMMA NextAcceptance ==
  ASSUME Inv, [Next]_vars PROVE [Acceptance!Next]_Acceptance!vars
<1>1. ASSUME NEW l \in Lanes,
             \/ StartLane(l) \/ OpenReport(l) \/ WriteReport(l)
             \/ LaneRaises(l) \/ KillLane(l)
      PROVE  Acceptance!Next
  BY <1>1, BeginStep, OpenStep, PublishStep, DieStep DEF Acceptance!Next
<1>2. ASSUME NEW l \in Lanes, RunFixture(l) PROVE UNCHANGED Acceptance!vars
  BY <1>2, RunStep
<1>3. CASE LoadFirst \/ Compare \/ ComparatorRaises
  BY <1>3, TakeStep, FindStep, AbandonStep DEF Acceptance!Next
<1>4. CASE Live \/ UNCHANGED vars
  <2>1. UNCHANGED <<suite, pc, file, exit, held, compared>>
    BY <1>4 DEF Live, vars
  <2>2. UNCHANGED <<Groups, Admitted, Busy, Reports, exit, VerdictsOf(held), Finding>>
    BY <2>1, FixturesStay DEF Busy, Reports, Finding, VerdictsOf
  <2>3. QED
    BY <2>2 DEF Acceptance!vars, Groups, Admitted, Busy, Reports, Finding
<1>5. QED
  BY <1>1, <1>2, <1>3, <1>4 DEF Next

(* The lanes and the comparator implement PortAcceptance.                   *)
THEOREM AcceptanceIsSound == Spec => PortIsJudgedByVerdicts
<1>1. Init => Acceptance!Init
  BY InitAcceptance
<1>2. Inv /\ [Next]_vars => [Acceptance!Next]_Acceptance!vars
  BY NextAcceptance
<1>3. QED
  BY <1>1, <1>2, LaneCorrect, PTL DEF Spec, PortIsJudgedByVerdicts, Acceptance!Spec
=============================================================================
