---------------------- MODULE ConformanceRun_verdicts ----------------------
(***************************************************************************)
(* Proofs about the grid of verdicts of ConformanceRun: whom a run asks,    *)
(* what a pass is worth, and that the run implements SuitePromise.          *)
(***************************************************************************)
EXTENDS ConformanceRun_proofs

-----------------------------------------------------------------------------
(* Cases and their order                                                    *)

(* A variant exists only of a fixture that discovery took for one.          *)
LEMMA VariantCase ==
  ASSUME NEW c \in Cases
  PROVE  /\ c.dir \in DOMAIN suite
         /\ c = [dir |-> c.dir, mode |-> c.mode]
         /\ c.mode \in Modes
         /\ c.mode = "public_api" => HasVariant(suite[c.dir])
BY DEF Cases, FixtureCases, Modes

(* The cases of a tree are run in one order.                                *)
LEMMA CaseOrder ==
  ASSUME TypeOK, NEW c \in Cases, NEW d \in Cases,
         ~CaseBefore(c, d), ~CaseBefore(d, c)
  PROVE  c = d
<1>1. c.dir \in Nat /\ d.dir \in Nat
  BY VariantCase, SuitesAssumption DEF TypeOK
<1>2. c.dir = d.dir
  BY <1>1 DEF CaseBefore
<1>3. c.mode = d.mode
  BY <1>2, VariantCase DEF CaseBefore, Modes
<1>4. QED
  BY <1>2, <1>3, VariantCase

(* At most one pair is due.                                                 *)
LEMMA OneDue ==
  ASSUME TypeOK, NEW r \in Runs, NEW p \in todo[r], NEW q \in todo[r],
         Due(r, p), Due(r, q)
  PROVE  p = q
<1>1. p \in Pairs /\ q \in Pairs
  BY DEF TypeOK
<1>2. ~PairBefore(p, q) /\ ~PairBefore(q, p)
  BY DEF Due
<1>3. p[1] = q[1]
  BY <1>1, <1>2, KeyType, CaseOrder DEF PairBefore
<1>4. p[2] \in Nat /\ q[2] \in Nat
  BY <1>1, KeyType, NumSdksAssumption DEF Sdks
<1>5. p[2] = q[2]
  BY <1>2, <1>3, <1>4 DEF PairBefore
<1>6. QED
  BY <1>1, <1>3, <1>5, KeyType

-----------------------------------------------------------------------------
(* Asking                                                                   *)

GridInv == AskedInv /\ HooksDeclared /\ PassIsEarned

(* An SDK that supports a variant declared its hooks.                       *)
LEMMA SupportedHook ==
  ASSUME NEW fx, NEW have, fx.stage \in DOMAIN PublicApiStages,
         Supported(fx, "public_api", have)
  PROVE  LET hook == PublicApiStages[fx.stage].capability
         IN  hook \in DOMAIN have.flags /\ "true" \in have.flags[hook]
<1> DEFINE hook     == PublicApiStages[fx.stage].capability
           required == RequiredCaps(fx, "public_api")
<1>1. hook \in DOMAIN required /\ required[hook] = {"true"}
  BY DEF RequiredCaps
<1>2. RequiredCapabilitiesSatisfied(required, have.flags)
  BY DEF Supported
<1>3. QED
  BY <1>1, <1>2 DEF RequiredCapabilitiesSatisfied

(* No SDK has been asked and no cell decided in a first state.              *)
LEMMA InitGrid == Init => GridInv
BY DEF Init, GridInv, AskedInv, HooksDeclared, PassIsEarned, Blank

(* A step that leaves the declarations, the questions and the grid as they  *)
(* are keeps what is known of them.                                         *)
LEMMA QuietGrid ==
  ASSUME GridInv, UNCHANGED <<suite, caps, todo, results, asked>>,
         \A q \in Runs :
           /\ pc'[q] \in {"idle", "load"} => pc[q] \in {"idle", "load"}
           /\ pc'[q] = "wait" => pc[q] = "wait"
  PROVE  GridInv'
<1>1. Keys' = Keys
  BY DEF Keys, Cases
<1>2. AskedInv'
  BY DEF GridInv, AskedInv, Due
<1>3. HooksDeclared'
  BY DEF GridInv, HooksDeclared, Mode, Fixture
<1>4. PassIsEarned'
  BY <1>1 DEF GridInv, PassIsEarned
<1>5. QED
  BY <1>2, <1>3, <1>4 DEF GridInv

(* Capabilities are read before anybody is asked.                           *)
LEMMA LoadGrid ==
  ASSUME TypeOK, GridInv, NEW r \in Runs, LoadCapabilities(r)
  PROVE  GridInv'
<1>1. PICK d \in Declarations : caps' = [caps EXCEPT ![r] = Append(@, d)]
  BY DEF LoadCapabilities
<1>2. asked[r] = {} /\ UNCHANGED <<suite, todo, results, asked>>
  BY DEF LoadCapabilities, GridInv, AskedInv
<1>3. pc' = [pc EXCEPT ![r] = IF Len(caps[r]) + 1 = NumSdks
                               THEN "discover" ELSE "load"]
  BY DEF LoadCapabilities, Goto
<1>4. Keys' = Keys
  BY <1>2 DEF Keys, Cases
<1>5. \A q \in Runs \ {r} : caps'[q] = caps[q] /\ pc'[q] = pc[q]
  BY <1>1, <1>3 DEF TypeOK
<1>6. AskedInv'
  <2>1. pc'[r] # "wait"
    BY <1>3 DEF TypeOK
  <2>2. QED
    BY <1>2, <1>5, <2>1 DEF GridInv, AskedInv, Due
<1>7. HooksDeclared'
  BY <1>2, <1>5 DEF GridInv, HooksDeclared, Mode, Fixture
<1>8. PassIsEarned'
  BY <1>2, <1>4 DEF GridInv, PassIsEarned
<1>9. QED
  BY <1>6, <1>7, <1>8 DEF GridInv

(* An SDK is asked about the pair that is due, and only when it supports it. *)
LEMMA AskGrid ==
  ASSUME TypeOK, GridInv, NEW r \in Runs, AskSdk(r)
  PROVE  GridInv'
<1>1. PICK pair \in todo[r] :
        /\ Due(r, pair)
        /\ Supported(Fixture(pair), Mode(pair), caps[r][pair[2]])
        /\ asked' = [asked EXCEPT ![r] = @ \cup {pair}]
  BY DEF AskSdk
<1>2. UNCHANGED <<suite, caps, todo, results>> /\ pc' = [pc EXCEPT ![r] = "wait"]
  BY DEF AskSdk, Goto
<1>3. Keys' = Keys
  BY <1>2 DEF Keys, Cases
<1>4. /\ asked'[r] = asked[r] \cup {pair} /\ pc'[r] = "wait"
      /\ \A q \in Runs \ {r} : asked'[q] = asked[q] /\ pc'[q] = pc[q]
  BY <1>1, <1>2 DEF TypeOK
<1>5. AskedInv'
  <2>1. \A q : \A p : Due(q, p)' <=> Due(q, p)
    BY <1>2 DEF Due
  <2>2. \A p \in todo[r] : Due(r, p) => p \in asked'[r]
    BY <1>1, <1>4, OneDue
  <2>3. QED
    BY <1>2, <1>4, <2>1, <2>2 DEF GridInv, AskedInv
<1>6. HooksDeclared'
  <2>1. SUFFICES ASSUME Mode(pair) = "public_api"
                 PROVE  LET hook  == PublicApiStages[Fixture(pair).stage].capability
                            flags == caps[r][pair[2]].flags
                        IN  hook \in DOMAIN flags /\ "true" \in flags[hook]
    BY <1>2, <1>4 DEF GridInv, HooksDeclared, Mode, Fixture
  <2>2. pair[1] \in Cases
    BY KeyType DEF TypeOK
  <2>3. HasVariant(Fixture(pair))
    BY <2>1, <2>2, VariantCase DEF Mode, Fixture
  <2>4. QED
    BY <1>1, <2>1, <2>3, SupportedHook
    DEF HasVariant, PublicApiVariantApplicable
<1>7. PassIsEarned'
  BY <1>2, <1>3, <1>4 DEF GridInv, PassIsEarned
<1>8. QED
  BY <1>5, <1>6, <1>7 DEF GridInv

(* A verdict is stored about a pair that was asked, or is no pass.          *)
LEMMA RecordGrid ==
  ASSUME TypeOK, GridInv, NEW r \in Runs, NEW pair \in todo[r],
         NEW entry \in Entries, Record(r, pair, entry),
         UNCHANGED <<suite, caps, asked>>,
         pc' = [pc EXCEPT ![r] = "run"],
         entry.status = "pass" =>
           /\ pair \in asked[r]
           /\ entry.exit = Fixture(pair).exit
           /\ Fixture(pair).exit = Reject /\ Fixture(pair).codes # {}
                => entry.code \in Fixture(pair).codes
  PROVE  GridInv'
<1>1. pair \in Pairs /\ Key(pair) \in Keys /\ Keys' = Keys
  BY KeyType DEF TypeOK, Keys, Cases
<1>2. /\ results'[r][Key(pair)] = entry
      /\ \A k \in Keys \ {Key(pair)} : results'[r][k] = results[r][k]
      /\ pc'[r] = "run"
      /\ \A q \in Runs \ {r} : /\ results'[q] = results[q] /\ pc'[q] = pc[q]
                               /\ todo'[q] = todo[q]
  BY <1>1 DEF TypeOK, Record
<1>3. AskedInv'
  BY <1>2 DEF GridInv, AskedInv, Due
<1>4. HooksDeclared'
  BY DEF GridInv, HooksDeclared, Mode, Fixture
<1>5. PassIsEarned'
  <2>1. /\ pair[2] \in Sdks /\ Key(pair)[1] = pair[1]
        /\ Key(pair)[2] = SdkName[pair[2]] /\ pair = <<pair[1], pair[2]>>
    BY <1>1, KeyType DEF Key
  <2> DEFINE Earned(q, k, e) ==
               e.status = "pass" =>
                 /\ \E n \in Sdks : SdkName[n] = k[2]
                                    /\ <<k[1], n>> \in asked[q]
                 /\ e.exit = suite[k[1].dir].exit
                 /\ /\ suite[k[1].dir].exit = Reject
                    /\ suite[k[1].dir].codes # {}
                    => e.code \in suite[k[1].dir].codes
  <2>2. \A q \in Runs : \A k \in Keys : Earned(q, k, results[q][k])
    BY DEF GridInv, PassIsEarned
  <2>3. Earned(r, Key(pair), entry)
    BY <2>1 DEF Fixture
  <2>4. ASSUME NEW q \in Runs, NEW k \in Keys
        PROVE  Earned(q, k, results'[q][k])
    <3> HIDE DEF Earned
    <3>1. CASE q = r /\ k = Key(pair)
      BY <1>2, <2>3, <3>1
    <3>2. CASE q = r /\ k # Key(pair)
      <4>1. results'[q][k] = results[q][k]
        BY <1>2, <3>2
      <4>2. QED
        BY <2>2, <4>1
    <3>3. CASE q # r
      <4>1. results'[q][k] = results[q][k]
        BY <1>2, <3>3
      <4>2. QED
        BY <2>2, <4>1
    <3>4. QED
      BY <3>1, <3>2, <3>3
  <2>5. \A q \in Runs : \A k \in Keys : Earned(q, k, results'[q][k])
    BY <2>4
  <2>6. QED
    BY <1>1, <2>5 DEF PassIsEarned
<1>6. QED
  BY <1>3, <1>4, <1>5 DEF GridInv

(* An answer passes only with the exit and a code its manifest wants.       *)
LEMMA PassingVerdict ==
  ASSUME NEW fx, NEW a, Verdict(fx, a) = "pass"
  PROVE  /\ a.body # "garbage" /\ a.exit = fx.exit
         /\ fx.exit = Reject /\ fx.codes # {} => a.code \in fx.codes
BY DEF Verdict, Passes, CodeAccepted, Accept, Reject

(* Every step of cmd_run keeps what is known of the grid.                   *)
LEMMA NextGrid == TypeOK /\ GridInv /\ [Next]_vars => GridInv'
<1> SUFFICES ASSUME TypeOK, GridInv, [Next]_vars PROVE GridInv'
  OBVIOUS
<1>1. ASSUME NEW r \in Runs, SkipPair(r) PROVE GridInv'
  <2>1. PICK pair \in todo[r] : Record(r, pair, [Blank EXCEPT !.status = "skip"])
    BY <1>1 DEF SkipPair
  <2>2. /\ [Blank EXCEPT !.status = "skip"] \in Entries
        /\ [Blank EXCEPT !.status = "skip"].status # "pass"
    BY BlankType DEF Statuses, Blank
  <2>3. pc' = [pc EXCEPT ![r] = "run"] /\ UNCHANGED <<suite, caps, asked>>
    BY <1>1 DEF SkipPair, TypeOK
  <2>4. QED
    BY <2>1, <2>2, <2>3, RecordGrid
<1>2. ASSUME NEW r \in Runs, SdkAnswers(r) PROVE GridInv'
  <2> DEFINE entry(pair, a) ==
               [status |-> Verdict(Fixture(pair), a), exit |-> a.exit,
                code |-> IF a.body = "garbage" THEN NoCode ELSE a.code]
  <2>1. PICK pair \in todo[r], a \in Answers :
          /\ Due(r, pair)
          /\ Verdict(Fixture(pair), a) # "raise"
          /\ Record(r, pair, entry(pair, a))
    BY <1>2 DEF SdkAnswers
  <2>2. entry(pair, a) \in Entries
    BY <2>1, VerdictType DEF Entries, Statuses, Exits, Codes
  <2>3. /\ pair \in asked[r]
        /\ pc' = [pc EXCEPT ![r] = "run"] /\ UNCHANGED <<suite, caps, asked>>
    BY <1>2, <2>1 DEF SdkAnswers, Goto, GridInv, AskedInv
  <2>4. Verdict(Fixture(pair), a) = "pass" =>
          /\ a.body # "garbage" /\ a.exit = Fixture(pair).exit
          /\ Fixture(pair).exit = Reject /\ Fixture(pair).codes # {}
               => a.code \in Fixture(pair).codes
    BY PassingVerdict
  <2>5. QED
    BY <2>1, <2>2, <2>3, <2>4, RecordGrid
<1>3. ASSUME NEW r \in Runs, SdkTimesOut(r) PROVE GridInv'
  <2>1. PICK pair \in todo[r] : Record(r, pair, [Blank EXCEPT !.status = "error"])
    BY <1>3 DEF SdkTimesOut
  <2>2. /\ [Blank EXCEPT !.status = "error"] \in Entries
        /\ [Blank EXCEPT !.status = "error"].status # "pass"
    BY BlankType DEF Statuses, Blank
  <2>3. pc' = [pc EXCEPT ![r] = "run"] /\ UNCHANGED <<suite, caps, asked>>
    BY <1>3 DEF SdkTimesOut, Goto
  <2>4. QED
    BY <2>1, <2>2, <2>3, RecordGrid
<1>4. ASSUME NEW r \in Runs,
             \/ Start(r) \/ DiscoverFixtures(r) \/ MakeOutDir(r)
             \/ OpenJson(r) \/ WriteJson(r) \/ OpenMd(r) \/ WriteMd(r)
             \/ LookAtLatest(r) \/ UnlinkLatest(r) \/ LinkLatest(r)
      PROVE  GridInv'
  <2>1. PICK there \in PCs \ {"idle", "wait"} :
          /\ there = "load" => pc[r] = "idle"
          /\ pc' = [pc EXCEPT ![r] = there] \/ pc' = pc
    BY <1>4
    DEF Start, DiscoverFixtures, MakeOutDir, OpenJson, WriteJson, OpenMd,
        WriteMd, LookAtLatest, UnlinkLatest, LinkLatest, Goto, PCs
  <2>2. \A q \in Runs :
          /\ pc'[q] \in {"idle", "load"} => pc[q] \in {"idle", "load"}
          /\ pc'[q] = "wait" => pc[q] = "wait"
    BY <2>1 DEF TypeOK
  <2>3. UNCHANGED <<suite, caps, todo, results, asked>>
    BY <1>4
    DEF Start, DiscoverFixtures, MakeOutDir, OpenJson, WriteJson, OpenMd,
        WriteMd, LookAtLatest, UnlinkLatest, LinkLatest
  <2>4. QED
    BY <2>2, <2>3, QuietGrid
<1>5. ASSUME NEW r \in Runs,
             \/ CapabilitiesFail(r) \/ PlanRaises(r) \/ AnswerRaises(r)
             \/ PublishRaises(r) \/ Conclude(r) \/ Kill(r)
      PROVE  GridInv'
  BY <1>5, QuietGrid
  DEF CapabilitiesFail, PlanRaises, AnswerRaises, PublishRaises, Conclude, Kill
<1>6. CASE Tick \/ UNCHANGED vars
  BY <1>6, QuietGrid DEF Tick, vars
<1>7. QED
  BY <1>1, <1>2, <1>3, <1>4, <1>5, <1>6, LoadGrid, AskGrid
  DEF Next, HarnessStep

(* Whom a run asks and what it takes for a pass, in every state.            *)
THEOREM GridCorrect == Spec => [](TypeOK /\ GridInv)
<1>1. Init => TypeOK /\ GridInv
  BY InitType, InitGrid
<1>2. TypeOK /\ GridInv /\ [Next]_vars => (TypeOK /\ GridInv)'
  BY NextType, NextGrid
<1>3. QED
  BY <1>1, <1>2, PTL DEF Spec

(* The hooks of an SDK are used only where it declared them.                *)
THEOREM HooksAreDeclared == Spec => []HooksDeclared
<1>1. GridInv => HooksDeclared
  BY DEF GridInv
<1>2. QED
  BY <1>1, GridCorrect, PTL

(* A pass comes from an answer to that very case with the exit and one of   *)
(* the codes its manifest lists.                                            *)
THEOREM PassesAreEarned == Spec => []PassIsEarned
<1>1. GridInv => PassIsEarned
  BY DEF GridInv
<1>2. QED
  BY <1>1, GridCorrect, PTL

(* A variant nobody opted into passes only with a code that fires before    *)
(* any policy gate.                                                         *)
THEOREM PassesDoNotMislead == Spec => []NoMisleadingPass
<1>1. PassIsEarned => NoMisleadingPass
  <2> SUFFICES ASSUME PassIsEarned, NEW r \in Runs, NEW k \in Keys,
                      k[1].mode = "public_api",
                      suite[k[1].dir].variant = "unset",
                      results[r][k].status = "pass"
               PROVE  results[r][k].code
                        \in PublicApiStages[suite[k[1].dir].stage].codes
    BY DEF NoMisleadingPass
  <2> DEFINE fx == suite[k[1].dir]
  <2>1. k[1] \in Cases
    BY DEF Keys
  <2>2. PublicApiVariantApplicable(fx)
    BY <2>1, VariantCase DEF HasVariant
  <2>3. /\ fx.exit = Reject /\ fx.codes # {}
        /\ fx.codes \subseteq PublicApiStages[fx.stage].codes
    BY <2>2 DEF PublicApiVariantApplicable
  <2>4. results[r][k].code \in fx.codes
    BY <2>3 DEF PassIsEarned
  <2>5. QED
    BY <2>3, <2>4
<1>2. QED
  BY <1>1, PassesAreEarned, PTL

-----------------------------------------------------------------------------
(* The whole grid                                                           *)

(* Every cell of the grid has a pair that fills it.                         *)
LEMMA InitFilled == Init => FilledInv
<1> SUFFICES ASSUME Init PROVE FilledInv
  OBVIOUS
<1>1. ASSUME NEW k \in Keys PROVE \E pair \in Pairs : Key(pair) = k
  <2>1. PICK c \in Cases, n \in Sdks : k = <<c, SdkName[n]>>
    BY DEF Keys, Names
  <2>2. <<c, n>> \in Pairs /\ Key(<<c, n>>) = k
    BY <2>1 DEF Pairs, Key
  <2>3. QED
    BY <2>2
<1>2. QED
  BY <1>1 DEF Init, FilledInv, Publishing

(* Storing a verdict fills the pair's cell and no other pair's.             *)
LEMMA RecordFilled ==
  ASSUME TypeOK, FilledInv, NEW r \in Runs, NEW pair \in todo[r],
         NEW entry \in Entries, Record(r, pair, entry),
         entry.status # "none", UNCHANGED suite,
         pc[r] \in {"run", "wait"}, pc' = [pc EXCEPT ![r] = "run"]
  PROVE  FilledInv'
<1>1. pair \in Pairs /\ Key(pair) \in Keys /\ Keys' = Keys /\ Cases' = Cases
  BY KeyType DEF TypeOK, Keys, Cases
<1>2. /\ results'[r][Key(pair)] = entry
      /\ \A k \in Keys \ {Key(pair)} : results'[r][k] = results[r][k]
      /\ todo'[r] = todo[r] \ {pair} /\ pc'[r] = "run"
      /\ \A q \in Runs \ {r} : /\ results'[q] = results[q] /\ pc'[q] = pc[q]
                               /\ todo'[q] = todo[q]
  BY <1>1 DEF TypeOK, Record
<1>3. ASSUME NEW k \in Keys, results'[r][k].status = "none"
      PROVE  \E other \in todo'[r] : Key(other) = k
  <2>1. k # Key(pair) /\ results[r][k].status = "none"
    BY <1>2, <1>3
  <2>2. PICK other \in todo[r] : Key(other) = k
    BY <2>1 DEF FilledInv
  <2>3. QED
    BY <1>2, <2>1, <2>2
<1>4. \A q \in Runs : /\ Publishing(q)' => Publishing(q) /\ q # r
                      /\ pc'[q] \notin {"idle", "load", "discover"}
                           => pc[q] \notin {"idle", "load", "discover"}
  BY <1>2 DEF Publishing
<1>5. \A other : Key(other)' = Key(other)
  BY DEF Key
<1>6. \A q \in Runs : \A k \in Keys : results'[q][k].status = "none" =>
        \E other \in todo'[q] : Key(other) = k
  BY <1>2, <1>3 DEF FilledInv
<1>7. \A q \in Runs : Publishing(q)' => todo'[q] = {}
  BY <1>2, <1>4 DEF FilledInv
<1>8. \A q \in Runs : pc'[q] \notin {"idle", "load", "discover"} => Cases # {}
  BY <1>4 DEF FilledInv
<1>9. QED
  BY <1>1, <1>5, <1>6, <1>7, <1>8 DEF FilledInv

(* A step that stores no verdict empties no cell.                           *)
LEMMA QuietFilled ==
  ASSUME FilledInv, UNCHANGED <<suite, todo, results>>,
         \A q \in Runs :
           /\ Publishing(q)' => Publishing(q) \/ todo[q] = {}
           /\ pc'[q] \notin {"idle", "load", "discover"} =>
                pc[q] \notin {"idle", "load", "discover"} \/ Cases # {}
  PROVE  FilledInv'
<1>1. Keys' = Keys /\ Cases' = Cases
  BY DEF Keys, Cases
<1>2. \A other : Key(other)' = Key(other)
  BY DEF Key
<1>3. \A q \in Runs : Publishing(q)' => todo'[q] = {}
  BY DEF FilledInv
<1>4. QED
  BY <1>1, <1>2, <1>3 DEF FilledInv

(* Every step of cmd_run keeps it so.                                       *)
LEMMA NextFilled == TypeOK /\ FilledInv /\ [Next]_vars => FilledInv'
<1> SUFFICES ASSUME TypeOK, FilledInv, [Next]_vars PROVE FilledInv'
  OBVIOUS
<1>1. ASSUME NEW r \in Runs, SkipPair(r) PROVE FilledInv'
  <2>1. PICK pair \in todo[r] : Record(r, pair, [Blank EXCEPT !.status = "skip"])
    BY <1>1 DEF SkipPair
  <2>2. /\ [Blank EXCEPT !.status = "skip"] \in Entries
        /\ [Blank EXCEPT !.status = "skip"].status # "none"
    BY BlankType DEF Statuses, Blank
  <2>3. /\ pc[r] = "run" /\ pc' = [pc EXCEPT ![r] = "run"]
        /\ UNCHANGED suite
    BY <1>1 DEF SkipPair, TypeOK
  <2>4. QED
    BY <2>1, <2>2, <2>3, RecordFilled
<1>2. ASSUME NEW r \in Runs, SdkAnswers(r) PROVE FilledInv'
  <2> DEFINE entry(pair, a) ==
               [status |-> Verdict(Fixture(pair), a), exit |-> a.exit,
                code |-> IF a.body = "garbage" THEN NoCode ELSE a.code]
  <2>1. PICK pair \in todo[r], a \in Answers :
          /\ Verdict(Fixture(pair), a) # "raise"
          /\ Record(r, pair, entry(pair, a))
    BY <1>2 DEF SdkAnswers
  <2>2. entry(pair, a) \in Entries /\ entry(pair, a).status # "none"
    BY <2>1, VerdictType DEF Entries, Statuses, Exits, Codes
  <2>3. /\ pc[r] = "wait" /\ pc' = [pc EXCEPT ![r] = "run"]
        /\ UNCHANGED suite
    BY <1>2 DEF SdkAnswers, Goto
  <2>4. QED
    BY <2>1, <2>2, <2>3, RecordFilled
<1>3. ASSUME NEW r \in Runs, SdkTimesOut(r) PROVE FilledInv'
  <2>1. PICK pair \in todo[r] : Record(r, pair, [Blank EXCEPT !.status = "error"])
    BY <1>3 DEF SdkTimesOut
  <2>2. /\ [Blank EXCEPT !.status = "error"] \in Entries
        /\ [Blank EXCEPT !.status = "error"].status # "none"
    BY BlankType DEF Statuses, Blank
  <2>3. /\ pc[r] = "wait" /\ pc' = [pc EXCEPT ![r] = "run"]
        /\ UNCHANGED suite
    BY <1>3 DEF SdkTimesOut, Goto
  <2>4. QED
    BY <2>1, <2>2, <2>3, RecordFilled
<1>4. ASSUME NEW r \in Runs, DiscoverFixtures(r) PROVE FilledInv'
  <2>1. /\ UNCHANGED <<suite, todo, results>>
        /\ Cases # {} \/ pc' = pc
        /\ pc' = pc \/ pc' = [pc EXCEPT ![r] = "run"]
    BY <1>4 DEF DiscoverFixtures, Goto
  <2>2. \A q \in Runs : Publishing(q)' => Publishing(q)
    BY <2>1 DEF Publishing, TypeOK
  <2>3. \A q \in Runs : pc'[q] \notin {"idle", "load", "discover"} =>
          pc[q] \notin {"idle", "load", "discover"} \/ Cases # {}
    BY <2>1
  <2>4. QED
    BY <2>1, <2>2, <2>3, QuietFilled
<1>5. ASSUME NEW r \in Runs,
             \/ Start(r) \/ LoadCapabilities(r) \/ AskSdk(r) \/ MakeOutDir(r)
             \/ OpenJson(r) \/ WriteJson(r) \/ OpenMd(r) \/ WriteMd(r)
             \/ LookAtLatest(r) \/ UnlinkLatest(r) \/ LinkLatest(r)
      PROVE  FilledInv'
  <2>1. PICK there \in PCs :
          /\ pc' = [pc EXCEPT ![r] = there]
          /\ there \in {"load", "discover"}
             \/ pc[r] \notin {"idle", "load", "discover"}
          /\ there \in {"load", "discover", "wait"} \/ todo[r] = {}
             \/ Publishing(r)
    BY <1>5
    DEF Start, LoadCapabilities, AskSdk, MakeOutDir, OpenJson, WriteJson,
        OpenMd, WriteMd, LookAtLatest, UnlinkLatest, LinkLatest, Goto, PCs,
        Publishing
  <2>2. UNCHANGED <<suite, todo, results>>
    BY <1>5
    DEF Start, LoadCapabilities, AskSdk, MakeOutDir, OpenJson, WriteJson,
        OpenMd, WriteMd, LookAtLatest, UnlinkLatest, LinkLatest
  <2>3. \A q \in Runs : Publishing(q)' => Publishing(q) \/ todo[q] = {}
    BY <2>1 DEF Publishing, TypeOK
  <2>4. \A q \in Runs : pc'[q] \notin {"idle", "load", "discover"} =>
          pc[q] \notin {"idle", "load", "discover"}
    BY <2>1 DEF TypeOK
  <2>5. QED
    BY <2>2, <2>3, <2>4, QuietFilled
<1>6. ASSUME NEW r \in Runs,
             \/ CapabilitiesFail(r) \/ PlanRaises(r) \/ AnswerRaises(r)
             \/ PublishRaises(r) \/ Conclude(r) \/ Kill(r)
      PROVE  FilledInv'
  <2>1. UNCHANGED <<suite, pc, todo, results>>
    BY <1>6
    DEF CapabilitiesFail, PlanRaises, AnswerRaises, PublishRaises, Conclude,
        Kill
  <2>2. \A q \in Runs : Publishing(q)' => Publishing(q)
    BY <2>1 DEF Publishing
  <2>3. QED
    BY <2>1, <2>2, QuietFilled
<1>7. CASE Tick \/ UNCHANGED vars
  <2>1. UNCHANGED <<suite, pc, todo, results>>
    BY <1>7 DEF Tick, vars
  <2>2. \A q \in Runs : Publishing(q)' => Publishing(q)
    BY <2>1 DEF Publishing
  <2>3. QED
    BY <2>1, <2>2, QuietFilled
<1>8. QED
  BY <1>1, <1>2, <1>3, <1>4, <1>5, <1>6, <1>7 DEF Next, HarnessStep

-----------------------------------------------------------------------------
(* The promise                                                              *)

(* Nothing is published at first.                                           *)
LEMMA InitPromise == Init => Promise!Init
BY DEF Init, Promise!Init, PublishedGrid, Published, Promise!NoGrid

(* A step that completes no results.json publishes nothing and takes        *)
(* nothing back.                                                            *)
LEMMA GridStays ==
  ASSUME UNCHANGED suite,
         \A q \in Runs : /\ Published(q)' <=> Published(q)
                         /\ Published(q) => results'[q] = results[q]
  PROVE  PublishedGrid' = PublishedGrid /\ Keys' = Keys
<1>1. Keys' = Keys
  BY DEF Keys, Cases
<1>2. QED
  BY <1>1 DEF PublishedGrid

(* The step that completes results.json publishes the whole grid.           *)
LEMMA PublishStep ==
  ASSUME TypeOK, FilledInv, NEW r \in Runs, WriteJson(r)
  PROVE  Promise!Publish(r)
<1>1. /\ outcome[r] = "none" /\ pc[r] = "write json"
      /\ pc' = [pc EXCEPT ![r] = "open md"]
      /\ UNCHANGED <<suite, outcome, results>>
  BY DEF WriteJson, Alive, Goto
<1>2. Keys' = Keys
  BY <1>1 DEF Keys, Cases
<1>3. ~Published(r) /\ Published(r)' /\ todo[r] = {}
  BY <1>1 DEF Published, Publishing, FilledInv, TypeOK
<1>4. \A q \in Runs \ {r} : Published(q)' <=> Published(q)
  BY <1>1 DEF Published, TypeOK
<1> DEFINE g == [k \in Keys |-> results[r][k].status]
<1>5. g \in [Keys -> Promise!Statuses]
  <2>1. ASSUME NEW k \in Keys PROVE results[r][k].status \in Statuses
    <3>1. results[r][k] \in Entries
      BY DEF TypeOK
    <3>2. results[r][k].status # "none"
      BY <1>3 DEF FilledInv
    <3>3. QED
      BY <3>1, <3>2 DEF Entries
  <2>2. QED
    BY <2>1 DEF Statuses, Promise!Statuses
<1>6. PublishedGrid' = [PublishedGrid EXCEPT ![r] = g]
  BY <1>1, <1>2, <1>3, <1>4 DEF PublishedGrid
<1>7. PublishedGrid[r] = Promise!NoGrid
  BY <1>3 DEF PublishedGrid, Promise!NoGrid
<1>8. QED
  BY <1>1, <1>2, <1>5, <1>6, <1>7 DEF Promise!Publish

(* A run that ends without having published was refused or died; one that   *)
(* ends with an exit code took it from what it published.                   *)
LEMMA ConcludePromise ==
  ASSUME TypeOK, FilledInv, NEW r \in Runs, Conclude(r)
  PROVE  Promise!Conclude(r)
<1>1. /\ outcome[r] = "none" /\ pc[r] = "conclude" /\ Published(r)
      /\ outcome' = [outcome EXCEPT ![r] = IF AnyFail(r) THEN "failed" ELSE "ok"]
      /\ UNCHANGED <<suite, pc, results>>
  BY DEF Conclude, Alive, End, Published
<1>2. PublishedGrid' = PublishedGrid /\ Keys' = Keys
  BY <1>1, GridStays DEF Published
<1>3. PublishedGrid[r] = [k \in Keys |-> results[r][k].status]
  BY <1>1 DEF PublishedGrid
<1>4. Keys # {}
  <2>1. PICK c \in Cases : TRUE
    BY <1>1 DEF FilledInv
  <2>2. 1 \in Sdks
    BY NumSdksAssumption DEF Sdks
  <2>3. <<c, SdkName[1]>> \in Keys
    BY <2>2 DEF Keys, Names
  <2>4. QED
    BY <2>3
<1>5. PublishedGrid[r] # Promise!NoGrid
  BY <1>3, <1>4 DEF Promise!NoGrid
<1>6. Promise!Conclusion(PublishedGrid[r]) = IF AnyFail(r) THEN "failed" ELSE "ok"
  BY <1>3 DEF Promise!Conclusion, AnyFail
<1>7. QED
  BY <1>1, <1>2, <1>5, <1>6 DEF Promise!Conclude

(* A run that is refused has published nothing.                             *)
LEMMA RefusePromise ==
  ASSUME TypeOK, NEW r \in Runs, pc[r] \in {"load", "discover"},
         outcome[r] = "none", UNCHANGED <<suite, pc, results>>,
         outcome' = [outcome EXCEPT ![r] = "refused"]
  PROVE  Promise!Refuse(r)
<1>1. PublishedGrid' = PublishedGrid /\ Keys' = Keys
  BY GridStays DEF Published
<1>2. PublishedGrid[r] = Promise!NoGrid
  BY DEF PublishedGrid, Published, Promise!NoGrid
<1>3. QED
  BY <1>1, <1>2 DEF Promise!Refuse

(* A run that dies changes nothing it has published.                        *)
LEMMA DiePromise ==
  ASSUME NEW r \in Runs, outcome[r] = "none",
         UNCHANGED <<suite, pc, results>>,
         NEW how \in {"raised", "killed"},
         outcome' = [outcome EXCEPT ![r] = how]
  PROVE  Promise!Die(r)
<1>1. PublishedGrid' = PublishedGrid /\ Keys' = Keys
  BY GridStays DEF Published
<1>2. QED
  BY <1>1 DEF Promise!Die

(* The other steps show nothing outside the process.                        *)
LEMMA HiddenStep ==
  ASSUME UNCHANGED <<suite, outcome>>,
         \A q \in Runs : /\ Published(q)' <=> Published(q)
                         /\ Published(q) => results'[q] = results[q]
  PROVE  UNCHANGED Promise!vars
BY GridStays DEF Promise!vars

(* Every step of cmd_run is a step of the promise or hidden.                *)
LEMMA NextPromise ==
  ASSUME TypeOK, FilledInv, [Next]_vars
  PROVE  [Promise!Next]_Promise!vars
<1>1. ASSUME NEW r \in Runs,
             SkipPair(r) \/ SdkAnswers(r) \/ SdkTimesOut(r)
      PROVE  UNCHANGED Promise!vars
  <2>1. /\ pc[r] \in {"run", "wait"} /\ UNCHANGED <<suite, outcome>>
        /\ pc' = [pc EXCEPT ![r] = "run"]
        /\ \A q \in Runs \ {r} : results'[q] = results[q]
    <3>1. CASE SkipPair(r)
      BY <3>1 DEF SkipPair, Record, TypeOK
    <3>2. CASE SdkAnswers(r)
      BY <3>2 DEF SdkAnswers, Record, Goto, TypeOK
    <3>3. CASE SdkTimesOut(r)
      BY <3>3 DEF SdkTimesOut, Record, Goto, TypeOK
    <3>4. QED
      BY <1>1, <3>1, <3>2, <3>3
  <2>2. \A q \in Runs : Published(q)' <=> Published(q)
    BY <2>1 DEF Published, TypeOK
  <2>3. \A q \in Runs : Published(q) => results'[q] = results[q]
    BY <2>1 DEF Published, TypeOK
  <2>4. QED
    BY <2>1, <2>2, <2>3, HiddenStep
<1>2. ASSUME NEW r \in Runs,
             \/ Start(r) \/ LoadCapabilities(r) \/ AskSdk(r) \/ MakeOutDir(r)
             \/ OpenJson(r) \/ OpenMd(r) \/ WriteMd(r) \/ LookAtLatest(r)
             \/ UnlinkLatest(r) \/ LinkLatest(r)
      PROVE  UNCHANGED Promise!vars
  <2>1. PICK there \in PCs :
          /\ pc' = [pc EXCEPT ![r] = there]
          /\ Published(r) <=>
               there \in {"open md", "write md", "look at latest", "unlink",
                          "link", "conclude"}
    BY <1>2
    DEF Start, LoadCapabilities, AskSdk, MakeOutDir, OpenJson, OpenMd,
        WriteMd, LookAtLatest, UnlinkLatest, LinkLatest, Goto, PCs, Published
  <2>2. UNCHANGED <<suite, outcome, results>>
    BY <1>2
    DEF Start, LoadCapabilities, AskSdk, MakeOutDir, OpenJson, OpenMd,
        WriteMd, LookAtLatest, UnlinkLatest, LinkLatest
  <2>3. \A q \in Runs : Published(q)' <=> Published(q)
    BY <2>1 DEF Published, TypeOK
  <2>4. QED
    BY <2>2, <2>3, HiddenStep
<1>3. ASSUME NEW r \in Runs, DiscoverFixtures(r)
      PROVE  Promise!Refuse(r) \/ UNCHANGED Promise!vars
  <2>1. CASE Cases = {}
    BY <1>3, <2>1, RefusePromise DEF DiscoverFixtures, Alive, End
  <2>2. CASE Cases # {}
    <3>1. /\ pc[r] = "discover" /\ pc' = [pc EXCEPT ![r] = "run"]
          /\ UNCHANGED <<suite, outcome, results>>
      BY <1>3, <2>2 DEF DiscoverFixtures, Goto
    <3>2. \A q \in Runs : Published(q)' <=> Published(q)
      BY <3>1 DEF Published, TypeOK
    <3>3. QED
      BY <3>1, <3>2, HiddenStep
  <2>3. QED
    BY <2>1, <2>2
<1>4. ASSUME NEW r \in Runs, CapabilitiesFail(r) PROVE Promise!Refuse(r)
  BY <1>4, RefusePromise DEF CapabilitiesFail, Alive, End
<1>5. ASSUME NEW r \in Runs,
             \/ PlanRaises(r) \/ AnswerRaises(r) \/ PublishRaises(r)
             \/ Kill(r)
      PROVE  Promise!Die(r)
  BY <1>5, DiePromise
  DEF PlanRaises, AnswerRaises, PublishRaises, Kill, Alive, End
<1>6. CASE Tick \/ UNCHANGED vars
  <2>1. UNCHANGED <<suite, outcome, results, pc>>
    BY <1>6 DEF Tick, vars
  <2>2. \A q \in Runs : Published(q)' <=> Published(q)
    BY <2>1 DEF Published
  <2>3. QED
    BY <2>1, <2>2, HiddenStep
<1>7. QED
  BY <1>1, <1>2, <1>3, <1>4, <1>5, <1>6, PublishStep, ConcludePromise
  DEF Next, HarnessStep, Promise!Next

(* Whatever the SDKs do and whichever processes die, a run publishes its    *)
(* whole grid or nothing, and its exit code is decided by what it published. *)
THEOREM PromiseKept == Spec => KeepsPromise
<1>1. Init => TypeOK /\ FilledInv /\ Promise!Init
  BY InitType, InitFilled, InitPromise
<1>2. TypeOK /\ FilledInv /\ [Next]_vars =>
        TypeOK' /\ FilledInv' /\ [Promise!Next]_Promise!vars
  BY NextType, NextFilled, NextPromise
<1>3. QED
  BY <1>1, <1>2, PTL DEF Spec, KeepsPromise, Promise!Spec

-----------------------------------------------------------------------------
(* The entries of results.json                                              *)

\* An entry of the grid is one run_fixture makes of the case.
Fits(entry, fx, mode, have) ==
  \E res \in FixtureResults(fx, mode, have, Answers) :
    res.status = entry.status /\ res.code = entry.code

\* Nothing is run before all capabilities are known, only what an SDK supports
\* is asked of it, and what was run is in the grid as it came out.
OwnInv ==
  \A r \in Runs :
    /\ pc[r] \in {"idle", "load"} => todo[r] = Pairs
    /\ \A pair \in asked[r] : Supported(Fixture(pair), Mode(pair), caps[r][pair[2]])
    /\ \A pair \in Pairs \ todo[r] :
         Fits(results[r][Key(pair)], Fixture(pair), Mode(pair), caps[r][pair[2]])

(* What is skipped is skipped for a reason.                                 *)
LEMMA SkipFits ==
  ASSUME NEW fx, NEW mode, NEW have, ~Supported(fx, mode, have)
  PROVE  Fits([Blank EXCEPT !.status = "skip"], fx, mode, have)
<1> DEFINE required == RequiredCaps(fx, mode)
<1>1. SkipReasons(fx, mode, have) # {}
  <2>1. CASE fx.stage \notin have.stages
    BY <2>1 DEF SkipReasons
  <2>2. CASE fx.stage \in have.stages
    <3>1. PICK p \in DOMAIN required :
            p \notin DOMAIN have.flags \/ required[p] \cap have.flags[p] = {}
      BY <2>2 DEF Supported, RequiredCapabilitiesSatisfied
    <3> HIDE DEF required
    <3> DEFINE why(q) == [kind |-> IF q \in DOMAIN have.flags
                                   THEN "value" ELSE "undeclared",
                          what |-> q]
               lacking == {q \in DOMAIN required :
                             q \notin DOMAIN have.flags
                             \/ required[q] \cap have.flags[q] = {}}
    <3>2. SkipReasons(fx, mode, have) = {why(q) : q \in lacking}
      BY <2>2 DEF SkipReasons, required
    <3>3. p \in lacking
      BY <3>1
    <3>4. QED
      BY <3>2, <3>3
  <2>3. QED
    BY <2>1, <2>2
<1>2. PICK why : why \in SkipReasons(fx, mode, have)
  BY <1>1
<1> DEFINE res == [status |-> "skip", body |-> "empty", code |-> NoCode,
                   accepted |-> FALSE, reason |-> why]
           entry == [Blank EXCEPT !.status = "skip"]
<1>3. res \in FixtureResults(fx, mode, have, Answers)
  BY <1>2 DEF FixtureResults
<1>4. /\ res.status = "skip" /\ res.code = NoCode
      /\ entry.status = "skip" /\ entry.code = NoCode
  BY DEF Blank
<1> HIDE DEF res, entry
<1>5. Fits(entry, fx, mode, have)
  BY <1>3, <1>4 DEF Fits
<1>6. QED
  BY <1>5 DEF entry

(* A call that ran into its timeout is an error of the SDK that was asked.  *)
LEMMA TimeoutFits ==
  ASSUME NEW fx, NEW mode, NEW have, Supported(fx, mode, have)
  PROVE  Fits([Blank EXCEPT !.status = "error"], fx, mode, have)
<1> DEFINE res == [status |-> "error", body |-> "empty", code |-> NoCode,
                   accepted |-> FALSE, reason |-> NoReason]
           entry == [Blank EXCEPT !.status = "error"]
<1>1. res \in FixtureResults(fx, mode, have, Answers)
  BY DEF FixtureResults
<1>2. /\ res.status = "error" /\ res.code = NoCode
      /\ entry.status = "error" /\ entry.code = NoCode
  BY DEF Blank
<1> HIDE DEF res, entry
<1>3. Fits(entry, fx, mode, have)
  BY <1>1, <1>2 DEF Fits
<1>4. QED
  BY <1>3 DEF entry

(* An answer that could be read is kept with its verdict and its code.      *)
LEMMA AnswerFits ==
  ASSUME NEW fx, NEW mode, NEW have, Supported(fx, mode, have),
         NEW a \in Answers, Verdict(fx, a) # "raise"
  PROVE  Fits([status |-> Verdict(fx, a), exit |-> a.exit,
               code |-> IF a.body = "garbage" THEN NoCode ELSE a.code],
              fx, mode, have)
<1> DEFINE verdict == Verdict(fx, a)
           res == [status |-> verdict,
                   body |-> IF a.body = "garbage" THEN "empty" ELSE a.body,
                   code |-> IF a.body = "object" THEN a.code ELSE NoCode,
                   accepted |-> a.body = "object" /\ a.accepted,
                   reason |-> NoReason]
           entry == [status |-> verdict, exit |-> a.exit,
                     code |-> IF a.body = "garbage" THEN NoCode ELSE a.code]
<1>1. res \in FixtureResults(fx, mode, have, Answers)
  BY DEF FixtureResults
<1> HIDE DEF verdict
<1>2. /\ res.status = verdict /\ entry.status = verdict
      /\ res.code = IF a.body = "object" THEN a.code ELSE NoCode
      /\ entry.code = IF a.body = "garbage" THEN NoCode ELSE a.code
  OBVIOUS
<1>3. res.code = entry.code
  BY <1>2, AnswersAssumption
<1> HIDE DEF res, entry
<1>4. Fits(entry, fx, mode, have)
  BY <1>1, <1>2, <1>3 DEF Fits
<1>5. QED
  BY <1>4 DEF entry, verdict

(* Nothing has been run in a first state.                                   *)
LEMMA InitOwn == Init => OwnInv
BY DEF Init, OwnInv

(* A step that runs nothing and asks nobody keeps the grid what it is, and  *)
(* so does one that changes declarations while there is nothing in it.      *)
LEMMA QuietOwn ==
  ASSUME OwnInv, UNCHANGED <<suite, todo, results, asked>>,
         \A q \in Runs :
           /\ pc'[q] \in {"idle", "load"} => pc[q] \in {"idle", "load"}
           /\ caps'[q] = caps[q] \/ (todo[q] = Pairs /\ asked[q] = {})
  PROVE  OwnInv'
<1>1. Pairs' = Pairs
  BY DEF Pairs, Cases
<1>2. \A pair : Key(pair)' = Key(pair) /\ Fixture(pair)' = Fixture(pair)
                /\ Mode(pair)' = Mode(pair)
  BY DEF Key, Fixture, Mode
<1>3. ASSUME NEW q \in Runs
      PROVE  /\ pc'[q] \in {"idle", "load"} => todo'[q] = Pairs
             /\ \A pair \in asked'[q] :
                  Supported(Fixture(pair), Mode(pair), caps'[q][pair[2]])
             /\ \A pair \in Pairs \ todo'[q] :
                  Fits(results'[q][Key(pair)], Fixture(pair), Mode(pair),
                       caps'[q][pair[2]])
  BY <1>3 DEF OwnInv
<1>4. QED
  BY <1>1, <1>2, <1>3 DEF OwnInv

(* With a name per SDK, an entry that fits its pair stays the pair's.       *)
LEMMA RecordOwn ==
  ASSUME DistinctNames, TypeOK, OwnInv, NEW r \in Runs, NEW pair \in todo[r],
         NEW entry \in Entries, Record(r, pair, entry),
         UNCHANGED <<suite, caps, asked>>,
         pc' = [pc EXCEPT ![r] = "run"],
         Fits(entry, Fixture(pair), Mode(pair), caps[r][pair[2]])
  PROVE  OwnInv'
<1>1. pair \in Pairs /\ Key(pair) \in Keys /\ Pairs' = Pairs
  BY KeyType DEF TypeOK, Pairs, Cases
<1>2. /\ results'[r][Key(pair)] = entry
      /\ \A k \in Keys \ {Key(pair)} : results'[r][k] = results[r][k]
      /\ todo'[r] = todo[r] \ {pair} /\ pc'[r] = "run"
      /\ \A q \in Runs \ {r} : /\ results'[q] = results[q] /\ pc'[q] = pc[q]
                               /\ todo'[q] = todo[q]
  BY <1>1 DEF TypeOK, Record
<1>3. \A p : Key(p)' = Key(p) /\ Fixture(p)' = Fixture(p) /\ Mode(p)' = Mode(p)
  BY DEF Key, Fixture, Mode
<1>4. ASSUME NEW q \in Runs, NEW p \in Pairs \ todo'[q]
      PROVE  Fits(results'[q][Key(p)], Fixture(p), Mode(p), caps[q][p[2]])
  <2>1. CASE q # r
    BY <1>2, <1>4, <2>1 DEF OwnInv
  <2>2. CASE q = r /\ p = pair
    BY <1>2, <2>2
  <2>3. CASE q = r /\ p # pair
    <3>1. p \in Pairs \ todo[r]
      BY <1>2, <1>4, <2>3
    <3>2. Key(p) \in Keys \ {Key(pair)}
      BY <1>1, <2>3, <3>1, KeyType, DistinctKeys
    <3>3. results'[q][Key(p)] = results[r][Key(p)]
      BY <1>2, <2>3, <3>2
    <3>4. QED
      BY <2>3, <3>1, <3>3 DEF OwnInv
  <2>4. QED
    BY <2>1, <2>2, <2>3
<1>5. \A q \in Runs : pc'[q] \in {"idle", "load"} => todo'[q] = Pairs
  BY <1>2 DEF OwnInv
<1>6. \A q \in Runs : \A p \in asked[q] :
        Supported(Fixture(p), Mode(p), caps[q][p[2]])
  BY DEF OwnInv
<1>7. QED
  BY <1>1, <1>3, <1>4, <1>5, <1>6 DEF OwnInv

(* With a name per SDK every step of cmd_run keeps the entries.             *)
LEMMA NextOwn ==
  ASSUME DistinctNames, TypeOK, GridInv, OwnInv, [Next]_vars
  PROVE  OwnInv'
<1>1. ASSUME NEW r \in Runs, SkipPair(r) PROVE OwnInv'
  <2> DEFINE entry == [Blank EXCEPT !.status = "skip"]
  <2>1. PICK pair \in todo[r] :
          /\ ~Supported(Fixture(pair), Mode(pair), caps[r][pair[2]])
          /\ Record(r, pair, entry)
    BY <1>1 DEF SkipPair
  <2>2. entry \in Entries
    BY BlankType DEF Statuses
  <2>3. pc' = [pc EXCEPT ![r] = "run"] /\ UNCHANGED <<suite, caps, asked>>
    BY <1>1 DEF SkipPair, TypeOK
  <2>4. Fits(entry, Fixture(pair), Mode(pair), caps[r][pair[2]])
    BY <2>1, SkipFits
  <2> HIDE DEF entry
  <2>5. QED
    BY <2>1, <2>2, <2>3, <2>4, RecordOwn
<1>2. ASSUME NEW r \in Runs, SdkAnswers(r) PROVE OwnInv'
  <2> DEFINE entry(pair, a) ==
               [status |-> Verdict(Fixture(pair), a), exit |-> a.exit,
                code |-> IF a.body = "garbage" THEN NoCode ELSE a.code]
  <2>1. PICK pair \in todo[r], a \in Answers :
          /\ Due(r, pair)
          /\ Verdict(Fixture(pair), a) # "raise"
          /\ Record(r, pair, entry(pair, a))
    BY <1>2 DEF SdkAnswers
  <2>2. entry(pair, a) \in Entries
    BY <2>1, VerdictType DEF Entries, Statuses, Exits, Codes
  <2>3. /\ pair \in asked[r]
        /\ pc' = [pc EXCEPT ![r] = "run"] /\ UNCHANGED <<suite, caps, asked>>
    BY <1>2, <2>1 DEF SdkAnswers, Goto, GridInv, AskedInv
  <2>4. Supported(Fixture(pair), Mode(pair), caps[r][pair[2]])
    BY <2>3 DEF OwnInv
  <2>5. Fits(entry(pair, a), Fixture(pair), Mode(pair), caps[r][pair[2]])
    BY <2>1, <2>4, AnswerFits
  <2> HIDE DEF entry
  <2>6. QED
    BY <2>1, <2>2, <2>3, <2>5, RecordOwn
<1>3. ASSUME NEW r \in Runs, SdkTimesOut(r) PROVE OwnInv'
  <2> DEFINE entry == [Blank EXCEPT !.status = "error"]
  <2>1. PICK pair \in todo[r] : Due(r, pair) /\ Record(r, pair, entry)
    BY <1>3 DEF SdkTimesOut
  <2>2. entry \in Entries
    BY BlankType DEF Statuses
  <2>3. /\ pair \in asked[r]
        /\ pc' = [pc EXCEPT ![r] = "run"] /\ UNCHANGED <<suite, caps, asked>>
    BY <1>3, <2>1 DEF SdkTimesOut, Goto, GridInv, AskedInv
  <2>4. Supported(Fixture(pair), Mode(pair), caps[r][pair[2]])
    BY <2>3 DEF OwnInv
  <2>5. Fits(entry, Fixture(pair), Mode(pair), caps[r][pair[2]])
    BY <2>4, TimeoutFits
  <2> HIDE DEF entry
  <2>6. QED
    BY <2>1, <2>2, <2>3, <2>5, RecordOwn
<1>4. ASSUME NEW r \in Runs, AskSdk(r) PROVE OwnInv'
  <2>1. PICK pair \in todo[r] :
          /\ Supported(Fixture(pair), Mode(pair), caps[r][pair[2]])
          /\ asked' = [asked EXCEPT ![r] = @ \cup {pair}]
    BY <1>4 DEF AskSdk
  <2>2. /\ UNCHANGED <<suite, caps, todo, results>> /\ pc' = [pc EXCEPT ![r] = "wait"]
        /\ Pairs' = Pairs
    BY <1>4 DEF AskSdk, Goto, Pairs, Cases
  <2>3. /\ asked'[r] = asked[r] \cup {pair} /\ pc'[r] = "wait"
        /\ \A q \in Runs \ {r} : asked'[q] = asked[q] /\ pc'[q] = pc[q]
    BY <2>1, <2>2 DEF TypeOK
  <2>4. \A p : Key(p)' = Key(p) /\ Fixture(p)' = Fixture(p) /\ Mode(p)' = Mode(p)
    BY <2>2 DEF Key, Fixture, Mode
  <2>5. \A q \in Runs : \A p \in asked'[q] :
          Supported(Fixture(p), Mode(p), caps[q][p[2]])
    BY <2>1, <2>3 DEF OwnInv
  <2>6. \A q \in Runs : pc'[q] \in {"idle", "load"} => todo[q] = Pairs
    BY <2>3 DEF OwnInv
  <2>7. \A q \in Runs : \A p \in Pairs \ todo[q] :
          Fits(results[q][Key(p)], Fixture(p), Mode(p), caps[q][p[2]])
    BY DEF OwnInv
  <2>8. QED
    BY <2>2, <2>4, <2>5, <2>6, <2>7 DEF OwnInv
<1>5. ASSUME NEW r \in Runs, LoadCapabilities(r) PROVE OwnInv'
  <2>1. /\ pc[r] = "load" /\ UNCHANGED <<suite, todo, results, asked>>
        /\ \A q \in Runs \ {r} : caps'[q] = caps[q] /\ pc'[q] = pc[q]
    BY <1>5 DEF LoadCapabilities, Goto, TypeOK
  <2>2. todo[r] = Pairs /\ asked[r] = {}
    BY <2>1 DEF OwnInv, GridInv, AskedInv
  <2>3. QED
    BY <2>1, <2>2, QuietOwn
<1>6. ASSUME NEW r \in Runs,
             \/ Start(r) \/ DiscoverFixtures(r) \/ MakeOutDir(r)
             \/ OpenJson(r) \/ WriteJson(r) \/ OpenMd(r) \/ WriteMd(r)
             \/ LookAtLatest(r) \/ UnlinkLatest(r) \/ LinkLatest(r)
      PROVE  OwnInv'
  <2>1. PICK there \in PCs \ {"idle", "wait"} :
          /\ there = "load" => pc[r] = "idle"
          /\ pc' = [pc EXCEPT ![r] = there] \/ pc' = pc
    BY <1>6
    DEF Start, DiscoverFixtures, MakeOutDir, OpenJson, WriteJson, OpenMd,
        WriteMd, LookAtLatest, UnlinkLatest, LinkLatest, Goto, PCs
  <2>2. \A q \in Runs : pc'[q] \in {"idle", "load"} => pc[q] \in {"idle", "load"}
    BY <2>1 DEF TypeOK
  <2>3. UNCHANGED <<suite, caps, todo, results, asked>>
    BY <1>6
    DEF Start, DiscoverFixtures, MakeOutDir, OpenJson, WriteJson, OpenMd,
        WriteMd, LookAtLatest, UnlinkLatest, LinkLatest
  <2>4. QED
    BY <2>2, <2>3, QuietOwn
<1>7. ASSUME NEW r \in Runs,
             \/ CapabilitiesFail(r) \/ PlanRaises(r) \/ AnswerRaises(r)
             \/ PublishRaises(r) \/ Conclude(r) \/ Kill(r)
      PROVE  OwnInv'
  BY <1>7, QuietOwn
  DEF CapabilitiesFail, PlanRaises, AnswerRaises, PublishRaises, Conclude, Kill
<1>8. CASE Tick \/ UNCHANGED vars
  BY <1>8, QuietOwn DEF Tick, vars
<1>9. QED
  BY <1>1, <1>2, <1>3, <1>4, <1>5, <1>6, <1>7, <1>8 DEF Next, HarnessStep

(* With a name per SDK the grid holds of every case that was run what       *)
(* run_fixture made of it, and a skip exactly where an SDK supports no such *)
(* case.                                                                    *)
THEOREM ResultsAreTheirOwn == Spec => []ResultsAreOwn
<1>1. CASE DistinctNames
  <2>1. OwnInv => ResultsAreOwn
    BY DEF OwnInv, Fits, ResultsAreOwn
  <2>2. Init => TypeOK /\ GridInv /\ OwnInv
    BY InitType, InitGrid, InitOwn
  <2>3. TypeOK /\ GridInv /\ OwnInv /\ [Next]_vars => (TypeOK /\ GridInv /\ OwnInv)'
    BY <1>1, NextType, NextGrid, NextOwn
  <2>4. QED
    BY <2>1, <2>2, <2>3, PTL DEF Spec
<1>2. CASE ~DistinctNames
  <2>1. ResultsAreOwn
    BY <1>2 DEF ResultsAreOwn
  <2>2. QED
    BY <2>1, PTL
<1>3. QED
  BY <1>1, <1>2

\* What Divergence takes an entry of results.json for.
Recorded(r) ==
  \A pair \in Pairs :
    Mode(pair) = "base" =>
      Fits(results[r][Key(pair)], Fixture(pair), "base", caps[r][pair[2]])

(* Every results.json a run leaves holds, for every fixture and SDK, an     *)
(* entry of those Divergence starts from: the report reads what runs write, *)
(* if names are distinct.                                                   *)
THEOREM PublishedResultsAreRead ==
  Spec => [](DistinctNames => \A r \in Runs : Published(r) => Recorded(r))
<1>1. FilledInv /\ ResultsAreOwn =>
        (DistinctNames => \A r \in Runs : Published(r) => Recorded(r))
  <2> SUFFICES ASSUME FilledInv, ResultsAreOwn, DistinctNames, NEW r \in Runs,
                      Published(r), NEW pair \in Pairs, Mode(pair) = "base"
               PROVE  Fits(results[r][Key(pair)], Fixture(pair), "base",
                           caps[r][pair[2]])
    BY DEF Recorded
  <2>1. pair \in Pairs \ todo[r]
    BY DEF FilledInv, Published, Publishing
  <2>2. QED
    BY <2>1 DEF ResultsAreOwn, Fits
<1>2. Init => TypeOK /\ FilledInv
  BY InitType, InitFilled
<1>3. TypeOK /\ FilledInv /\ [Next]_vars => (TypeOK /\ FilledInv)'
  BY NextType, NextFilled
<1>4. QED
  BY <1>1, <1>2, <1>3, ResultsAreTheirOwn, PTL DEF Spec

=============================================================================
