------------------------------ MODULE GapReport ------------------------------
(***************************************************************************)
(* What two more programs say of the results Divergence describes: the gap  *)
(* leaderboard and the behaviour matrix of gen_report.py, which calls       *)
(* analyze first and shares its tables, and the coverage section of         *)
(* results.md (report.py), which looks codes up in the same kind of table.  *)
(*                                                                         *)
(* The order of the SDKs is that of the --sdk options; it is a parameter    *)
(* wherever the code's answer may depend on it.                             *)
(***************************************************************************)
EXTENDS Divergence, FiniteSets

\* A body that is no object has no code, and none is not a code of a manifest.
ASSUME CodesAssumption ==
  /\ \A a \in Answers : a.body # "object" => a.code = NoCode
  /\ \A tree \in VectorTrees : \A i \in DOMAIN tree : NoCode \notin tree[i].codes

\* The SDKs are --sdk options of one command line.
ASSUME SdksAssumption == \A run \in RecordedRuns : IsFiniteSet(run.sdks)

-----------------------------------------------------------------------------
(* The leaderboard                                                          *)

Declaring(flag) == {s \in Sdks : flag \in DOMAIN caps[s].flags}

Agreeing(flag, s) ==
  {t \in Declaring(flag) : caps[t].flags[flag] = caps[s].flags[flag]}

ValuesOf(flag) == {caps[s].flags[flag] : s \in Declaring(flag)}

SdkOrders ==
  {order \in [1..Cardinality(Sdks) -> Sdks] :
     \A i, j \in DOMAIN order : order[i] = order[j] => i = j}

\* Where the value of SDK s is met first.
FirstMet(flag, s, order) ==
  CHOOSE i \in DOMAIN order :
    /\ order[i] \in Agreeing(flag, s)
    /\ \A j \in 1..(i - 1) : order[j] \notin Agreeing(flag, s)

\* Slip: the value met first is taken for the consensus.
ConsensusIsFirst(flag, order) ==
  {t \in Declaring(flag) :
     \A u \in Declaring(flag) : FirstMet(flag, t, order) <= FirstMet(flag, u, order)}

\* Counter.most_common(1): the value most hold, of several the one met first.
ConsensusHolders(flag, order) ==
  LET votes(s) == Cardinality(Agreeing(flag, s))
  IN  {t \in Declaring(flag) :
         \A u \in Declaring(flag) :
           \/ votes(t) > votes(u)
           \/ /\ votes(t) = votes(u)
              /\ FirstMet(flag, t, order) <= FirstMet(flag, u, order)}

Deviators(flag, order) == Declaring(flag) \ ConsensusHolders(flag, order)

Kind(flag, order) ==
  LET n    == Cardinality(Declaring(flag))
      devs == Cardinality(Deviators(flag, order))
  IN  IF Declaring(flag) # Sdks THEN "partial-coverage"
      ELSE IF devs = 1 THEN "lone-deviator"
      ELSE IF Cardinality(ValuesOf(flag)) > 2 THEN "multi-way"
      ELSE IF 2 * devs < n THEN "minority" ELSE "even-split"

-----------------------------------------------------------------------------
(* The behaviour matrix                                                     *)

\* Slip: a result that failed is filed as such.
CellByStatus(c) ==
  IF c.status \in {"skip", "error", "fail"} THEN c.status
  ELSE IF c.code # NoCode THEN "reject"
  ELSE IF c.accepted THEN "accept" ELSE "other"

\* What an SDK did, from its recorded result.
BehaviorCell(c) ==
  IF c.status \in {"skip", "error"} THEN c.status
  ELSE IF c.code # NoCode THEN "reject"
  ELSE IF c.accepted THEN "accept" ELSE "other"

Ran(i) == {s \in Sdks : cells[i][s].status # "skip"}

\* Slip: an answer that neither accepts nor names a code is a family too.
OutcomesWithOther(i) == {BehaviorCell(cells[i][s]) : s \in Ran(i)}

Outcomes(i) ==
  {BehaviorCell(cells[i][s]) : s \in Ran(i)} \cap {"accept", "reject", "error"}

CodesNamed(i) ==
  {cells[i][s].code : s \in {t \in Sdks : BehaviorCell(cells[i][t]) = "reject"}}

Several(S) == \E x, y \in S : x # y

DivergenceClass(i) ==
  IF Several(Outcomes(i)) THEN "behavior"
  ELSE IF Outcomes(i) = {"reject"} /\ Several(CodesNamed(i)) THEN "code"
  ELSE "none"

-----------------------------------------------------------------------------
(* The coverage section                                                     *)

\* The table is asked for the fixture's path only.
Pinning(code) == {i \in DOMAIN vectors : code \in Found(PathKey(vectors[i]))}

\* Slip: what was not failed is ticked.
CoverageUnlessFailed(code, s) ==
  IF Pinning(code) = {} THEN "none"
  ELSE IF \E i \in Pinning(code) : cells[i][s].status \in {"fail", "error"}
  THEN "fail" ELSE "pass"

\* One cell for all the fixtures that pin the code.
CoverageCell(code, s) ==
  LET seen(status) == \E i \in Pinning(code) : cells[i][s].status = status
  IN  IF Pinning(code) = {} THEN "none"
      ELSE IF seen("pass") THEN "pass"
      ELSE IF seen("fail") THEN "fail"
      ELSE IF seen("error") THEN "error" ELSE "skip"

-----------------------------------------------------------------------------
(* Properties                                                               *)

(* The kind a divergent capability is filed under, which decides its rank,  *)
(* is the same in whatever order the SDKs were listed; and where the report *)
(* names someone to fix, a lone deviator or a minority, it names the same   *)
(* SDKs.  Not so between two SDKs: there a split is filed as a quick win    *)
(* and the one to fix is whichever was listed second (build_leaderboard,    *)
(* most_common).                                                            *)
TargetsIgnoreOrder ==
  report.done =>
    \A flag \in report.flags :
      LET kinds == {Kind(flag, order) : order \in SdkOrders}
          named == {Deviators(flag, order) : order \in SdkOrders}
      IN  /\ Cardinality(kinds) = 1
          /\ kinds \subseteq {"lone-deviator", "minority"} =>
               IF Cardinality(Sdks) = 2
               THEN \A order \in SdkOrders : Deviators(flag, order) = {order[2]}
               ELSE Cardinality(named) = 1

(* The matrix and the divergence table, computed by two programs from the   *)
(* same file, agree: a code split of the matrix is a row of the table, and  *)
(* a row of the table is a split of the matrix (build_matrix, analyze).     *)
MatrixAgreesWithTable ==
  report.done =>
    \A i \in DOMAIN vectors :
      LET row == \E r \in report.rejections : r.fixture = i
      IN  /\ DivergenceClass(i) = "code" => row
          /\ row => DivergenceClass(i) # "none"

\* The body says what the exit says, as a passing SDK's exit is the fixture's.
BodyFitsExit(i, c) ==
  IF vectors[i].exit = Accept THEN c.code = NoCode ELSE ~c.accepted

(* A split the report calls substantive is one the runner failed somebody   *)
(* for: SDKs that all passed, with bodies that fit their exits, differ in   *)
(* the code at most (the legend of render_html, behavior_cell).             *)
BehaviorSplitsAreFailures ==
  report.done =>
    \A i \in DOMAIN vectors :
      (\A s \in Ran(i) : /\ cells[i][s].status = "pass"
                         /\ BodyFitsExit(i, cells[i][s]))
      => DivergenceClass(i) # "behavior"

(* Where every reject fixture that pins a code lists no other, a tick in    *)
(* the code's row means that the SDK named that very code, and a dot that   *)
(* it was never asked (_render_coverage_section, over the runner's gate and *)
(* verdict and the lookup table of whatever walk).                          *)
CoverageIsEarned ==
  report.done =>
    \A code \in UNION {vectors[i].codes : i \in DOMAIN vectors} : \A s \in Sdks :
      /\ \A i \in Pinning(code) : vectors[i].codes = {code} /\ vectors[i].exit = Reject
      => /\ CoverageCell(code, s) = "pass" =>
              \E i \in Pinning(code) : cells[i][s].code = code
         /\ CoverageCell(code, s) = "skip" =>
              \A i \in Pinning(code) : s \notin Ran(i)

=============================================================================
