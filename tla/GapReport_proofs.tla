-------------------------- MODULE GapReport_proofs --------------------------
(***************************************************************************)
(* Proofs about GapReport, for any recorded run and every order in which    *)
(* the walk yields the manifests.                                           *)
(***************************************************************************)
EXTENDS GapReport, Divergence_proofs, LeastElement, FiniteSetTheorems

(* A result that names a code is of an SDK that was run and answered: a     *)
(* skip and an answer that could not be read are kept without a body.       *)
LEMMA CodeIsOfAnswer ==
  ASSUME NEW fx, NEW have, NEW c \in ResultsOf(fx, have), c.code # NoCode
  PROVE  BehaviorCell(c) = "reject"
<1>1. PICK a : /\ c.status = Verdict(fx, a)
               /\ c.code = IF a.body = "object" THEN a.code ELSE NoCode
               /\ Supported(fx, "base", have)
  BY DEF ResultsOf, FixtureResults
<1>2. a.body = "object"
  BY <1>1
<1>3. Verdict(fx, a) \in {"pass", "fail", "raise"}
  BY <1>2 DEF Verdict
<1>4. QED
  BY <1>1, <1>3 DEF BehaviorCell

(* A cell filed as a reject names a code.                                   *)
LEMMA RejectHasCode ==
  ASSUME NEW c, BehaviorCell(c) = "reject"
  PROVE  c.code # NoCode /\ c.status \notin {"skip", "error"}
BY DEF BehaviorCell

(* The SDKs filed as rejecting a fixture are those that emitted a code.     *)
LEMMA RejectingEmit ==
  ASSUME TablesInv, NEW i \in DOMAIN vectors
  PROVE  /\ {t \in Sdks : BehaviorCell(cells[i][t]) = "reject"} = DOMAIN Emitted(i)
         /\ \A s \in DOMAIN Emitted(i) : Emitted(i)[s] = cells[i][s].code
         /\ DOMAIN Emitted(i) \subseteq Ran(i)
<1>1. \A t \in Sdks : cells[i][t] \in ResultsOf(vectors[i], caps[t])
  BY DEF TablesInv
<1>2. \A t \in Sdks : BehaviorCell(cells[i][t]) = "reject" <=> cells[i][t].code # NoCode
  BY <1>1, CodeIsOfAnswer, RejectHasCode
<1>3. QED
  BY <1>2, RejectHasCode DEF Emitted, Ran

(* The behaviour matrix and the divergence table agree on the code splits.  *)
THEOREM MatrixAgrees == Spec => []MatrixAgreesWithTable
<1>1. TablesInv => MatrixAgreesWithTable
  <2> SUFFICES ASSUME TablesInv, report.done, NEW i \in DOMAIN vectors
               PROVE  /\ DivergenceClass(i) = "code" =>
                           \E r \in report.rejections : r.fixture = i
                      /\ (\E r \in report.rejections : r.fixture = i) =>
                           DivergenceClass(i) # "none"
    BY DEF MatrixAgreesWithTable
  <2>1. (\E r \in report.rejections : r.fixture = i)
          <=> \E s, t \in DOMAIN Emitted(i) : Emitted(i)[s] # Emitted(i)[t]
    <3> DEFINE split(j) == \E s, t \in DOMAIN Emitted(j) : Emitted(j)[s] # Emitted(j)[t]
               row(j) == [fixture |-> j, allowed |-> AllowedFor(vectors[j]),
                          emitted |-> Emitted(j)]
    <3>1. report.rejections = {row(j) : j \in {k \in DOMAIN vectors : split(k)}}
      BY DEF TablesInv, RejectionDivergences
    <3>2. \A j : row(j).fixture = j
      OBVIOUS
    <3> HIDE DEF split, row
    <3>3. (\E r \in report.rejections : r.fixture = i) <=> split(i)
      BY <3>1, <3>2
    <3>4. QED
      BY <3>3 DEF split
  <2>2. Several(CodesNamed(i))
          <=> \E s, t \in DOMAIN Emitted(i) : Emitted(i)[s] # Emitted(i)[t]
    <3>1. CodesNamed(i) = {cells[i][s].code : s \in DOMAIN Emitted(i)}
      BY RejectingEmit DEF CodesNamed
    <3>2. \A s \in DOMAIN Emitted(i) : Emitted(i)[s] = cells[i][s].code
      BY RejectingEmit
    <3> DEFINE code(s) == cells[i][s].code
    <3>3. CodesNamed(i) = {code(s) : s \in DOMAIN Emitted(i)}
      BY <3>1
    <3>4. \A s \in DOMAIN Emitted(i) : Emitted(i)[s] = code(s)
      BY <3>2
    <3> HIDE DEF code
    <3>5. QED
      BY <3>3, <3>4 DEF Several
  <2>3. Several(CodesNamed(i)) => "reject" \in Outcomes(i)
    <3>1. ASSUME NEW s \in DOMAIN Emitted(i) PROVE "reject" \in Outcomes(i)
      <4>1. s \in Ran(i) /\ BehaviorCell(cells[i][s]) = "reject"
        BY RejectingEmit
      <4>2. QED
        BY <4>1 DEF Outcomes
    <3>2. QED
      BY <2>2, <3>1
  <2>4. "reject" \in Outcomes(i) => Several(Outcomes(i)) \/ Outcomes(i) = {"reject"}
    BY DEF Several
  <2>5. QED
    BY <2>1, <2>2, <2>3, <2>4 DEF DivergenceClass
<1>2. QED
  BY <1>1, TablesCorrect, PTL

(* A split between accepting and rejecting or failing to answer is one the  *)
(* runner failed somebody for, if bodies fit exits.                         *)
THEOREM BehaviorSplitsFail == Spec => []BehaviorSplitsAreFailures
<1>1. BehaviorSplitsAreFailures
  <2> SUFFICES ASSUME NEW i \in DOMAIN vectors,
                      \A s \in Ran(i) : /\ cells[i][s].status = "pass"
                                        /\ BodyFitsExit(i, cells[i][s]),
                      Several(Outcomes(i))
               PROVE  FALSE
    BY DEF BehaviorSplitsAreFailures, DivergenceClass
  <2>1. Outcomes(i) \subseteq IF vectors[i].exit = Accept THEN {"accept"} ELSE {"reject"}
    BY DEF Outcomes, BehaviorCell, BodyFitsExit
  <2>2. QED
    BY <2>1 DEF Several
<1>2. QED
  BY <1>1, PTL

(* An SDK passes a reject fixture that lists codes by naming one of them.   *)
LEMMA PassNamesCode ==
  ASSUME NEW fx, NoCode \notin fx.codes, fx.exit = Reject, fx.codes # {},
         NEW have, NEW c \in ResultsOf(fx, have), c.status = "pass"
  PROVE  c.code \in fx.codes
<1>1. PICK a \in Answers : /\ Verdict(fx, a) = "pass"
                           /\ c.code = IF a.body = "object" THEN a.code ELSE NoCode
  BY DEF ResultsOf, FixtureResults
<1>2. CodeAccepted(fx, a)
  BY <1>1 DEF Verdict, Passes, Reject, Accept
<1>3. a.code \in fx.codes
  BY <1>2 DEF CodeAccepted
<1>4. QED
  BY <1>1, <1>3, CodesAssumption

(* A tick in the coverage table of a code that its fixtures list alone is   *)
(* earned with that code, and a dot means the SDK was never asked.          *)
THEOREM CoverageEarned == Spec => []CoverageIsEarned
<1>1. LookupInv /\ TablesInv => CoverageIsEarned
  <2> SUFFICES ASSUME LookupInv, TablesInv, NEW code, NEW s \in Sdks,
                      \A i \in Pinning(code) :
                        vectors[i].codes = {code} /\ vectors[i].exit = Reject
               PROVE  /\ CoverageCell(code, s) = "pass" =>
                           \E i \in Pinning(code) : cells[i][s].code = code
                      /\ CoverageCell(code, s) = "skip" =>
                           \A i \in Pinning(code) : s \notin Ran(i)
    BY DEF CoverageIsEarned
  <2>1. ASSUME CoverageCell(code, s) = "pass"
        PROVE  \E i \in Pinning(code) : cells[i][s].code = code
    <3>1. PICK i \in Pinning(code) : cells[i][s].status = "pass"
      BY <2>1 DEF CoverageCell
    <3>2. cells[i][s] \in ResultsOf(vectors[i], caps[s])
      BY DEF Pinning, TablesInv
    <3>3. cells[i][s].code \in vectors[i].codes
      BY <3>1, <3>2, PassNamesCode, CodesAssumption DEF LookupInv, Pinning
    <3>4. QED
      BY <3>3
  <2>2. ASSUME CoverageCell(code, s) = "skip", NEW i \in Pinning(code)
        PROVE  s \notin Ran(i)
    <3>1. cells[i][s] \in ResultsOf(vectors[i], caps[s])
      BY DEF Pinning, TablesInv
    <3>2. cells[i][s].status \in {"pass", "fail", "error", "skip"}
      BY <3>1 DEF ResultsOf, FixtureResults, Verdict
    <3>3. cells[i][s].status \notin {"pass", "fail", "error"}
      BY <2>2 DEF CoverageCell
    <3>4. QED
      BY <3>2, <3>3 DEF Ran
  <2>3. QED
    BY <2>1, <2>2
<1>2. QED
  BY <1>1, LookupCorrect, TablesCorrect, PTL

-----------------------------------------------------------------------------
(* The order of the SDKs                                                    *)

\* The SDKs that hold a value most hold.
Largest(flag) ==
  {t \in Declaring(flag) :
     \A u \in Declaring(flag) :
       Cardinality(Agreeing(flag, u)) <= Cardinality(Agreeing(flag, t))}

(* The SDKs of a results.json can be counted.                               *)
LEMMA SdksFinite == Spec => []IsFiniteSet(Sdks)
<1>1. Init => IsFiniteSet(Sdks)
  BY SdksAssumption DEF Init, Sdks
<1>2. IsFiniteSet(Sdks) /\ [Next]_vars => IsFiniteSet(Sdks)'
  BY DEF Next, vars, ReadManifest, MissManifest, Analyze, AnalyzeRaises, Sdks
<1>3. QED
  BY <1>1, <1>2, PTL DEF Spec

(* The SDKs that declare a capability fall into classes of one value each.  *)
LEMMA ClassesOfOneValue ==
  ASSUME IsFiniteSet(Sdks), NEW flag,
         NEW s \in Declaring(flag), NEW t \in Declaring(flag)
  PROVE  /\ s \in Agreeing(flag, s)
         /\ t \in Agreeing(flag, s) => Agreeing(flag, t) = Agreeing(flag, s)
         /\ t \notin Agreeing(flag, s) =>
              Agreeing(flag, t) \cap Agreeing(flag, s) = {}
         /\ Agreeing(flag, s) \subseteq Declaring(flag)
         /\ IsFiniteSet(Declaring(flag)) /\ IsFiniteSet(Agreeing(flag, s))
         /\ Cardinality(Declaring(flag)) \in Nat
         /\ Cardinality(Agreeing(flag, s)) \in Nat
         /\ Cardinality(Agreeing(flag, s)) <= Cardinality(Declaring(flag))
<1>1. Declaring(flag) \in SUBSET Sdks
  BY DEF Declaring
<1>2. IsFiniteSet(Declaring(flag))
  BY <1>1, FS_Subset
<1>3. Agreeing(flag, s) \in SUBSET Declaring(flag)
  BY DEF Agreeing
<1>4. /\ IsFiniteSet(Agreeing(flag, s))
      /\ Cardinality(Agreeing(flag, s)) <= Cardinality(Declaring(flag))
  BY <1>2, <1>3, FS_Subset
<1>5. /\ Cardinality(Declaring(flag)) \in Nat
      /\ Cardinality(Agreeing(flag, s)) \in Nat
  BY <1>2, <1>4, FS_CardinalityType
<1>6. QED
  BY <1>2, <1>3, <1>4, <1>5 DEF Agreeing

(* The SDKs can be listed, and a list names each of them once.              *)
LEMMA ListsExist ==
  ASSUME IsFiniteSet(Sdks)
  PROVE  /\ SdkOrders # {}
         /\ \A order \in SdkOrders : \A s \in Sdks :
              \E i \in DOMAIN order : order[i] = s
<1> DEFINE n == Cardinality(Sdks)
<1>1. n \in Nat /\ ExistsBijection(1..n, Sdks)
  BY FS_CardinalityType
<1>2. PICK f : f \in Bijection(1..n, Sdks)
  BY <1>1 DEF ExistsBijection
<1>3. f \in SdkOrders
  BY <1>2 DEF Bijection, Injection, IsInjective, SdkOrders
<1>4. ASSUME NEW order \in SdkOrders PROVE order \in Surjection(1..n, Sdks)
  <2>1. order \in Injection(1..n, Sdks)
    BY <1>4 DEF SdkOrders, Injection, IsInjective
  <2>2. IsFiniteSet(1..n) /\ Cardinality(1..n) = n
    BY <1>1, FS_Interval
  <2>3. QED
    BY <2>1, <2>2, FS_Injection
<1>5. ASSUME NEW order \in SdkOrders, NEW s \in Sdks
      PROVE  \E i \in DOMAIN order : order[i] = s
  BY <1>4, <1>5 DEF Surjection, SdkOrders
<1>6. QED
  BY <1>3, <1>5

(* In a list of the SDKs every value declared is met first somewhere.       *)
LEMMA FirstMetIs ==
  ASSUME IsFiniteSet(Sdks), NEW flag, NEW s \in Declaring(flag),
         NEW order \in SdkOrders
  PROVE  /\ FirstMet(flag, s, order) \in 1..Cardinality(Sdks)
         /\ order[FirstMet(flag, s, order)] \in Agreeing(flag, s)
         /\ \A j \in 1..(FirstMet(flag, s, order) - 1) :
              order[j] \notin Agreeing(flag, s)
<1> DEFINE M == {i \in DOMAIN order : order[i] \in Agreeing(flag, s)}
<1>1. DOMAIN order = 1..Cardinality(Sdks) /\ Cardinality(Sdks) \in Nat
  BY FS_CardinalityType DEF SdkOrders
<1>2. M # {}
  <2>1. s \in Sdks /\ s \in Agreeing(flag, s)
    BY DEF Declaring, Agreeing
  <2>2. QED
    BY <2>1, ListsExist
<1>3. M \subseteq Nat
  BY <1>1
<1>4. PICK i \in M : \A j \in M : i <= j
  <2> HIDE DEF M
  <2> QED BY <1>2, <1>3, LeastNat
<1>5. \A j \in 1..(i - 1) : order[j] \notin Agreeing(flag, s)
  BY <1>1, <1>4
<1>6. QED
  BY <1>1, <1>4, <1>5 DEF FirstMet

(* Some value is held by as many SDKs as any other.                         *)
LEMMA LargestExists ==
  ASSUME IsFiniteSet(Sdks), NEW flag, Declaring(flag) # {}
  PROVE  Largest(flag) # {}
<1> DEFINE votes(u) == Cardinality(Agreeing(flag, u))
           V == {votes(u) : u \in Declaring(flag)}
           n == Cardinality(Declaring(flag))
<1>1. \A u \in Declaring(flag) : votes(u) \in Nat /\ votes(u) <= n /\ n \in Nat
  BY ClassesOfOneValue
<1>2. PICK m \in V : \A k \in V : k <= m
  <2>1. V \subseteq Nat /\ V # {} /\ n \in Nat /\ \A k \in V : k <= n
    BY <1>1
  <2> HIDE DEF V, n
  <2>2. QED
    BY <2>1, GreatestNat
<1>3. PICK t \in Declaring(flag) : m = votes(t)
  OBVIOUS
<1>4. QED
  BY <1>2, <1>3 DEF Largest

(* The consensus is a class of the largest size, whichever the order picks. *)
LEMMA ConsensusIsLargest ==
  ASSUME IsFiniteSet(Sdks), NEW flag, Declaring(flag) # {},
         NEW order \in SdkOrders
  PROVE  \E t \in Largest(flag) :
           ConsensusHolders(flag, order) = Agreeing(flag, t)
<1> DEFINE votes(u) == Cardinality(Agreeing(flag, u))
           first(u) == FirstMet(flag, u, order)
           F == {first(u) : u \in Largest(flag)}
<1>1. /\ Largest(flag) \subseteq Declaring(flag)
      /\ \A u \in Declaring(flag) : first(u) \in Nat /\ votes(u) \in Nat
  BY FirstMetIs, ClassesOfOneValue, FS_CardinalityType DEF Largest
<1>2. PICK t \in Largest(flag) : \A u \in Largest(flag) : first(t) <= first(u)
  <2>1. F \subseteq Nat /\ F # {}
    BY <1>1, LargestExists
  <2>2. PICK k \in F : \A m \in F : k <= m
    <3> HIDE DEF F
    <3> QED BY <2>1, LeastNat
  <2>3. QED
    BY <2>2
<1>3. /\ \A u \in Declaring(flag) : votes(u) <= votes(t)
      /\ \A u \in Declaring(flag) : votes(u) = votes(t) => u \in Largest(flag)
      /\ t \in Declaring(flag)
  BY DEF Largest
<1>4. ASSUME NEW u \in Agreeing(flag, t) PROVE u \in ConsensusHolders(flag, order)
  <2>1. u \in Declaring(flag) /\ Agreeing(flag, u) = Agreeing(flag, t)
    BY <1>3, ClassesOfOneValue
  <2>2. votes(u) = votes(t) /\ first(u) = first(t)
    BY <2>1 DEF FirstMet
  <2> HIDE DEF votes, first
  <2>3. \A v \in Declaring(flag) :
          votes(u) > votes(v) \/ (votes(u) = votes(v) /\ first(u) <= first(v))
    BY <1>1, <1>2, <1>3, <2>2
  <2>4. QED
    BY <2>1, <2>3 DEF ConsensusHolders, votes, first
<1>5. ASSUME NEW u \in ConsensusHolders(flag, order) PROVE u \in Agreeing(flag, t)
  <2>1. u \in Declaring(flag)
        /\ (votes(u) > votes(t) \/ (votes(u) = votes(t) /\ first(u) <= first(t)))
    BY <1>3 DEF ConsensusHolders
  <2> HIDE DEF votes, first
  <2>2. votes(u) = votes(t) /\ first(u) = first(t)
    BY <1>1, <1>2, <1>3, <2>1
  <2>3. /\ order[first(u)] \in Agreeing(flag, u)
        /\ order[first(t)] \in Agreeing(flag, t)
    BY <1>3, <2>1, FirstMetIs DEF first
  <2>4. QED
    BY <1>3, <2>1, <2>2, <2>3, ClassesOfOneValue
<1>6. ConsensusHolders(flag, order) = Agreeing(flag, t)
  BY <1>4, <1>5
<1>7. QED
  BY <1>2, <1>6

(* How many deviate is the same whatever the order.                         *)
LEMMA DeviatorsCounted ==
  ASSUME IsFiniteSet(Sdks), NEW flag, NEW t \in Largest(flag),
         NEW order \in SdkOrders
  PROVE  Cardinality(Deviators(flag, order)) =
           Cardinality(Declaring(flag)) - Cardinality(Agreeing(flag, t))
<1>1. t \in Declaring(flag)
  BY DEF Largest
<1>2. PICK u \in Largest(flag) :
        ConsensusHolders(flag, order) = Agreeing(flag, u)
  BY <1>1, ConsensusIsLargest
<1>3. /\ u \in Declaring(flag)
      /\ Cardinality(Agreeing(flag, u)) <= Cardinality(Agreeing(flag, t))
      /\ Cardinality(Agreeing(flag, t)) <= Cardinality(Agreeing(flag, u))
  BY DEF Largest
<1>4. /\ IsFiniteSet(Declaring(flag)) /\ Agreeing(flag, u) \subseteq Declaring(flag)
      /\ Cardinality(Agreeing(flag, u)) \in Nat
      /\ Cardinality(Agreeing(flag, t)) \in Nat
  BY <1>1, <1>3, ClassesOfOneValue
<1>5. Cardinality(Agreeing(flag, u)) = Cardinality(Agreeing(flag, t))
  BY <1>3, <1>4
<1>6. Declaring(flag) \cap Agreeing(flag, u) = Agreeing(flag, u)
  BY <1>4
<1>7. Cardinality(Declaring(flag) \ Agreeing(flag, u)) =
        Cardinality(Declaring(flag)) - Cardinality(Declaring(flag) \cap Agreeing(flag, u))
  BY <1>4, FS_Difference
<1>8. QED
  BY <1>2, <1>5, <1>6, <1>7 DEF Deviators

(* Where fewer than half deviate, the order does not choose who.            *)
LEMMA MajorityIsOne ==
  ASSUME IsFiniteSet(Sdks), NEW flag, Declaring(flag) # {},
         NEW o1 \in SdkOrders, NEW o2 \in SdkOrders,
         2 * Cardinality(Deviators(flag, o1)) < Cardinality(Declaring(flag))
  PROVE  Deviators(flag, o1) = Deviators(flag, o2)
<1>1. PICK t \in Largest(flag) : ConsensusHolders(flag, o1) = Agreeing(flag, t)
  BY ConsensusIsLargest
<1>2. PICK u \in Largest(flag) : ConsensusHolders(flag, o2) = Agreeing(flag, u)
  BY ConsensusIsLargest
<1> DEFINE n == Cardinality(Declaring(flag))
           a == Cardinality(Agreeing(flag, t))
           b == Cardinality(Agreeing(flag, u))
           d == Cardinality(Deviators(flag, o1))
<1>3. t \in Declaring(flag) /\ u \in Declaring(flag) /\ a <= b
  BY DEF Largest
<1>4. /\ IsFiniteSet(Declaring(flag))
      /\ Agreeing(flag, t) \subseteq Declaring(flag)
      /\ Agreeing(flag, u) \subseteq Declaring(flag)
      /\ n \in Nat /\ a \in Nat /\ b \in Nat
  BY <1>3, ClassesOfOneValue
<1>5. a + b > n
  <2>1. d = n - a /\ 2 * d < n
    BY DeviatorsCounted
  <2> HIDE DEF n, a, b, d
  <2>2. QED
    BY <1>3, <1>4, <2>1
<1>6. Agreeing(flag, t) \cap Agreeing(flag, u) # {}
  BY <1>4, <1>5, FS_MajoritiesIntersect
<1>7. Agreeing(flag, t) = Agreeing(flag, u)
  BY <1>3, <1>6, ClassesOfOneValue
<1>8. QED
  BY <1>1, <1>2, <1>7 DEF Deviators

(* Of two SDKs that differ the consensus is the one listed first.           *)
LEMMA SecondOfTwoDeviates ==
  ASSUME IsFiniteSet(Sdks), Cardinality(Sdks) = 2,
         NEW flag, flag \in CapabilityDivergences, NEW order \in SdkOrders
  PROVE  Deviators(flag, order) = {order[2]}
<1>1. PICK s \in Declaring(flag), t \in Declaring(flag) :
        caps[s].flags[flag] # caps[t].flags[flag]
  BY DEF CapabilityDivergences, Declaring
<1>2. /\ DOMAIN order = 1..2 /\ 1 \in 1..2 /\ 2 \in 1..2
      /\ order[1] \in Sdks /\ order[2] \in Sdks /\ order[1] # order[2]
  BY DEF SdkOrders
<1>3. Sdks = {order[1], order[2]}
  <2>1. ASSUME NEW x \in Sdks PROVE x \in {order[1], order[2]}
    <3>1. PICK i \in DOMAIN order : order[i] = x
      BY ListsExist
    <3>2. i = 1 \/ i = 2
      BY <1>2
    <3>3. QED
      BY <3>1, <3>2
  <2>2. QED
    BY <1>2, <2>1
<1>4. /\ s \in Sdks /\ t \in Sdks /\ s # t
      /\ Declaring(flag) = {order[1], order[2]}
      /\ caps[order[1]].flags[flag] # caps[order[2]].flags[flag]
  BY <1>1, <1>3 DEF Declaring
<1>5. /\ Agreeing(flag, order[1]) = {order[1]}
      /\ Agreeing(flag, order[2]) = {order[2]}
  BY <1>4 DEF Agreeing
<1>6. /\ Cardinality(Agreeing(flag, order[1])) = 1
      /\ Cardinality(Agreeing(flag, order[2])) = 1
  BY <1>5, FS_Singleton
<1>7. FirstMet(flag, order[1], order) = 1 /\ FirstMet(flag, order[2], order) = 2
  <2>1. ASSUME NEW k \in {1, 2} PROVE FirstMet(flag, order[k], order) = k
    <3>1. /\ FirstMet(flag, order[k], order) \in 1..2
          /\ order[FirstMet(flag, order[k], order)] \in {order[k]}
      BY <1>4, <1>5, FirstMetIs
    <3>2. QED
      BY <1>2, <3>1
  <2>2. QED
    BY <2>1
<1>8. ConsensusHolders(flag, order) = {order[1]}
  BY <1>4, <1>6, <1>7 DEF ConsensusHolders
<1>9. QED
  BY <1>2, <1>4, <1>8 DEF Deviators

(* A divergent capability is declared by two SDKs at least.                 *)
LEMMA TwoDeclare ==
  ASSUME IsFiniteSet(Sdks), NEW flag, flag \in CapabilityDivergences
  PROVE  Declaring(flag) # {} /\ Cardinality(Declaring(flag)) >= 2
<1>1. PICK s \in Declaring(flag), t \in Declaring(flag) : s # t
  BY DEF CapabilityDivergences, Declaring
<1>2. IsFiniteSet(Declaring(flag)) /\ Cardinality(Declaring(flag)) \in Nat
  BY ClassesOfOneValue
<1>3. Cardinality(Declaring(flag)) # 0
  BY <1>1, <1>2, FS_EmptySet
<1>4. Cardinality(Declaring(flag)) # 1
  BY <1>1, <1>2, FS_Singleton
<1>5. QED
  BY <1>1, <1>2, <1>3, <1>4

(* The kind of a divergent capability does not depend on the order.         *)
LEMMA KindIgnoresOrder ==
  ASSUME IsFiniteSet(Sdks), NEW flag, flag \in CapabilityDivergences,
         NEW o1 \in SdkOrders, NEW o2 \in SdkOrders
  PROVE  Kind(flag, o1) = Kind(flag, o2)
<1>1. PICK t : t \in Largest(flag)
  BY TwoDeclare, LargestExists
<1>2. Cardinality(Deviators(flag, o1)) = Cardinality(Deviators(flag, o2))
  BY <1>1, DeviatorsCounted
<1>3. QED
  BY <1>2 DEF Kind

(* Those to fix are the same whoever was listed first, except between two.  *)
LEMMA NamedIgnoreOrder ==
  ASSUME IsFiniteSet(Sdks), NEW flag, flag \in CapabilityDivergences,
         NEW o1 \in SdkOrders, NEW o2 \in SdkOrders,
         Kind(flag, o1) \in {"lone-deviator", "minority"}, Cardinality(Sdks) # 2
  PROVE  Deviators(flag, o1) = Deviators(flag, o2)
<1> DEFINE n == Cardinality(Declaring(flag))
           d == Cardinality(Deviators(flag, o1))
<1>1. Declaring(flag) = Sdks
  BY DEF Kind
<1>2. n \in Nat /\ n >= 2 /\ n # 2 /\ Declaring(flag) # {}
  BY <1>1, TwoDeclare, FS_CardinalityType
<1>3. d = 1 \/ 2 * d < n
  BY DEF Kind
<1>4. 2 * d < n
  <2> HIDE DEF n, d
  <2> QED BY <1>2, <1>3
<1>5. QED
  BY <1>2, <1>4, MajorityIsOne

(* The leaderboard files a capability under the same kind and names the     *)
(* same SDKs to fix in whatever order the SDKs were listed; between two     *)
(* SDKs it names the second.                                                *)
THEOREM OrderMakesNoDifference == Spec => []TargetsIgnoreOrder
<1>1. TablesInv /\ IsFiniteSet(Sdks) => TargetsIgnoreOrder
  <2> SUFFICES ASSUME TablesInv, IsFiniteSet(Sdks), report.done,
                      NEW flag \in report.flags
               PROVE  LET kinds == {Kind(flag, order) : order \in SdkOrders}
                          named == {Deviators(flag, order) : order \in SdkOrders}
                      IN  /\ Cardinality(kinds) = 1
                          /\ kinds \subseteq {"lone-deviator", "minority"} =>
                               IF Cardinality(Sdks) = 2
                               THEN \A order \in SdkOrders :
                                      Deviators(flag, order) = {order[2]}
                               ELSE Cardinality(named) = 1
    BY DEF TargetsIgnoreOrder
  <2> DEFINE kinds == {Kind(flag, order) : order \in SdkOrders}
             named == {Deviators(flag, order) : order \in SdkOrders}
  <2>1. flag \in CapabilityDivergences
    BY DEF TablesInv
  <2>2. PICK o : o \in SdkOrders
    BY ListsExist
  <2>3. kinds = {Kind(flag, o)}
    BY <2>1, <2>2, KindIgnoresOrder
  <2>4. Cardinality(kinds) = 1
    BY <2>3, FS_Singleton
  <2>5. ASSUME kinds \subseteq {"lone-deviator", "minority"}, Cardinality(Sdks) # 2
        PROVE  Cardinality(named) = 1
    <3>1. Kind(flag, o) \in {"lone-deviator", "minority"}
      BY <2>3, <2>5
    <3>2. \A order \in SdkOrders : Deviators(flag, order) = Deviators(flag, o)
      BY <2>1, <2>2, <2>5, <3>1, NamedIgnoreOrder
    <3>3. named = {Deviators(flag, o)}
      BY <2>2, <3>2
    <3>4. QED
      BY <3>3, FS_Singleton
  <2>6. ASSUME Cardinality(Sdks) = 2, NEW order \in SdkOrders
        PROVE  Deviators(flag, order) = {order[2]}
    BY <2>1, <2>6, SecondOfTwoDeviates
  <2>7. QED
    BY <2>4, <2>5, <2>6
<1>2. QED
  BY <1>1, TablesCorrect, SdksFinite, PTL
=============================================================================
