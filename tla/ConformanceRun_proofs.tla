----------------------- MODULE ConformanceRun_proofs -----------------------
(***************************************************************************)
(* Proofs about ConformanceRun, for any number of processes, SDKs and       *)
(* vectors trees.                                                           *)
(***************************************************************************)
EXTENDS ConformanceRun, TLAPS

-----------------------------------------------------------------------------
(* Types                                                                    *)

(* What run_fixture hands back is a status or an exception.                 *)
LEMMA VerdictType ==
  ASSUME NEW fx, NEW a
  PROVE  Verdict(fx, a) \in {"pass", "fail", "error", "raise"}
BY DEF Verdict

(* The cell a pair is stored in is one of the grid's.                       *)
LEMMA KeyType ==
  ASSUME NEW pair \in Pairs
  PROVE  /\ pair = <<pair[1], pair[2]>>
         /\ pair[1] \in Cases /\ pair[2] \in Sdks
         /\ Key(pair) \in Keys
BY DEF Pairs, Keys, Key, Names

(* Storing a FixtureResult keeps the types of what it touches.              *)
LEMMA RecordType ==
  ASSUME TypeOK, UNCHANGED suite,
         NEW r \in Runs, NEW pair \in todo[r], NEW entry \in Entries,
         Record(r, pair, entry)
  PROVE  /\ results' \in [Runs -> [Keys -> Entries]]'
         /\ todo' \in [Runs -> SUBSET Pairs]'
         /\ bad' \in [Runs -> SUBSET Pairs]'
<1>1. pair \in Pairs
  BY DEF TypeOK
<1>2. Keys' = Keys /\ Pairs' = Pairs /\ Entries' = Entries
  BY DEF Keys, Pairs, Cases, Entries
<1>3. Key(pair) \in Keys
  BY <1>1, KeyType
<1>4. results' \in [Runs -> [Keys -> Entries]]
  BY <1>3 DEF TypeOK, Record
<1>5. todo' \in [Runs -> SUBSET Pairs]
  BY DEF TypeOK, Record
<1>6. bad' \in [Runs -> SUBSET Pairs]
  BY <1>1 DEF TypeOK, Record
<1>7. QED
  BY <1>2, <1>4, <1>5, <1>6

(* An entry that carries no answer is well typed.                           *)
LEMMA BlankType ==
  /\ Blank \in Entries
  /\ \A s \in Statuses : [Blank EXCEPT !.status = s] \in Entries
BY DEF Blank, Entries, Exits, Codes

(* Every first state is well typed.                                         *)
LEMMA InitType == Init => TypeOK
<1> SUFFICES ASSUME Init PROVE TypeOK
  OBVIOUS
<1>1. results \in [Runs -> [Keys -> Entries]]
  BY BlankType DEF Init
<1>2. 0 \in Stamps /\ 1 \in Stamps
  BY ClockAssumption DEF Stamps
<1>3. json \in [Stamps -> Texts] /\ md \in [Stamps -> Texts]
  BY DEF Init, Texts
<1>4. QED
  BY <1>1, <1>2, <1>3 DEF Init, TypeOK, PCs, Outcomes

(* Every step of cmd_run keeps the types.                                   *)
LEMMA NextType == TypeOK /\ [Next]_vars => TypeOK'
<1> SUFFICES ASSUME TypeOK, [Next]_vars PROVE TypeOK'
  OBVIOUS
<1>a. suite' = suite
  <2>1. ASSUME NEW r \in Runs, HarnessStep(r) PROVE suite' = suite
    <3>1. CASE CapabilitiesFail(r) \/ DiscoverFixtures(r) \/ SkipPair(r)
                 \/ AskSdk(r) \/ PlanRaises(r) \/ SdkTimesOut(r)
      BY <3>1 DEF CapabilitiesFail, DiscoverFixtures, SkipPair, AskSdk,
                  PlanRaises, SdkTimesOut
    <3>2. CASE MakeOutDir(r) \/ OpenJson(r) \/ WriteJson(r) \/ OpenMd(r)
                 \/ WriteMd(r)
      BY <3>2 DEF MakeOutDir, OpenJson, WriteJson, OpenMd, WriteMd
    <3>3. CASE LookAtLatest(r) \/ UnlinkLatest(r) \/ LinkLatest(r)
                 \/ PublishRaises(r) \/ Conclude(r)
      BY <3>3 DEF LookAtLatest, UnlinkLatest, LinkLatest, PublishRaises,
                  Conclude
    <3>4. QED
      BY <2>1, <3>1, <3>2, <3>3 DEF HarnessStep
  <2>2. ASSUME NEW r \in Runs,
               Start(r) \/ LoadCapabilities(r) \/ SdkAnswers(r)
                 \/ AnswerRaises(r) \/ Kill(r)
        PROVE  suite' = suite
    BY <2>2 DEF Start, LoadCapabilities, SdkAnswers, AnswerRaises, Kill
  <2>3. CASE Tick \/ UNCHANGED vars
    BY <2>3 DEF Tick, vars
  <2>4. QED
    BY <2>1, <2>2, <2>3 DEF Next
<1>b. Keys' = Keys /\ Pairs' = Pairs
  BY <1>a DEF Keys, Pairs, Cases
<1> USE <1>a, <1>b DEF Goto, End, files
<1>1. CASE Tick
  BY <1>1, ClockAssumption DEF Tick, TypeOK, Stamps
<1>2. ASSUME NEW r \in Runs, Start(r) PROVE TypeOK'
  BY <1>2 DEF Start, TypeOK, PCs
<1>3. ASSUME NEW r \in Runs, LoadCapabilities(r) PROVE TypeOK'
  <2>1. caps' \in [Runs -> Seq(Declarations)]
    BY <1>3 DEF LoadCapabilities, TypeOK
  <2>2. QED
    BY <1>3, <2>1 DEF LoadCapabilities, TypeOK, PCs
<1>4. ASSUME NEW r \in Runs, CapabilitiesFail(r) PROVE TypeOK'
  BY <1>4 DEF CapabilitiesFail, TypeOK, Outcomes
<1>5. ASSUME NEW r \in Runs, DiscoverFixtures(r) PROVE TypeOK'
  BY <1>5 DEF DiscoverFixtures, TypeOK, Outcomes, PCs
<1>6. ASSUME NEW r \in Runs, SkipPair(r) PROVE TypeOK'
  <2>1. PICK pair \in todo[r] : Record(r, pair, [Blank EXCEPT !.status = "skip"])
    BY <1>6 DEF SkipPair
  <2>2. [Blank EXCEPT !.status = "skip"] \in Entries
    BY BlankType DEF Statuses
  <2>3. QED
    BY <1>6, <2>1, <2>2, RecordType DEF SkipPair, TypeOK
<1>7. ASSUME NEW r \in Runs, AskSdk(r) PROVE TypeOK'
  <2>1. PICK pair \in todo[r] : asked' = [asked EXCEPT ![r] = @ \cup {pair}]
    BY <1>7 DEF AskSdk
  <2>2. asked' \in [Runs -> SUBSET Pairs]
    BY <2>1 DEF TypeOK
  <2>3. QED
    BY <1>7, <2>2 DEF AskSdk, TypeOK, PCs
<1>8. ASSUME NEW r \in Runs, PlanRaises(r) PROVE TypeOK'
  BY <1>8 DEF PlanRaises, TypeOK, Outcomes
<1>9. ASSUME NEW r \in Runs, SdkAnswers(r) PROVE TypeOK'
  <2>1. PICK pair \in todo[r], a \in Answers :
          /\ Verdict(Fixture(pair), a) # "raise"
          /\ Record(r, pair, [status |-> Verdict(Fixture(pair), a),
                              exit |-> a.exit,
                              code |-> IF a.body = "garbage" THEN NoCode
                                       ELSE a.code])
    BY <1>9 DEF SdkAnswers
  <2>2. [status |-> Verdict(Fixture(pair), a), exit |-> a.exit,
         code |-> IF a.body = "garbage" THEN NoCode ELSE a.code] \in Entries
    BY <2>1, VerdictType DEF Entries, Statuses, Exits, Codes
  <2>3. QED
    BY <1>9, <2>1, <2>2, RecordType DEF SdkAnswers, TypeOK, PCs
<1>10. ASSUME NEW r \in Runs, AnswerRaises(r) PROVE TypeOK'
  BY <1>10 DEF AnswerRaises, TypeOK, Outcomes
<1>11. ASSUME NEW r \in Runs, SdkTimesOut(r) PROVE TypeOK'
  <2>1. PICK pair \in todo[r] : Record(r, pair, [Blank EXCEPT !.status = "error"])
    BY <1>11 DEF SdkTimesOut
  <2>2. [Blank EXCEPT !.status = "error"] \in Entries
    BY BlankType DEF Statuses
  <2>3. QED
    BY <1>11, <2>1, <2>2, RecordType DEF SdkTimesOut, TypeOK, PCs
<1>12. ASSUME NEW r \in Runs, MakeOutDir(r) PROVE TypeOK'
  BY <1>12 DEF MakeOutDir, TypeOK, PCs
<1>13. ASSUME NEW r \in Runs, OpenJson(r) PROVE TypeOK'
  BY <1>13 DEF OpenJson, TypeOK, PCs, Texts
<1>14. ASSUME NEW r \in Runs, WriteJson(r) PROVE TypeOK'
  <2>1. PICK text \in Written(r, json[dir[r]]) :
          json' = [json EXCEPT ![dir[r]] = text]
    BY <1>14 DEF WriteJson
  <2>2. text \in Texts
    BY DEF Written, Texts
  <2>3. json' \in [Stamps -> Texts]
    BY <2>1, <2>2 DEF TypeOK
  <2>4. QED
    BY <1>14, <2>3 DEF WriteJson, TypeOK, PCs
<1>15. ASSUME NEW r \in Runs, OpenMd(r) PROVE TypeOK'
  BY <1>15 DEF OpenMd, TypeOK, PCs, Texts
<1>16. ASSUME NEW r \in Runs, WriteMd(r) PROVE TypeOK'
  <2>1. PICK text \in Written(r, md[dir[r]]) :
          md' = [md EXCEPT ![dir[r]] = text]
    BY <1>16 DEF WriteMd
  <2>2. text \in Texts
    BY DEF Written, Texts
  <2>3. md' \in [Stamps -> Texts]
    BY <2>1, <2>2 DEF TypeOK
  <2>4. QED
    BY <1>16, <2>3 DEF WriteMd, TypeOK, PCs
<1>17. ASSUME NEW r \in Runs, LookAtLatest(r) PROVE TypeOK'
  BY <1>17 DEF LookAtLatest, TypeOK, PCs
<1>18. ASSUME NEW r \in Runs, UnlinkLatest(r) PROVE TypeOK'
  BY <1>18 DEF UnlinkLatest, TypeOK, PCs
<1>19. ASSUME NEW r \in Runs, LinkLatest(r) PROVE TypeOK'
  BY <1>19 DEF LinkLatest, TypeOK, PCs
<1>20. ASSUME NEW r \in Runs, PublishRaises(r) PROVE TypeOK'
  BY <1>20 DEF PublishRaises, TypeOK, Outcomes
<1>21. ASSUME NEW r \in Runs, Conclude(r) PROVE TypeOK'
  BY <1>21 DEF Conclude, TypeOK, Outcomes
<1>22. ASSUME NEW r \in Runs, Kill(r) PROVE TypeOK'
  BY <1>22 DEF Kill, TypeOK, Outcomes
<1>23. CASE UNCHANGED vars
  BY <1>23 DEF vars, TypeOK
<1>24. QED
  BY <1>1, <1>2, <1>3, <1>4, <1>5, <1>6, <1>7, <1>8, <1>9, <1>10, <1>11,
     <1>12, <1>13, <1>14, <1>15, <1>16, <1>17, <1>18, <1>19, <1>20, <1>21,
     <1>22, <1>23
  DEF Next, HarnessStep

(* In every behaviour the variables have their types.                       *)
THEOREM TypeCorrect == Spec => []TypeOK
<1>1. QED
  BY InitType, NextType, PTL DEF Spec

-----------------------------------------------------------------------------
(* The output directory                                                     *)

(* The marks are no stamps, no runs and differ from each other.             *)
LEMMA Marks ==
  /\ Nothing \notin Nat /\ Directory \notin Nat /\ Nothing # Directory
  /\ Mixed \notin Runs /\ Nothing \notin Runs
  /\ "partial" \notin Runs /\ "earlier" \notin Runs
BY MarkAssumption

(* Before any run begins the directory holds the earlier report alone.      *)
LEMMA InitPublish == Init => PublishInv
<1> SUFFICES ASSUME Init PROVE PublishInv
  OBVIOUS
<1>1. 0 \in Stamps /\ 1 \in 1 .. MaxClock
  BY ClockAssumption DEF Stamps
<1>2. DirInv
  BY <1>1 DEF Init, DirInv, Publishing
<1>3. ReportInv
  BY <1>1 DEF Init, ReportInv, Published
<1>4. LinkInv
  BY Marks DEF Init, LinkInv, LatestLostOnlyMidSwap, Linked, Stamps
<1>5. EndedInv
  BY DEF Init, EndedInv, Linked
<1>6. ConcludedInv
  BY DEF Init, ConcludedInv
<1>7. QED
  BY <1>2, <1>3, <1>4, <1>5, <1>6 DEF PublishInv

(* A step that leaves the files and the directories alone keeps the claim   *)
(* about the reports if no run is further along in writing them.            *)
LEMMA FilesUntouched ==
  ASSUME PublishInv, UNCHANGED <<dir, json, md>>,
         \A q \in Runs :
           /\ pc'[q] \in {"write json", "write md"} => pc'[q] = pc[q]
           /\ Published(q)' => Published(q)
           /\ pc'[q] \in {"look at latest", "unlink", "link", "conclude"}
                => pc[q] \in {"look at latest", "unlink", "link", "conclude"}
  PROVE  ReportInv'
<1>1. \A s : Unshared(s)' <=> Unshared(s)
  BY DEF Unshared
<1>2. json'[0] = "earlier" /\ md'[0] = "earlier"
  BY DEF PublishInv, ReportInv
<1>3. ASSUME NEW q \in Runs, Unshared(dir[q])
      PROVE  /\ pc'[q] = "write json" => json'[dir[q]] = "partial"
             /\ Published(q)' => json'[dir[q]] = q
             /\ pc'[q] = "write md" => md'[dir[q]] = "partial"
             /\ pc'[q] \in {"look at latest", "unlink", "link", "conclude"}
                  => md'[dir[q]] = q
  BY <1>3 DEF PublishInv, ReportInv
<1>4. QED
  BY <1>1, <1>2, <1>3 DEF ReportInv

(* A step that moves one run between two points before MakeOutDir leaves    *)
(* the directory's invariant alone.                                         *)
LEMMA QuietStep ==
  ASSUME TypeOK, PublishInv, NEW r \in Runs, Alive(r), ~Publishing(r),
         UNCHANGED <<dir, clock, json, md, latest, ended, outcome>>,
         NEW there \in {"load", "discover", "run", "wait"},
         pc' = [pc EXCEPT ![r] = there]
  PROVE  PublishInv'
<1>1. \A q \in Runs :
        /\ Publishing(q)' <=> Publishing(q)
        /\ Published(q)' <=> Published(q)
        /\ Linked(q)' <=> Linked(q)
        /\ Publishing(q) => pc'[q] = pc[q]
        /\ ~Publishing(q) => ~Publishing(q)' /\ pc'[q] \notin {"link", "write json", "write md"}
  BY DEF TypeOK, Publishing, Published, Linked
<1>2. \A s : Unshared(s)' <=> Unshared(s)
  BY DEF Unshared
<1>3. DirInv'
  BY <1>1 DEF PublishInv, DirInv
<1>4. ReportInv'
  <2>1. \A q \in Runs :
          /\ pc'[q] \in {"write json", "write md"} => pc'[q] = pc[q]
          /\ pc'[q] \in {"look at latest", "unlink", "link", "conclude"}
               => pc[q] \in {"look at latest", "unlink", "link", "conclude"}
    BY DEF TypeOK
  <2>2. QED
    BY <1>1, <2>1, FilesUntouched
<1>5. LinkInv'
  BY <1>1 DEF PublishInv, LinkInv, LatestLostOnlyMidSwap, Publishing
<1>6. EndedInv'
  BY <1>1 DEF PublishInv, EndedInv, Alive
<1>7. ConcludedInv'
  BY <1>1 DEF PublishInv, ConcludedInv
<1>8. QED
  BY <1>3, <1>4, <1>5, <1>6, <1>7 DEF PublishInv

(* A step that ends a run and touches nothing else keeps the invariant:     *)
(* what a dead run leaves behind is what its program counter says.          *)
LEMMA EndStep ==
  ASSUME TypeOK, PublishInv, NEW r \in Runs, Alive(r),
         UNCHANGED <<pc, dir, clock, json, md, latest, ended>>,
         NEW how \in Outcomes \ {"none"},
         how \in {"ok", "failed"} => Linked(r),
         outcome' = [outcome EXCEPT ![r] = how]
  PROVE  PublishInv'
<1>1. \A q \in Runs :
        /\ Publishing(q)' <=> Publishing(q)
        /\ Published(q)' <=> Published(q)
        /\ Linked(q)' <=> Linked(q)
        /\ ~Alive(q) => ~Alive(q)'
  BY DEF TypeOK, Publishing, Published, Linked, Alive
<1>2. \A s : Unshared(s)' <=> Unshared(s)
  BY DEF Unshared
<1>3. DirInv'
  BY <1>1 DEF PublishInv, DirInv
<1>4. ReportInv'
  BY <1>1, <1>2 DEF PublishInv, ReportInv
<1>5. LinkInv'
  BY <1>1 DEF PublishInv, LinkInv, LatestLostOnlyMidSwap
<1>6. EndedInv'
  BY <1>1 DEF PublishInv, EndedInv
<1>7. ConcludedInv'
  BY <1>1 DEF PublishInv, ConcludedInv, TypeOK
<1>8. QED
  BY <1>3, <1>4, <1>5, <1>6, <1>7 DEF PublishInv

(* A run that starts has published nothing, so nothing it is newer than can *)
(* have a later stamp.                                                      *)
LEMMA StartStep ==
  ASSUME TypeOK, PublishInv, NEW r \in Runs, Start(r)
  PROVE  PublishInv'
<1> USE DEF Start, Goto, files
<1>1. \A q \in Runs :
        /\ Publishing(q)' <=> Publishing(q)
        /\ Published(q)' <=> Published(q)
        /\ Linked(q)' <=> Linked(q)
        /\ Publishing(q) => pc'[q] = pc[q]
        /\ Alive(q)' <=> Alive(q)
        /\ q = r \/ pc'[q] = pc[q]
  BY DEF TypeOK, Publishing, Published, Linked, Alive
<1>2. \A s : Unshared(s)' <=> Unshared(s)
  BY DEF Unshared
<1>3. DirInv'
  BY <1>1 DEF PublishInv, DirInv
<1>4. ReportInv'
  BY <1>1, <1>2 DEF PublishInv, ReportInv, TypeOK
<1>5. LinkInv'
  BY <1>1 DEF PublishInv, LinkInv, LatestLostOnlyMidSwap, TypeOK
<1>6. EndedInv'
  <2>1. ~Publishing(r) /\ ~Linked(r)
    BY DEF Publishing, Linked
  <2>2. ended' = [ended EXCEPT ![r] = {q \in Runs : ~Alive(q)}]
    OBVIOUS
  <2>3. \A p, q \in Runs : p \in ended'[q] => (q = r /\ ~Alive(p)) \/ p \in ended[q]
    BY <2>2 DEF TypeOK
  <2>4. \A q \in Runs : q # r => ended'[q] = ended[q]
    BY <2>2 DEF TypeOK
  <2>5. QED
    BY <1>1, <2>1, <2>3, <2>4 DEF PublishInv, EndedInv
<1>7. ConcludedInv'
  BY <1>1 DEF PublishInv, ConcludedInv
<1>8. QED
  BY <1>3, <1>4, <1>5, <1>6, <1>7 DEF PublishInv

(* The clock only widens the range of the stamps taken.                     *)
LEMMA TickStep ==
  ASSUME TypeOK, PublishInv, Tick
  PROVE  PublishInv'
<1> USE DEF Tick
<1>1. \A q \in Runs :
        /\ Publishing(q)' <=> Publishing(q)
        /\ Published(q)' <=> Published(q)
        /\ Linked(q)' <=> Linked(q)
  BY DEF Publishing, Published, Linked
<1>2. \A s : Unshared(s)' <=> Unshared(s)
  BY DEF Unshared
<1>3. DirInv'
  BY <1>1, ClockAssumption DEF PublishInv, DirInv, TypeOK, Stamps
<1>4. ReportInv'
  BY <1>1, <1>2 DEF PublishInv, ReportInv
<1>5. LinkInv'
  BY <1>1 DEF PublishInv, LinkInv, LatestLostOnlyMidSwap
<1>6. EndedInv'
  BY <1>1 DEF PublishInv, EndedInv, Alive
<1>7. ConcludedInv'
  BY <1>1 DEF PublishInv, ConcludedInv
<1>8. QED
  BY <1>3, <1>4, <1>5, <1>6, <1>7 DEF PublishInv

(* The clock shows a positive second.                                       *)
LEMMA ClockType ==
  ASSUME PublishInv
  PROVE  /\ clock \in Nat /\ clock >= 1 /\ clock <= MaxClock
         /\ clock \in 1 .. clock
<1>1. clock \in Nat /\ clock >= 1 /\ clock <= MaxClock
  BY ClockAssumption DEF PublishInv, DirInv
<1>2. QED
  BY <1>1

(* The directory of a run that is publishing bears a second that has been.  *)
LEMMA Stamped ==
  ASSUME PublishInv, NEW q \in Runs, Publishing(q)
  PROVE  /\ dir[q] \in Nat /\ dir[q] >= 1 /\ dir[q] <= clock
         /\ dir[q] # Nothing /\ dir[q] \in Stamps
         /\ 0 \in Stamps \ {dir[q]}
<1>1. dir[q] \in 1 .. clock
  BY DEF PublishInv, DirInv
<1>2. dir[q] \in Nat /\ dir[q] >= 1 /\ dir[q] <= clock
  BY <1>1, ClockType
<1>3. dir[q] # Nothing
  BY <1>2, Marks
<1>4. dir[q] \in Stamps
  BY <1>2, ClockType, ClockAssumption DEF Stamps
<1>5. 0 \in Stamps
  BY ClockAssumption DEF Stamps
<1>6. QED
  BY <1>2, <1>3, <1>4, <1>5

(* mkdir: the stamp is the latest second, so it is no older than any taken  *)
(* before; where another run holds it, nothing is claimed of the reports.   *)
LEMMA MakeOutDirStep ==
  ASSUME TypeOK, PublishInv, NEW r \in Runs, MakeOutDir(r)
  PROVE  PublishInv'
<1> USE DEF MakeOutDir, Goto, files
<1>1. /\ dir[r] = Nothing
      /\ ~Publishing(r) /\ ~Published(r) /\ ~Linked(r)
  BY DEF PublishInv, DirInv, Publishing, Published, Linked
<1>2. /\ dir' = [dir EXCEPT ![r] = clock]
      /\ pc' = [pc EXCEPT ![r] = "open json"]
      /\ dir'[r] = clock /\ pc'[r] = "open json"
      /\ \A q \in Runs \ {r} : dir'[q] = dir[q] /\ pc'[q] = pc[q]
  BY DEF TypeOK
<1>3. \A q \in Runs :
        /\ Publishing(q)' <=> Publishing(q) \/ q = r
        /\ Published(q)' <=> Published(q)
        /\ Linked(q)' <=> Linked(q)
        /\ Alive(q)' <=> Alive(q)
  BY <1>1, <1>2 DEF Publishing, Published, Linked, Alive
<1>4. \A s : s # Nothing /\ Unshared(s)' => Unshared(s)
  <2> SUFFICES ASSUME NEW s, s # Nothing, Unshared(s)',
                      NEW p \in Runs, NEW q \in Runs, dir[p] = s, dir[q] = s
               PROVE  p = q
    BY DEF Unshared
  <2>1. p # r /\ q # r
    BY <1>1
  <2>2. dir'[p] = s /\ dir'[q] = s
    BY <1>2, <2>1
  <2>3. QED
    BY <2>2 DEF Unshared
<1>5. DirInv'
  <2>1. ASSUME NEW q \in Runs
        PROVE  IF Publishing(q)' THEN dir'[q] \in 1 .. clock
                                 ELSE dir'[q] = Nothing
    <3>1. CASE q = r
      <4>1. clock \in 1 .. clock
        BY ClockType
      <4>2. dir'[q] = clock
        BY <1>2, <3>1
      <4>3. pc'[q] = "open json"
        BY <1>2, <3>1
      <4>4. Publishing(q)'
        BY <4>3 DEF Publishing
      <4>5. QED
        BY <4>1, <4>2, <4>4
    <3>2. CASE q # r
      <4>1. dir'[q] = dir[q] /\ (Publishing(q)' <=> Publishing(q))
        BY <1>2, <1>3, <3>2
      <4>2. IF Publishing(q) THEN dir[q] \in 1 .. clock ELSE dir[q] = Nothing
        BY DEF PublishInv, DirInv
      <4>3. QED
        BY <4>1, <4>2
    <3>3. QED
      BY <3>1, <3>2
  <2>2. clock' \in 1 .. MaxClock
    BY DEF PublishInv, DirInv
  <2>3. QED
    BY <2>1, <2>2 DEF DirInv
<1>6. ReportInv'
  <2> SUFFICES ASSUME NEW q \in Runs, Unshared(dir[q])', q # r
               PROVE  /\ pc'[q] = "write json" => json[dir[q]] = "partial"
                      /\ Published(q) => json[dir[q]] = q
                      /\ pc'[q] = "write md" => md[dir[q]] = "partial"
                      /\ pc'[q] \in {"look at latest", "unlink", "link",
                                     "conclude"} => md[dir[q]] = q
    <3>1. pc'[r] = "open json" /\ ~Published(r)'
      BY <1>1, <1>2, <1>3
    <3>2. json'[0] = "earlier" /\ md'[0] = "earlier"
      BY DEF PublishInv, ReportInv
    <3>3. ASSUME NEW q \in Runs, Unshared(dir[q])'
          PROVE  /\ pc'[q] = "write json" => json'[dir'[q]] = "partial"
                 /\ Published(q)' => json'[dir'[q]] = q
                 /\ pc'[q] = "write md" => md'[dir'[q]] = "partial"
                 /\ pc'[q] \in {"look at latest", "unlink", "link",
                                "conclude"} => md'[dir'[q]] = q
      <4>1. CASE q = r
        BY <3>1, <4>1
      <4>2. CASE q # r
        <5>1. dir'[q] = dir[q] /\ (Published(q)' <=> Published(q))
          BY <1>2, <1>3, <4>2
        <5>2. QED
          BY <3>3, <4>2, <5>1
      <4>3. QED
        BY <4>1, <4>2
    <3>4. QED
      BY <3>2, <3>3 DEF ReportInv
  <2>1. CASE Publishing(q)
    <3>1. dir[q] # Nothing
      BY <2>1, Stamped
    <3>2. Unshared(dir[q])
      <4>1. dir'[q] = dir[q]
        BY <1>2
      <4>2. \A p \in Runs : dir'[p] = dir[q] => p = q
        BY <4>1 DEF Unshared
      <4>3. \A p \in Runs : dir[p] = dir[q] => p = q
        BY <1>1, <1>2, <3>1, <4>2
      <4>4. QED
        BY <4>3 DEF Unshared
    <3>3. pc'[q] = pc[q]
      BY <1>2
    <3>4. QED
      BY <3>2, <3>3 DEF PublishInv, ReportInv
  <2>2. CASE ~Publishing(q)
    BY <1>2, <2>2 DEF Publishing, Published
  <2>3. QED
    BY <2>1, <2>2
<1>7. LinkInv'
  BY <1>1, <1>2, <1>3 DEF PublishInv, LinkInv, LatestLostOnlyMidSwap, Linked
<1>8. EndedInv'
  <2>1. ASSUME NEW p \in Runs, NEW q \in Runs, p \in ended'[q],
               Publishing(p)', Publishing(q)'
        PROVE  ~Alive(p)' /\ dir'[p] <= dir'[q]
    <3>1. p \in ended[q] /\ ~Alive(p) /\ p # r
      BY <2>1 DEF PublishInv, EndedInv
    <3>2. Publishing(p) /\ dir[p] <= clock /\ dir'[p] = dir[p]
      BY <1>2, <1>3, <2>1, <3>1, Stamped
    <3>3. CASE q = r
      <4>1. ~Alive(p)' /\ dir'[p] = dir[p] /\ dir'[q] = clock
        BY <1>2, <3>1, <3>2, <3>3 DEF Alive
      <4>2. QED
        BY <3>2, <4>1
    <3>4. CASE q # r
      BY <1>2, <1>3, <2>1, <3>1, <3>2, <3>4 DEF PublishInv, EndedInv
    <3>5. QED
      BY <3>3, <3>4
  <2>2. \A p, q \in Runs : p \in ended'[q] => ~Alive(p)'
    BY <1>3 DEF PublishInv, EndedInv
  <2>3. ASSUME NEW q \in Runs, Linked(q)', latest' \in Stamps'
        PROVE  \E p \in Runs : Linked(p)' /\ dir'[p] = latest'
                                /\ p \notin ended'[q]
    <3>1. PICK p \in Runs : Linked(p) /\ dir[p] = latest /\ p \notin ended[q]
      BY <1>3, <2>3 DEF PublishInv, EndedInv, Stamps
    <3>2. p # r
      BY <1>1, <3>1
    <3>3. QED
      BY <1>2, <1>3, <3>1, <3>2
  <2>4. QED
    BY <2>1, <2>2, <2>3 DEF EndedInv
<1>9. ConcludedInv'
  BY <1>3 DEF PublishInv, ConcludedInv
<1>10. QED
  BY <1>5, <1>6, <1>7, <1>8, <1>9 DEF PublishInv

(* From the directory's making to the look at the link, a step that keeps   *)
(* the claim about the reports keeps the rest.                              *)
LEMMA FileStep ==
  ASSUME TypeOK, PublishInv, ReportInv', NEW r \in Runs, Alive(r),
         pc[r] \in {"open json", "write json", "open md", "write md",
                    "look at latest"},
         NEW there \in {"write json", "open md", "write md",
                        "look at latest", "unlink", "link"},
         pc' = [pc EXCEPT ![r] = there],
         UNCHANGED <<outcome, dir, clock, latest, ended>>
  PROVE  PublishInv'
<1>1. \A q \in Runs :
        /\ Publishing(q)' <=> Publishing(q)
        /\ Linked(q)' <=> Linked(q)
        /\ Alive(q)' <=> Alive(q)
        /\ pc[q] = "link" => pc'[q] = "link"
  BY DEF TypeOK, Publishing, Linked, Alive
<1>2. DirInv'
  BY <1>1 DEF PublishInv, DirInv
<1>3. LinkInv'
  BY <1>1 DEF PublishInv, LinkInv, LatestLostOnlyMidSwap
<1>4. EndedInv'
  BY <1>1 DEF PublishInv, EndedInv
<1>5. ConcludedInv'
  BY <1>1 DEF PublishInv, ConcludedInv
<1>6. QED
  BY <1>2, <1>3, <1>4, <1>5 DEF PublishInv

\* The four writes keep the claim about the reports: each changes the files of
\* its own directory only, and if that directory is shared nothing is claimed.

(* open(results.json, "w"): the file is empty until it is written.          *)
LEMMA OpenJsonStep ==
  ASSUME TypeOK, PublishInv, NEW r \in Runs, OpenJson(r)
  PROVE  PublishInv'
<1> USE DEF OpenJson, Goto
<1>1. Publishing(r)
  BY DEF Publishing
<1>2. /\ pc'[r] = "write json"
      /\ json'[dir[r]] = "partial"
      /\ \A s \in Stamps \ {dir[r]} : json'[s] = json[s]
      /\ \A q \in Runs \ {r} : pc'[q] = pc[q]
  BY <1>1, Stamped DEF TypeOK
<1>3. ReportInv'
  <2>1. json'[0] = "earlier" /\ md'[0] = "earlier"
    BY <1>1, <1>2, Stamped DEF PublishInv, ReportInv
  <2>2. ASSUME NEW q \in Runs, Unshared(dir[q])
        PROVE  /\ pc'[q] = "write json" => json'[dir[q]] = "partial"
               /\ Published(q)' => json'[dir[q]] = q
               /\ pc'[q] = "write md" => md[dir[q]] = "partial"
               /\ pc'[q] \in {"look at latest", "unlink", "link", "conclude"}
                    => md[dir[q]] = q
    <3>1. CASE q = r
      BY <1>2, <3>1 DEF Published
    <3>2. CASE q # r /\ Publishing(q)
      <4>1. dir[q] # dir[r] /\ dir[q] \in Stamps
        BY <2>2, <3>2, Stamped DEF Unshared
      <4>2. QED
        BY <1>2, <2>2, <3>2, <4>1 DEF PublishInv, ReportInv, Published
    <3>3. CASE q # r /\ ~Publishing(q)
      BY <1>2, <3>3 DEF Publishing, Published
    <3>4. QED
      BY <3>1, <3>2, <3>3
  <2>3. QED
    BY <2>1, <2>2 DEF ReportInv, Unshared
<1>4. QED
  BY <1>3, FileStep

(* The text of results.json is written: alone in its directory, the run     *)
(* finds the file as it opened it.                                          *)
LEMMA WriteJsonStep ==
  ASSUME TypeOK, PublishInv, NEW r \in Runs, WriteJson(r)
  PROVE  PublishInv'
<1> USE DEF WriteJson, Goto
<1>1. Publishing(r)
  BY DEF Publishing
<1>2. PICK text \in Written(r, json[dir[r]]) :
        json' = [json EXCEPT ![dir[r]] = text]
  OBVIOUS
<1>3. /\ pc'[r] = "open md"
      /\ json'[dir[r]] = text
      /\ \A s \in Stamps \ {dir[r]} : json'[s] = json[s]
      /\ \A q \in Runs \ {r} : pc'[q] = pc[q]
  BY <1>1, <1>2, Stamped DEF TypeOK
<1>4. Unshared(dir[r]) => text = r
  BY <1>2 DEF PublishInv, ReportInv, Written
<1>5. ReportInv'
  <2>1. json'[0] = "earlier" /\ md'[0] = "earlier"
    BY <1>1, <1>3, Stamped DEF PublishInv, ReportInv
  <2>2. ASSUME NEW q \in Runs, Unshared(dir[q])
        PROVE  /\ pc'[q] = "write json" => json'[dir[q]] = "partial"
               /\ Published(q)' => json'[dir[q]] = q
               /\ pc'[q] = "write md" => md[dir[q]] = "partial"
               /\ pc'[q] \in {"look at latest", "unlink", "link", "conclude"}
                    => md[dir[q]] = q
    <3>1. CASE q = r
      BY <1>3, <1>4, <2>2, <3>1
    <3>2. CASE q # r /\ Publishing(q)
      <4>1. dir[q] # dir[r] /\ dir[q] \in Stamps
        BY <2>2, <3>2, Stamped DEF Unshared
      <4>2. QED
        BY <1>3, <2>2, <3>2, <4>1 DEF PublishInv, ReportInv, Published
    <3>3. CASE q # r /\ ~Publishing(q)
      BY <1>3, <3>3 DEF Publishing, Published
    <3>4. QED
      BY <3>1, <3>2, <3>3
  <2>3. QED
    BY <2>1, <2>2 DEF ReportInv, Unshared
<1>6. QED
  BY <1>5, FileStep

(* open(results.md, "w"), after results.json is complete.                   *)
LEMMA OpenMdStep ==
  ASSUME TypeOK, PublishInv, NEW r \in Runs, OpenMd(r)
  PROVE  PublishInv'
<1> USE DEF OpenMd, Goto
<1>1. Publishing(r) /\ Published(r)
  BY DEF Publishing, Published
<1>2. /\ pc'[r] = "write md"
      /\ md'[dir[r]] = "partial"
      /\ \A s \in Stamps \ {dir[r]} : md'[s] = md[s]
      /\ \A q \in Runs \ {r} : pc'[q] = pc[q]
  BY <1>1, Stamped DEF TypeOK
<1>3. ReportInv'
  <2>1. json'[0] = "earlier" /\ md'[0] = "earlier"
    BY <1>1, <1>2, Stamped DEF PublishInv, ReportInv
  <2>2. ASSUME NEW q \in Runs, Unshared(dir[q])
        PROVE  /\ pc'[q] = "write json" => json[dir[q]] = "partial"
               /\ Published(q)' => json[dir[q]] = q
               /\ pc'[q] = "write md" => md'[dir[q]] = "partial"
               /\ pc'[q] \in {"look at latest", "unlink", "link", "conclude"}
                    => md'[dir[q]] = q
    <3>1. CASE q = r
      BY <1>1, <1>2, <2>2, <3>1 DEF PublishInv, ReportInv
    <3>2. CASE q # r /\ Publishing(q)
      <4>1. dir[q] # dir[r] /\ dir[q] \in Stamps
        BY <1>1, <2>2, <3>2, Stamped DEF Unshared
      <4>2. QED
        BY <1>2, <2>2, <3>2, <4>1 DEF PublishInv, ReportInv, Published
    <3>3. CASE q # r /\ ~Publishing(q)
      BY <1>2, <3>3 DEF Publishing, Published
    <3>4. QED
      BY <3>1, <3>2, <3>3
  <2>3. QED
    BY <2>1, <2>2 DEF ReportInv, Unshared
<1>4. QED
  BY <1>3, FileStep

(* The text of results.md is written.                                       *)
LEMMA WriteMdStep ==
  ASSUME TypeOK, PublishInv, NEW r \in Runs, WriteMd(r)
  PROVE  PublishInv'
<1> USE DEF WriteMd, Goto
<1>1. Publishing(r) /\ Published(r)
  BY DEF Publishing, Published
<1>2. PICK text \in Written(r, md[dir[r]]) :
        md' = [md EXCEPT ![dir[r]] = text]
  OBVIOUS
<1>3. /\ pc'[r] = "look at latest"
      /\ md'[dir[r]] = text
      /\ \A s \in Stamps \ {dir[r]} : md'[s] = md[s]
      /\ \A q \in Runs \ {r} : pc'[q] = pc[q]
  BY <1>1, <1>2, Stamped DEF TypeOK
<1>4. Unshared(dir[r]) => text = r
  BY <1>2 DEF PublishInv, ReportInv, Written
<1>5. ReportInv'
  <2>1. json'[0] = "earlier" /\ md'[0] = "earlier"
    BY <1>1, <1>3, Stamped DEF PublishInv, ReportInv
  <2>2. ASSUME NEW q \in Runs, Unshared(dir[q])
        PROVE  /\ pc'[q] = "write json" => json[dir[q]] = "partial"
               /\ Published(q)' => json[dir[q]] = q
               /\ pc'[q] = "write md" => md'[dir[q]] = "partial"
               /\ pc'[q] \in {"look at latest", "unlink", "link", "conclude"}
                    => md'[dir[q]] = q
    <3>1. CASE q = r
      BY <1>1, <1>3, <1>4, <2>2, <3>1 DEF PublishInv, ReportInv
    <3>2. CASE q # r /\ Publishing(q)
      <4>1. dir[q] # dir[r] /\ dir[q] \in Stamps
        BY <1>1, <2>2, <3>2, Stamped DEF Unshared
      <4>2. QED
        BY <1>3, <2>2, <3>2, <4>1 DEF PublishInv, ReportInv, Published
    <3>3. CASE q # r /\ ~Publishing(q)
      BY <1>3, <3>3 DEF Publishing, Published
    <3>4. QED
      BY <3>1, <3>2, <3>3
  <2>3. QED
    BY <2>1, <2>2 DEF ReportInv, Unshared
<1>6. QED
  BY <1>5, FileStep

(* if latest.is_symlink() or latest.exists(): a look changes no file.       *)
LEMMA LookAtLatestStep ==
  ASSUME TypeOK, PublishInv, NEW r \in Runs, LookAtLatest(r)
  PROVE  PublishInv'
<1> DEFINE there == IF latest = Nothing THEN "link" ELSE "unlink"
<1>1. /\ pc' = [pc EXCEPT ![r] = there]
      /\ pc[r] = "look at latest" /\ Alive(r)
      /\ UNCHANGED <<outcome, dir, clock, json, md, latest, ended>>
  BY DEF LookAtLatest, Goto, files
<1>2. \A q \in Runs :
        /\ pc'[q] \in {"write json", "write md"} => pc'[q] = pc[q]
        /\ Published(q)' <=> Published(q)
        /\ pc'[q] \in {"look at latest", "unlink", "link", "conclude"}
             => pc[q] \in {"look at latest", "unlink", "link", "conclude"}
  BY <1>1 DEF TypeOK, Published
<1>3. ReportInv'
  BY <1>1, <1>2, FilesUntouched
<1>4. there \in {"link", "unlink"}
  OBVIOUS
<1>5. QED
  BY <1>1, <1>3, <1>4, FileStep

(* latest.unlink(): for as long as this run is at the next line the link is *)
(* missing on its account.                                                  *)
LEMMA UnlinkLatestStep ==
  ASSUME TypeOK, PublishInv, NEW r \in Runs, UnlinkLatest(r)
  PROVE  PublishInv'
<1> USE DEF UnlinkLatest, Goto
<1>1. \A q \in Runs :
        /\ Publishing(q)' <=> Publishing(q)
        /\ Published(q)' <=> Published(q)
        /\ Linked(q)' <=> Linked(q)
        /\ Alive(q)' <=> Alive(q)
        /\ pc'[q] \in {"write json", "write md"} => pc'[q] = pc[q]
        /\ pc'[q] \in {"look at latest", "unlink", "link", "conclude"}
             => pc[q] \in {"look at latest", "unlink", "link", "conclude"}
  BY DEF TypeOK, Publishing, Published, Linked, Alive
<1>2. latest' = Nothing /\ Nothing \notin Stamps /\ pc'[r] = "link"
  BY Marks DEF TypeOK, Stamps
<1>3. DirInv'
  BY <1>1 DEF PublishInv, DirInv
<1>4. ReportInv'
  BY <1>1, FilesUntouched
<1>5. LinkInv'
  BY <1>2 DEF LinkInv, LatestLostOnlyMidSwap, Stamps
<1>6. EndedInv'
  BY <1>1, <1>2 DEF PublishInv, EndedInv, Stamps
<1>7. ConcludedInv'
  BY <1>1 DEF PublishInv, ConcludedInv
<1>8. QED
  BY <1>3, <1>4, <1>5, <1>6, <1>7 DEF PublishInv

(* latest.symlink_to(out_dir): the link names this run's directory; the run *)
(* is alive, so no run that has linked can have started after its end.      *)
LEMMA LinkLatestStep ==
  ASSUME TypeOK, PublishInv, NEW r \in Runs, LinkLatest(r)
  PROVE  PublishInv'
<1> USE DEF LinkLatest, Goto
<1>1. \A q \in Runs :
        /\ Publishing(q)' <=> Publishing(q)
        /\ Published(q)' <=> Published(q)
        /\ Linked(q)' <=> Linked(q) \/ q = r
        /\ Alive(q)' <=> Alive(q)
        /\ pc'[q] \in {"write json", "write md"} => pc'[q] = pc[q]
        /\ pc'[q] \in {"look at latest", "unlink", "link", "conclude"}
             => pc[q] \in {"look at latest", "unlink", "link", "conclude"}
  BY DEF TypeOK, Publishing, Published, Linked, Alive
<1>2. /\ latest' = dir[r] /\ latest' # Nothing
      /\ Linked(r)'
  <2>1. Publishing(r)
    BY DEF Publishing
  <2>2. QED
    BY <2>1, Stamped DEF TypeOK, Linked
<1>3. DirInv'
  BY <1>1 DEF PublishInv, DirInv
<1>4. ReportInv'
  BY <1>1, FilesUntouched
<1>5. LinkInv'
  BY <1>2 DEF LinkInv, LatestLostOnlyMidSwap
<1>6. EndedInv'
  <2>1. \A q \in Runs : r \notin ended[q]
    BY DEF PublishInv, EndedInv
  <2>2. \A p, q \in Runs : p \in ended'[q] =>
          /\ ~Alive(p)'
          /\ Publishing(p)' /\ Publishing(q)' => dir'[p] <= dir'[q]
    BY <1>1 DEF PublishInv, EndedInv
  <2>3. \A q \in Runs : Linked(q)' /\ latest' \in Stamps' =>
          \E p \in Runs : Linked(p)' /\ dir'[p] = latest' /\ p \notin ended'[q]
    BY <1>2, <2>1
  <2>4. QED
    BY <2>2, <2>3 DEF EndedInv
<1>7. ConcludedInv'
  BY <1>1 DEF PublishInv, ConcludedInv
<1>8. QED
  BY <1>3, <1>4, <1>5, <1>6, <1>7 DEF PublishInv

(* Every step of cmd_run keeps what holds of the output directory.          *)
LEMMA NextPublish == TypeOK /\ PublishInv /\ [Next]_vars => PublishInv'
<1> SUFFICES ASSUME TypeOK, PublishInv, [Next]_vars PROVE PublishInv'
  OBVIOUS
<1>1. ASSUME NEW r \in Runs, NEW there \in {"load", "discover", "run", "wait"},
             Alive(r), pc[r] \in {"idle", "load", "discover", "run", "wait"},
             pc' = [pc EXCEPT ![r] = there],
             UNCHANGED <<dir, clock, files, ended, outcome>>
      PROVE  PublishInv'
  <2>1. ~Publishing(r)
    BY <1>1 DEF Publishing
  <2>2. QED
    BY <1>1, <2>1, QuietStep DEF files
<1>2. ASSUME NEW r \in Runs, NEW how \in {"refused", "raised", "killed"},
             Alive(r), End(r, how),
             UNCHANGED <<pc, dir, clock, files, ended>>
      PROVE  PublishInv'
  BY <1>2, EndStep DEF End, files, Outcomes
<1>3. ASSUME NEW r \in Runs, LoadCapabilities(r) PROVE PublishInv'
  BY <1>1, <1>3 DEF LoadCapabilities, Goto
<1>4. ASSUME NEW r \in Runs, DiscoverFixtures(r) PROVE PublishInv'
  BY <1>1, <1>2, <1>4 DEF DiscoverFixtures, Goto
<1>5. ASSUME NEW r \in Runs, SkipPair(r) PROVE PublishInv'
  <2>1. pc' = [pc EXCEPT ![r] = "run"]
    BY <1>5 DEF SkipPair, TypeOK
  <2>2. QED
    BY <1>1, <1>5, <2>1 DEF SkipPair
<1>6. ASSUME NEW r \in Runs, AskSdk(r) PROVE PublishInv'
  BY <1>1, <1>6 DEF AskSdk, Goto
<1>7. ASSUME NEW r \in Runs, SdkAnswers(r) PROVE PublishInv'
  BY <1>1, <1>7 DEF SdkAnswers, Goto
<1>8. ASSUME NEW r \in Runs, SdkTimesOut(r) PROVE PublishInv'
  BY <1>1, <1>8 DEF SdkTimesOut, Goto
<1>9. ASSUME NEW r \in Runs,
             \/ CapabilitiesFail(r) \/ PlanRaises(r) \/ AnswerRaises(r)
             \/ PublishRaises(r) \/ Kill(r)
      PROVE  PublishInv'
  BY <1>2, <1>9
  DEF CapabilitiesFail, PlanRaises, AnswerRaises, PublishRaises, Kill
<1>10. ASSUME NEW r \in Runs, Conclude(r) PROVE PublishInv'
  <2>1. PICK how \in {"ok", "failed"} : End(r, how)
    BY <1>10 DEF Conclude
  <2>2. QED
    BY <1>10, <2>1, EndStep DEF Conclude, End, files, Outcomes, Linked
<1>11. CASE UNCHANGED vars
  <2>1. \A q \in Runs :
          /\ Publishing(q)' <=> Publishing(q)
          /\ Published(q)' <=> Published(q)
          /\ Linked(q)' <=> Linked(q)
          /\ Alive(q)' <=> Alive(q)
    BY <1>11 DEF vars, Publishing, Published, Linked, Alive
  <2>2. ReportInv'
    BY <1>11, <2>1, FilesUntouched DEF vars
  <2>3. QED
    BY <1>11, <2>1, <2>2
    DEF vars, PublishInv, DirInv, LinkInv, EndedInv, ConcludedInv,
        LatestLostOnlyMidSwap
<1>12. QED
  BY <1>3, <1>4, <1>5, <1>6, <1>7, <1>8, <1>9, <1>10, <1>11, TickStep,
     StartStep, MakeOutDirStep, OpenJsonStep, WriteJsonStep, OpenMdStep,
     WriteMdStep, LookAtLatestStep, UnlinkLatestStep, LinkLatestStep
  DEF Next, HarnessStep

(* In every behaviour, whatever dies, each run's reports are in the state   *)
(* its place in cmd_run says and the link was set by a run that got there.  *)
THEOREM PublishCorrect == Spec => []PublishInv
<1>1. QED
  BY InitType, NextType, InitPublish, NextPublish, PTL DEF Spec

(* `latest` leads to the complete reports of one run, or of the run before  *)
(* all of them, unless two runs took the same second.                       *)
THEOREM LatestIsComplete == Spec => []LatestComplete
<1>1. TypeOK /\ PublishInv => LatestComplete
  <2> SUFFICES ASSUME TypeOK, PublishInv, latest \in Stamps, Unshared(latest),
                      latest # 0
               PROVE  \E r \in Runs : /\ dir[r] = latest
                                       /\ json[latest] = r /\ md[latest] = r
    BY DEF LatestComplete, PublishInv, ReportInv
  <2>1. PICK r \in Runs : Linked(r) /\ dir[r] = latest
    BY DEF PublishInv, LinkInv
  <2>2. QED
    BY <2>1 DEF PublishInv, ReportInv, Linked, Published
<1>2. QED
  BY <1>1, TypeCorrect, PublishCorrect, PTL

(* A run that came to its verdict leaves its reports as it wrote them.      *)
THEOREM ReportsStay == Spec => []ReportsKept
<1>1. PublishInv => ReportsKept
  BY DEF PublishInv, ConcludedInv, ReportInv, ReportsKept, Linked, Published
<1>2. QED
  BY <1>1, PublishCorrect, PTL

(* Once set, the link is missing only on account of a run that is, or died, *)
(* between unlink and symlink_to.                                           *)
THEOREM LinkLostOnlyMidSwap == Spec => []LatestLostOnlyMidSwap
<1>1. PublishInv => LatestLostOnlyMidSwap
  BY DEF PublishInv, LinkInv
<1>2. QED
  BY <1>1, PublishCorrect, PTL

(* A run that began after another ended is never linked over by it: the     *)
(* link goes back in time only between runs that overlapped.                *)
THEOREM LinkNewest == Spec => []LatestNewest
<1>1. TypeOK /\ PublishInv => LatestNewest
  <2> SUFFICES ASSUME TypeOK, PublishInv, NEW q \in Runs, Linked(q),
                      latest \in Stamps, latest < dir[q]
               PROVE  \E p \in Runs : /\ Linked(p) /\ dir[p] = latest
                                       /\ Overlap(p, q)
    BY DEF LatestNewest
  <2>1. PICK p \in Runs : Linked(p) /\ dir[p] = latest /\ p \notin ended[q]
    BY DEF PublishInv, EndedInv
  <2>2. Publishing(p) /\ Publishing(q)
    BY <2>1 DEF Linked, Publishing
  <2>3. q \notin ended[p]
    <3>1. q \in ended[p] => dir[q] <= dir[p]
      BY <2>2 DEF PublishInv, EndedInv
    <3>2. dir[p] \in Nat /\ dir[q] \in Nat /\ dir[p] < dir[q]
      BY <2>1, <2>2, Stamped
    <3>3. QED
      BY <3>1, <3>2
  <2>4. QED
    BY <2>1, <2>3 DEF Overlap
<1>2. QED
  BY <1>1, TypeCorrect, PublishCorrect, PTL

-----------------------------------------------------------------------------
(* The exit code                                                            *)

\* A pair that failed is not run again, and its cell in the grid still says so.
FailInv ==
  \A r \in Runs :
    /\ bad[r] \cap todo[r] = {}
    /\ \A pair \in bad[r] : results[r][Key(pair)].status \in {"fail", "error"}
    /\ outcome[r] = "ok" => bad[r] = {}

(* With a name per SDK no two pairs share a cell.                           *)
LEMMA DistinctKeys ==
  ASSUME DistinctNames, NEW p \in Pairs, NEW q \in Pairs, Key(p) = Key(q)
  PROVE  p = q
<1>1. /\ p = <<p[1], p[2]>> /\ p[2] \in Sdks
      /\ q = <<q[1], q[2]>> /\ q[2] \in Sdks
  BY KeyType
<1>2. p[1] = q[1] /\ SdkName[p[2]] = SdkName[q[2]]
  BY DEF Key
<1>3. p[2] = q[2]
  BY <1>1, <1>2 DEF DistinctNames
<1>4. QED
  BY <1>1, <1>2, <1>3

(* Storing one verdict overwrites no failure.                               *)
LEMMA RecordStep ==
  ASSUME DistinctNames, TypeOK, FailInv, UNCHANGED <<suite, outcome>>,
         NEW r \in Runs, Alive(r), NEW pair \in todo[r], NEW entry \in Entries,
         Record(r, pair, entry)
  PROVE  FailInv'
<1>1. pair \in Pairs /\ Key(pair) \in Keys
  BY KeyType DEF TypeOK
<1>2. /\ results'[r] = [results[r] EXCEPT ![Key(pair)] = entry]
      /\ results'[r][Key(pair)] = entry
      /\ \A k \in Keys \ {Key(pair)} : results'[r][k] = results[r][k]
      /\ todo'[r] = todo[r] \ {pair}
      /\ bad'[r] = IF entry.status \in {"fail", "error"}
                    THEN bad[r] \cup {pair} ELSE bad[r]
      /\ \A q \in Runs \ {r} : /\ results'[q] = results[q]
                               /\ todo'[q] = todo[q] /\ bad'[q] = bad[q]
  BY <1>1 DEF TypeOK, Record
<1>3. ASSUME NEW q \in Runs
      PROVE  /\ bad'[q] \cap todo'[q] = {}
             /\ outcome'[q] = "ok" => bad'[q] = {}
  BY <1>2 DEF FailInv, Alive
<1>4. ASSUME NEW q \in Runs, NEW other \in bad'[q]
      PROVE  results'[q][Key(other)].status \in {"fail", "error"}
  <2>1. CASE q # r
    BY <1>2, <1>4, <2>1 DEF FailInv
  <2>2. CASE q = r /\ other = pair
    <3>1. entry.status \in {"fail", "error"}
      BY <1>2, <1>4, <2>2 DEF FailInv
    <3>2. QED
      BY <1>2, <2>2, <3>1
  <2>3. CASE q = r /\ other # pair
    <3>1. other \in bad[r] /\ other \in Pairs
      BY <1>2, <1>4, <2>3 DEF TypeOK
    <3>2. Key(other) \in Keys \ {Key(pair)}
      BY <1>1, <2>3, <3>1, KeyType, DistinctKeys
    <3>3. QED
      BY <1>2, <2>3, <3>1, <3>2 DEF FailInv
  <2>4. QED
    BY <2>1, <2>2, <2>3
<1>5. \A other : Key(other)' = Key(other)
  BY DEF Key
<1>6. QED
  BY <1>3, <1>4, <1>5 DEF FailInv

(* A step that stores no verdict and does not exit 0 loses no failure.      *)
LEMMA NoVerdictStep ==
  ASSUME FailInv, UNCHANGED <<todo, results, bad>>,
         \A r \in Runs : outcome'[r] = "ok" => outcome[r] = "ok"
  PROVE  FailInv'
<1>1. \A pair : Key(pair)' = Key(pair)
  BY DEF Key
<1>2. QED
  BY <1>1 DEF FailInv

(* The run that exits 0 found no failure in its grid.                       *)
LEMMA ConcludeStep ==
  ASSUME TypeOK, FailInv, NEW r \in Runs, Conclude(r)
  PROVE  FailInv'
<1>1. /\ outcome' = [outcome EXCEPT ![r] = IF AnyFail(r) THEN "failed" ELSE "ok"]
      /\ UNCHANGED <<todo, results, bad>>
  BY DEF Conclude, End
<1>2. ~AnyFail(r) => bad[r] = {}
  <2> SUFFICES ASSUME NEW pair \in bad[r] PROVE AnyFail(r)
    OBVIOUS
  <2>1. Key(pair) \in Keys
    BY KeyType DEF TypeOK
  <2>2. QED
    BY <2>1 DEF FailInv, AnyFail
<1>3. \A q \in Runs : outcome'[q] = "ok" => bad[q] = {}
  BY <1>1, <1>2 DEF FailInv, TypeOK
<1>4. \A pair : Key(pair)' = Key(pair)
  BY DEF Key
<1>5. QED
  BY <1>1, <1>3, <1>4 DEF FailInv

(* Nothing has failed before the first fixture is run.                      *)
LEMMA InitFail == Init => FailInv
BY DEF Init, FailInv

(* With a name per SDK every step of cmd_run keeps the failures.            *)
LEMMA NextFail ==
  ASSUME DistinctNames, TypeOK, FailInv, [Next]_vars
  PROVE  FailInv'
<1>1. ASSUME NEW r \in Runs, SkipPair(r) PROVE FailInv'
  <2>1. PICK pair \in todo[r] : Record(r, pair, [Blank EXCEPT !.status = "skip"])
    BY <1>1 DEF SkipPair
  <2>2. [Blank EXCEPT !.status = "skip"] \in Entries
    BY BlankType DEF Statuses
  <2>3. QED
    BY <1>1, <2>1, <2>2, RecordStep DEF SkipPair
<1>2. ASSUME NEW r \in Runs, SdkAnswers(r) PROVE FailInv'
  <2>1. PICK pair \in todo[r], a \in Answers :
          /\ Verdict(Fixture(pair), a) # "raise"
          /\ Record(r, pair, [status |-> Verdict(Fixture(pair), a),
                              exit |-> a.exit,
                              code |-> IF a.body = "garbage" THEN NoCode
                                       ELSE a.code])
    BY <1>2 DEF SdkAnswers
  <2>2. [status |-> Verdict(Fixture(pair), a), exit |-> a.exit,
         code |-> IF a.body = "garbage" THEN NoCode ELSE a.code] \in Entries
    BY <2>1, VerdictType DEF Entries, Statuses, Exits, Codes
  <2>3. QED
    BY <1>2, <2>1, <2>2, RecordStep DEF SdkAnswers
<1>3. ASSUME NEW r \in Runs, SdkTimesOut(r) PROVE FailInv'
  <2>1. PICK pair \in todo[r] : Record(r, pair, [Blank EXCEPT !.status = "error"])
    BY <1>3 DEF SdkTimesOut
  <2>2. [Blank EXCEPT !.status = "error"] \in Entries
    BY BlankType DEF Statuses
  <2>3. QED
    BY <1>3, <2>1, <2>2, RecordStep DEF SdkTimesOut
<1>4. ASSUME NEW r \in Runs,
             \/ Start(r) \/ LoadCapabilities(r) \/ AskSdk(r) \/ MakeOutDir(r)
             \/ OpenJson(r) \/ WriteJson(r) \/ OpenMd(r) \/ WriteMd(r)
             \/ LookAtLatest(r) \/ UnlinkLatest(r) \/ LinkLatest(r)
      PROVE  FailInv'
  BY <1>4, NoVerdictStep
  DEF Start, LoadCapabilities, AskSdk, MakeOutDir, OpenJson, WriteJson,
      OpenMd, WriteMd, LookAtLatest, UnlinkLatest, LinkLatest
<1>5. ASSUME NEW r \in Runs,
             \/ CapabilitiesFail(r) \/ DiscoverFixtures(r) \/ PlanRaises(r)
             \/ AnswerRaises(r) \/ PublishRaises(r) \/ Kill(r)
      PROVE  FailInv'
  <2>1. /\ UNCHANGED <<todo, results, bad>>
        /\ \/ UNCHANGED outcome
           \/ \E how \in {"refused", "raised", "killed"} :
                outcome' = [outcome EXCEPT ![r] = how]
    BY <1>5
    DEF CapabilitiesFail, DiscoverFixtures, PlanRaises, AnswerRaises,
        PublishRaises, Kill, End
  <2>2. \A q \in Runs : outcome'[q] = "ok" => outcome[q] = "ok"
    BY <2>1 DEF TypeOK
  <2>3. QED
    BY <2>1, <2>2, NoVerdictStep
<1>6. CASE Tick \/ UNCHANGED vars
  BY <1>6, NoVerdictStep DEF Tick, vars
<1>7. QED
  BY <1>1, <1>2, <1>3, <1>4, <1>5, <1>6, ConcludeStep DEF Next, HarnessStep

(* With a name per SDK, a run that exits 0 had no failing or erring verdict *)
(* at any time.  Without that assumption it does not hold: SameName.cfg.    *)
THEOREM FailureKept == ASSUME DistinctNames PROVE Spec => []NoFailureLost
<1>1. FailInv => NoFailureLost
  BY DEF FailInv, NoFailureLost
<1>2. Init => TypeOK /\ FailInv
  BY InitType, InitFail
<1>3. TypeOK /\ FailInv /\ [Next]_vars => (TypeOK /\ FailInv)'
  BY NextType, NextFail
<1>4. QED
  BY <1>1, <1>2, <1>3, PTL DEF Spec

=============================================================================
