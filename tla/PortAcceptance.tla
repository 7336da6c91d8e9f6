--------------------------- MODULE PortAcceptance ---------------------------
(***************************************************************************)
(* What accepting a port by the playbook rests on, whatever the adapters    *)
(* answer and whenever a lane dies: a lane leaves the verdicts of all the   *)
(* fixtures it was given or no report, its exit code is decided by the      *)
(* report it leaves, and the comparator finds no divergence only between    *)
(* reports that give every admitted fixture the same verdict.  AdapterLane, *)
(* whose comparator never looks at a verdict, implements this.              *)
(***************************************************************************)
CONSTANTS Lanes, First, Second

VARIABLES
  groups,    \* the sets of fixtures a lane can be given
  admitted,  \* the fixtures validate_suite.py admits
  busy,      \* the lanes a run of which is under way
  report,    \* lane -> the report on disk, or NoReport
  ended,     \* lane -> how its last run ended, or "none"
  taken,     \* the report the comparator has read, or NoReport
  finding    \* what the comparison found, or "none"

vars == <<groups, admitted, busy, report, ended, taken, finding>>

NoReport  == [whole |-> FALSE]
Whole(g)  == [whole |-> TRUE, verdicts |-> g]
Verdicts  == {"PASS", "FAIL", "SKIP"}

Conclusion(g) ==
  IF \E i \in DOMAIN g : g[i] = "FAIL" THEN "failed" ELSE "ok"

Agree(g, h) ==
  /\ DOMAIN g = DOMAIN h
  /\ \A i \in DOMAIN g \cap admitted : g[i] = h[i]

Init ==
  /\ busy = {}
  /\ report = [l \in Lanes |-> NoReport]
  /\ ended = [l \in Lanes |-> "none"]
  /\ taken = NoReport
  /\ finding = "none"

Begin(l) ==
  /\ l \notin busy
  /\ busy' = busy \cup {l}
  /\ UNCHANGED <<groups, admitted, report, ended, taken, finding>>

\* The report of the run before is given up for the new one.
GiveUpReport(l) ==
  /\ l \in busy
  /\ report' = [report EXCEPT ![l] = NoReport]
  /\ UNCHANGED <<groups, admitted, busy, ended, taken, finding>>

Publish(l) ==
  /\ l \in busy /\ report[l] = NoReport
  /\ \E group \in groups : \E g \in [group -> Verdicts] :
       /\ report' = [report EXCEPT ![l] = Whole(g)]
       /\ ended' = [ended EXCEPT ![l] = Conclusion(g)]
  /\ busy' = busy \ {l}
  /\ UNCHANGED <<groups, admitted, taken, finding>>

\* An exception nobody catches, or a signal.
Die(l) ==
  /\ l \in busy
  /\ busy' = busy \ {l}
  /\ \E end \in {"raised", "killed"} : ended' = [ended EXCEPT ![l] = end]
  /\ UNCHANGED <<groups, admitted, report, taken, finding>>

Take ==
  /\ finding = "none"
  /\ report[First].whole
  /\ taken' = report[First]
  /\ UNCHANGED <<groups, admitted, busy, report, ended, finding>>

Find ==
  /\ finding = "none" /\ taken.whole /\ report[Second].whole
  /\ finding' \in {"identical", "divergent"}
  /\ finding' = "identical" => Agree(taken.verdicts, report[Second].verdicts)
  /\ taken' = NoReport
  /\ UNCHANGED <<groups, admitted, busy, report, ended>>

\* No finding; the comparator may be called again.
Abandon ==
  /\ taken' = NoReport
  /\ UNCHANGED <<groups, admitted, busy, report, ended, finding>>

Next ==
  \/ \E l \in Lanes : Begin(l) \/ GiveUpReport(l) \/ Publish(l) \/ Die(l)
  \/ Take \/ Find \/ Abandon

Spec == Init /\ [][Next]_vars
=============================================================================
