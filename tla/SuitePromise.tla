---------------------------- MODULE SuitePromise ----------------------------
(***************************************************************************)
(* What `tinfoil-conformance run` promises, whatever the SDKs do: a run     *)
(* publishes the verdicts of its whole grid at once or publishes nothing,   *)
(* its exit code is decided by the grid it published, and a run that was    *)
(* refused or died has no verdict.  ConformanceRun implements this.         *)
(***************************************************************************)
CONSTANT Runs

VARIABLES
  keys,     \* the (case, SDK name) cells a run has to decide
  grid,     \* run -> the grid it published, or NoGrid
  outcome   \* run -> how its process ended, or "none"

vars == <<keys, grid, outcome>>

NoGrid   == << >>
Statuses == {"pass", "fail", "skip", "error"}

\* The exit code: 1 if any cell failed or errored.
Conclusion(g) ==
  IF \E k \in DOMAIN g : g[k] \in {"fail", "error"} THEN "failed" ELSE "ok"

Init ==
  /\ grid = [r \in Runs |-> NoGrid]
  /\ outcome = [r \in Runs |-> "none"]

Publish(r) ==
  /\ outcome[r] = "none"
  /\ grid[r] = NoGrid
  /\ \E g \in [keys -> Statuses] : grid' = [grid EXCEPT ![r] = g]
  /\ UNCHANGED <<keys, outcome>>

Conclude(r) ==
  /\ outcome[r] = "none"
  /\ grid[r] # NoGrid
  /\ outcome' = [outcome EXCEPT ![r] = Conclusion(grid[r])]
  /\ UNCHANGED <<keys, grid>>

\* Refused before anything ran: capabilities that do not load, no fixtures.
Refuse(r) ==
  /\ outcome[r] = "none"
  /\ grid[r] = NoGrid
  /\ outcome' = [outcome EXCEPT ![r] = "refused"]
  /\ UNCHANGED <<keys, grid>>

\* An exception nobody catches, or a signal.
Die(r) ==
  /\ outcome[r] = "none"
  /\ \E end \in {"raised", "killed"} :
       outcome' = [outcome EXCEPT ![r] = end]
  /\ UNCHANGED <<keys, grid>>

Next == \E r \in Runs : Publish(r) \/ Conclude(r) \/ Refuse(r) \/ Die(r)

Spec == Init /\ [][Next]_vars
=============================================================================
