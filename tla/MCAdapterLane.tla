--------------------------- MODULE MCAdapterLane ---------------------------
(***************************************************************************)
(* The reference and a port, over suites of at most two fixtures.           *)
(***************************************************************************)
EXTENDS AdapterLane, TLC

Accept1 == [dir |-> "golden", stage |-> "verify", accepted |-> TRUE,
            code |-> NoCode, facts |-> "digest" :> "d"]
Reject1 == [dir |-> "golden", stage |-> "verify", accepted |-> FALSE,
            code |-> "POLICY", facts |-> << >>]
\* validate_suite.py does not admit a reject without a code.
NoCodeGiven == [Reject1 EXCEPT !.code = NoCode]

MCSuites ==
  {<<Accept1, Reject1>>, <<NoCodeGiven>>}

Answer(e, kind, accepted, rejection, code, facts) ==
  [exit |-> e, kind |-> kind, accepted |-> accepted,
   rejection |-> rejection, code |-> code, facts |-> facts]

MCAnswers ==
  {Answer(Accepted, "object", "true", "absent", NoCode, "digest" :> "d"),
   Answer(Accepted, "object", "true", "absent", NoCode, << >>),
   Answer(Rejected, "object", "false", "object", "POLICY", << >>),
   Answer(Malformed, "object", "absent", "absent", NoCode, << >>),
   Answer(Rejected, "object", "false", "text", NoCode, << >>),
   Answer(1, "list", "absent", "absent", NoCode, << >>),
   Answer(1, "falsy", "absent", "absent", NoCode, << >>),
   Answer(Unsupported, "none", "absent", "absent", NoCode, << >>)}

\* --live makes no difference between the two kinds that are no object.
MCLiveAnswers ==
  {a \in MCAnswers : a.exit \in {Accepted, 1, Unsupported} /\ a.kind # "falsy"}

\* The port is run again while the reference's report waits.
RerunPort == [l \in Lanes |-> IF l = "port" THEN 2 ELSE 1]

\* Both say they implement the stage.
AllDeclared == [l \in Lanes |-> {"verify"}]
=============================================================================
