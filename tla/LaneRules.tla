----------------------------- MODULE LaneRules -----------------------------
(***************************************************************************)
(* What tools/run_adapter.py makes of one adapter call, and which fixtures  *)
(* tools/validate_suite.py admits.                                          *)
(*                                                                         *)
(* A fixture of the v3 suite has, besides its directory and stage,          *)
(*   accepted     the verdict expected                                      *)
(*   code         the rejection code expected, or NoCode                    *)
(*   facts        fact -> value, the accept facts expected                  *)
(* and what one adapter call leaves behind is                               *)
(*   exit         its exit code                                             *)
(*   kind         "none" (no JSON), "object", "falsy" (other JSON that      *)
(*                `or {}` reads as {}: null, 0, []) or "list" (any other)   *)
(*   accepted     "true", "false" or "absent"                               *)
(*   rejection    "absent", "object" or "text"                              *)
(*   code, facts  rejection.code or NoCode, and the outputs                 *)
(* A JSON null counts as an absent member, and outputs, where present, is   *)
(* an object.                                                               *)
(***************************************************************************)

CONSTANT Taxonomy  \* the rejection codes of the schema

NoCode == "no code"

ASSUME TaxonomyAssumption == NoCode \notin Taxonomy

Accepted    == 0
Rejected    == 10
Unsupported == 20
Malformed   == 30

\* validate_fixture, as far as the expectation goes.
Valid(fx) ==
  IF fx.accepted THEN fx.code = NoCode
  ELSE fx.code \in Taxonomy /\ DOMAIN fx.facts = {}

\* out.get on something that is no object, or .get on a rejection that is none.
Raises(fx, a) ==
  /\ a.exit # Unsupported
  /\ \/ /\ a.kind \in {"list", "falsy"}
        /\ fx.accepted \/ a.exit \in {Rejected, Malformed}
     \/ /\ a.kind = "object" /\ a.rejection = "text"
        /\ ~fx.accepted /\ fx.code # NoCode
        /\ a.exit \in {Rejected, Malformed} /\ a.accepted # "true"

\* Slip: a fact the adapter leaves out is not missed.
FactsNotContradicted(fx, a) ==
  \A k \in DOMAIN fx.facts \cap DOMAIN a.facts : a.facts[k] = fx.facts[k]

FactsAsDeclared(fx, a) ==
  \A k \in DOMAIN fx.facts : k \in DOMAIN a.facts /\ a.facts[k] = fx.facts[k]

AsExpected(fx, a) ==
  /\ a.kind = "object"
  /\ IF fx.accepted
     THEN /\ a.exit = Accepted /\ a.accepted = "true"
          /\ FactsAsDeclared(fx, a)
     ELSE /\ a.exit \in {Rejected, Malformed} /\ a.accepted # "true"
          /\ fx.code # NoCode => a.code = fx.code

NoOutput == [kind |-> "none", accepted |-> "absent", rejection |-> "absent",
             code |-> NoCode, facts |-> << >>]

\* What the comparator finds; of a falsy one no more than of none.
OutputOf(a) ==
  IF a.exit = Unsupported \/ a.kind \in {"none", "falsy"} THEN NoOutput
  ELSE [kind |-> a.kind, accepted |-> a.accepted, rejection |-> a.rejection,
        code |-> a.code, facts |-> a.facts]

Status(fx, a) ==
  IF a.exit = Unsupported THEN "SKIP"
  ELSE IF AsExpected(fx, a) THEN "PASS" ELSE "FAIL"

Entry(fx, a) ==
  [status |-> Status(fx, a), exit |-> a.exit, output |-> OutputOf(a)]

=============================================================================
