---------------------------- MODULE MCDivergence ----------------------------
(***************************************************************************)
(* Two fixtures and two SDKs: trees whose names are told apart and trees    *)
(* whose names are not, one code, a list of codes and none.  And the four   *)
(* SDKs of the report pipeline on one fixture; five, where all skip, for a  *)
(* minority of more than one.                                               *)
(***************************************************************************)
EXTENDS GapReport, TLC

SEV == "verify-attestation-sev"
TDX == "verify-attestation-tdx"

Reject1 ==
  [manifest |-> "ok", stage |-> SEV, exit |-> Reject,
   codes |-> {"A"}, rstage |-> AnyStage, caps |-> << >>,
   variant |-> "unset", input |-> "plain", expected |-> FALSE,
   outputs |-> << >>, top |-> "sev", base |-> "001", id |-> NoId]

Split  == [Reject1 EXCEPT !.codes = {"A", "B"}]
NoList == [Reject1 EXCEPT !.codes = {}, !.top = "tdx", !.stage = TDX]
Gated  == [Reject1 EXCEPT !.caps = "pins" :> {"mrtd", "all"}, !.base = "002"]
\* Like vectors/enclave-cert/780-malformed-cert: a code, but no reject.
Malformed ==
  [Reject1 EXCEPT !.exit = BadInput, !.top = "cert", !.base = "780"]
\* A stage no SDK supports: all skip, and only the declarations tell.
Nowhere == [Reject1 EXCEPT !.stage = "verify-full-tdx"]
Good == [NoList EXCEPT !.exit = Accept, !.base = "100"]

Declares(stages, flags) == [object |-> TRUE, stages |-> stages, flags |-> flags]
Pins    == Declares({SEV, TDX}, "pins" :> {"mrtd"})
PinsNot == Declares({SEV, TDX}, "pins" :> {"none"})
NoPins  == Declares({SEV}, << >>)

TwoSdks  == {"rs", "js"}
FourSdks == TwoSdks \cup {"go", "py"}

MCRecordedRuns ==
  [vectors : {<<Split, Gated>>, <<Gated, [Split EXCEPT !.id = "renamed"]>>,
              <<Malformed, Gated>>},
   sdks : {TwoSdks}, declares : {{Pins, PinsNot, NoPins}}]
  \cup [vectors : {\* An id that is the other's directory name, two equal names.
                   <<Split, [NoList EXCEPT !.base = "003", !.id = "001"]>>,
                   <<NoList, Split>>,
                   <<[NoList EXCEPT !.id = "tdx-001"], [Split EXCEPT !.id = "sev-001"]>>},
        sdks : {TwoSdks}, declares : {{Pins, NoPins}}]
  \cup [vectors : {<<Good>>, <<Split>>, <<Malformed>>}, sdks : {FourSdks},
        declares : {{Pins}}]
  \cup [vectors : {<<Nowhere>>}, sdks : {FourSdks},
        declares : {{Pins, PinsNot, NoPins, Declares({SEV, TDX}, "pins" :> {"all"})}}]
  \cup [vectors : {<<Nowhere>>}, sdks : {FourSdks \cup {"v3"}}, declares : {{Pins, PinsNot}}]

Rejects(code) ==
  [exit |-> Reject, body |-> "object", rejection |-> "object", code |-> code,
   stage |-> NoStage, outputs |-> "object", facts |-> << >>, accepted |-> FALSE]

MCAnswers ==
  {Rejects("A"), Rejects("B"), Rejects("C"),
   [Rejects(NoCode) EXCEPT !.exit = Accept, !.accepted = TRUE],
   [Rejects("A") EXCEPT !.exit = BadInput],
   [Rejects(NoCode) EXCEPT !.exit = BadInput],
   [Rejects(NoCode) EXCEPT !.exit = Accept, !.body = "list"]}
=============================================================================
