-------------------------- MODULE MCConformanceRun --------------------------
(***************************************************************************)
(* Small instances of ConformanceRun: a handful of fixtures, declarations   *)
(* and answers that reach every branch of the runner, and the names of the  *)
(* SDKs.                                                                    *)
(***************************************************************************)
EXTENDS ConformanceRun, TLC

TDX == "verify-attestation-tdx"
SIG == "verify-sigstore"

String(t, up) == [str |-> TRUE, text |-> t, upper |-> up]

Plain ==
  [manifest |-> "ok", stage |-> TDX, exit |-> Reject,
   codes |-> {"AK_MISMATCH"}, rstage |-> AnyStage, caps |-> << >>,
   variant |-> "unset", input |-> "plain", expected |-> FALSE,
   outputs |-> << >>]

EarlyReject == Plain
\* One of its codes is a policy code: no variant.
SplitReject == [Plain EXCEPT !.codes = {"AK_MISMATCH", "TCB_BELOW_MIN"}]
\* A policy fixture whose author asked for the variant.
OptedIn == [Plain EXCEPT !.codes = {"TCB_BELOW_MIN"}, !.variant = "on",
                         !.caps = "attestation_tdx.pins" :> {"mrtd", "all"}]
StageReject ==
  [Plain EXCEPT !.stage = SIG, !.rstage = "rekor", !.codes = {"REKOR"}]
AcceptFixture ==
  [Plain EXCEPT !.stage = SIG, !.exit = Accept, !.codes = {},
                !.expected = TRUE, !.outputs = "digest" :> String("ab", FALSE)]
\* Like vectors/enclave-cert/780-malformed-cert, it names a code.
Malformed == [Plain EXCEPT !.exit = BadInput, !.input = "notjson",
                           !.codes = {"ENCLAVE_CERT_MALFORMED"}]
PublicInput == [Plain EXCEPT !.input = "public_api"]
Broken      == [Plain EXCEPT !.manifest = "broken"]
NoInput     == [Plain EXCEPT !.input = "missing"]
\* Read without fault, and not what discovery takes it for.
NoMapping   == [Plain EXCEPT !.manifest = "nomapping"]
NoObject    == [Plain EXCEPT !.input = "noobject"]

MCSuites ==
  {<< >>, <<EarlyReject, AcceptFixture>>, <<SplitReject, StageReject>>,
   <<OptedIn, Malformed>>, <<PublicInput>>, <<AcceptFixture, Broken>>,
   <<AcceptFixture, NoInput>>, <<NoMapping>>, <<AcceptFixture, NoObject>>}

Hook == "attestation_tdx.public_api_hooks_supported"

MCDeclarations ==
  {[object |-> TRUE, stages |-> {TDX, SIG},
    flags |-> (Hook :> {"true"}) @@ ("attestation_tdx.pins" :> {"mrtd"})],
   [object |-> TRUE, stages |-> {TDX}, flags |-> Hook :> {"false"}],
   [object |-> FALSE, stages |-> {}, flags |-> << >>]}

Answer(exit, body, rejection, code, stage, outputs, facts) ==
  [exit |-> exit, body |-> body, rejection |-> rejection, code |-> code,
   accepted |-> exit = Accept, stage |-> stage, outputs |-> outputs, facts |-> facts]

Rejects(code, stage) ==
  Answer(Reject, "object", "object", code, stage, "object", << >>)
Accepts(t, up) ==
  Answer(Accept, "object", "absent", NoCode, NoStage, "object",
         "digest" :> String(t, up))

MCAnswers ==
  {Rejects("AK_MISMATCH", NoStage), Rejects("TCB_BELOW_MIN", NoStage),
   Rejects("REKOR", "rekor"), Rejects("REKOR", "sct"),
   Accepts("ab", TRUE), Accepts("cd", FALSE),
   Answer(Accept, "empty", "absent", NoCode, NoStage, "object", << >>),
   Answer(Accept, "object", "absent", NoCode, NoStage, "null", << >>),
   Answer(Reject, "object", "absent", NoCode, NoStage, "object", << >>),
   Answer(Reject, "object", "null", NoCode, NoStage, "null", << >>),
   Answer(Accept, "list", "absent", NoCode, NoStage, "object", << >>),
   Answer(Unsupported, "empty", "absent", NoCode, NoStage, "object", << >>),
   Answer(BadInput, "object", "object", "BAD", NoStage, "object", << >>),
   Answer(1, "garbage", "absent", NoCode, NoStage, "object", << >>),
   Answer(1, "undecodable", "absent", NoCode, NoStage, "object", << >>)}

\* For the runs about files the answers only have to differ in their verdict.
OneFixture == {<<EarlyReject>>}
FullSdk    == {[object |-> TRUE, stages |-> {TDX}, flags |-> Hook :> {"false"}]}
TwoAnswers == {Rejects("AK_MISMATCH", NoStage), Rejects("TCB_BELOW_MIN", NoStage)}

OneName   == <<"rs">>
TwoNames  == <<"rs", "js">>
SameNames == <<"rs", "rs">>

Symmetry == Permutations(Runs)
=============================================================================
