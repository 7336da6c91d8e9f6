------------------------------- MODULE Runner -------------------------------
(***************************************************************************)
(* The vector runner of harness/tinfoil_conformance/runner.py, as           *)
(* operators: which cases a vectors tree yields, when an SDK is asked, and  *)
(* what verdict its answer earns.  ConformanceRun composes them into the    *)
(* run itself.                                                              *)
(*                                                                         *)
(* Data.  A fixture is the triple manifest.yaml / input.json /              *)
(* expected.json of one directory:                                          *)
(*   manifest  "ok", "broken" (does not load, or names no stage) or         *)
(*             "nomapping" (loads, but as no mapping)                       *)
(*   stage     the subcommand                                               *)
(*   exit      expects.exit_code                                            *)
(*   codes     expects.rejection_code, one code or a list, as a set;        *)
(*             {} when the manifest has none                                *)
(*   rstage    expects.rejection_stage, or AnyStage                         *)
(*   caps      required_capabilities: path -> set of values that will do    *)
(*   variant   public_api_variant: "on", "off" or "unset"                   *)
(*   input     "plain", "public_api" (input.json already asks for that      *)
(*             mode), "noobject" (JSON, but no object), "notjson" or        *)
(*             "missing"                                                    *)
(*   expected  whether expected.json exists                                 *)
(*   outputs   its outputs: key -> value, a value being                     *)
(*             [str, text, upper]: only the letter case of strings is kept  *)
(* A declaration is what `<sdk> capabilities` printed:                      *)
(*   object (a JSON object or not), stages, flags: path -> set of values    *)
(*   (a scalar declares one value, a list every value in it).               *)
(* An answer is what one SDK call left behind: exit, body, rejection        *)
(* ("absent", "null", "object"), code, accepted (whether the body says so), *)
(* stage, outputs ("null", "object") and facts: key -> value.  Its body is  *)
(* "undecodable" (not UTF-8), "garbage" (not JSON), "object", "empty"       *)
(* (nothing, or JSON that `or {}` reads as {}: null, 0, []) or "list"       *)
(* (any other JSON).                                                        *)
(***************************************************************************)
EXTENDS Naturals

Accept      == 0
Reject      == 10
Unsupported == 20
BadInput    == 30

NoCode   == "no code"
NoStage  == "no stage"
AnyStage == "any stage"
NoExit   == 999

Statuses == {"pass", "fail", "skip", "error"}
Modes    == {"base", "public_api"}

(* Stages with a public-API variant, the capability it takes and the codes  *)
(* that fire before any policy gate of the production path.                 *)
TdxPrePolicyCodes ==
  {"QUOTE_FORMAT_UNSUPPORTED", "QUOTE_TRUNCATED", "WRONG_TEE_TYPE",
   "ATTESTATION_KEY_TYPE_UNSUPPORTED", "QE_VENDOR_UNKNOWN",
   "PCK_CHAIN_INVALID", "PCK_CHAIN_INCOMPLETE", "ROOT_CA_UNTRUSTED",
   "PCK_EXPIRED", "QUOTE_SIGNATURE_INVALID", "QE_REPORT_SIGNATURE_INVALID",
   "AK_BINDING_INVALID", "AK_MISMATCH"}

SevPrePolicyCodes ==
  {"REPORT_FORMAT_UNSUPPORTED", "REPORT_SIGNATURE_INVALID",
   "REPORT_TRUNCATED", "WRONG_REPORT_VERSION", "VCEK_CHAIN_INVALID",
   "VCEK_HWID_MISMATCH", "VCEK_TCB_MISMATCH"}

PublicApiStages ==
  [s \in {"verify-attestation-tdx", "verify-attestation-sev"} |->
     IF s = "verify-attestation-tdx"
     THEN [capability |-> "attestation_tdx.public_api_hooks_supported",
           codes |-> TdxPrePolicyCodes]
     ELSE [capability |-> "attestation_sev.public_api_hooks_supported",
           codes |-> SevPrePolicyCodes]]

-----------------------------------------------------------------------------
(* Discovery                                                                *)

\* Slip: enough that one of the expected codes fires before policy.
VariantIfAnyCodeIsEarly(fx) ==
  /\ fx.stage \in DOMAIN PublicApiStages
  /\ \/ fx.variant = "on"
     \/ /\ fx.variant = "unset"
        /\ fx.exit = Reject
        /\ fx.codes \cap PublicApiStages[fx.stage].codes # {}

PublicApiVariantApplicable(fx) ==
  /\ fx.stage \in DOMAIN PublicApiStages
  /\ \/ fx.variant = "on"
     \/ /\ fx.variant = "unset"
        /\ fx.exit = Reject
        /\ fx.codes # {}
        /\ fx.codes \subseteq PublicApiStages[fx.stage].codes

\* The variant is added only when manifest and input could both be read and
\* the input does not ask for public_api already.
HasVariant(fx) ==
  /\ fx.manifest = "ok"
  /\ fx.input = "plain"
  /\ PublicApiVariantApplicable(fx)

\* .get on what could be read but has none: only the reads themselves are in
\* the try.
DiscoveryRaises(vectors, publicApiVariants) ==
  /\ publicApiVariants
  /\ \E i \in DOMAIN vectors :
       LET fx == vectors[i]
       IN  \/ /\ fx.manifest = "nomapping"
              /\ fx.input \notin {"notjson", "missing"}
           \/ /\ fx.manifest = "ok" /\ fx.stage \in DOMAIN PublicApiStages
              /\ fx.input = "noobject"

\* vectors is the sorted list of fixtures found under the root.
FixtureCases(vectors, publicApiVariants) ==
  {[dir |-> i, mode |-> "base"] : i \in DOMAIN vectors}
    \cup {[dir |-> i, mode |-> "public_api"] :
            i \in {j \in DOMAIN vectors :
                     publicApiVariants /\ HasVariant(vectors[j])}}

\* The order cases are run in: by directory, the base case before its variant.
CaseBefore(c, d) ==
  \/ c.dir < d.dir
  \/ c.dir = d.dir /\ c.mode = "base" /\ d.mode = "public_api"

-----------------------------------------------------------------------------
(* The capability gate                                                      *)

\* A scalar that must be equal, a scalar in a list, a list holding a scalar
\* and two lists that meet are one condition on sets of values.
RequiredCapabilitiesSatisfied(required, have) ==
  \A path \in DOMAIN required :
    /\ path \in DOMAIN have
    /\ required[path] \cap have[path] # {}

RequiredCaps(fx, mode) ==
  IF mode = "public_api" /\ fx.stage \in DOMAIN PublicApiStages
  THEN LET hook == PublicApiStages[fx.stage].capability
       IN  [path \in DOMAIN fx.caps \cup {hook} |->
              IF path = hook THEN {"true"} ELSE fx.caps[path]]
  ELSE fx.caps

\* Slip: the stage list alone decides.
GateOnStageOnly(fx, mode, have) == fx.stage \in have.stages

Supported(fx, mode, have) ==
  /\ fx.stage \in have.stages
  /\ RequiredCapabilitiesSatisfied(RequiredCaps(fx, mode), have.flags)

\* Reading the manifest or the declaration raises, whatever the SDK supports.
CannotPlan(fx, have) == fx.manifest # "ok" \/ ~have.object

-----------------------------------------------------------------------------
(* The verdict on one answer                                                *)

\* str.lower() on both sides: hex is compared without regard to case.
SameValue(want, have) ==
  IF want.str /\ have.str THEN want.text = have.text ELSE want = have

\* diff_outputs: only the expected keys are looked at.
OutputsAgree(expected, got) ==
  \A key \in DOMAIN expected :
    key \in DOMAIN got /\ SameValue(expected[key], got[key])

\* Slip: a code is compared with a single one and not with a list.
CodeIfSingle(fx, a) == \A c \in fx.codes : fx.codes = {c} => a.code = c

\* Slip: a reject that names no code is taken for the expected one.
CodeIfNamed(fx, a) ==
  fx.codes # {} /\ a.code # NoCode => a.code \in fx.codes

CodeAccepted(fx, a) == fx.codes # {} => a.code \in fx.codes

StageAccepted(fx, a) == fx.rstage = AnyStage \/ a.stage = fx.rstage

\* The body is read with .get and `in`, and never checked for its type first.
RaisesOn(fx, a) ==
  \/ /\ a.exit = Reject
     /\ a.body = "list" \/ (a.body = "object" /\ a.rejection = "null")
  \/ /\ a.exit = Accept
     /\ fx.expected
     /\ \/ a.body = "list"
        \/ a.body = "object" /\ a.outputs = "null" /\ DOMAIN fx.outputs # {}

Passes(fx, a) ==
  \/ a.exit = Reject /\ CodeAccepted(fx, a) /\ StageAccepted(fx, a)
  \/ a.exit = Accept /\ (fx.expected => OutputsAgree(fx.outputs, a.facts))
  \/ a.exit \notin {Accept, Reject}

\* "raise" is no status: the exception leaves run_fixture and ends the run.
\* Output that cannot be decoded raises no JSONDecodeError.
Verdict(fx, a) ==
  IF a.body = "undecodable" THEN "raise"
  ELSE IF a.body = "garbage" THEN "error"
  ELSE IF a.exit # fx.exit THEN "fail"
  ELSE IF RaisesOn(fx, a) THEN "raise"
  ELSE IF Passes(fx, a) THEN "pass" ELSE "fail"

-----------------------------------------------------------------------------
(* The entry of a case in results.json                                      *)

\* The reasons required_capabilities_satisfied and the stage check give.
SkipReasons(fx, mode, have) ==
  LET required == RequiredCaps(fx, mode)
  IN  IF fx.stage \notin have.stages
      THEN {[kind |-> "stage", what |-> fx.stage]}
      ELSE {[kind |-> IF p \in DOMAIN have.flags THEN "value" ELSE "undeclared",
             what |-> p] :
              p \in {q \in DOMAIN required :
                       q \notin DOMAIN have.flags
                       \/ required[q] \cap have.flags[q] = {}}}

NoReason == [kind |-> "none", what |-> "none"]

\* A skip, the verdict on one of the answers, or a timeout.  A body that is no
\* JSON is not kept; one that is no object is.
FixtureResults(fx, mode, have, answers) ==
  IF ~Supported(fx, mode, have)
  THEN {[status |-> "skip", body |-> "empty", code |-> NoCode,
         accepted |-> FALSE, reason |-> why] : why \in SkipReasons(fx, mode, have)}
  ELSE {[status |-> Verdict(fx, a),
         body |-> IF a.body = "garbage" THEN "empty" ELSE a.body,
         code |-> IF a.body = "object" THEN a.code ELSE NoCode,
         accepted |-> a.body = "object" /\ a.accepted,
         reason |-> NoReason] :
          a \in {b \in answers : Verdict(fx, b) # "raise"}}
       \cup {[status |-> "error", body |-> "empty", code |-> NoCode,
              accepted |-> FALSE, reason |-> NoReason]}

=============================================================================
