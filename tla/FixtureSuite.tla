---------------------------- MODULE FixtureSuite ----------------------------
(***************************************************************************)
(* The vectors of fixturegen/ put to an SDK: the verifier each family's     *)
(* expectations are written for answers them, faultless or with one flaw,   *)
(* and the runner judges.                                                   *)
(*                                                                         *)
(* An SDK is [flaw, honest].  Its flaw is "none" or what one verifier of    *)
(* the families does wrong; an honest SDK that lacks a feature says so in   *)
(* its capabilities.  It may check in any order: of the codes that apply    *)
(* any one can be the one it names.                                         *)
(*                                                                         *)
(* Vectors of the v3 suite go to the lane, which gates nothing.             *)
(***************************************************************************)
EXTENDS EnclaveCertVectors, FullFlowVectors, V3Suite

Lane == INSTANCE LaneRules WITH Taxonomy <- V3Codes

VARIABLES vector, sdk, answer, verdict

vars == <<vector, sdk, answer, verdict>>

Families ==
  {"measurement", "hardware", "enclave-cert", "sigstore", "sev", "tdx", "full"}
    \cup V3Families
IsV3(v) == v.family \in V3Families

\* A missing feature and the capability whose absence announces it.
GapCapability ==
  "no multi-platform to TDX" :> "measurement.compare_multiplatform_to_tdx_supported"
  @@ "one log entry only" :> "sigstore.accepts_multi_tlog_entries"
  @@ "V1 issuer preferred" :> "sigstore.oidc_issuer_v2_preferred"
  @@ "duplicate SCTs accepted" :> "sigstore.rejects_duplicate_sct_log"
  @@ "any subject will do" :> "sigstore.checks_only_subject_0"
  @@ "statement types not configurable" :>
       "sigstore.policy_fields_configurable.in_toto_statement_types_allowed"
  @@ "payload type not configurable" :> "sigstore.policy_fields_configurable.payload_type"
  @@ "SEV system clock" :> "attestation_sev.verification_time_override"
  @@ "no SEV policy pins" :> "attestation_sev.extended_checks_supported"
  @@ "no AMD root injection" :> "attestation_sev.amd_root_ca_injection_supported"
  @@ "TDX system clock" :> "attestation_tdx.verification_time_override"
  @@ "FMSPC not readable" :> "attestation_tdx.policy_fields_supported.expected_fmspc_hex"
  @@ "no TCB evaluation" :> "attestation_tdx.tcb_evaluation_supported"
  @@ "no extended TD checks" :> "attestation_tdx.extended_td_checks_supported"
  @@ "OK is the only accepted status" :> "attestation_tdx.accepts_non_terminal_tcb_statuses"
  @@ "accepted results not configurable" :>
       "attestation_tdx.policy_fields_supported.accepted_qv_results"
  @@ "no least evaluation number" :>
       "attestation_tdx.enforces_tcb_evaluation_data_number_minimum"
  @@ "no pinned flow" :> "flow_modes_supported"
  @@ "no verify-full on TDX" :> "attestation_tdx.verify_full_supported"

Gaps == DOMAIN GapCapability

-----------------------------------------------------------------------------
(* The suite and its SDKs                                                   *)

FixedVectors == MeasurementFamily \cup HardwareFamily \cup EnclaveCertFamily
                  \cup SignedFamily \cup SevFamily \cup TdxFamily \cup V3Vectors

\* Where the production entry sits in its log is not the fixtures' choice.
Suite ==
  FixedVectors
    \cup UNION {SeedFamily(SeedInput(t)) \cup FullFamily(SeedInput(t)) : t \in SeedTrees}

\* Every rejection that applies, with the stage it names.
Rejections(v, flaw) ==
  LET here(codes) == {<<c, v.stage>> : c \in codes}
  IN  CASE v.family = "measurement"  -> here(MeasurementFailures(v.doc, flaw))
        [] v.family = "hardware"     -> here(HardwareFailures(v.doc, flaw))
        [] v.family = "enclave-cert" -> here(EnclaveCertFailures(v.doc, flaw))
        [] v.family = "sigstore"     -> here(SigstoreFailures(v.doc, flaw))
        [] v.family = "sev"          -> here(SevFailures(v.doc, flaw))
        [] v.family = "tdx"          -> here(TdxFailures(v.doc, flaw))
        [] v.family = "full"         -> FullFailures(v.doc, flaw)
        [] IsV3(v)                   -> here(V3Refusals(v, flaw))

Facts(v, flaw) ==
  CASE v.family = "measurement"  -> MeasurementFacts(v.doc, flaw)
    [] v.family = "hardware"     -> HardwareFacts(v.doc, flaw)
    [] v.family = "enclave-cert" -> EnclaveCertFacts(v.doc, flaw)
    [] v.family = "sigstore"     -> SigstoreFacts(v.doc, flaw)
    [] v.family = "sev"          -> SevFacts(v.doc, flaw)
    [] v.family = "tdx"          -> TdxFacts(v.doc, flaw)
    [] v.family = "full"         -> NoFacts
    [] IsV3(v)                   -> V3Facts(v)

\* The vector as the runner reads it back.
FixtureOf(v) ==
  [manifest |-> "ok", stage |-> v.stage, exit |-> v.exit, codes |-> v.codes,
   rstage |-> IF v.family = "full" THEN v.rstage ELSE AnyStage, caps |-> v.caps,
   variant |-> "unset", input |-> "plain", expected |-> TRUE, outputs |-> v.outputs]

\* The whole TDX flow takes the comparison for granted: an SDK without the one
\* cannot declare the other.
Lacks(gap) ==
  {GapCapability[gap]}
    \cup (IF gap = "no multi-platform to TDX"
          THEN {GapCapability["no verify-full on TDX"]} ELSE {})

\* What the SDK declares: everything a vector may ask for, but the feature an
\* honest one lacks.
Declares(v, s) ==
  LET missing == IF s.honest THEN UNION {Lacks(g) : g \in Gaps \cap {s.flaw}} ELSE {}
  IN  [object |-> TRUE, stages |-> {v.stage},
       flags |-> [path \in DOMAIN v.caps \ missing |-> v.caps[path]]]

\* The vector as the lane reads it back.
LaneFixtureOf(v) ==
  [accepted |-> v.exit = Accept, facts |-> v.outputs,
   code |-> IF v.codes = {} THEN Lane!NoCode ELSE CHOOSE code \in v.codes : TRUE]

LaneAnswer(a) ==
  [exit |-> a.exit, kind |-> a.body, rejection |-> a.rejection, code |-> a.code,
   accepted |-> IF a.exit = Accept THEN "true" ELSE "false", facts |-> a.facts]

LaneVerdict(v, a) ==
  LET recorded == [PASS |-> "pass", FAIL |-> "fail", SKIP |-> "skip"]
  IN  recorded[Lane!Status(LaneFixtureOf(v), LaneAnswer(a))]

\* The exit of a code: input that cannot be read has its own.
ExitFor(code) == IF code = "ENCLAVE_CERT_MALFORMED" THEN BadInput ELSE Reject

Idle == [exit |-> NoExit, body |-> "empty", rejection |-> "absent", code |-> NoCode,
         stage |-> NoStage, outputs |-> "null", facts |-> NoFacts]
Rejects(code, stage) ==
  [Idle EXCEPT !.exit = ExitFor(code), !.body = "object", !.rejection = "object",
               !.code = code, !.stage = stage]
Accepts(facts) == [Idle EXCEPT !.exit = Accept, !.body = "object",
                               !.outputs = "object", !.facts = facts]

-----------------------------------------------------------------------------
(* One vector at a time                                                     *)

Faultless == [flaw |-> "none", honest |-> TRUE]
NoVector == [family |-> "none", id |-> "none", catches |-> {}]

Init ==
  /\ vector = NoVector /\ sdk = Faultless
  /\ answer = Idle /\ verdict = "none"

\* An SDK can claim a feature it lacks; one that has it declares it.
SdksFor(v) ==
  IF IsV3(v) THEN [flaw : {"none"} \cup v.catches, honest : {TRUE}]
  ELSE [flaw : {"none"} \cup v.catches \cup Gaps, honest : {TRUE}]
         \cup [flaw : v.catches \cap Gaps, honest : {FALSE}]

\* The gate of run_fixture, before the SDK is called; the lane has none.
Present ==
  /\ verdict = "none"
  /\ \E v \in Suite : \E s \in SdksFor(v) :
       /\ vector' = v
       /\ sdk' = s
       /\ verdict' = IF IsV3(v) \/ Supported(FixtureOf(v), "base", Declares(v, s))
                     THEN "pending" ELSE "skip"
  /\ UNCHANGED answer

\* Whatever applies first in the SDK's own order of checks is what it names.
AnswerReject ==
  /\ verdict = "pending" /\ answer = Idle
  /\ \E r \in Rejections(vector, sdk.flaw) : answer' = Rejects(r[1], r[2])
  /\ UNCHANGED <<vector, sdk, verdict>>

AnswerAccept ==
  /\ verdict = "pending" /\ answer = Idle
  /\ Rejections(vector, sdk.flaw) = {}
  /\ answer' = Accepts(Facts(vector, sdk.flaw))
  /\ UNCHANGED <<vector, sdk, verdict>>

\* Slip: the rejection code is recorded for the status.
JudgeByCode ==
  /\ verdict = "pending" /\ answer # Idle
  /\ verdict' = answer.code
  /\ UNCHANGED <<vector, sdk, answer>>

Judge ==
  /\ verdict = "pending" /\ answer # Idle
  /\ verdict' = IF IsV3(vector) THEN LaneVerdict(vector, answer)
                ELSE Verdict(FixtureOf(vector), answer)
  /\ UNCHANGED <<vector, sdk, answer>>

\* The result is recorded and the next vector taken up.
Record ==
  /\ verdict \in Statuses
  /\ vector' = NoVector /\ sdk' = Faultless
  /\ answer' = Idle /\ verdict' = "none"

Next == Present \/ AnswerReject \/ AnswerAccept \/ Judge \/ Record

Spec == Init /\ [][Next]_vars

-----------------------------------------------------------------------------
(* Properties                                                               *)

\* A vector put to an SDK is one its runner can read, a flaw one of the vector's
\* or a missing feature, and every verdict one a run can record.
TypeOK ==
  /\ vector.family \in Families \cup {"none"}
  /\ vector.family = "none" <=> verdict = "none"
  /\ IsV3(vector) => Lane!Valid(LaneFixtureOf(vector))
  /\ sdk.flaw \in {"none"} \cup Gaps \cup vector.catches
  /\ verdict \in Statuses \cup {"none", "pending"}

\* Vectors no answer can satisfy today: the probes of phases 5 and 6, written
\* to fail until the specification has a clause, and 200, whose outputs are
\* read at other offsets than the report is laid out in.
FailsEveryone ==
  {<<"sev", id>> : id \in {"200", "270", "271", "272", "273", "274"}}

\* Several codes apply and not every one is listed.  The frozen CRLs are as old
\* as the frozen TCB Info: at the date of 341 and 343 an SDK that looks at CRLs
\* first names another code.  The notes of 022 and 064 name theirs: SCT errors
\* may come first (policy_variations.py:439-441), and the late log entry is
\* REKOR_INCLUSION_INVALID to some (signed_fixtures.py:378-379, whose
\* "list-form accepts" is said of the one code at 385).  The leaf of 091 has no
\* issuing CA either.
OrderDependent ==
  {<<"tdx", "341">>, <<"tdx", "343">>,
   <<"sigstore", "022">>, <<"sigstore", "064">>, <<"sigstore", "091">>}

\* Verdict x of vector v on an SDK that does nothing wrong.
SparesFaultless(v, s, x) ==
  s.flaw = "none" =>
    LET name == <<v.family, v.id>>
        codes == {r[1] : r \in Rejections(v, "none")}
    IN  IF name \in FailsEveryone THEN x = "fail"
        ELSE IF name \in OrderDependent
        THEN codes \cap v.codes # {} /\ codes \ v.codes # {}
        ELSE x = "pass"

\* No vector of the generators fails an SDK that does nothing wrong, whatever
\* the order of its checks: one fault per vector, or every code of several
\* listed (required_capabilities, rejection_code and outputs of write_fixture).
\* But for OrderDependent, where the order decides: a listed code applies, and
\* one that is not.
FaultlessPasses ==
  verdict \in Statuses => SparesFaultless(vector, sdk, verdict)

\* Claims that do not hold: another fault of the vector rejects it first (260,
\* and 326 to 345, whose frozen quote matches no level of the frozen TCB
\* Info), or no difference is made (230, 480).
Unfounded ==
  {<<"hardware", "230", "hardware side not lowered">>,
   <<"sev", "260", "TCB minimum not applied">>,
   <<"tdx", "326", "PCK CRL signature not verified">>,
   <<"tdx", "327", "root CRL signature not verified">>,
   <<"tdx", "335", "TCB Info chain not verified">>,
   <<"tdx", "340", "TCB Info signature not verified">>,
   <<"tdx", "342", "QE Identity signature not verified">>,
   <<"tdx", "344", "TCB Info signature not verified">>,
   <<"tdx", "345", "QE Identity signature not verified">>,
   <<"tdx", "480", "SVN compared as one number">>}
  \cup V3Unfounded

\* Verdict x of vector v on an SDK with one of the mistakes v is about.
TellsItsFlaw(v, s, x) ==
  s.flaw \in v.catches /\ ~(s.honest /\ s.flaw \in Gaps)
  => x = IF <<v.family, v.id, s.flaw>> \in Unfounded THEN "pass" ELSE "fail"

\* A vector whose notes or comments name a mistake fails every SDK that makes
\* it and claims the feature, whatever else it checks first: no other fault of
\* the vector hides the one it is about.  Of the unfounded claims the opposite
\* holds: the SDK that makes the mistake passes.
CatchesItsFlaw ==
  verdict \in Statuses => TellsItsFlaw(vector, sdk, verdict)

\* Vectors whose comment calls them "NOT gated", with the mistake they are to
\* catch; each asks for the capability nevertheless (signed_fixtures.py:561-562
\* and 591).
CalledUngated == {<<"sigstore", "069b", "V1 issuer preferred">>}

\* Verdict x of vector v on an SDK that declares its gap.
SparesHonestGaps(v, s, x) ==
  /\ s.honest /\ s.flaw \in Gaps
  /\ <<v.family, v.id>> \notin FailsEveryone \cup OrderDependent
  => IF <<v.family, v.id, s.flaw>> \in CalledUngated THEN x = "skip"
     ELSE x \in {"pass", "skip"}

\* An SDK that says it lacks a feature is never failed for lacking it: every
\* vector that turns on the feature asks for its capability.  Of CalledUngated
\* this is not what their comments promise: the SDK is let off.
HonestGapsNeverFail ==
  verdict \in Statuses => SparesHonestGaps(vector, sdk, verdict)

\* A vector that is called "NOT gated" fails an SDK with the regression it
\* guards against: "so a regression to V1-only fails loudly"
\* (signed_fixtures.py:561-562).
RegressionsFailLoudly ==
  verdict \in Statuses /\ <<vector.family, vector.id, sdk.flaw>> \in CalledUngated
  => verdict = "fail"

\* The decoded fields an accepting SEV vector pins are those the report builder
\* writes at the offsets its comment calls canonical, naming the others
\* "non-canonical" (sev_synth.py:365-371).
PinnedFieldsAreCanonical ==
  vector.family = "sev" /\ vector.exit = Accept =>
    LET written == SevFactsAt(vector.doc.report.body,
                              [name \in TailFields |-> BuildOffset(name)])
    IN  \A key \in DOMAIN vector.outputs : vector.outputs[key] = written[key]

=============================================================================
