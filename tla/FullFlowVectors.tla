-------------------------- MODULE FullFlowVectors ---------------------------
(***************************************************************************)
(* The verify-full vectors: verify_full_phase1_fixtures.py and              *)
(* verify_full_tdx_happy.py put a Sigstore bundle, an attestation and a     *)
(* measurement to an SDK that takes them in that order.                     *)
(*                                                                         *)
(* A block that the input leaves out is NoBlock.  signed is the measurement *)
(* the bundle's statement asserts.                                          *)
(***************************************************************************)
EXTENDS MeasurementVectors, SigstoreVectors, SevVectors, TdxVectors

NoBlock == [absent |-> TRUE]

SevMeasurement(report) == M(SevUri, <<report.body.measurement>>)

TdxMeasurement(quote) ==
  LET b == quote.body
  IN  M(TdxUri, <<Text(<<b.mr_td>>), Text(<<b.rtmr0>>), Text(<<b.rtmr1>>),
                  Text(<<b.rtmr2>>), Text(<<b.rtmr3>>)>>)

-----------------------------------------------------------------------------
(* The verifier the expectations are written for                            *)

AttestationFailures(doc, flaw) ==
  IF doc.sev # NoBlock
  THEN {<<c, "verify-attestation-sev">> : c \in SevFailures(doc.sev, flaw)}
  ELSE IF flaw = "no verify-full on TDX" THEN {<<"BUNDLE_MALFORMED", "verify-full">>}
  ELSE {<<c, "verify-attestation-tdx">> : c \in TdxFailures(doc.tdx, flaw)}

Attested(doc) ==
  IF doc.sev # NoBlock THEN SevMeasurement(doc.sev.report)
  ELSE TdxMeasurement(doc.tdx.quote)

Trusted(doc) == IF doc.mode = "pinned" THEN doc.pinned ELSE doc.signed

\* Each step is reached only by an input the steps before it accept.
FlowFailures(doc, flaw) ==
  LET malformed == {<<"BUNDLE_MALFORMED", "verify-full">>}
      attested == doc.sev # NoBlock \/ doc.tdx # NoBlock
      signed == IF doc.sigstore = NoBlock THEN {}
                ELSE {<<c, "verify-sigstore">> : c \in SigstoreFailures(doc.sigstore, flaw)}
  IN  IF \/ doc.mode = "pinned" /\ flaw = "no pinned flow"
         \/ doc.mode = "standard" /\ doc.sigstore = NoBlock
              /\ flaw # "standard taken for pinned"
      THEN malformed
      ELSE IF signed # {} THEN signed
      ELSE IF ~attested
      THEN IF flaw = "attestation block not required" THEN {} ELSE malformed
      ELSE IF AttestationFailures(doc, flaw) # {} THEN AttestationFailures(doc, flaw)
      ELSE IF Trusted(doc) = NoTarget \/ flaw = "cross-check skipped" THEN {}
      ELSE {<<c, "verify-measurement">> :
              c \in CompareFailures(Trusted(doc), Attested(doc), flaw)}

\* The stage that failed, unless the SDK reports every failure as its own.
FullFailures(doc, flaw) ==
  IF flaw = "stage flattened"
  THEN {<<f[1], "verify-full">> : f \in FlowFailures(doc, flaw)}
  ELSE FlowFailures(doc, flaw)

-----------------------------------------------------------------------------
(* The vectors                                                              *)

DefaultFullCaps ==
  {<<"attestation_sev.supported", "true">>,
   <<"attestation_sev.injected_collateral_supported", "true">>}
RootCap == {<<"sigstore.trust_root_loading", "configurable">>}
Mode(mode) == {<<"flow_modes_supported", mode>>}

\* rstage AnyStage: the vector pins none.
FullVector(id, doc, code, rstage, caps, catches) ==
  [family |-> "full", stage |-> "verify-full", id |-> id, doc |-> doc,
   exit |-> IF code = {} THEN Accept ELSE Reject, codes |-> code, rstage |-> rstage,
   caps |-> [path \in {c[1] : c \in caps} |-> {c[2] : c \in {d \in caps : d[1] = path}}],
   outputs |-> NoFacts, catches |-> catches]

\* The inputs of sigstore/001 and attestation-sev/200.
StandardPayload(seed) ==
  [mode |-> "standard", sigstore |-> seed,
   signed |-> M(MpUri, <<Template.measurement, Rtmr1, Rtmr2>>),
   sev |-> RealInput(NoPolicy), tdx |-> NoBlock, pinned |-> NoTarget]

StandardFlowVectors(seed) ==
  LET base == StandardPayload(seed)
      standard == RootCap \cup Mode("standard")
      pinF == SevPolicy("measurement" :> Text(<<"f">>), NoMins, FALSE)
  IN  {FullVector("500", base, {}, AnyStage, DefaultFullCaps \cup standard, {}),
       FullVector("501", [base EXCEPT !.sigstore.digest = ZeroDigest],
                  {"SUBJECT_DIGEST_MISMATCH"}, "verify-sigstore", standard,
                  {"stage flattened"}),
       FullVector("502", [base EXCEPT !.sev.policy = pinF], {"MEASUREMENT_MISMATCH"},
                  "verify-attestation-sev",
                  DefaultFullCaps \cup standard
                    \cup {<<"attestation_sev.extended_checks_supported", "true">>},
                  {"stage flattened", "no SEV policy pins"}),
       FullVector("503", [base EXCEPT !.sigstore = NoBlock, !.signed = NoTarget],
                  {"BUNDLE_MALFORMED"}, "verify-full", Mode("standard"),
                  {"standard taken for pinned"}),
       FullVector("504", [base EXCEPT !.sev = NoBlock], {"BUNDLE_MALFORMED"},
                  "verify-full", standard, {"attestation block not required"})}

PinnedFlowVectors ==
  LET pinned(measurement) ==
        [mode |-> "pinned", sigstore |-> NoBlock, signed |-> NoTarget,
         sev |-> RealInput(NoPolicy), tdx |-> NoBlock, pinned |-> measurement]
      caps == DefaultFullCaps \cup Mode("pinned")
  IN  {FullVector("510", pinned(M(SevUri, <<Template.measurement>>)), {}, AnyStage, caps, {}),
       FullVector("520", pinned(M(SevUri, <<Text(<<"f">>)>>)), {"MEASUREMENT_MISMATCH"},
                  "verify-measurement", caps, {"cross-check skipped"})}

\* Slip: the registers are read one register too early.
RegistersEarly(body) == <<Text(<<body.rtmr0>>), Text(<<body.rtmr1>>)>>

\* rtmr1 and rtmr2 of the frozen quote, bytes 376..472 of its body.
QuoteRegisters(body) == <<Text(<<body.rtmr1>>), Text(<<body.rtmr2>>)>>

\* 506: the payload of 001 with the quote's registers, signed anew.
TdxFlowVector ==
  LET r == Resolved(DefaultSpec)
  IN  {FullVector("506",
         [mode |-> "standard",
          sigstore |-> [bundle |-> BuildBundle(r), root |-> BuildTrustRoot(r),
                        digest |-> Digest, repo |-> "test-repo", policy |-> DefaultPolicy],
          signed |-> M(MpUri, <<Template.measurement>> \o QuoteRegisters(RealQuote.body)),
          sev |-> NoBlock, tdx |-> RealTdxInput(FALSE), pinned |-> NoTarget],
         {}, AnyStage,
         RootCap \cup {<<"attestation_tdx.verify_full_supported", "true">>}, {})}

FullFamily(seed) == StandardFlowVectors(seed) \cup PinnedFlowVectors \cup TdxFlowVector

=============================================================================
