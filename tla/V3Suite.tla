-------------------------------- MODULE V3Suite --------------------------------
(***************************************************************************)
(* The vectors of the v3 generators together, the verifier of each stage    *)
(* (docs/CONFORMANCE_ADAPTER_SPEC.md, 2 and 2.1) and the claims of the      *)
(* generators that do not hold.                                             *)
(***************************************************************************)
EXTENDS V3Tdx, V3Timestamps, V3Approvals

\* Rejection codes of schemas/v3/fixture.schema.json.
V3Codes ==
  {"ENVELOPE_REJECTED", "PROVENANCE_REJECTED", "QUOTE_REJECTED", "POLICY_REJECTED",
   "MALFORMED_INPUT"}

V3Families ==
  {"v3-envelope", "v3-provenance", "v3-policy", "v3-sev", "v3-frozen-time",
   "v3-embedded-roots", "v3-golden", "v3-freshness", "v3-tdx", "v3-golden-tdx",
   "v3-timestamp", "v3-approval"}

\* Vectors that name no root: the SDK's own hold, with none of the synthetic
\* keys among them.
EmbeddedRootsFamily ==
  LET sev == SevDoc(BuildSev(DefaultSev), WallClock)
      code == CodeEntry(V3Bundle(HappyCode), CodeSubject.digest)
      strangers == [V3Root EXCEPT !.cas = {}, !.ctlogs = {}, !.tlogs = {}]
  IN
  {QuoteVector("v3-embedded-roots", "embedded-sev-rejects-synthetic",
     [sev EXCEPT !.anchor = <<"amd ask", "amd ark">>], "QUOTE_REJECTED", {"S26-root"}),
   QuoteVector("v3-embedded-roots", "embedded-tdx-rejects-synthetic",
     [TdxDoc(TdxArgs, Today) EXCEPT !.anchor = IntelChain.root], "QUOTE_REJECTED", {"T25"}),
   V3Vector("v3-embedded-roots", "v3-authenticate-provenance",
     "embedded-sigstore-rejects-synthetic", CodeDoc(<<code>>, strangers),
     "PROVENANCE_REJECTED", NoFacts, {})}

V3Vectors ==
  EnvelopeFamily \cup ProvenanceFamily \cup PolicyFamily \cup V3SevFamily
    \cup FrozenTimeFamily \cup EmbeddedRootsFamily \cup GoldenFamily
    \cup FreshnessFamily \cup V3TdxFamily \cup GoldenTdxFamily \cup TimestampFamily
    \cup ApprovalFamily

IsTdxDoc(doc) == "quote" \in DOMAIN doc

\* The code an SDK with the flaw rejects the vector with, in a set, or {}.
V3Refusals(v, flaw) ==
  LET coded(broken, code) == IF broken = {} THEN {} ELSE {code}
      provenance(broken) == coded(broken, "PROVENANCE_REJECTED")
      d == v.doc
  IN  CASE v.stage = "v3-check-envelope" -> coded(EnvelopeBroken(d, flaw), "ENVELOPE_REJECTED")
        [] v.stage = "v3-authenticate-provenance" -> provenance(CodeBroken(d, flaw))
        [] v.stage = "v3-assemble-policy"         -> provenance(PlatformBroken(d, flaw))
        [] v.stage = "v3-verify-timestamp"        -> provenance(TimestampBroken(d, flaw))
        [] v.stage = "v3-authenticate-approval"   -> provenance(ApprovalBroken(d, flaw))
        [] v.stage = "v3-authenticate-quote" ->
             coded(IF IsTdxDoc(d) THEN TdxQuoteBroken(d, flaw) ELSE SevQuoteBroken(d, flaw),
                   "QUOTE_REJECTED")
        [] OTHER -> IF IsTdxDoc(d) THEN TdxRefusals(d, flaw) ELSE SevRefusals(d, flaw)

\* What the SDK reports of a vector it accepts.
V3Facts(v) ==
  CASE v.stage = "v3-authenticate-provenance" -> CodeFacts(v.doc)
    [] v.stage = "v3-verify-timestamp"        -> TimestampFacts(v.doc)
    [] v.stage = "v3-authenticate-approval"   -> ApprovalFacts(v.doc)
    [] v.stage = "verify-attestation-v3"      ->
         IF IsTdxDoc(v.doc) THEN TdxWholeFacts(v.doc) ELSE SevWholeFacts(v.doc)
    [] OTHER -> NoFacts

\* Claims that do not hold.  A section the envelope vectors replace no longer
\* has the hash endorsed for it, or the ladder no longer has the hash; the
\* bundles gen_provenance.py builds anew name neither their tag nor their
\* commit; a bundle without signature or entry has no logged signature; a quote
\* changed after signing is not signed, and a report of version 2 has no model.
V3Unfounded ==
  {<<"v3-envelope", c[1], c[2]>> :
     c \in {<<"e7", "E7">>, <<"e9", "E9">>, <<"e10", "E10">>, <<"e11", "E11">>,
            <<"e12", "E12">>, <<"e15", "E15">>, <<"e16", "E16">>}}
    \cup {<<"v3-provenance", c[1], c[2]>> :
            c \in {<<"p4-zero-sigs", "P4">>, <<"p7", "P7">>, <<"p8", "P8">>, <<"p9", "P9">>,
                   <<"p11-san", "P11-san">>, <<"p11-issuer", "P11-issuer">>,
                   <<"p11-runner", "P11-runner">>, <<"p12", "P12">>,
                   <<"p13-predicate-type", "P13-type">>, <<"p14-ref", "P14-ref">>,
                   <<"p14-path", "P14-path">>}
                  \cup {<<branch, branch>> : branch \in SchemaBranches}}
    \cup {<<"v3-sev", "s1-report-version", "S1">>, <<"v3-tdx", "t1-quote-version", "T1">>,
          <<"v3-tdx", "t3-reserved-bytes", "T3">>}

=============================================================================
