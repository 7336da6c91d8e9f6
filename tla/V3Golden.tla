------------------------------- MODULE V3Golden -------------------------------
(***************************************************************************)
(* Whole v3 documents at verify-attestation-v3: the golden SEV document of  *)
(* v3/gen_golden.py with its mutations, and those of v3/gen_freshness.py.   *)
(*                                                                         *)
(* A document goes through envelope, provenance, quote and policy in that   *)
(* order; the first layer that refuses names the code.                      *)
(***************************************************************************)
EXTENDS V3Sev

\* Both endorsed channel keys must be there, each in its format.
KeysHold(crypto) ==
  LET has(item) == \E i \in DOMAIN crypto.items :
                     [crypto.items[i] EXCEPT !.data = ""] = [item EXCEPT !.data = ""]
  IN  "TLS key" :> has(TlsItem) @@ "HPKE key" :> has(HpkeItem)

\* Flaws of an SDK that is choosy about a document's collateral.
CollateralTooStrict(env, flaw) ==
  LET n == Len(env.collateral)
  IN  \/ flaw = "collateral order fixed" /\ env.collateral[1].id # "sigstore-code"
      \/ flaw = "unknown collateral refused"
         /\ \E i \in 1..n : env.collateral[i].format = "unknown/v9"

EnvelopeLayer(d, flaw) ==
  EnvelopeBroken(d.env, flaw) \cup Broken(KeysHold(d.env.crypto), flaw)
    \cup (IF CollateralTooStrict(d.env, flaw) THEN {flaw} ELSE {})

ProvenanceLayer(d, flaw) ==
  CodeBroken(d, flaw) \cup PlatformBroken(d, flaw)
    \cup WitnessBroken(d, "code-freshness", CodeEndorsement, flaw)
    \cup WitnessBroken(d, "platform-freshness", PlatformEndorsement, flaw)

\* The code of the first layer that refuses; quote and policy are read only if
\* what they rest on stands.
FirstRefusal(envelope, provenance, quote, policy) ==
  CASE envelope # {}   -> {"ENVELOPE_REJECTED"}
    [] provenance # {} -> {"PROVENANCE_REJECTED"}
    [] quote # {}      -> {"QUOTE_REJECTED"}
    [] policy # {}     -> {"POLICY_REJECTED"}
    [] OTHER           -> {}

\* What the provenance layer authenticated.
PayloadOf(env, format) ==
  env.collateral[CHOOSE i \in EntriesOf(env, format) : TRUE].data.bundle.envelope.payload.predicate
EndorsedCode(env) == PayloadOf(env, "sigstore-code/v1")
EndorsedArtifact(env) == PayloadOf(env, "sigstore-platform/v1")

-----------------------------------------------------------------------------
(* The report against the endorsed policy: S2 to S24, I5, PL                *)

AtLeast(tcb, floor, strictly) ==
  \A part \in DOMAIN floor : tcb[part] >= floor[part] + (IF strictly THEN 1 ELSE 0)

\* One rule per bit: an SDK may compare some and not others.
BitsHold(rule, bits, set) ==
  [name \in {rule \o bit : bit \in DOMAIN bits} |->
     \A bit \in DOMAIN bits : name = rule \o bit => bits[bit] = (bit \in set)]

SevReportHolds(env, r, p, flaw) ==
  LET comparable == Lacking(p["platform_info"], "iommu_write_safe")
      vcekTcb == env.collateral[CHOOSE i \in EntriesOf(env, "amd-vcek/v1") : TRUE]
                   .data.der.value.tbs.tcb
      strictly == flaw = "TCB floor excluded"
      floor == p["minimum_tcb"]
  IN  "S2" :> (r["guest_svn"] >= p["minimum_guest_svn"]
                 + (IF flaw = "guest SVN floor excluded" THEN 1 ELSE 0))
   @@ BitsHold("S4 ", p["guest_policy"], r["policy"])
   @@ BitsHold("S11 ", comparable, r["platform_info"])
   @@ "S5" :> (r["family_id"] = p["family_id"])
   @@ "S6" :> (r["image_id"] = p["image_id"])
   @@ "S7" :> (r["vmpl"] = p["vmpl"])
   @@ "S9" :> AtLeast(r["current"], vcekTcb, FALSE)
   @@ "S13" :> (r["report_data"] = env.reportData)
   @@ "S14" :> (r["measurement"] = EndorsedCode(env).snp)
   @@ "S15" :> (r["host_data"] = p["host_data"])
   @@ "S16" :> (r["id_key_digest"] = "00")
   @@ "S19-vendor" :> (r["reported"] = vcekTcb)
   @@ "S19-floor" :> (\A tcb \in {r["reported"], r["current"], r["committed"]} :
                        AtLeast(tcb, floor, strictly))
   @@ "S22" :> (r["committed"] = r["current"])
   @@ "S23" :> AtLeast(r["launch"], p["minimum_launch_tcb"], FALSE)
   @@ "S24" :> (p["minimum_launch_mitigation_vector"] \subseteq r["mitigation"])
   @@ "PL6" :> ~("iommu_write_safe" \in DOMAIN p["platform_info"]
                  /\ p["platform_info"]["iommu_write_safe"])

SevTooStrict(r, p, flaw) ==
  \/ flaw = "REPORT_ID checked" /\ r["report_id"] # "00"
  \/ flaw = "REPORT_ID_MA checked" /\ r["report_id_ma"] # "00"
  \/ flaw = "debug refused" /\ "debug" \in r["policy"]
  \/ flaw = "TCB equal to its floor"
     /\ \E part \in TcbMembers : r["reported"][part] # p["minimum_tcb"][part]
  \/ flaw = "iommu member refused" /\ "iommu_write_safe" \in DOMAIN p["platform_info"]

\* The machine selects the policy; without I5 any policy will do.
SevPolicyLayer(d, flaw) ==
  LET r == d.report.body
      artifact == EndorsedArtifact(d.env)
      named == {m \in DOMAIN artifact.machines : flaw = "I5" \/ m = r["chip"]}
  IN  IF named = {} THEN {"I5"}
      ELSE LET machine == CHOOSE m \in named : TRUE
               p == artifact.policies[artifact.machines[machine]].blocks["sev_snp"]
           IN  Broken(SevReportHolds(d.env, r, p, flaw), flaw)
                 \cup (IF SevTooStrict(r, p, flaw) THEN {flaw} ELSE {})

SevRefusals(d, flaw) ==
  FirstRefusal(EnvelopeLayer(d, flaw), ProvenanceLayer(d, flaw), SevQuoteBroken(d, flaw),
               SevPolicyLayer(d, flaw))

KeyFacts(env) ==
  LET item == [id \in {env.crypto.items[i].id : i \in DOMAIN env.crypto.items} |->
                 CHOOSE i \in DOMAIN env.crypto.items : env.crypto.items[i].id = id]
      named == "tls_public_key_fp" :> "tls" @@ "hpke_public_key" :> "hpke"
  IN  [fact \in {name \in DOMAIN named : named[name] \in DOMAIN item} |->
         env.crypto.items[item[named[fact]]].data]

SevGuest(register) == <<"sev-snp-guest/v2", register>>

\* What an accepting SDK reports of a SEV document.
SevWholeFacts(d) ==
  LET code == EntriesOf(d.env, "sigstore-code/v1")
  IN  KeyFacts(d.env)
   @@ "code_digest" :> d.env.collateral[CHOOSE i \in code : TRUE].data.digest
   @@ "code_measurement" :> SevGuest(EndorsedCode(d.env).snp)
   @@ "enclave_measurement" :> SevGuest(d.report.body["measurement"])

-----------------------------------------------------------------------------
(* The golden document                                                      *)

GoldenMeasurement == "11"
GoldenChip == Machine("22", 64)

GoldenBlock == SevBlock({})
GoldenArtifact ==
  [format |-> ArtifactFormat, measurements |-> [name \in {} |-> << >>],
   machines |-> GoldenChip :> "sev-policy",
   policies |-> "sev-policy" :> SevNamed(GoldenBlock)]

\* The report carries the ladder of the document with these keys.
GoldenArgs(tcb, items) ==
  [SevArgs(tcb) EXCEPT !.report_data = BaseDoc(items).reportData,
                       !.measurement = GoldenMeasurement, !.chip = GoldenChip]
HappyItems == <<TlsItem, HpkeItem>>
HappyArgs == GoldenArgs(SevTcb, HappyItems)

\* What a golden document is made of.
Recipe(artifact, measurement, args, items) ==
  [artifact |-> artifact, measurement |-> measurement, args |-> args, items |-> items]
HappyRecipe == Recipe(GoldenArtifact, GoldenMeasurement, HappyArgs, HappyItems)

Golden(recipe) ==
  LET art == BuildSev(recipe.args)
      code == V3Bundle(CodeArgs(CodeIdentity,
                CodeStatement([CodePredicate EXCEPT !.snp = recipe.measurement])))
      artifacts == <<CodeEntry(code, CodeSubject.digest), CodeWitness,
                     PlatformEntry(PlatformRepo, V3Bundle(PlatformArgs(recipe.artifact))),
                     PlatformWitness>>
  IN  [env |-> [BaseDoc(recipe.items) EXCEPT !.collateral = artifacts \o SevCollateral(art)],
       report |-> art.report, anchor |-> <<"ask", "ark">>, root |-> V3Root,
       time |-> IntegratedTime]

HappyGolden == Golden(HappyRecipe)
Reporting(args) == [HappyRecipe EXCEPT !.args = args]
WithPolicy(member, value) ==
  [GoldenArtifact EXCEPT !.policies["sev-policy"].blocks["sev_snp"][member] = value]
Asking(member, value) == [HappyRecipe EXCEPT !.artifact = WithPolicy(member, value)]
WithItems(items) ==
  [HappyRecipe EXCEPT !.args = GoldenArgs(SevTcb, items), !.items = items]

WholeVector(family, id, doc, code, facts, catches) ==
  V3Vector(family, "verify-attestation-v3", id, doc, code, facts, catches)

GoldenFacts ==
  "tls_public_key_fp" :> TlsItem.data @@ "hpke_public_key" :> HpkeItem.data
   @@ "code_digest" :> CodeSubject.digest
   @@ "code_measurement" :> SevGuest(GoldenMeasurement)
   @@ "enclave_measurement" :> SevGuest(GoldenMeasurement)

GoldenReject(id, doc, rule) ==
  WholeVector("v3-golden", id, doc, "POLICY_REJECTED", NoFacts, {rule})
GoldenAccept(id, doc, catches) ==
  WholeVector("v3-golden", id, doc, "none", GoldenFacts, catches)
KeyReject(id, items, rule) ==
  WholeVector("v3-golden", id, WithItems(items), "ENVELOPE_REJECTED", NoFacts, {rule})

\* The vectors with recipes for documents.
GoldenRecipes ==
  LET low == [SevTcb EXCEPT !["snp_spl"] = 19]
      high == [SevTcb EXCEPT !["snp_spl"] = 25, !["ucode_spl"] = 90]
      least(snp) == [ZeroTcb EXCEPT !["snp_spl"] = snp]
      bits(set) == Flags(PolicyBits, set)
      info(set) == Flags(InfoBits, set)
      iommu(needed) == Asking("platform_info", "iommu_write_safe" :> needed @@ info({}))
  IN
  {GoldenAccept("golden-happy", HappyRecipe, {}),
   GoldenReject("s14-measurement", [HappyRecipe EXCEPT !.measurement = "99"], "S14"),
   GoldenReject("s15-host-data", Reporting([HappyArgs EXCEPT !.host_data = "01"]), "S15"),
   GoldenReject("s3-guest-policy", Asking("guest_policy", bits({"smt", "debug"})), "S4 debug"),
   GoldenReject("s7-vmpl", Asking("vmpl", 1), "S7"),
   GoldenReject("s19-tcb-floor", Asking("minimum_tcb", least(99)), "S19-floor"),
   GoldenReject("s23-launch-tcb", Asking("minimum_launch_tcb", least(99)), "S23"),
   GoldenReject("s9-current-tcb",
     Reporting([HappyArgs EXCEPT !.current = low, !.committed = low]), "S9"),
   GoldenReject("s19-vcek-cert-tcb", Reporting([HappyArgs EXCEPT !.vcek = low]),
                "S19-vendor"),
   GoldenReject("s22-committed-tcb", Reporting([HappyArgs EXCEPT !.committed = low]), "S22"),
   GoldenReject("s4-smt", Asking("guest_policy", bits({})), "S4 smt"),
   GoldenReject("s4-migrate-ma", Asking("guest_policy", bits({"smt", "migrate_ma"})),
                "S4 migrate_ma"),
   GoldenReject("s4-single-socket", Asking("guest_policy", bits({"smt", "single_socket"})),
                "S4 single_socket"),
   GoldenReject("s2-guest-svn", Asking("minimum_guest_svn", 5), "S2"),
   GoldenReject("s5-family-id", Reporting([HappyArgs EXCEPT !.family_id = "01"]), "S5"),
   GoldenReject("s6-image-id", Reporting([HappyArgs EXCEPT !.image_id = "01"]), "S6"),
   GoldenReject("s13-report-data",
     Reporting([HappyArgs EXCEPT !.report_data = Ladder("ff", @.endorsed)]), "S13"),
   GoldenReject("s16-id-key-digest",
     Reporting([HappyArgs EXCEPT !.id_key_digest = "01"]), "S16"),
   GoldenReject("s24-mitigation", Asking("minimum_launch_mitigation_vector", {0}), "S24"),
   GoldenReject("i5-not-endorsed",
     Reporting([HappyArgs EXCEPT !.chip = Machine("33", 64)]), "I5"),
   GoldenReject("pl-iommu-required", iommu(TRUE), "PL6"),
   KeyReject("e-missing-tls-key", <<HpkeItem>>, "TLS key"),
   KeyReject("e-hpke-wrong-format",
     <<TlsItem, [HpkeItem EXCEPT !.format = TlsItem.format]>>, "HPKE key"),
   GoldenAccept("u1-report-id", Reporting([HappyArgs EXCEPT !.report_id = "77"]),
                {"REPORT_ID checked"}),
   GoldenAccept("u2-report-id-ma", Reporting([HappyArgs EXCEPT !.report_id_ma = "77"]),
                {"REPORT_ID_MA checked"}),
   GoldenAccept("pos-debug",
     [Asking("guest_policy", bits({"smt", "debug"})) EXCEPT !.args.policy = {"smt", "debug"}],
     {"debug refused"}),
   GoldenAccept("pos-tcb-above-floor",
     [Asking("minimum_tcb", least(10)) EXCEPT !.args = GoldenArgs(high, HappyItems)],
     {"TCB equal to its floor"}),
   GoldenAccept("pos-tcb-at-floor", Asking("minimum_tcb", SevTcb), {"TCB floor excluded"}),
   GoldenAccept("pos-guest-svn-at-floor",
     [Asking("minimum_guest_svn", 7) EXCEPT !.args.guest_svn = 7],
     {"guest SVN floor excluded"}),
   GoldenAccept("pos-iommu-false-present", iommu(FALSE), {"iommu member refused"})}
  \cup {GoldenReject(v[1], Asking("platform_info", info({v[2]})), "S11 " \o v[2])
        : v \in {<<"s10-platform-info", "smt_enabled">>, <<"s11-tsme", "tsme_enabled">>,
                 <<"s11-ecc", "ecc_enabled">>, <<"s11-rapl", "rapl_disabled">>,
                 <<"s11-ciphertext", "ciphertext_hiding_dram">>}}

GoldenFamily ==
  LET collateral == HappyGolden.env.collateral
      future == CollateralEntry("future-thing", "endorsement", "unknown/v9", << >>)
  IN  {[v EXCEPT !.doc = Golden(@)] : v \in GoldenRecipes}
        \cup {GoldenAccept(c[1], [HappyGolden EXCEPT !.env.collateral = c[2]], {c[3]}) :
                 c \in {<<"pos-collateral-reordered", Reverse(collateral),
                         "collateral order fixed">>,
                       <<"pos-extra-collateral", Append(collateral, future),
                         "unknown collateral refused">>}}

-----------------------------------------------------------------------------
(* Freshness                                                                *)

FreshnessReject(id, doc, catches) ==
  WholeVector("v3-freshness", id, doc, "PROVENANCE_REJECTED", NoFacts, catches)
FreshnessAccept(id, doc, catches) ==
  WholeVector("v3-freshness", id, doc, "none", KeyFacts(HappyDoc), catches)

\* The code's witness taken away, or replaced by another bundle.
WithoutEntry(golden, id) ==
  [golden EXCEPT !.env.collateral = SelectSeq(@, LAMBDA e : e.id # id)]
Witnessed(golden, san, statement) ==
  LET entry == WitnessEntry("code-freshness", V3Bundle(BundleArgs(san, statement)))
  IN  [golden EXCEPT !.env.collateral =
         [i \in DOMAIN @ |-> IF @[i].id = entry.id THEN entry ELSE @[i]]]

\* Vectors of the golden document, its witness or its appraisal time changed.
FreshnessOf(golden) ==
  LET statement == WitnessStatement(CodeEndorsement)
      garbage == [statement EXCEPT !.type = "none", !.predicateType = "none",
                                   !.subjects = << >>]
      appraised(time) == [golden EXCEPT !.time = time]
  IN
  {FreshnessAccept("fr1-nonce-fresh", golden, {}),
   WholeVector("v3-freshness", "fr1-nonce-stale",
     [golden EXCEPT !.env.verifier = OtherNonce], "ENVELOPE_REJECTED", NoFacts,
     {"document's nonce trusted"}),
   FreshnessReject("fr2-missing-code-freshness", WithoutEntry(golden, "code-freshness"),
                   {"FR2-missing"}),
   FreshnessReject("fr2-missing-platform-freshness",
                   WithoutEntry(golden, "platform-freshness"), {"FR2-missing"}),
   FreshnessReject("fr2-stale", appraised(IntegratedTime + 8 * Day), {"FR2-stale"}),
   FreshnessReject("fr2-future-skew", appraised(IntegratedTime - Hour), {"FR2-future"}),
   FreshnessReject("fr2-wrong-identity", Witnessed(golden, CodeIdentity, statement),
                   {"FR2-identity"}),
   FreshnessAccept("fr2-pos-at-max-age", appraised(IntegratedTime + MaxFreshnessAge),
                   {"last second of the window excluded"})}
  \cup {FreshnessReject(v[1], Witnessed(golden, WitnessIdentity, v[2]), v[3]) : v \in
    {<<"fr2-mismatched-endorsement", [statement EXCEPT !.predicate.commit = "0"],
       {"FR2-endorses"}>>,
     <<"fr2-witness-wrong-type", [statement EXCEPT !.type = "Statement/v0.9"], {"FR2-type"}>>,
     <<"fr2-witness-wrong-predicate", [statement EXCEPT !.predicateType = "other/v1"],
       {"FR2-predicate"}>>,
     <<"fr2-witness-subject-mismatch",
       [statement EXCEPT !.subjects = <<[@[1] EXCEPT !.name = "not-the-artifact"]>>],
       {"FR2-subject"}>>,
     <<"fr2-witness-zero-subject", [statement EXCEPT !.subjects = << >>],
       {"FR2-no-subject"}>>,
     <<"fr2-witness-garbage-payload", garbage, {}>>}}

FreshnessFamily == UNION {FreshnessOf(golden) : golden \in {HappyGolden}}

=============================================================================
