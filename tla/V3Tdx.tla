-------------------------------- MODULE V3Tdx --------------------------------
(***************************************************************************)
(* TDX in the v3 suite: the authenticate-quote vectors of v3/gen_tdx.py and *)
(* the golden document of v3/gen_golden_tdx.py with its mutations, on the   *)
(* quotes and the collateral of lib/tdx_synth.py.                           *)
(*                                                                         *)
(* A document's `date` is its verification time in the days of TdxVectors;  *)
(* "one second later" is the next day there.                                *)
(***************************************************************************)
EXTENDS V3Golden, TdxVectors

\* The PPID every synthetic PCK certificate carries.
SynthPpid == Machine("55", 16)

-----------------------------------------------------------------------------
(* build_tdx                                                                *)

TdxArgs ==
  [body |-> TdBodyFields, levels |-> <<TcbLevel("UpToDate")>>, mrsigner |-> "dc",
   tcbFrom |-> TdxDay(2023, 6, 18), qeFrom |-> TdxDay(2023, 6, 8),
   crlFrom |-> TdxDay(2023, 1, 1), crlUntil |-> CrlUntil]

\* The QE report is signed again with the MRSIGNER it is to have.
QuoteOfQe(chain, body, mrsigner) ==
  LET q == BuildTdxQuote(chain, body, chain.ak, "none")
      qe == [q.qe EXCEPT !.mrsigner = mrsigner]
  IN  [q EXCEPT !.qe = qe, !.qeSig.over = qe]

\* A signed response or CRL issued at another date.
IssuedFrom(response, from) ==
  LET inner == [response.inner EXCEPT !.from = from]
  IN  [response EXCEPT !.inner = inner, !.sig.over = inner]

TdxResponses(chain, a) ==
  Collateral(chain,
    IssuedFrom(TcbInfo(chain, a.levels, TdxDay(2030, 7, 18), 18), a.tcbFrom),
    IssuedFrom(QeIdentity(chain, "dc", 2, "TD_QE", 2, SynthUntil, 18), a.qeFrom),
    IssuedFrom(EmptyCrl(chain.platform, a.crlUntil, {}), a.crlFrom),
    EmptyCrl(chain.root, CrlUntil, {}))

PcsEntry(responses) == CollateralEntry("pcs", "endorsement", "intel-pcs/v1", responses)

TdxDoc(a, date) ==
  LET chain == BuildSynthChain("A")
  IN  [env |-> [HappyDoc EXCEPT !.collateral = <<PcsEntry(TdxResponses(chain, a))>>],
       quote |-> QuoteOfQe(chain, a.body, a.mrsigner), anchor |-> chain.root, date |-> date]

-----------------------------------------------------------------------------
(* The quote is authentic: T1 to T3, T8, T9, T21 to T25                     *)

TdxQuoteHolds(q, col, anchor, date, flaw) ==
  LET c == q.chain
      root == IF flaw = "T25" THEN c.root ELSE anchor
      starts(x) == /\ x.inner.from <= date \/ flaw = "only window ends checked"
                   /\ flaw = "window start excluded" => x.inner.from # date
      current(x) == starts(x) /\ date <= x.inner.until
      signed(crl, key) == crl.sig = [key |-> key, over |-> crl.inner]
      id == col.qeIdentity.inner
  IN  "T1" :> (q.header.version = 4)
   @@ "T3" :> ("reserved" \notin DOMAIN q.header)
   @@ "T3-extra" :> q.sized
   @@ "T21" :> (q.sig = [key |-> q.ak, over |-> <<q.header, q.body>>])
   @@ "T21-binding" :> (/\ q.qe.data = <<"sha256", q.ak>>
                        /\ q.qeSig = [key |-> c.leaf.key, over |-> q.qe])
   @@ "T21-qe" :> (q.qe.mrsigner = id.mrsigner /\ q.qe.prodid = id.prodid)
   @@ "T8" :> (q.body.mr_signer_seam = "0")
   @@ "T9" :> (q.body.seam_attributes = "0")
   @@ "T22" :> (TcbStatus(col.tcbInfo.inner, q) = "UpToDate")
   @@ "T24-signed" :> (/\ Anchored(col.tcbChain, root) /\ Anchored(col.qeChain, root)
                       /\ ResponseSigned(col.tcbInfo, col.tcbChain)
                       /\ ResponseSigned(col.qeIdentity, col.qeChain)
                       /\ signed(col.pckCrl, c.platform.key)
                       /\ signed(col.rootCrl, root.key))
   @@ "T24-crl" :> (current(col.pckCrl) /\ current(col.rootCrl))
   @@ "T24-tcb-info" :> current(col.tcbInfo)
   @@ "T24-qe-identity" :> current(col.qeIdentity)
   @@ "T25" :> (c.root = root /\ TdxSigned(c.platform, root.key)
                 /\ TdxSigned(c.leaf, c.platform.key))

TdxQuoteBroken(d, flaw) ==
  LET pcs == EntriesOf(d.env, "intel-pcs/v1")
  IN  IF pcs = {} THEN {"T24-missing"} \ {flaw}
      ELSE Broken(TdxQuoteHolds(d.quote, d.env.collateral[CHOOSE i \in pcs : TRUE].data,
                                d.anchor, d.date, flaw), flaw)

TdxAccept(id, doc, catches) == QuoteVector("v3-tdx", id, doc, "none", catches)
TdxReject(id, doc, catches) == QuoteVector("v3-tdx", id, doc, "QUOTE_REJECTED", catches)

IssuedAt == TdxDay(2026, 1, 15)
CrlPast == TdxDay(2023, 2, 1)

V3TdxFamily ==
  LET happy == TdxDoc(TdxArgs, Today)
      rebuilt(a) == TdxDoc(a, Today)
      pinned(a) == TdxDoc(a, IssuedAt)
      ends == "only window ends checked"
      begins == "window start excluded"
      \* a byte changed after the quote was signed
      header(h) == [happy EXCEPT !.quote.header = h]
      signed == happy.quote.header
      level == TdxArgs.levels[1]
  IN
  {TdxAccept("tdx-happy", happy, {}),
   TdxReject("t1-quote-version", header([signed EXCEPT !.version = 251]), {"T1"}),
   TdxReject("t3-reserved-bytes", header("reserved" :> 255 @@ signed), {"T3"}),
   TdxReject("t3-extra-bytes", [happy EXCEPT !.quote.sized = FALSE], {"T3-extra"}),
   TdxReject("t21-signature", [happy EXCEPT !.quote.body.mr_seam = "flipped"], {"T21"}),
   TdxReject("t21-qe-mrsigner", rebuilt([TdxArgs EXCEPT !.mrsigner = "ee"]), {"T21-qe"}),
   TdxReject("t24-missing-pcs", [happy EXCEPT !.env.collateral = << >>], {"T24-missing"}),
   TdxReject("t24-crl-expired", rebuilt([TdxArgs EXCEPT !.crlUntil = CrlPast]), {"T24-crl"}),
   TdxReject("t24-tcb-info-issued-later",
     pinned([TdxArgs EXCEPT !.tcbFrom = IssuedAt + 1]), {"T24-tcb-info", ends}),
   TdxReject("t24-qe-identity-issued-later",
     pinned([TdxArgs EXCEPT !.qeFrom = IssuedAt + 1]), {"T24-qe-identity", ends}),
   TdxAccept("t24-issued-at-verification-time",
     pinned([TdxArgs EXCEPT !.tcbFrom = IssuedAt, !.qeFrom = IssuedAt]), {begins}),
   TdxReject("t24-crl-not-yet-valid",
     pinned([TdxArgs EXCEPT !.crlFrom = IssuedAt + 1]), {"T24-crl", ends}),
   TdxAccept("t24-crl-at-this-update", pinned([TdxArgs EXCEPT !.crlFrom = IssuedAt]), {begins}),
   TdxReject("t25-wrong-root", [happy EXCEPT !.anchor = BuildSynthChain("B").root], {"T25"}),
   TdxReject("t8-mr-signer-seam", rebuilt([TdxArgs EXCEPT !.body.mr_signer_seam = "ee"]),
             {"T8"}),
   TdxReject("t9-seam-attributes", rebuilt([TdxArgs EXCEPT !.body.seam_attributes = "ff"]),
             {"T9"}),
   TdxReject("t22-pcesvn", rebuilt([TdxArgs EXCEPT !.levels = <<[level EXCEPT !.pce = 99]>>]),
             {"T22"})}

-----------------------------------------------------------------------------
(* The quote against the endorsed policy                                    *)

\* Measurements the policy names, of the shape the code asks for.
Candidates(artifact, p, shape, flaw) ==
  LET names == p["platform_measurements"]
      tried == IF flaw = "first measurement only" THEN {names[1]} ELSE Range(names)
  IN  {m \in {artifact.measurements[name] : name \in tried} :
         m.shape = shape \/ flaw = "ST1"}

TdxReportHolds(d, artifact, p, eval, flaw) ==
  LET b == d.quote.body
      code == EndorsedCode(d.env)
      zero(field) == b[field] = "0"
      resolved(m) == /\ m.mrtd = b.mr_td \/ flaw = "T14"
                     /\ m.rtmr0 = b.rtmr0 \/ flaw = "T17"
  IN  "T4" :> (d.quote.header.vendor = p["qe_vendor_id"])
   @@ "T6" :> (\A i \in DOMAIN b.tee_tcb_svn :
                 b.tee_tcb_svn[i] >= p["minimum_tee_tcb_svn"][i])
   @@ "T7" :> (b.mr_seam = p["mr_seam"])
   @@ "T10" :> (b.td_attributes \ {0} = p["td_attributes"] \ {0})
   @@ "T11" :> (0 \notin b.td_attributes)
   @@ "T12" :> (b.xfam = p["xfam"])
   @@ "ST2" :> (\E m \in Candidates(artifact, p, code.shape, flaw) : resolved(m))
   @@ "T15" :> zero("mr_config_id")
   @@ "T16" :> zero("mr_owner")
   @@ "T16-config" :> zero("mr_owner_config")
   @@ "T18-rtmr1" :> (b.rtmr1 = code.rtmr1)
   @@ "T18-rtmr2" :> (b.rtmr2 = code.rtmr2)
   @@ "T19" :> zero("rtmr3")
   @@ "T20" :> (b.report_data = d.env.reportData)
   @@ "T23" :> (/\ eval >= p["minimum_tcb_evaluation_data_number"]
                /\ flaw = "evaluation number equal to its floor"
                     => p["minimum_tcb_evaluation_data_number"] \in {0, eval})

TdxPolicyLayer(d, flaw) ==
  LET artifact == EndorsedArtifact(d.env)
      p == artifact.policies[artifact.machines[SynthPpid]].blocks["tdx"]
      pcs == d.env.collateral[CHOOSE i \in EntriesOf(d.env, "intel-pcs/v1") : TRUE].data
  IN  Broken(TdxReportHolds(d, artifact, p, pcs.tcbInfo.inner.eval, flaw), flaw)

TdxRefusals(d, flaw) ==
  FirstRefusal(EnvelopeLayer(d, flaw), ProvenanceLayer(d, flaw), TdxQuoteBroken(d, flaw),
               TdxPolicyLayer(d, flaw))

TdxGuest(registers) == <<"tdx-guest/v2", registers>>

TdxWholeFacts(d) ==
  LET b == d.quote.body
      code == EndorsedCode(d.env)
      entry == CHOOSE i \in EntriesOf(d.env, "sigstore-code/v1") : TRUE
  IN  KeyFacts(d.env)
   @@ "code_digest" :> d.env.collateral[entry].data.digest
   @@ "code_measurement" :> TdxGuest(<<"", "", code.rtmr1, code.rtmr2, "">>)
   @@ "enclave_measurement" :> TdxGuest(<<b.mr_td, b.rtmr0, b.rtmr1, b.rtmr2, b.rtmr3>>)

-----------------------------------------------------------------------------
(* The golden document                                                      *)

GoldenTdxBlock ==
  [TdxBlock EXCEPT !.qe_vendor_id = IntelQe, !.mr_seam = "aa", !.td_attributes = {30},
                   !.xfam = TdBodyFields.xfam]
GoldenTdxArtifact ==
  [format |-> ArtifactFormat,
   measurements |-> "m1" :> [mrtd |-> "11", rtmr0 |-> "22", shape |-> 8],
   machines |-> SynthPpid :> "tdx-policy",
   policies |-> "tdx-policy" :> TdxNamed(GoldenTdxBlock)]
GoldenTdxBody == [TdBodyFields EXCEPT !.report_data = HappyDoc.reportData]
GoldenTdxCode ==
  [CodePredicate EXCEPT !.snp = "ab", !.rtmr1 = "33", !.rtmr2 = "44"]

\* What a golden TDX document is made of.
GoldenTdxRecipe ==
  [artifact |-> GoldenTdxArtifact, predicate |-> GoldenTdxCode, body |-> GoldenTdxBody]

GoldenTdx(recipe) ==
  LET quoted == TdxDoc([TdxArgs EXCEPT !.body = recipe.body], TdxDay(2025, 1, 1))
      code == V3Bundle(CodeArgs(CodeIdentity, CodeStatement(recipe.predicate)))
      artifacts == <<CodeEntry(code, CodeSubject.digest), CodeWitness,
                     PlatformEntry(PlatformRepo, V3Bundle(PlatformArgs(recipe.artifact))),
                     PlatformWitness>>
  IN  [env |-> [quoted.env EXCEPT !.collateral = artifacts \o @], quote |-> quoted.quote,
       anchor |-> quoted.anchor, date |-> quoted.date, root |-> V3Root,
       time |-> IntegratedTime]

TdxWithPolicy(member, value) ==
  [GoldenTdxArtifact EXCEPT !.policies["tdx-policy"].blocks["tdx"][member] = value]

GoldenTdxFacts ==
  KeyFacts(HappyDoc) @@ "code_digest" :> CodeSubject.digest
   @@ "code_measurement" :> TdxGuest(<<"", "", "33", "44", "">>)
   @@ "enclave_measurement" :> TdxGuest(<<"11", "22", "33", "44", "0">>)

\* The vectors with recipes for documents.
GoldenTdxRecipes ==
  LET reject(id, doc, rule) ==
        WholeVector("v3-golden-tdx", id, doc, "POLICY_REJECTED", NoFacts, {rule})
      accept(id, doc, catches) ==
        WholeVector("v3-golden-tdx", id, doc, "none", GoldenTdxFacts, catches)
      endorsing(artifact) == [GoldenTdxRecipe EXCEPT !.artifact = artifact]
      asking(member, value) == endorsing(TdxWithPolicy(member, value))
      m1(field, value) == [GoldenTdxArtifact EXCEPT !.measurements["m1"][field] = value]
      running(predicate) == [GoldenTdxRecipe EXCEPT !.predicate = predicate]
      quoting(body) == [GoldenTdxRecipe EXCEPT !.body = body]
      two == [TdxWithPolicy("platform_measurements", <<"m2", "m1">>) EXCEPT
                !.measurements = "m2" :> [mrtd |-> "ee", rtmr0 |-> "dd", shape |-> 8] @@ @]
      body == GoldenTdxBody
  IN
  {accept("tdx-golden-happy", endorsing(GoldenTdxArtifact), {}),
   reject("t18-rtmr1", running([GoldenTdxCode EXCEPT !.rtmr1 = "ff"]), "T18-rtmr1"),
   reject("t18-rtmr2", running([GoldenTdxCode EXCEPT !.rtmr2 = "ff"]), "T18-rtmr2"),
   reject("t14-mrtd", endorsing(m1("mrtd", "ee")), "T14"),
   reject("t17-rtmr0", endorsing(m1("rtmr0", "ee")), "T17"),
   reject("st1-shape-filter", endorsing(m1("shape", 99)), "ST1"),
   reject("t7-mr-seam", asking("mr_seam", "bb"), "T7"),
   reject("t4-qe-vendor-id", asking("qe_vendor_id", "00"), "T4"),
   reject("t10-td-attributes", asking("td_attributes", {}), "T10"),
   reject("t12-xfam", asking("xfam", {}), "T12"),
   reject("t20-report-data", quoting([body EXCEPT !.report_data = Ladder("77", @.endorsed)]),
          "T20"),
   reject("t23-tcb-eval", asking("minimum_tcb_evaluation_data_number", 999), "T23"),
   reject("t6-tee-tcb-svn", asking("minimum_tee_tcb_svn", <<0, 3, 6>>), "T6"),
   reject("t19-rtmr3", quoting([body EXCEPT !.rtmr3 = "99"]), "T19"),
   reject("t15-mr-config-id", quoting([body EXCEPT !.mr_config_id = "99"]), "T15"),
   reject("t16-mr-owner", quoting([body EXCEPT !.mr_owner = "99"]), "T16"),
   reject("t16-mr-owner-config", quoting([body EXCEPT !.mr_owner_config = "99"]),
          "T16-config"),
   reject("t11-td-debug", quoting([body EXCEPT !.td_attributes = {0, 30}]), "T11"),
   accept("tdx-pos-tcb-eval-above", asking("minimum_tcb_evaluation_data_number", 5),
          {"evaluation number equal to its floor"}),
   accept("st2-multi-measurement", endorsing(two), {"first measurement only"})}

GoldenTdxFamily == {[v EXCEPT !.doc = GoldenTdx(@)] : v \in GoldenTdxRecipes}

=============================================================================
