----------------------------- MODULE TdxVectors -----------------------------
(***************************************************************************)
(* The verify-attestation-tdx vectors: attestation_tdx_phase2..4b and the   *)
(* synthetic Intel chain, quote and collateral of lib/tdx_synth.py.         *)
(*                                                                         *)
(* A quote is [long, sized, header, body, sig, ak, qe, qeSig, chain]; the   *)
(* attestation key signs header and body, the PCK key the QE report, and    *)
(* the QE report names the attestation key.  Bit fields are sets of bit     *)
(* numbers, TEE_TCB_SVN its first three bytes, times days since 2019 in     *)
(* months of 31.                                                            *)
(***************************************************************************)
EXTENDS VectorKit, TLC

TdxDay(year, month, day) == 372 * (year - 2019) + 31 * (month - 1) + day
TdxDate == TdxDay(2023, 6, 30)
PastCollateralDate == TdxDay(2024, 7, 19)
FarFutureDate == TdxDay(2100, 1, 1)
Today == TdxDay(2026, 6, 1)

Fmspc == "50806f000000"
IntelQe == "939a7233"
SeamKnown == {"476a2997", "7bf06328"}

-----------------------------------------------------------------------------
(* The chain, lib/tdx_synth.py                                              *)

\* The serial of a certificate other than the root is its name's hash.
TdxCert(cn, key, issuer, from, until, exts) ==
  [cn |-> cn, key |-> key, serial |-> <<"sha256", cn>>, from |-> from,
   until |-> until, exts |-> exts,
   sig |-> [key |-> issuer, over |-> <<cn, key, exts>>]]

\* name tells one run of build_synth_chain from another: every key is fresh.
TdxChain(name, from, until) ==
  LET none == [fmspc |-> "none", pce |-> 0]
      key(role) == <<role, name>>
      cert(cn, role, issuer, exts) ==
        TdxCert(cn, key(role), key(issuer), from, until, exts)
  IN  [root |-> cert("Intel SGX Root CA", "root", "root", none),
       platform |-> cert("Intel SGX PCK Platform CA", "platform", "root", none),
       signer |-> cert("Intel SGX TCB Signing", "signer", "root", none),
       leaf |-> cert("Intel SGX PCK Certificate", "pck", "platform",
                     [fmspc |-> Fmspc, pce |-> 11]),
       ak |-> key("ak")]

BuildSynthChain(name) == TdxChain(name, TdxDay(2023, 1, 1), TdxDay(2030, 1, 1))

\* Intel's chain, with the PCK certificate of the frozen quote.
IntelChain ==
  [TdxChain("Intel", TdxDay(2019, 1, 1), TdxDay(2049, 12, 31)) EXCEPT
     !.leaf.from = TdxDay(2022, 9, 20), !.leaf.until = TdxDay(2029, 9, 20)]

-----------------------------------------------------------------------------
(* The quote                                                                *)

TdBodyFields ==
  [tee_tcb_svn |-> <<0, 3, 5>>, mr_seam |-> "aa", mr_signer_seam |-> "0",
   seam_attributes |-> "0", td_attributes |-> {30},
   xfam |-> {0, 1, 2, 5, 6, 7, 9, 11, 12, 17, 18}, mr_td |-> "11",
   mr_config_id |-> "0", mr_owner |-> "0", mr_owner_config |-> "0",
   rtmr0 |-> "22", rtmr1 |-> "33", rtmr2 |-> "44", rtmr3 |-> "0", report_data |-> "66"]

\* Slip: the QE vouches for the key that signs instead of the one embedded.
BindsSigningKey(embedded, signing, override) ==
  IF override = "none" THEN <<"sha256", signing>> ELSE <<override>>

QeReportData(embedded, signing, override) ==
  IF override = "none" THEN <<"sha256", embedded>> ELSE <<override>>

BuildTdxQuote(chain, body, signing, qeReportData) ==
  LET header == [version |-> 4, akt |-> 2, tee |-> "TDX", vendor |-> IntelQe,
                 user |-> "0"]
      qe == [mrsigner |-> "dc", prodid |-> 2, isvsvn |-> 8,
             data |-> QeReportData(chain.ak, signing, qeReportData)]
  IN  [long |-> TRUE, sized |-> TRUE, header |-> header, body |-> body,
       sig |-> [key |-> signing, over |-> <<header, body>>], ak |-> chain.ak,
       qe |-> qe, qeSig |-> [key |-> chain.leaf.key, over |-> qe],
       chain |-> [whole |-> TRUE, leaf |-> chain.leaf, platform |-> chain.platform,
                  root |-> chain.root]]

\* tdx_prod_quote_SPR_E4.dat
RealQuote ==
  BuildTdxQuote(IntelChain,
    [TdBodyFields EXCEPT !.tee_tcb_svn = <<3, 0, 4>>, !.mr_seam = "2fd279c1",
       !.mr_td = "6363b804", !.rtmr0 = "2927da70", !.rtmr1 = "2c700b8b", !.rtmr2 = "8652f0ca",
       !.report_data = "6c62dec1"],
    IntelChain.ak, "none")

-----------------------------------------------------------------------------
(* Collateral                                                               *)

SignPcsResponse(inner, signer) ==
  [inner |-> inner, sig |-> [key |-> signer.key, over |-> inner]]

TcbLevel(status) == [svn |-> <<3, 0, 5>>, pce |-> 11, status |-> status]

\* modules: the versions of the TDX module the information covers.
TcbInfo(chain, levels, until, evalNumber) ==
  SignPcsResponse([fmspc |-> Fmspc, from |-> TdxDay(2023, 6, 18), until |-> until,
                   eval |-> evalNumber, levels |-> levels, modules |-> {3}],
                  chain.signer)

QeIdentity(chain, mrsigner, prodid, id, version, until, evalNumber) ==
  SignPcsResponse([id |-> id, version |-> version, from |-> TdxDay(2023, 6, 8),
                   until |-> until, eval |-> evalNumber, mrsigner |-> mrsigner,
                   prodid |-> prodid, isvsvn |-> 8], chain.signer)

EmptyCrl(issuer, until, revoked) ==
  LET inner == [from |-> TdxDay(2023, 1, 1), until |-> until,
                revoked |-> {c.serial : c \in revoked}]
  IN  [inner |-> inner, sig |-> [key |-> issuer.key, over |-> inner]]

SynthUntil == TdxDay(2030, 7, 8)
CrlUntil == TdxDay(2030, 1, 1)

\* Trust anchor and issuer chains that come with the collateral.
Collateral(chain, tcbInfo, qeIdentity, pckCrl, rootCrl) ==
  [tcbInfo |-> tcbInfo, qeIdentity |-> qeIdentity, pckCrl |-> pckCrl,
   rootCrl |-> rootCrl, anchor |-> chain.root,
   tcbChain |-> [signer |-> chain.signer, root |-> chain.root],
   qeChain |-> [signer |-> chain.signer, root |-> chain.root]]

SynthCollateral(chain, status, evalNumber) ==
  Collateral(chain, TcbInfo(chain, <<TcbLevel(status)>>, TdxDay(2030, 7, 18), evalNumber),
             QeIdentity(chain, "dc", 2, "TD_QE", 2, SynthUntil, evalNumber),
             EmptyCrl(chain.platform, CrlUntil, {}), EmptyCrl(chain.root, CrlUntil, {}))

\* The frozen assets, Intel's of June 2023.
RealCollateral ==
  Collateral(IntelChain,
    TcbInfo(IntelChain, <<TcbLevel("UpToDate"), [TcbLevel("OutOfDate") EXCEPT !.pce = 5]>>,
            TdxDay(2023, 7, 18), 15),
    QeIdentity(IntelChain, "dc", 2, "TD_QE", 2, TdxDay(2023, 7, 8), 15),
    EmptyCrl(IntelChain.platform, TdxDay(2023, 7, 8), {}),
    EmptyCrl(IntelChain.root, TdxDay(2024, 4, 2), {}))

\* accepted |-> {} leaves the default results; seams |-> {} any MR_SEAM.
TdxPolicy(eval) ==
  [eval |-> eval, pins |-> [f \in {} |-> ""], seams |-> {}, minSvn |-> <<0, 0, 0>>,
   vendor |-> IntelQe, fmspc |-> Fmspc, minEval |-> 0, defaults |-> FALSE, accepted |-> {}]

TdxInput(quote, collateral, policy) ==
  [quote |-> quote, collateral |-> collateral, date |-> TdxDate, policy |-> policy]

RealTdxInput(eval) == TdxInput(RealQuote, RealCollateral, TdxPolicy(eval))

SynthTdxInput(body, status, evalNumber, policy) ==
  LET chain == BuildSynthChain("A")
  IN  TdxInput(BuildTdxQuote(chain, body, chain.ak, "none"),
               SynthCollateral(chain, status, evalNumber), policy)

-----------------------------------------------------------------------------
(* The verifier the expectations are written for                            *)

When(bad, codes) == IF bad THEN codes ELSE {}

TdxSigned(cert, key) == cert.sig = [key |-> key, over |-> <<cert.cn, cert.key, cert.exts>>]

Fresh(window, date) == window.from <= date /\ date <= window.until

Terminal == "QV_RESULT_TERMINAL_UNSPECIFIED"

HeaderFailures(quote) ==
  LET collapsed == {"QUOTE_SIGNATURE_INVALID", "QUOTE_FORMAT_UNSUPPORTED"}
      h == quote.header
  IN  When(h.tee # "TDX", collapsed \cup {"WRONG_TEE_TYPE"})
      \cup When(h.akt # 2, collapsed \cup {"ATTESTATION_KEY_TYPE_UNSUPPORTED"})
      \cup When(h.vendor # IntelQe, collapsed \cup {"QE_VENDOR_UNKNOWN"})

PckChainFailures(doc, flaw) ==
  LET c == doc.quote.chain
      root == doc.collateral.anchor
      date == IF flaw = "TDX system clock" THEN Today ELSE doc.date
      invalid == {"PCK_CHAIN_INVALID"}
  IN  When(~c.whole, invalid \cup {"PCK_CHAIN_INCOMPLETE"})
      \cup When(c.root # root, invalid \cup {"ROOT_CA_UNTRUSTED"})
      \cup When(~TdxSigned(c.platform, root.key) \/ ~TdxSigned(c.leaf, c.platform.key), invalid)
      \cup When(~Fresh(c.leaf, date), invalid \cup {"PCK_EXPIRED"})
      \cup When(c.leaf.exts.fmspc # doc.policy.fmspc /\ flaw # "FMSPC not readable",
                {"PCK_FMSPC_MISMATCH"})

\* From the quote up: the attestation key, the QE that names it, the PCK.
QuoteFailures(doc, flaw) ==
  LET q == doc.quote
  IN  When(q.sig # [key |-> q.ak, over |-> <<q.header, q.body>>],
           {"QUOTE_SIGNATURE_INVALID"})
      \cup When(/\ q.qeSig # [key |-> q.chain.leaf.key, over |-> q.qe]
                /\ flaw # "QE report signature not verified",
                {"QE_REPORT_SIGNATURE_INVALID"})
      \cup When(q.qe.data # <<"sha256", q.ak>> /\ flaw # "AK binding skipped",
                {"AK_BINDING_INVALID"})

CrlFailures(doc, flaw) ==
  LET col == doc.collateral
      chain == doc.quote.chain
      signed(crl, key) == crl.sig = [key |-> key, over |-> crl.inner]
      revoked(crl, cert) == cert.serial \in crl.inner.revoked
  IN  When(~signed(col.pckCrl, chain.platform.key) /\ flaw # "PCK CRL signature not verified",
           {"PCK_CHAIN_INVALID", Terminal})
      \cup When(~signed(col.rootCrl, col.anchor.key) /\ flaw # "root CRL signature not verified",
                {"ROOT_CA_UNTRUSTED", "PCK_CHAIN_INVALID", Terminal})
      \cup When(~Fresh(col.pckCrl.inner, doc.date) /\ flaw # "PCK CRL freshness forgotten",
                {"PCK_CRL_EXPIRED"})
      \cup When(~Fresh(col.rootCrl.inner, doc.date) /\ flaw # "root CRL freshness forgotten",
                {"ROOT_CRL_EXPIRED"})
      \cup When(revoked(col.pckCrl, chain.leaf), {"PCK_REVOKED"})
      \cup When(revoked(col.rootCrl, chain.platform) /\ flaw # "root CRL entries not matched",
                {"INTERMEDIATE_REVOKED"})

\* A signed response, its signer taken from the issuer chain beside it.
ResponseSigned(response, issuers) ==
  response.sig = [key |-> issuers.signer.key, over |-> response.inner]

Anchored(issuers, anchor) == issuers.root = anchor /\ TdxSigned(issuers.signer, anchor.key)

QeIdentityFailures(doc, flaw) ==
  LET response == doc.collateral.qeIdentity
      id == response.inner
      qe == doc.quote.qe
  IN  When(/\ ~(Anchored(doc.collateral.qeChain, doc.collateral.anchor)
                /\ ResponseSigned(response, doc.collateral.qeChain))
           /\ flaw # "QE Identity signature not verified", {"QE_IDENTITY_SIGNATURE_INVALID"})
      \cup When(~Fresh(id, doc.date) /\ flaw # "QE Identity freshness forgotten",
                {"QE_IDENTITY_EXPIRED"})
      \cup When(id.id # "TD_QE" /\ flaw # "QE Identity id not checked", {"QE_IDENTITY_ID_INVALID"})
      \cup When(id.version # 2 /\ flaw # "QE Identity version not checked",
                {"QE_IDENTITY_VERSION_INVALID"})
      \cup When(id.mrsigner # qe.mrsigner /\ flaw # "QE MRSIGNER not compared",
                {"QE_IDENTITY_MRSIGNER_MISMATCH"})
      \cup When(id.prodid # qe.prodid /\ flaw # "QE ISVPRODID not compared",
                {"QE_IDENTITY_FIELD_MISMATCH"})
      \cup When(qe.isvsvn < id.isvsvn, {Terminal})

\* A level matches a platform that is at least as new in every component; the
\* first two bytes are the module's own when the second is its version.
Matches(level, quote) ==
  LET svn == quote.body.tee_tcb_svn
      compared == IF svn[2] > 0 THEN {3} ELSE {1, 2, 3}
  IN  /\ quote.chain.leaf.exts.pce >= level.pce
      /\ \A i \in compared : svn[i] >= level.svn[i]

\* The status of the first level that matches.
TcbStatus(info, quote) ==
  LET matching == {i \in DOMAIN info.levels : Matches(info.levels[i], quote)}
  IN  IF matching = {} THEN "none"
      ELSE info.levels[CHOOSE i \in matching : \A j \in matching : i <= j].status

NonTerminal == {"SWHardeningNeeded", "ConfigurationNeeded",
                "ConfigurationAndSWHardeningNeeded"}

TcbFailures(doc, flaw) ==
  LET response == doc.collateral.tcbInfo
      info == response.inner
      module == doc.quote.body.tee_tcb_svn[2]
      status == TcbStatus(info, doc.quote)
      onlyOk == \/ doc.policy.accepted = {"OK"} /\ flaw # "accepted results not configurable"
                \/ flaw = "OK is the only accepted status"
  IN  When(~Anchored(doc.collateral.tcbChain, doc.collateral.anchor)
             /\ flaw # "TCB Info chain not verified", {"TCB_INFO_CHAIN_INVALID"})
      \cup When(~ResponseSigned(response, doc.collateral.tcbChain)
                  /\ flaw # "TCB Info signature not verified", {"TCB_INFO_SIGNATURE_INVALID"})
      \cup When(~Fresh(info, doc.date), {"TCB_INFO_EXPIRED"})
      \cup When(info.fmspc # doc.quote.chain.leaf.exts.fmspc, {"PCK_FMSPC_MISMATCH"})
      \cup When(info.eval < doc.policy.minEval /\ flaw # "no least evaluation number",
                {"TCB_EVAL_DATA_NUMBER_TOO_LOW"})
      \cup When(module > 0 /\ module \notin info.modules, {Terminal})
      \cup When(status = "none", {Terminal})
      \cup When(status \in {"OutOfDate", "OutOfDateConfigurationNeeded", "Revoked"},
                {"TCB_REVOKED", Terminal})
      \cup When(status \in NonTerminal /\ onlyOk, {"QV_RESULT_NOT_ACCEPTED_BY_POLICY"})

CollateralFailures(doc, flaw) ==
  IF ~doc.policy.eval \/ flaw = "no TCB evaluation" THEN {}
  ELSE CrlFailures(doc, flaw) \cup QeIdentityFailures(doc, flaw) \cup TcbFailures(doc, flaw)

TdxPinCode(field) ==
  CASE field = "td_attributes" -> "TD_ATTRIBUTES_MISMATCH"
    [] field = "xfam" -> "XFAM_MISMATCH"
    [] field = "mr_signer_seam" -> "MR_SIGNER_SEAM_MISMATCH"
    [] field = "seam_attributes" -> "SEAM_ATTRIBUTES_MISMATCH"
    [] field = "mr_td" -> "MRTD_MISMATCH"
    [] field = "rtmr3" -> "RTMR3_NONZERO"
    [] field = "report_data" -> "REPORT_DATA_MISMATCH"
    [] field = "mr_config_id" -> "MR_CONFIG_ID_MISMATCH"
    [] field = "mr_owner" -> "MR_OWNER_MISMATCH"
    [] OTHER -> "MR_OWNER_CONFIG_MISMATCH"

\* As the number whose last byte counts most.
LittleEndianLess(x, y) ==
  \E i \in DOMAIN x : x[i] < y[i] /\ \A j \in i + 1..Len(x) : x[j] = y[j]

TdPinFailures(doc, flaw) ==
  LET body == doc.quote.body
      p == doc.policy
      ignored == CASE flaw = "MRTD not compared" -> {"mr_td"}
                   [] flaw = "RTMR3 not compared" -> {"rtmr3"}
                   [] flaw = "REPORT_DATA not compared" -> {"report_data"}
                   [] OTHER -> {}
      svn == body.tee_tcb_svn
  IN  {TdxPinCode(f) : f \in {g \in DOMAIN p.pins \ ignored : p.pins[g] # body[g]}}
      \cup When(p.seams # {} /\ body.mr_seam \notin p.seams, {"MR_SEAM_NOT_ALLOWED"})
      \cup When(IF flaw = "SVN compared as one number" THEN LittleEndianLess(svn, p.minSvn)
                ELSE \E i \in DOMAIN svn : svn[i] < p.minSvn[i],
                {"TEE_TCB_SVN_BELOW_MINIMUM"})
      \cup When(doc.quote.header.vendor # p.vendor /\ flaw # "QE vendor pin not compared",
                {"QE_VENDOR_ID_MISMATCH"})

XfamAllowed == {0, 1, 2, 5, 6, 7, 8, 9, 11, 12, 14, 15, 17, 18}

TdDefaultFailures(body, flaw) ==
  When(0 \in body.td_attributes, {"TD_ATTRIBUTES_DEBUG_SET"})
  \cup When(~(body.td_attributes \subseteq {0, 28, 30, 63})
              /\ flaw # "TD attribute mask not applied", {"TD_ATTRIBUTES_RESERVED_BIT_SET"})
  \cup When(~({0, 1} \subseteq body.xfam), {"XFAM_REQUIRED_BIT_CLEAR"})
  \cup When(~(body.xfam \subseteq XfamAllowed), {"XFAM_FORBIDDEN_BIT_SET"})

TdxFailures(doc, flaw) ==
  LET q == doc.quote
      extended == flaw # "no extended TD checks"
  IN  IF ~q.long \/ ~q.sized THEN {"QUOTE_TRUNCATED", "QUOTE_FORMAT_UNSUPPORTED"}
      ELSE IF q.header.version # 4 THEN {"QUOTE_FORMAT_UNSUPPORTED"}
      ELSE IF HeaderFailures(q) # {} THEN HeaderFailures(q)
      ELSE PckChainFailures(doc, flaw) \cup QuoteFailures(doc, flaw)
           \cup CollateralFailures(doc, flaw)
           \cup (IF extended THEN TdPinFailures(doc, flaw) ELSE {})
           \cup (IF extended /\ doc.policy.defaults THEN TdDefaultFailures(q.body, flaw)
                 ELSE {})

TdxFacts(doc, flaw) ==
  [key \in {"tee_type", "quote_version"} |->
     Fact(Text(<<IF key = "tee_type" THEN doc.quote.header.tee ELSE "4">>))]

-----------------------------------------------------------------------------
(* Vectors of phases 2 and 4: the frozen quote                              *)

TdxCaps(extra) ==
  [path \in {"attestation_tdx.supported",
             "attestation_tdx.injected_collateral_supported"} \cup extra |->
     IF path = "attestation_tdx.verification_time_override" THEN {"supported"}
     ELSE {"true"}]

TdxVector(id, doc, accepted, codes, extraCaps, catches) ==
  [family |-> "tdx", stage |-> "verify-attestation-tdx", id |-> id, doc |-> doc,
   exit |-> IF accepted THEN Accept ELSE Reject, codes |-> codes,
   caps |-> TdxCaps(extraCaps), catches |-> catches,
   outputs |-> IF accepted THEN TdxFacts(doc, "none") ELSE NoFacts]

TamperedQuote(id, quote, codes, catches) ==
  TdxVector(id, TdxInput(quote, RealCollateral, TdxPolicy(FALSE)), FALSE, codes, {}, catches)

QuoteFormatVectors ==
  LET collapsed == {"QUOTE_FORMAT_UNSUPPORTED", "QUOTE_SIGNATURE_INVALID"}
      short == {"QUOTE_TRUNCATED", "QUOTE_FORMAT_UNSUPPORTED"}
      v(id, quote, codes) == TamperedQuote(id, quote, codes, {})
  IN  {v("310", [RealQuote EXCEPT !.header.version = 3], {"QUOTE_FORMAT_UNSUPPORTED"}),
       v("311", [RealQuote EXCEPT !.header.tee = "SGX"], collapsed \cup {"WRONG_TEE_TYPE"}),
       v("312", [RealQuote EXCEPT !.header.akt = 3],
         collapsed \cup {"ATTESTATION_KEY_TYPE_UNSUPPORTED"}),
       v("313", [RealQuote EXCEPT !.header.vendor = "0"], collapsed \cup {"QE_VENDOR_UNKNOWN"}),
       v("314", [RealQuote EXCEPT !.long = FALSE], short),
       v("315", [RealQuote EXCEPT !.sized = FALSE], short)}

PckChainVectors ==
  LET v(id, quote, codes) == TamperedQuote(id, quote, codes \cup {"PCK_CHAIN_INVALID"}, {})
      flip == <<"flipped", "Intel">>
      real == RealTdxInput(FALSE)
  IN  {v("320", [RealQuote EXCEPT !.chain.leaf.sig.key = flip], {}),
       v("321", [RealQuote EXCEPT !.chain.platform.sig.key = flip], {}),
       v("322", [RealQuote EXCEPT !.chain.root.sig.key = flip], {"ROOT_CA_UNTRUSTED"}),
       v("323", [RealQuote EXCEPT !.chain.whole = FALSE], {"PCK_CHAIN_INCOMPLETE"}),
       TdxVector("324", [real EXCEPT !.date = FarFutureDate], FALSE,
                 {"PCK_EXPIRED", "PCK_CHAIN_INVALID"},
                 {"attestation_tdx.verification_time_override"}, {"TDX system clock"}),
       TdxVector("325", [real EXCEPT !.policy.fmspc = "000000000000"], FALSE,
                 {"PCK_FMSPC_MISMATCH", Terminal},
                 {"attestation_tdx.policy_fields_supported.expected_fmspc_hex"},
                 {"FMSPC not readable"})}

QuoteSignatureVectors ==
  {TamperedQuote("330", [RealQuote EXCEPT !.header.user = "32"],
                 {"QUOTE_SIGNATURE_INVALID"}, {}),
   TamperedQuote("331", [RealQuote EXCEPT !.body.mr_seam = "flipped"],
                 {"QUOTE_SIGNATURE_INVALID"}, {}),
   TamperedQuote("332", [RealQuote EXCEPT !.qeSig.key = <<"flipped", "Intel">>],
                 {"QE_REPORT_SIGNATURE_INVALID"}, {"QE report signature not verified"})}

\* Phase 4: the policy asks for something the frozen quote is not.
TdxPinned(id, policy, code, catches) ==
  TdxVector(id, TdxInput(RealQuote, RealCollateral, policy), FALSE, {code},
            {"attestation_tdx.extended_td_checks_supported"},
            catches \cup {"no extended TD checks"})

TdxPinVectors ==
  LET pin(id, field, value, catches) ==
        TdxPinned(id, [TdxPolicy(FALSE) EXCEPT !.pins = field :> value],
                  TdxPinCode(field), catches)
  IN  {pin("400", "td_attributes", {28}, {}), pin("410", "xfam", {}, {}),
       pin("420", "mr_signer_seam", "aa", {}), pin("421", "seam_attributes", "aabb", {}),
       pin("440", "mr_td", "ff", {"MRTD not compared"}),
       pin("450", "rtmr3", "01", {"RTMR3 not compared"}),
       pin("460", "report_data", "11", {"REPORT_DATA not compared"}),
       pin("470", "mr_config_id", "ab", {}), pin("471", "mr_owner", "cd", {}),
       pin("472", "mr_owner_config", "ef", {})}

TdxPolicyVectors ==
  {TdxPinned("430", [TdxPolicy(FALSE) EXCEPT !.seams = SeamKnown], "MR_SEAM_NOT_ALLOWED", {}),
   TdxPinned("480", [TdxPolicy(FALSE) EXCEPT !.minSvn = <<255, 255, 255>>],
             "TEE_TCB_SVN_BELOW_MINIMUM", {"SVN compared as one number"}),
   TdxPinned("490", [TdxPolicy(FALSE) EXCEPT !.vendor = "0"], "QE_VENDOR_ID_MISMATCH",
             {"QE vendor pin not compared"})}

-----------------------------------------------------------------------------
(* Vectors of phase 2B: collateral                                          *)

EvalCap == "attestation_tdx.tcb_evaluation_supported"

Evaluated(id, doc, codes, catches) ==
  TdxVector(id, doc, FALSE, codes, {EvalCap}, catches)

FlippedSig(signed) == [signed EXCEPT !.sig.key = <<"flipped", "Intel">>]

\* Frozen collateral of Intel, one part of it broken or its time over.
RealCollateralVectors ==
  LET real == RealTdxInput(TRUE)
      lenient == {"TCB_REVOKED", Terminal}
      late == [real EXCEPT !.date = PastCollateralDate]
  IN  {Evaluated("326", [real EXCEPT !.collateral.pckCrl = FlippedSig(@)],
                 lenient \cup {"PCK_REVOKED", "PCK_CHAIN_INVALID"},
                 {"PCK CRL signature not verified"}),
       Evaluated("327", [real EXCEPT !.collateral.rootCrl = FlippedSig(@)],
                 lenient \cup {"ROOT_CA_UNTRUSTED", "INTERMEDIATE_REVOKED",
                               "PCK_CHAIN_INVALID"}, {"root CRL signature not verified"}),
       Evaluated("340", [real EXCEPT !.collateral.tcbInfo = FlippedSig(@)],
                 lenient \cup {"TCB_INFO_SIGNATURE_INVALID", "TCB_INFO_CHAIN_INVALID"},
                 {"TCB Info signature not verified"}),
       Evaluated("342", [real EXCEPT !.collateral.qeIdentity = FlippedSig(@)],
                 lenient \cup {"QE_IDENTITY_SIGNATURE_INVALID", "QE_IDENTITY_FIELD_MISMATCH"},
                 {"QE Identity signature not verified"}),
       Evaluated("344", [real EXCEPT !.collateral.tcbInfo.inner.fmspc = "000000000000"],
                 {"TCB_INFO_SIGNATURE_INVALID", "PCK_FMSPC_MISMATCH", Terminal},
                 {"TCB Info signature not verified"}),
       Evaluated("345", [real EXCEPT !.collateral.qeIdentity.inner.mrsigner = "00"],
                 lenient \cup {"QE_IDENTITY_SIGNATURE_INVALID",
                               "QE_IDENTITY_MRSIGNER_MISMATCH"},
                 {"QE Identity signature not verified"}),
       Evaluated("341", late, lenient \cup {"TCB_INFO_EXPIRED"}, {}),
       Evaluated("343", late, lenient \cup {"QE_IDENTITY_EXPIRED", "TCB_INFO_EXPIRED"}, {})}

CleanSynth == SynthTdxInput(TdBodyFields, "UpToDate", 18, TdxPolicy(TRUE))
SynthA == BuildSynthChain("A")
SynthB == BuildSynthChain("B")
June1 == TdxDay(2023, 6, 1)

CrlVectors ==
  {Evaluated("328", [CleanSynth EXCEPT !.collateral.pckCrl =
                       EmptyCrl(SynthA.platform, June1, {})],
             {"PCK_CRL_EXPIRED"}, {"PCK CRL freshness forgotten"}),
   Evaluated("329", [CleanSynth EXCEPT !.collateral.rootCrl =
                       EmptyCrl(SynthA.root, June1, {})],
             {"ROOT_CRL_EXPIRED"}, {"root CRL freshness forgotten"}),
   Evaluated("334", [CleanSynth EXCEPT !.collateral.rootCrl =
                       EmptyCrl(SynthA.root, CrlUntil, {SynthA.platform})],
             {"INTERMEDIATE_REVOKED", "PCK_REVOKED", "TCB_REVOKED", Terminal},
             {"root CRL entries not matched"}),
   Evaluated("335", [CleanSynth EXCEPT !.collateral.tcbChain =
                       [signer |-> SynthB.signer, root |-> SynthB.root]],
             {"TCB_INFO_CHAIN_INVALID", "TCB_INFO_SIGNATURE_INVALID", Terminal},
             {"TCB Info chain not verified"})}

QeIdentityVectors ==
  LET v(id, qeIdentity, codes, catches) ==
        Evaluated(id, [CleanSynth EXCEPT !.collateral.qeIdentity = qeIdentity], codes, catches)
      field == {"QE_IDENTITY_FIELD_MISMATCH", Terminal}
  IN  {v("336", QeIdentity(SynthA, "00", 2, "TD_QE", 2, SynthUntil, 18),
         field \cup {"QE_IDENTITY_MRSIGNER_MISMATCH"}, {"QE MRSIGNER not compared"}),
       v("337", QeIdentity(SynthA, "dc", 3, "TD_QE", 2, SynthUntil, 18), field,
         {"QE ISVPRODID not compared"}),
       v("338", QeIdentity(SynthA, "dc", 2, "TD_QE", 2, June1, 18),
         field \cup {"QE_IDENTITY_EXPIRED"}, {"QE Identity freshness forgotten"}),
       v("348", QeIdentity(SynthA, "dc", 2, "SGX_QE", 2, SynthUntil, 18),
         {"QE_IDENTITY_ID_INVALID"}, {"QE Identity id not checked"}),
       v("349", QeIdentity(SynthA, "dc", 2, "TD_QE", 3, SynthUntil, 18),
         {"QE_IDENTITY_VERSION_INVALID"}, {"QE Identity version not checked"})}

AttestationKeyVectors ==
  LET v(id, signing, qeReportData, codes, catches) ==
        Evaluated(id, [CleanSynth EXCEPT
                         !.quote = BuildTdxQuote(SynthA, TdBodyFields, signing, qeReportData),
                         !.policy.eval = FALSE], codes, catches)
  IN  {v("333", SynthB.ak, "none", {"AK_MISMATCH", "QUOTE_SIGNATURE_INVALID"}, {}),
       v("347", SynthA.ak, "99", {"AK_BINDING_INVALID"}, {"AK binding skipped"})}

-----------------------------------------------------------------------------
(* Vectors of phases 3 and 4B: TCB status, attributes and XFAM              *)

NonTerminalCap == "attestation_tdx.accepts_non_terminal_tcb_statuses"
AcceptedCap == "attestation_tdx.policy_fields_supported.accepted_qv_results"

WithStatus(id, status, accepted, codes, extraCaps) ==
  TdxVector(id, SynthTdxInput(TdBodyFields, status, 18, TdxPolicy(TRUE)), accepted, codes,
            {EvalCap} \cup extraCaps, {})

ProductionBody ==
  [TdBodyFields EXCEPT !.tee_tcb_svn = <<3, 3, 5>>, !.mr_seam = "476a2997",
     !.td_attributes = {28}, !.xfam = {0, 1, 2, 5, 6, 7, 9, 17, 18}]

TcbStatusVectors ==
  LET rejected == {"TCB_REVOKED", Terminal, "QV_RESULT_NOT_ACCEPTED_BY_POLICY"}
      nonTerminal == {NonTerminalCap}
  IN  {WithStatus("350", "UpToDate", TRUE, {}, {}),
       WithStatus("360", "SWHardeningNeeded", TRUE, {}, nonTerminal),
       WithStatus("361", "ConfigurationNeeded", TRUE, {}, nonTerminal),
       WithStatus("362", "ConfigurationAndSWHardeningNeeded", TRUE, {}, nonTerminal),
       WithStatus("363", "OutOfDate", FALSE, rejected, {}),
       WithStatus("364", "OutOfDateConfigurationNeeded", FALSE, rejected, {}),
       WithStatus("368", "Revoked", FALSE, rejected, {})}

PublicApiAndPolicyVectors ==
  {TdxVector("390", SynthTdxInput(ProductionBody, "UpToDate", 18,
                                  [TdxPolicy(TRUE) EXCEPT !.minEval = 18]),
             TRUE, {}, {EvalCap, "attestation_tdx.public_api_hooks_supported"}, {}),
   TdxVector("365", SynthTdxInput(TdBodyFields, "SWHardeningNeeded", 18,
                                  [TdxPolicy(TRUE) EXCEPT !.accepted = {"OK"}]),
             FALSE, {"QV_RESULT_NOT_ACCEPTED_BY_POLICY"},
             {EvalCap, NonTerminalCap, AcceptedCap}, {"accepted results not configurable"})}

SpecViolation(id, body, evalNumber, policy, codes, extraCaps, catches) ==
  TdxVector(id, SynthTdxInput(body, "UpToDate", evalNumber, policy), FALSE, codes,
            {EvalCap, "attestation_tdx.extended_td_checks_supported"} \cup extraCaps, catches)

TdAttributeVectors ==
  LET v(id, bits, code, catches) ==
        SpecViolation(id, [TdBodyFields EXCEPT !.td_attributes = bits], 18,
                      [TdxPolicy(TRUE) EXCEPT !.defaults = TRUE], {code}, {}, catches)
      reserved(id, bit) == v(id, {bit}, "TD_ATTRIBUTES_RESERVED_BIT_SET",
                             {"TD attribute mask not applied"})
  IN  {v("401", {0}, "TD_ATTRIBUTES_DEBUG_SET", {}), reserved("402", 7), reserved("403", 8),
       reserved("404", 29), reserved("405", 32)}

XfamVectors ==
  LET v(id, bits, code) ==
        SpecViolation(id, [TdBodyFields EXCEPT !.xfam = bits], 18,
                      [TdxPolicy(TRUE) EXCEPT !.defaults = TRUE], {code}, {}, {})
  IN  {v("412", {1}, "XFAM_REQUIRED_BIT_CLEAR"), v("413", {0, 1, 31}, "XFAM_FORBIDDEN_BIT_SET")}

EvaluationNumberVectors ==
  {SpecViolation("346", TdBodyFields, 10, [TdxPolicy(TRUE) EXCEPT !.minEval = 18],
                 {"TCB_EVAL_DATA_NUMBER_TOO_LOW", "TCB_INFO_EXPIRED", Terminal},
                 {"attestation_tdx.enforces_tcb_evaluation_data_number_minimum"}, {})}

TdxFamily ==
  QuoteFormatVectors \cup PckChainVectors \cup QuoteSignatureVectors \cup TdxPinVectors
    \cup TdxPolicyVectors \cup RealCollateralVectors \cup CrlVectors \cup QeIdentityVectors
    \cup AttestationKeyVectors \cup TcbStatusVectors \cup PublicApiAndPolicyVectors
    \cup TdAttributeVectors \cup XfamVectors \cup EvaluationNumberVectors

=============================================================================
