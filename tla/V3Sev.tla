-------------------------------- MODULE V3Sev --------------------------------
(***************************************************************************)
(* SEV-SNP in the v3 suite: the reports and chains of v3/sev_synth.py and   *)
(* the authenticate-quote vectors of gen_sev.py and gen_frozen_time.py made *)
(* of them.                                                                *)
(***************************************************************************)
EXTENDS V3Policy

\* BASE_TIME of sev_synth.py's certificates and CRLs, and a run's own clock.
SevNotBefore == BaseTime - Day
SevNotAfter == BaseTime + 3650 * Day
WallClock == BaseTime + 700 * Day

AskSerial == 2
SevTcb ==
  "bl_spl" :> 7 @@ "tee_spl" :> 0 @@ "snp_spl" :> 20 @@ "ucode_spl" :> 72

-----------------------------------------------------------------------------
(* build_sev                                                                *)

\* Every TCB of a report is `tcb`, the VCEK's too, unless it is given apart.
SevArgs(tcb) ==
  [report_data |-> "00", measurement |-> "aa", chip |-> Machine("11", 64),
   policy |-> {"smt"}, host_data |-> "00", family_id |-> "00", image_id |-> "00",
   vmpl |-> 0, guest_svn |-> 0, id_key_digest |-> "00",
   report_id |-> "00", report_id_ma |-> "00",
   version |-> 3, signer |-> "VCEK", fms |-> "Genoa",
   reported |-> tcb, current |-> tcb, committed |-> tcb, vcek |-> tcb,
   tamper |-> FALSE, revokeAsk |-> FALSE, crlUntil |-> SevNotAfter,
   crlFrom |-> SevNotBefore]
DefaultSev == SevArgs(SevTcb)
SevExpiredCrl == [DefaultSev EXCEPT !.crlUntil = SevNotBefore + Day]

SevReportOf(a) ==
  [name \in {"report_data", "measurement", "chip", "policy", "host_data", "family_id",
             "image_id", "vmpl", "guest_svn", "id_key_digest", "report_id",
             "report_id_ma", "version", "signer", "fms", "reported", "current",
             "committed"} |-> a[name]]
    @@ "launch" :> a.reported @@ "platform_info" :> {} @@ "mitigation" :> {}

\* A tampered signature is nobody's.
BuildSev(a) ==
  LET body == SevReportOf(a)
      vcek == [key |-> "vcek", tcb |-> a.vcek]
      crl == [from |-> a.crlFrom, until |-> a.crlUntil,
              revoked |-> IF a.revokeAsk THEN {AskSerial} ELSE {}]
  IN  [report |-> [body |-> body, sig |-> Sig(IF a.tamper THEN "none" ELSE "vcek", body)],
       vcek |-> [tbs |-> vcek, sig |-> Sig("ask", vcek)],
       chain |-> <<"ask", "ark">>,
       crl |-> [list |-> crl, sig |-> Sig("ark", crl)]]

NothingGiven == [given |-> FALSE]
VcekEntry(vcek, chain) ==
  CollateralEntry("vcek", "endorsement", "amd-vcek/v1", [der |-> vcek, chain |-> chain])
SevCrlEntry(crl) ==
  CollateralEntry("crl", "endorsement", "amd-crl/v1", [der |-> crl])
Given(x) == [given |-> TRUE, value |-> x]

SevCollateral(art) == <<VcekEntry(Given(art.vcek), art.chain), SevCrlEntry(Given(art.crl))>>

-----------------------------------------------------------------------------
(* The quote is authentic                                                   *)

\* The chain is that of the two AMD certificates the verifier was given.
SevChainHolds(d, chain, vcek, crl, flaw) ==
  LET r == d.report
      atStart == d.time = crl.list.from /\ flaw = "CRL start excluded"
  IN  "S1" :> (r.body["version"] >= 3)
   @@ "S8" :> (r.sig = Sig(vcek.tbs.key, r.body))
   @@ "S12" :> (r.body["signer"] = "VCEK")
   @@ "S20" :> (r.body["fms"] = "Genoa")
   @@ "S26-root" :> (chain = d.anchor)
   @@ "S26-chain" :> (/\ vcek.sig = Sig(chain[1], vcek.tbs)
                      /\ crl.sig = Sig(chain[2], crl.list))
   @@ "S26-revoked" :> (AskSerial \notin crl.list.revoked)
   @@ "CRL from" :> (crl.list.from <= d.time /\ ~atStart)
   @@ "CRL until" :> (d.time < crl.list.until)

SevQuoteBroken(d, flaw) ==
  LET vceks == EntriesOf(d.env, "amd-vcek/v1")
      crls == EntriesOf(d.env, "amd-crl/v1")
      at == [d EXCEPT !.time = IF flaw = "clock not pinned" THEN WallClock ELSE @]
      shape(v, c) == "VCEK given" :> v.der.given @@ "CRL given" :> c.der.given
                       @@ "two certificates" :> (Len(v.chain) = 2)
  IN  IF vceks = {} \/ crls = {} THEN {"AMD collateral"}
      ELSE LET v == d.env.collateral[CHOOSE i \in vceks : TRUE].data
               c == d.env.collateral[CHOOSE i \in crls : TRUE].data
               ill == Broken(shape(v, c), "none")
           IN  IF ill # {} THEN ill
               ELSE Broken(SevChainHolds(at, v.chain, v.der.value, c.der.value, flaw), flaw)

SevDoc(art, time) ==
  [env |-> [HappyDoc EXCEPT !.collateral = SevCollateral(art)], report |-> art.report,
   anchor |-> <<"ask", "ark">>, time |-> time]

QuoteVector(family, id, doc, code, catches) ==
  V3Vector(family, "v3-authenticate-quote", id, doc, code, NoFacts, catches)
SevAccept(id, doc, catches) == QuoteVector("v3-sev", id, doc, "none", catches)
SevReject(id, doc, catches) == QuoteVector("v3-sev", id, doc, "QUOTE_REJECTED", catches)

\* The CRL starts when the certificates have been valid for a day.
CrlThisUpdate == SevNotBefore + Day

V3SevFamily ==
  LET happy == SevDoc(BuildSev(DefaultSev), WallClock)
      rebuilt(a) == SevDoc(BuildSev(a), WallClock)
      late(time) == SevDoc(BuildSev([DefaultSev EXCEPT !.crlFrom = CrlThisUpdate]), time)
      carrying(list) == [happy EXCEPT !.env.collateral = list]
      art == BuildSev(DefaultSev)
      vcek == SevCollateral(art)[1]
      crl == SevCollateral(art)[2]
  IN
  {SevAccept("sev-happy", happy, {}),
   SevReject("s1-report-version",
     rebuilt([DefaultSev EXCEPT !.version = 2, !.fms = "none"]), {"S1"}),
   SevReject("s8-s25-signature", rebuilt([DefaultSev EXCEPT !.tamper = TRUE]), {"S8"}),
   SevReject("s12-signer-key", rebuilt([DefaultSev EXCEPT !.signer = "VLEK"]), {"S12"}),
   SevReject("s20-product", rebuilt([DefaultSev EXCEPT !.fms = "unknown model"]), {"S20"}),
   SevReject("s26-revoked-ask", rebuilt([DefaultSev EXCEPT !.revokeAsk = TRUE]),
             {"S26-revoked"}),
   SevReject("s26-wrong-root", [happy EXCEPT !.anchor = <<"rogue ask", "rogue ark">>],
             {"S26-root"}),
   SevReject("struct-empty-vcek", carrying(<<VcekEntry(NothingGiven, art.chain), crl>>), {}),
   SevReject("struct-bad-chain", carrying(<<VcekEntry(Given(art.vcek), <<"ark">>), crl>>), {}),
   SevReject("struct-empty-crl", carrying(<<vcek, SevCrlEntry(NothingGiven)>>), {}),
   SevReject("struct-crl-expired", rebuilt(SevExpiredCrl), {"CRL until"}),
   SevReject("struct-crl-not-yet-valid", late(CrlThisUpdate - 12 * Hour), {"CRL from"}),
   SevAccept("struct-crl-at-this-update", late(CrlThisUpdate), {"CRL start excluded"}),
   SevReject("struct-no-vcek", carrying(<<crl>>), {}),
   SevReject("struct-no-crl", carrying(<<vcek>>), {})}

\* A CRL long expired, at an instant within its window and at one after it.
FrozenTimeFamily ==
  LET frozen(hours) == SevDoc(BuildSev(SevExpiredCrl), SevNotBefore + hours * Hour)
  IN
  {QuoteVector("v3-frozen-time", "pos-frozen-time-replays-crl-window", frozen(12), "none",
               {"clock not pinned"}),
   QuoteVector("v3-frozen-time", "neg-frozen-time-outside-crl-window", frozen(5 * 24),
               "QUOTE_REJECTED", {"CRL until"})}

=============================================================================
