----------------------------- MODULE SevVectors -----------------------------
(***************************************************************************)
(* The verify-attestation-sev vectors: attestation_sev_phase1..6 and the    *)
(* synthetic AMD chain and report of lib/sev_synth.py.                      *)
(*                                                                         *)
(* A report is [long, body, sig].  A body maps a field to its value; bit    *)
(* fields are sets of bit numbers.  The firmware fields at its end are kept *)
(* as bytes, "tail" |-> [offset -> byte], because the fixtures disagree     *)
(* about where they are.  A TCB is its eight bytes, least significant       *)
(* first.  Times are months since 2019.                                     *)
(***************************************************************************)
EXTENDS VectorKit, TLC

SevMonth(year, month) == 12 * (year - 2019) + month
SevDate == SevMonth(2026, 6)

-----------------------------------------------------------------------------
(* TCB and report body, lib/sev_synth.py                                    *)

\* TcbParts.to_u64, little endian.
TcbOf(bl, tee, snp, ucode) == <<bl, tee, 0, 0, 0, 0, snp, ucode>>
SynthTcb == TcbOf(10, 0, 23, 84)
Bl == 1
Tee == 2
SnpSpl == 7
Ucode == 8

TailBytes == 480..511
At(start, values) ==
  [o \in {p \in TailBytes : p - start + 1 \in DOMAIN values} |-> values[o - start + 1]]

\* Bytes 0x1E0.. of the frozen Genoa report every body starts from.
TemplateTail ==
  At(480, SynthTcb) @@ At(488, <<40, 55, 1, 0>>) @@ At(492, <<40, 55, 1, 0>>)
    @@ At(496, SynthTcb) @@ [o \in TailBytes |-> 0]

Template ==
  [version |-> 3, policy |-> {16, 17}, vmpl |-> 0, platform_info |-> {0, 1, 2, 5},
   signer_info |-> {}, current_tcb |-> SynthTcb, reported_tcb |-> SynthTcb,
   report_data |-> Text(<<"71c3">>), measurement |-> Text(<<"09ef">>),
   host_data |-> Text(<<"0">>), id_key_digest |-> Text(<<"0">>),
   author_key_digest |-> Text(<<"0">>), chip_id |-> Text(<<"1af1">>),
   tail |-> TemplateTail]

\* Fields of the tail, as the sequences of their bytes.
TailFields == {"committed_tcb", "current_build", "current_minor", "current_major",
               "committed_build", "committed_minor", "committed_major", "launch_tcb"}

\* Slip: the offsets the comment in build_report_body calls non-canonical.
EarlierOffset(name) ==
  CASE name = "committed_tcb" -> 488   [] name = "current_build" -> 496
    [] name = "current_minor" -> 497   [] name = "current_major" -> 498
    [] name = "committed_build" -> 500 [] name = "committed_minor" -> 501
    [] name = "committed_major" -> 502 [] OTHER -> 504

BuildOffset(name) ==
  CASE name = "committed_tcb" -> 480   [] name = "current_build" -> 488
    [] name = "current_minor" -> 489   [] name = "current_major" -> 490
    [] name = "committed_build" -> 492 [] name = "committed_minor" -> 493
    [] name = "committed_major" -> 494 [] OTHER -> 496

\* Fields that are not set keep the template's value.
BuildReportBody(fields) ==
  LET tail == [o \in TailBytes |->
        LET writes == {n \in DOMAIN fields \cap TailFields :
                         o - BuildOffset(n) + 1 \in DOMAIN fields[n]}
        IN  IF writes = {} THEN TemplateTail[o]
            ELSE LET n == CHOOSE n \in writes : TRUE
                 IN  fields[n][o - BuildOffset(n) + 1]]
  IN  [name \in DOMAIN Template |->
         IF name = "tail" THEN tail
         ELSE IF name \in DOMAIN fields THEN fields[name] ELSE Template[name]]

SignReport(body, key) ==
  [long |-> TRUE, body |-> body, sig |-> [key |-> key, over |-> body]]

-----------------------------------------------------------------------------
(* The chain                                                                *)

Amd == "Advanced Micro Devices"
SynthChipId == Text(<<"5e70">>)

SevCert(key, issuerKey, org, from, until, exts) ==
  [parses |-> TRUE, key |-> key, org |-> org, from |-> from, until |-> until,
   exts |-> exts, sig |-> [key |-> issuerKey, over |-> <<key, org, exts>>]]

\* Extensions in `omit` are left out of the VCEK; name tells the runs of
\* gen_synth_chain apart, whose keys are fresh.
GenSynthChain(name, chipId, tcb, omit, org) ==
  LET exts == [e \in {"HWID", "TCB"} \ omit |->
                 IF e = "HWID" THEN chipId ELSE Text(tcb)]
      none == [e \in {} |-> Text(<< >>)]
      cert(key, issuer, x) == SevCert(<<key, name>>, <<issuer, name>>, org,
                                      SevMonth(2020, 1), SevMonth(2099, 1), x)
  IN  [ark |-> cert("ark", "ark", none), ask |-> cert("ask", "ark", none),
       vcek |-> cert("vcek", "ask", exts), vcekKey |-> <<"vcek", name>>]

\* Read back from disk, so the same chain in every generator.
PersistedChain == GenSynthChain("persisted", SynthChipId, SynthTcb, {}, Amd)

\* AMD's own chain, with the VCEK of the frozen bundle.
RealChain ==
  [GenSynthChain("AMD", Template.chip_id, SynthTcb, {}, Amd) EXCEPT
     !.vcek.from = SevMonth(2026, 1), !.vcek.until = SevMonth(2033, 1)]

RealReport == SignReport(Template, RealChain.vcekKey)

\* pins: body field -> wanted value; mins: TCB component -> least value.
SevPolicy(pins, mins, enforce) == [pins |-> pins, mins |-> mins, enforce |-> enforce]
NoPins == [field \in {} |-> Text(<< >>)]
NoMins == [component \in {} |-> 0]
NoPolicy == SevPolicy(NoPins, NoMins, FALSE)
SpecDefaults == SevPolicy(NoPins, NoMins, TRUE)

SevInput(report, chain, policy) ==
  [report |-> report, vcek |-> chain.vcek, ark |-> chain.ark, ask |-> chain.ask,
   injected |-> chain.ark.key # RealChain.ark.key, date |-> SevDate,
   policy |-> policy]

RealInput(policy) == SevInput(RealReport, RealChain, policy)

SynthInput(chain, fields, policy) ==
  SevInput(SignReport(BuildReportBody(fields), chain.vcekKey), chain, policy)

-----------------------------------------------------------------------------
(* The verifier the expectations are written for                            *)

\* The tail of the report as AMD's ABI lays it out.
AbiOffset(name) ==
  CASE name = "committed_tcb" -> 480   [] name = "current_build" -> 488
    [] name = "current_minor" -> 489   [] name = "current_major" -> 490
    [] name = "committed_build" -> 492 [] name = "committed_minor" -> 493
    [] name = "committed_major" -> 494 [] OTHER -> 496

TailWidth(name) == IF name \in {"committed_tcb", "launch_tcb"} THEN 8 ELSE 1

AbiRead(body, name) ==
  [i \in 1..TailWidth(name) |-> body.tail[AbiOffset(name) + i - 1]]

CertSigned(cert, key) == cert.sig = [key |-> key, over |-> <<cert.key, cert.org, cert.exts>>]

SevChainFailures(doc, flaw) ==
  LET certs == {doc.ark, doc.ask, doc.vcek}
      date == IF flaw = "SEV system clock" THEN SevDate ELSE doc.date
  IN  IF ~doc.vcek.parses THEN {"VCEK_CHAIN_INVALID", "REPORT_FORMAT_UNSUPPORTED"}
      ELSE (IF /\ CertSigned(doc.ark, doc.ark.key) \/ flaw = "root blindly trusted"
               /\ CertSigned(doc.ask, doc.ark.key) /\ CertSigned(doc.vcek, doc.ask.key)
               /\ (\A c \in certs : c.org = Amd) \/ flaw = "DN not validated"
               /\ flaw = "no AMD root injection" => ~doc.injected
            THEN {} ELSE {"VCEK_CHAIN_INVALID"})
           \cup (IF doc.vcek.from <= date /\ date <= doc.vcek.until
                 THEN {} ELSE {"VCEK_EXPIRED"})

\* The VCEK's extensions against the report; SDKs may report the whole chain.
VcekExtFailures(doc, flaw) ==
  LET body == doc.report.body
      exts == doc.vcek.exts
      masked == 1 \in body.signer_info /\ flaw # "HWID compared though masked"
      agrees(e, value) == e \in DOMAIN exts /\ exts[e].t = value
  IN  (IF masked \/ agrees("HWID", body.chip_id.t) THEN {}
       ELSE {"VCEK_HWID_MISMATCH", "VCEK_CHAIN_INVALID"})
      \cup (IF agrees("TCB", body.reported_tcb) THEN {}
            ELSE {"VCEK_TCB_MISMATCH", "VCEK_CHAIN_INVALID"})

BelowMinimum(tcb) == tcb[Bl] < 7 \/ tcb[SnpSpl] < 14 \/ tcb[Ucode] < 72

\* Committed firmware is the current one in every component.
Committed(body) ==
  /\ AbiRead(body, "committed_tcb") = body.current_tcb
  /\ AbiRead(body, "committed_build") = AbiRead(body, "current_build")
  /\ AbiRead(body, "committed_minor") = AbiRead(body, "current_minor")
  /\ AbiRead(body, "committed_major") = AbiRead(body, "current_major")

FirmwareTooOld(body, build, minor, major) ==
  LET read(name) == AbiRead(body, name)[1]
  IN  read(build) < 21 \/ 256 * read(major) + read(minor) < 256 + 55

\* What holds whether or not a policy is given: no debugging, no migration.
GuestPolicyFailures(body) ==
  (IF 19 \in body.policy THEN {"GUEST_POLICY_DEBUG_SET"} ELSE {})
  \cup (IF 18 \in body.policy THEN {"GUEST_POLICY_MIGRATE_MA_SET"} ELSE {})

SpecDefaultFailures(body, flaw) ==
  LET fails(bad, code) == IF bad THEN {code} ELSE {}
      other == "QV_RESULT_TERMINAL_UNSPECIFIED"
  IN  fails(17 \notin body.policy \/ (\E bit \in body.policy : bit >= 25),
            "GUEST_POLICY_RESERVED_BIT_SET")
      \cup fails(\/ 21 \in body.policy /\ flaw # "CXL not constrained"
                 \/ 22 \in body.policy /\ flaw # "AES-256-XTS not constrained", other)
      \cup fails(/\ flaw # "TCB minimum not applied"
                 /\ \/ BelowMinimum(body.current_tcb) \/ BelowMinimum(body.reported_tcb)
                    \/ BelowMinimum(AbiRead(body, "committed_tcb")), "TCB_OUT_OF_DATE")
      \cup fails(/\ BelowMinimum(AbiRead(body, "launch_tcb"))
                 /\ flaw # "launch TCB not checked", "TCB_OUT_OF_DATE")
      \cup fails(~Committed(body) /\ flaw # "provisional firmware permitted", other)
      \cup fails(\/ FirmwareTooOld(body, "current_build", "current_minor", "current_major")
                 \/ FirmwareTooOld(body, "committed_build", "committed_minor",
                                   "committed_major"), other)
      \cup fails(1 \notin body.platform_info /\ flaw # "platform info not validated", other)
      \cup fails(\/ body.vmpl > 3 /\ flaw # "VMPL checked only when configured"
                 \/ body.vmpl # 0 /\ flaw = "VMPL 0 required", other)
      \cup fails(7 \in body.platform_info /\ flaw = "TIO bit taken for reserved", other)

PinCode(field) ==
  CASE field = "measurement" -> "MEASUREMENT_MISMATCH"
    [] field = "host_data" -> "HOST_DATA_MISMATCH"
    [] field = "report_data" -> "REPORT_DATA_MISMATCH"
    [] field = "id_key_digest" -> "ID_KEY_DIGEST_MISMATCH"
    [] OTHER -> "AUTHOR_KEY_DIGEST_MISMATCH"

SevPinFailures(doc, flaw) ==
  LET body == doc.report.body
  IN  IF flaw = "no SEV policy pins" THEN {}
      ELSE {PinCode(f) : f \in {g \in DOMAIN doc.policy.pins : doc.policy.pins[g] # body[g]}}
           \cup (IF \E c \in DOMAIN doc.policy.mins : body.current_tcb[c] < doc.policy.mins[c]
                 THEN {"TCB_OUT_OF_DATE"} ELSE {})

\* Nothing of the report is looked at before its signature has been verified.
SevFailures(doc, flaw) ==
  LET body == doc.report.body
      chain == SevChainFailures(doc, flaw)
  IN  IF ~doc.report.long THEN {"REPORT_TRUNCATED", "REPORT_FORMAT_UNSUPPORTED"}
      ELSE IF body.version # 3
      THEN {"WRONG_REPORT_VERSION", "REPORT_FORMAT_UNSUPPORTED", "REPORT_SIGNATURE_INVALID"}
      ELSE IF 2 \in body.signer_info THEN {"QV_RESULT_TERMINAL_UNSPECIFIED"}
      ELSE IF chain # {} THEN chain
      ELSE IF doc.report.sig # [key |-> doc.vcek.key, over |-> body]
      THEN {"REPORT_SIGNATURE_INVALID"}
      ELSE VcekExtFailures(doc, flaw) \cup GuestPolicyFailures(body)
           \cup (IF flaw = "defaults only when asked" /\ ~doc.policy.enforce THEN {}
                 ELSE SpecDefaultFailures(body, flaw))
           \cup SevPinFailures(doc, flaw)

\* The decoded fields an SDK prints, its tail as the ABI has it.
PlainFields == {"version", "vmpl", "current_tcb", "reported_tcb"}
SevFactsAt(body, offset) ==
  [key \in {"measurement"} \cup PlainFields \cup TailFields |->
     IF key = "measurement" THEN Fact(body.measurement)
     ELSE IF key \in PlainFields THEN Fact(Text(<<body[key]>>))
     ELSE Fact(Text([i \in 1..TailWidth(key) |-> body.tail[offset[key] + i - 1]]))]

SevFacts(doc, flaw) ==
  SevFactsAt(doc.report.body, [name \in TailFields |-> AbiOffset(name)])

-----------------------------------------------------------------------------
(* Vectors of phases 1, 2 and 4: the frozen Genoa report                    *)

\* Slip: the capability a fixture adds is not written.
SevCapsWithoutExtra(extra) ==
  [path \in {"attestation_sev.supported",
             "attestation_sev.injected_collateral_supported"} |-> {"true"}]

SevCaps(extra) ==
  [path \in {"attestation_sev.supported",
             "attestation_sev.injected_collateral_supported"} \cup extra |->
     IF path = "attestation_sev.verification_time_override" THEN {"supported"}
     ELSE {"true"}]

SevVector(id, doc, accepted, codes, extraCaps, outputs, catches) ==
  [family |-> "sev", stage |-> "verify-attestation-sev", id |-> id, doc |-> doc,
   exit |-> IF accepted THEN Accept ELSE Reject, codes |-> codes,
   caps |-> SevCaps(extraCaps), outputs |-> outputs, catches |-> catches]

\* _decoded_body_fields of phase 1 reads the tail at offsets of its own.
DecodedOffset(name) ==
  CASE name = "committed_tcb" -> 488   [] name = "current_build" -> 496
    [] name = "current_minor" -> 497   [] name = "current_major" -> 498
    [] name = "committed_build" -> 500 [] name = "committed_minor" -> 501
    [] name = "committed_major" -> 502 [] OTHER -> 504

HappySevVectors ==
  {SevVector("200", RealInput(NoPolicy), TRUE, {}, {},
             SevFactsAt(RealReport.body,
                        [name \in TailFields |-> DecodedOffset(name)]), {})}

TamperedReportVectors ==
  LET real == RealInput(NoPolicy)
      rejected(id, doc, codes) == SevVector(id, doc, FALSE, codes, {}, NoFacts, {})
  IN  {rejected("210", [real EXCEPT !.report.body.version = 2],
                {"WRONG_REPORT_VERSION", "REPORT_FORMAT_UNSUPPORTED",
                 "REPORT_SIGNATURE_INVALID"}),
       rejected("211", [real EXCEPT !.report.long = FALSE],
                {"REPORT_TRUNCATED", "REPORT_FORMAT_UNSUPPORTED"}),
       rejected("220", [real EXCEPT !.report.sig.key = <<"flipped", "AMD">>],
                {"REPORT_SIGNATURE_INVALID"}),
       rejected("221", [real EXCEPT !.report.body.measurement = Text(<<"f6ef">>)],
                {"REPORT_SIGNATURE_INVALID"})}

PastVcek == SevMonth(2034, 1)

TamperedVcekVectors ==
  LET real == RealInput(NoPolicy)
  IN  {SevVector("230", [real EXCEPT !.vcek.parses = FALSE], FALSE,
                 {"VCEK_CHAIN_INVALID", "REPORT_FORMAT_UNSUPPORTED"}, {}, NoFacts, {}),
       SevVector("231", [real EXCEPT !.vcek.sig.key = <<"flipped", "AMD">>], FALSE,
                 {"VCEK_CHAIN_INVALID"}, {}, NoFacts, {}),
       SevVector("240", [real EXCEPT !.date = PastVcek], FALSE,
                 {"VCEK_EXPIRED"}, {"attestation_sev.verification_time_override"},
                 NoFacts, {"SEV system clock"})}

\* _flip_hex of the real value, or a value that is not zero.
Pinned(id, pins, mins, codes) ==
  SevVector(id, RealInput(SevPolicy(pins, mins, FALSE)), codes = {}, codes,
            {"attestation_sev.extended_checks_supported"}, NoFacts,
            IF codes = {} THEN {} ELSE {"no SEV policy pins"})

PinMismatchVectors ==
  LET pin(id, field, value) == Pinned(id, field :> Text(<<value>>), NoMins, {PinCode(field)})
  IN  {pin("400", "measurement", "f9ef"), pin("410", "host_data", "f"),
       pin("420", "report_data", "f1c3"), pin("430", "id_key_digest", "f"),
       pin("440", "author_key_digest", "f")}

MinimumAndMatchVectors ==
  {Pinned("450", NoPins, Bl :> 20, {"TCB_OUT_OF_DATE"}),
   Pinned("451", NoPins, Ucode :> 200, {"TCB_OUT_OF_DATE"}),
   Pinned("460", "measurement" :> Template.measurement, NoMins, {}),
   Pinned("461", [f \in {"measurement", "host_data", "report_data", "id_key_digest",
                         "author_key_digest"} |-> Template[f]],
          Bl :> 5 @@ Ucode :> 50, {})}

-----------------------------------------------------------------------------
(* Vectors of phases 4B to 6: reports signed with the synthetic chain       *)

InjectionCap == {"attestation_sev.amd_root_ca_injection_supported"}

Injected(id, doc, accepted, codes, catches) ==
  SevVector(id, doc, accepted, codes, InjectionCap, NoFacts, catches)

\* The fields every synthetic vector sets, with its own on top.
SynthFields(own) ==
  own @@ [f \in {"current_tcb", "reported_tcb", "chip_id", "measurement", "host_data",
                 "report_data", "policy"} |->
            CASE f \in {"current_tcb", "reported_tcb"} -> SynthTcb
              [] f = "chip_id" -> SynthChipId
              [] f = "policy" -> {16, 17}
              [] f = "measurement" -> Text(<<"11">>)
              [] f = "host_data" -> Text(<<"22">>)
              [] OTHER -> Text(<<"33">>)]

GuestPolicyVectors ==
  LET with(id, bits, policy, codes) ==
        Injected(id, SynthInput(PersistedChain, SynthFields("policy" :> bits), policy),
                 codes = {}, codes, {})
  IN  {with("600", {16, 17, 19}, SpecDefaults, {"GUEST_POLICY_DEBUG_SET"}),
       with("601", {16}, SpecDefaults, {"GUEST_POLICY_RESERVED_BIT_SET"}),
       with("602", {16, 17, 30}, SpecDefaults, {"GUEST_POLICY_RESERVED_BIT_SET"}),
       with("603", {16, 17, 18}, NoPolicy, {"GUEST_POLICY_MIGRATE_MA_SET"})}

SynthBaselineVector ==
  {Injected("604", SynthInput(PersistedChain, SynthFields("policy" :> {16, 17}),
                              SpecDefaults), TRUE, {}, {})}

VcekExtensionVectors ==
  LET on(id, chain, own, code) ==
        Injected(id, SynthInput(chain, SynthFields(own), NoPolicy), FALSE,
                 {code, "VCEK_CHAIN_INVALID"}, {})
      fresh(name, tcb, omit) == GenSynthChain(name, SynthChipId, tcb, omit, Amd)
      nothing == [f \in {} |-> 0]
  IN  {on("700", PersistedChain, "chip_id" :> Text(<<"bb">>), "VCEK_HWID_MISMATCH"),
       on("701", fresh("low bl", TcbOf(5, 0, 23, 84), {}), nothing, "VCEK_TCB_MISMATCH"),
       on("702", fresh("low ucode", TcbOf(10, 0, 23, 10), {}), nothing, "VCEK_TCB_MISMATCH"),
       on("703", fresh("no hwid", SynthTcb, {"HWID"}), nothing, "VCEK_HWID_MISMATCH")}

\* 250 to 253 pin no code: any rejection passes.
ChainIntegrityVectors ==
  LET chain(name, org) == GenSynthChain(name, SynthChipId, SynthTcb, {}, org)
      input(c) == SynthInput(c, SynthFields("policy" :> {16, 17}), NoPolicy)
      persisted == input(PersistedChain)
  IN  {Injected("250", [persisted EXCEPT !.ark.sig.key = <<"flipped", "persisted">>],
                FALSE, {}, {"root blindly trusted"}),
       Injected("251", [input(chain("B", Amd)) EXCEPT !.ark = chain("A", Amd).ark],
                FALSE, {}, {}),
       Injected("252", input(chain("DN", "Definitely Not Advanced Micro Devices")),
                FALSE, {}, {"DN not validated"}),
       Injected("253", [persisted EXCEPT !.vcek.parses = FALSE], FALSE, {}, {})}

SnpLow == TcbOf(10, 0, 13, 84)

\* Phase 5 gives no policy: the defaults apply on their own.
Phase5(id, own, accepted, catches) ==
  Injected(id, SynthInput(PersistedChain, SynthFields(own), NoPolicy), accepted, {},
           catches)

FirmwareVectors ==
  LET unasked == "defaults only when asked"
  IN  {Phase5("260", "current_tcb" :> SnpLow, FALSE, {unasked, "TCB minimum not applied"}),
       Phase5("261", "current_build" :> <<30>> @@ "committed_build" :> <<31>>, FALSE,
              {unasked, "provisional firmware permitted"}),
       Phase5("262", "current_build" :> <<10>> @@ "committed_build" :> <<10>>, FALSE,
              {unasked}),
       Phase5("263", "current_major" :> <<1>> @@ "current_minor" :> <<0>>
                       @@ "committed_major" :> <<1>> @@ "committed_minor" :> <<0>>, FALSE,
              {unasked})}

PlatformVectors ==
  LET unasked == "defaults only when asked"
  IN  {Phase5("264", "platform_info" :> {0}, FALSE, {unasked, "platform info not validated"}),
       Phase5("265", "vmpl" :> 4, FALSE, {unasked, "VMPL checked only when configured"}),
       Phase5("266", "vmpl" :> 2, TRUE, {"VMPL 0 required"})}

SignerVectors ==
  {Phase5("267", "signer_info" :> {1} @@ "chip_id" :> Text(<<"0">>), TRUE,
          {"HWID compared though masked"}),
   Phase5("268", "signer_info" :> {2}, FALSE, {})}

\* Rejections no clause asks for, written to fail until one does.
Probes5 ==
  {Phase5("270", "platform_info" :> {0, 1, 5}, FALSE, {}),
   Phase5("271", "platform_info" :> {0, 1, 4}, FALSE, {})}

Phase6(id, own, accepted, catches) ==
  Phase5(id, own @@ "committed_tcb" :> SynthTcb @@ "platform_info" :> {0, 1}, accepted,
         catches)

Phase6Vectors ==
  LET unasked == "defaults only when asked"
  IN  {Phase6("452", "launch_tcb" :> SnpLow, FALSE, {unasked, "launch TCB not checked"}),
       Phase6("605", "policy" :> {16, 17, 21}, FALSE, {unasked, "CXL not constrained"}),
       Phase6("606", "policy" :> {16, 17, 22}, FALSE,
              {unasked, "AES-256-XTS not constrained"}),
       Phase6("275", "platform_info" :> {0, 1, 7}, TRUE, {"TIO bit taken for reserved"})}

Probes6 ==
  {Phase6("272", "platform_info" :> {0, 1, 3}, FALSE, {}),
   Phase6("273", "platform_info" :> {0, 1, 2}, FALSE, {}),
   Phase6("274", "platform_info" :> {0, 1, 2, 3}, FALSE, {})}

SevFamily ==
  HappySevVectors \cup TamperedReportVectors \cup TamperedVcekVectors
    \cup PinMismatchVectors \cup MinimumAndMatchVectors \cup GuestPolicyVectors
    \cup SynthBaselineVector \cup VcekExtensionVectors \cup ChainIntegrityVectors
    \cup FirmwareVectors \cup PlatformVectors \cup SignerVectors \cup Phase6Vectors
    \cup Probes5 \cup Probes6

=============================================================================
