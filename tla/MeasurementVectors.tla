------------------------- MODULE MeasurementVectors -------------------------
(***************************************************************************)
(* The verify-measurement and verify-hardware-measurements vectors of       *)
(* fixturegen/measurement_fixtures.py and hardware_measurements_fixtures.py *)
(* and the two comparisons they are about, as an SDK performs them.         *)
(*                                                                         *)
(* A measurement is [type, regs].  The comparisons take `flaw`, the one     *)
(* thing an SDK does wrong; with any other value they are the comparisons   *)
(* the generators write their expectations for.                             *)
(***************************************************************************)
EXTENDS VectorKit, SequencesExt

SevUri == "sev-snp-guest/v2"
TdxUri == "tdx-guest/v2"
MpUri  == "snp-tdx-multiplatform/v1"

Zero == Text(<<"0">>)
Snp == Text(<<"a">>)
Rtmr1 == Text(<<"b">>)
Rtmr2 == Text(<<"c">>)
Mrtd == Text(<<"d">>)
Rtmr0 == Text(<<"e">>)
LastByteFf(x) == Text(<<x.t[1], "ff">>)

M(type, regs) == [type |-> type, regs |-> regs]
NoTarget == M("none", << >>)

SevM == M(SevUri, <<Snp>>)
TdxM == M(TdxUri, <<Mrtd, Rtmr0, Rtmr1, Rtmr2, Zero>>)
MpM  == M(MpUri, <<Snp, Rtmr1, Rtmr2>>)

-----------------------------------------------------------------------------
(* Fingerprints                                                             *)

\* Slip: a single register is hashed like several.
FingerprintAlwaysHashed(m) ==
  Text(<<"sha256", m.type, [i \in DOMAIN m.regs |-> Lower(m.regs[i])]>>)

Fingerprint(m) ==
  IF Len(m.regs) = 1 THEN Lower(m.regs[1])
  ELSE Text(<<"sha256", m.type, [i \in DOMAIN m.regs |-> Lower(m.regs[i])]>>)

\* What an SDK prints; the case of a single register is not its to hash.
SdkFingerprint(m, flaw) ==
  LET prefix == IF flaw = "tdx prefix" THEN TdxUri ELSE m.type
      regs == IF flaw = "case kept in hash" THEN m.regs
              ELSE [i \in DOMAIN m.regs |-> Lower(m.regs[i])]
  IN  IF Len(m.regs) = 1 THEN regs[1] ELSE Text(<<"sha256", prefix, regs>>)

-----------------------------------------------------------------------------
(* Comparison of two measurements                                           *)

SameRegs(src, tgt, lowers, is, js) ==
  \A k \in DOMAIN is :
    /\ is[k] \in DOMAIN src.regs
    /\ js[k] \in DOMAIN tgt.regs
    /\ SameLetters(src.regs[is[k]], tgt.regs[js[k]], lowers)

\* The multi-platform measurement comes first; `swapped` is the reverse rule.
Bridged(src, tgt, flaw) ==
  IF tgt.type = MpUri /\ src.type # MpUri /\ flaw # "no reverse comparison"
  THEN <<tgt, src>> ELSE <<src, tgt>>

CompareFailures(src, tgt, flaw) ==
  LET p == Bridged(src, tgt, flaw)
      a == p[1]
      b == p[2]
      lowers == flaw # "case kept in compare"
      lazy == flaw = "lazy target access"
      bridges == flaw # "no multi-platform to TDX"
      fails(cond, code) == IF cond THEN {} ELSE {code}
  IN  IF a.type = b.type
      THEN fails(/\ Len(a.regs) = Len(b.regs)
                 /\ SameRegs(a, b, lowers, [i \in DOMAIN a.regs |-> i],
                             [i \in DOMAIN a.regs |-> i]),
                 "MEASUREMENT_MISMATCH")
      ELSE IF a.type = MpUri /\ b.type = SevUri
      THEN fails(SameRegs(a, b, lowers, <<1>>, <<1>>), "MEASUREMENT_MISMATCH")
      ELSE IF a.type = MpUri /\ b.type = TdxUri /\ bridges
      THEN IF Len(b.regs) # 5 /\ ~lazy
           THEN {"MEASUREMENT_REGISTER_COUNT_INVALID"}
           ELSE fails(IF flaw = "RTMR1 not compared"
                      THEN SameRegs(a, b, lowers, <<3>>, <<4>>)
                      ELSE SameRegs(a, b, lowers, <<2, 3>>, <<3, 4>>),
                      "MEASUREMENT_MISMATCH")
                \cup fails(5 \in DOMAIN b.regs => b.regs[5] = Zero,
                           "MEASUREMENT_RTMR3_NONZERO")
      ELSE {"MEASUREMENT_TYPE_COMBINATION_UNSUPPORTED"}

MeasurementFailures(doc, flaw) ==
  IF doc.target = NoTarget THEN {}
  ELSE CompareFailures(doc.source, doc.target, flaw)

MeasurementFacts(doc, flaw) ==
  [key \in {"source_fingerprint_hex", "target_fingerprint_hex"} |->
     IF key = "source_fingerprint_hex"
     THEN Fact(SdkFingerprint(doc.source, flaw))
     ELSE IF doc.target = NoTarget THEN NullFact
     ELSE Fact(SdkFingerprint(doc.target, flaw))]

-----------------------------------------------------------------------------
(* The vectors, measurement_fixtures.py                                     *)

\* No codes is accept: the expectation and the fingerprints follow from that.
Measured(id, source, target, codes, caps, catches) ==
  [family |-> "measurement", stage |-> "verify-measurement", id |-> id,
   doc |-> [source |-> source, target |-> target],
   exit |-> IF codes = {} THEN Accept ELSE Reject, codes |-> codes,
   caps |-> caps, catches |-> catches,
   outputs |->
     IF codes # {} THEN NoFacts
     ELSE [key \in {"source_fingerprint_hex", "target_fingerprint_hex"} |->
             IF key = "source_fingerprint_hex" THEN Fact(Fingerprint(source))
             ELSE IF target = NoTarget THEN NullFact
             ELSE Fact(Fingerprint(target))]]

MpTdxCap ==
  [path \in {"measurement.compare_multiplatform_to_tdx_supported"} |-> {"true"}]

UpperRegs(m) == [m EXCEPT !.regs = [i \in DOMAIN m.regs |-> Upper(m.regs[i])]]

FingerprintVectors ==
  {Measured("100", SevM, NoTarget, {}, NoCaps, {}),
   Measured("101", TdxM, NoTarget, {}, NoCaps, {}),
   Measured("102", MpM, NoTarget, {}, NoCaps, {"tdx prefix"}),
   Measured("103", UpperRegs(MpM), NoTarget, {}, NoCaps,
            {"case kept in hash"})}

SameTypeVectors ==
  {Measured("110", SevM, SevM, {}, NoCaps, {}),
   Measured("111", TdxM, TdxM, {}, NoCaps, {}),
   Measured("112", SevM, M(SevUri, <<LastByteFf(Snp)>>),
            {"MEASUREMENT_MISMATCH"}, NoCaps, {}),
   Measured("113", SevM, UpperRegs(SevM), {}, NoCaps,
            {"case kept in compare"})}

MultiPlatformToTdxVectors ==
  {Measured("120", MpM, TdxM, {}, MpTdxCap, {}),
   Measured("121", MpM, [TdxM EXCEPT !.regs[5] = Text(<<"1", "0">>)],
            {"MEASUREMENT_RTMR3_NONZERO"}, MpTdxCap, {}),
   Measured("122", MpM, [TdxM EXCEPT !.regs[3] = LastByteFf(Rtmr1)],
            {"MEASUREMENT_MISMATCH"}, MpTdxCap, {"RTMR1 not compared"}),
   Measured("123", MpM, M(TdxUri, Front(TdxM.regs)),
            {"MEASUREMENT_REGISTER_COUNT_INVALID", "MEASUREMENT_MISMATCH"},
            MpTdxCap, {"lazy target access"})}

OtherComparisonVectors ==
  {Measured("130", MpM, SevM, {}, NoCaps, {}),
   Measured("131", MpM, M(SevUri, <<LastByteFf(Snp)>>),
            {"MEASUREMENT_MISMATCH"}, NoCaps, {}),
   Measured("140", TdxM, MpM, {}, MpTdxCap, {"no reverse comparison"}),
   Measured("141", SevM, MpM, {}, NoCaps, {"no reverse comparison"}),
   Measured("150", TdxM, SevM,
            {"MEASUREMENT_TYPE_COMBINATION_UNSUPPORTED"}, NoCaps, {})}

-----------------------------------------------------------------------------
(* The hardware list of SPEC 6.3, hardware_measurements_fixtures.py         *)

MrtdA == Text(<<"a">>)
MrtdB == Text(<<"b">>)
MrtdC == Text(<<"c">>)
Rtmr0A == Text(<<"1">>)
Rtmr0B == Text(<<"2">>)
Rtmr0C == Text(<<"3">>)

MatchesHardware(enclave, hw, flaw) ==
  LET side(x) == IF flaw = "hardware side not lowered" THEN x ELSE Lower(x)
  IN  /\ flaw = "RTMR0 alone" \/ Lower(enclave.regs[1]) = side(hw.mrtd)
      /\ flaw = "MRTD alone" \/ Lower(enclave.regs[2]) = side(hw.rtmr0)

\* Positions in the list the verifier would return.
Matching(doc, flaw) ==
  {i \in DOMAIN doc.hardware : MatchesHardware(doc.enclave, doc.hardware[i], flaw)}

HardwareFailures(doc, flaw) ==
  LET count == Len(doc.enclave.regs)
      enough == IF flaw = "two registers are enough" THEN count >= 2 ELSE count = 5
  IN  IF doc.enclave.type # TdxUri THEN {"ENCLAVE_MEASUREMENT_TYPE_INVALID"}
      ELSE IF ~enough THEN {"ENCLAVE_REGISTER_COUNT_INVALID"}
      ELSE IF flaw = "first entry returned" /\ doc.hardware # << >> THEN {}
      ELSE IF flaw = "zero value on empty list" /\ doc.hardware = << >> THEN {}
      ELSE IF Matching(doc, flaw) = {} THEN {"HARDWARE_NO_MATCH"} ELSE {}

HardwareFacts(doc, flaw) ==
  LET hits == Matching(doc, flaw)
      pos == CASE flaw = "first entry returned" -> 1
               [] flaw = "last match returned" -> Max(hits)
               [] OTHER -> Min(hits)
      hw == IF doc.hardware = << >>
            THEN [id |-> Text(<<"">>), mrtd |-> Text(<<"">>), rtmr0 |-> Text(<<"">>)]
            ELSE doc.hardware[pos]
  IN  [key \in {"matched_id", "matched_mrtd", "matched_rtmr0"} |->
         CASE key = "matched_id" -> Fact(hw.id)
           [] key = "matched_mrtd" -> Fact(Lower(hw.mrtd))
           [] OTHER -> Fact(Lower(hw.rtmr0))]

Hw(name, mrtd, rtmr0) == [id |-> Text(<<name>>), mrtd |-> mrtd, rtmr0 |-> rtmr0]

Enclave(mrtd, rtmr0) ==
  M(TdxUri, <<mrtd, rtmr0, Text(<<"d">>), Text(<<"e">>), Zero>>)

\* `match` is the entry the generator names, NoHw for a reject.
NoHw == Hw("none", Zero, Zero)

HardwareListed(id, enclave, hardware, match, codes, catches) ==
  [family |-> "hardware", stage |-> "verify-hardware-measurements", id |-> id,
   doc |-> [enclave |-> enclave, hardware |-> hardware],
   exit |-> IF match # NoHw THEN Accept ELSE Reject, codes |-> codes,
   caps |-> NoCaps, catches |-> catches,
   outputs |->
     IF match = NoHw THEN NoFacts
     ELSE [key \in {"matched_id", "matched_mrtd", "matched_rtmr0"} |->
             CASE key = "matched_id" -> Fact(match.id)
               [] key = "matched_mrtd" -> Fact(Lower(match.mrtd))
               [] OTHER -> Fact(Lower(match.rtmr0))]]

HardwareMatchVectors ==
  {HardwareListed("200", Enclave(MrtdA, Rtmr0A), <<Hw("a", MrtdA, Rtmr0A)>>,
                  Hw("a", MrtdA, Rtmr0A), {}, {}),
   HardwareListed("201", Enclave(MrtdB, Rtmr0B),
                  <<Hw("a", MrtdA, Rtmr0A), Hw("b", MrtdB, Rtmr0B),
                    Hw("c", MrtdC, Rtmr0C)>>,
                  Hw("b", MrtdB, Rtmr0B), {}, {"first entry returned"}),
   HardwareListed("202", Enclave(MrtdA, Rtmr0A),
                  <<Hw("a first", MrtdA, Rtmr0A), Hw("a second", MrtdA, Rtmr0A)>>,
                  Hw("a first", MrtdA, Rtmr0A), {}, {"last match returned"})}

HardwareMismatchVectors ==
  {HardwareListed("210", Enclave(MrtdA, Rtmr0A),
                  <<Hw("b", MrtdB, Rtmr0B), Hw("c", MrtdC, Rtmr0C)>>, NoHw,
                  {"HARDWARE_NO_MATCH"}, {}),
   HardwareListed("211", Enclave(MrtdA, Rtmr0A), << >>, NoHw,
                  {"HARDWARE_NO_MATCH"}, {"zero value on empty list"}),
   HardwareListed("212", Enclave(MrtdA, Rtmr0A),
                  <<Hw("a wrong rtmr0", MrtdA, Rtmr0B)>>, NoHw,
                  {"HARDWARE_NO_MATCH"}, {"MRTD alone"}),
   HardwareListed("213", Enclave(MrtdA, Rtmr0A),
                  <<Hw("wrong mrtd", MrtdB, Rtmr0A)>>, NoHw,
                  {"HARDWARE_NO_MATCH"}, {"RTMR0 alone"})}

HardwareShapeVectors ==
  LET listed == <<Hw("a", MrtdA, Rtmr0A)>>
  IN  {HardwareListed("220", M(SevUri, <<MrtdA>>), listed, NoHw,
                      {"ENCLAVE_MEASUREMENT_TYPE_INVALID"}, {}),
       HardwareListed("221", M(TdxUri, <<MrtdA, Rtmr0A, Text(<<"d">>)>>), listed,
                      NoHw, {"ENCLAVE_REGISTER_COUNT_INVALID", "HARDWARE_NO_MATCH"}, {}),
       HardwareListed("222", M(TdxUri, << >>), listed, NoHw,
                      {"ENCLAVE_REGISTER_COUNT_INVALID"}, {}),
       HardwareListed("230", Enclave(Upper(MrtdA), Rtmr0A),
                      <<Hw("mixed case", MrtdA, Upper(Rtmr0A))>>,
                      Hw("mixed case", MrtdA, Rtmr0A), {},
                      {"hardware side not lowered"})}

MeasurementFamily ==
  FingerprintVectors \cup SameTypeVectors \cup MultiPlatformToTdxVectors
    \cup OtherComparisonVectors

HardwareFamily ==
  HardwareMatchVectors \cup HardwareMismatchVectors \cup HardwareShapeVectors

=============================================================================
