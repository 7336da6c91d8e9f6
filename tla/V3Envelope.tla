------------------------------ MODULE V3Envelope ------------------------------
(***************************************************************************)
(* The v3-check-envelope vectors of v3/gen_envelope.py, and what all v3     *)
(* generators share: the base document and the shape of a vector.           *)
(*                                                                         *)
(* The verifier is the list of rules of docs/SPEC_COVERAGE_V3.md, each      *)
(* under its id there (with a branch, "P11-issuer", where the vectors split *)
(* it).  A flaw with a rule's name is an SDK without that rule.             *)
(***************************************************************************)
EXTENDS VectorKit, SequencesExt, TLC

\* Names of the rules a document breaks, for an SDK with the flaw.
Broken(holds, flaw) == {r \in DOMAIN holds : ~holds[r]} \ {flaw}

\* A vector of a v3 generator; code "none" is an accept.
V3Vector(family, stage, id, doc, code, facts, catches) ==
  [family |-> family, stage |-> stage, id |-> id, doc |-> doc,
   exit |-> IF code = "none" THEN Accept ELSE Reject,
   codes |-> {code} \ {"none"}, caps |-> NoCaps, outputs |-> facts,
   catches |-> catches]

-----------------------------------------------------------------------------
(* The document                                                             *)

Sha(section) == [of |-> section, bytes |-> 32]

Section(format, items) == [format |-> format, items |-> items]
NoSection == Section("missing", << >>)
CryptoMaterial(items) == Section("crypto-material/v1", items)
DeviceEvidence(items) == Section("device-evidence/v1", items)

Item(id, format, data) == [id |-> id, format |-> format, data |-> data]
TlsItem  == Item("tls", "spki-fp-sha256/v1", "tls fp")
HpkeItem == Item("hpke", "x25519-hpke/v1", "hpke key")

OwnNonce   == "00..1f"
OtherNonce == "ff"

\* SHA-256(label, nonce, the two endorsed hashes), padded with zeros.
Ladder(nonce, endorsed) == [nonce |-> nonce, endorsed |-> endorsed]

\* `text` is what is wrong with the JSON text as such; `nonce` is the echo in
\* the challenge, `verifier` the nonce the verifier was given.
Envelope(crypto, device) ==
  LET endorsed == [crypto |-> Sha(crypto), device |-> Sha(device)]
  IN  [text |-> {}, nonce |-> OwnNonce, verifier |-> OwnNonce,
       algorithm |-> "report-data/v1", reportData |-> Ladder(OwnNonce, endorsed),
       lowerHex |-> TRUE, endorsed |-> endorsed, crypto |-> crypto, device |-> device,
       canonicalBase64 |-> TRUE, collateral |-> << >>]

\* Slip: the ladder is made over the keys the base document would have.
StaleLadder(items) ==
  [Envelope(CryptoMaterial(items), DeviceEvidence(<< >>)) EXCEPT
     !.reportData = Envelope(CryptoMaterial(<<TlsItem, HpkeItem>>),
                             DeviceEvidence(<< >>)).reportData]

BaseDoc(items) == Envelope(CryptoMaterial(items), DeviceEvidence(<< >>))
HappyDoc == BaseDoc(<<TlsItem, HpkeItem>>)

CollateralEntry(id, role, format, data) ==
  [id |-> id, role |-> role, format |-> format, data |-> data]
CrlEntry == CollateralEntry("c1", "endorsement", "amd-crl/v1", << >>)

-----------------------------------------------------------------------------
(* The rules of the envelope                                                *)

NoRepeatedId(items) == \A i, j \in DOMAIN items : items[i].id = items[j].id => i = j

\* The ladder is over the verifier's nonce and the hashes the quote endorses.
EnvelopeHolds(d, flaw) ==
  LET nonce == IF flaw = "document's nonce trusted" THEN d.nonce ELSE d.verifier
      section(s) == s.format \in {"missing", "crypto-material/v1", "device-evidence/v1"}
  IN  [E1 |-> "unknown member" \notin d.text,
       E2 |-> "duplicate member" \notin d.text,
       E3 |-> "no UTF-8" \notin d.text,
       E4 |-> d.canonicalBase64,
       E5 |-> d.lowerHex,
       E6 |-> "trailing data" \notin d.text,
       E7 |-> NoSection \notin {d.crypto, d.device},
       E8 |-> d.algorithm = "report-data/v1",
       E9 |-> d.endorsed.crypto.bytes = 32 /\ d.endorsed.device.bytes = 32,
       E10 |-> NoRepeatedId(d.crypto.items) /\ NoRepeatedId(d.device.items),
       E11 |-> section(d.crypto) /\ section(d.device),
       E12 |-> \A i \in DOMAIN d.device.items : d.device.items[i].id # "",
       E13 |-> NoRepeatedId(d.collateral),
       E14 |-> d.nonce = nonce,
       E15 |-> d.endorsed.crypto = Sha(d.crypto),
       E16 |-> d.endorsed.device = Sha(d.device),
       E17 |-> d.reportData = Ladder(nonce, d.endorsed)]

EnvelopeBroken(d, flaw) ==
  Broken(EnvelopeHolds(d, flaw), flaw)
    \cup (IF \/ flaw = "device items refused" /\ d.device.items # << >>
             \/ flaw = "collateral refused" /\ d.collateral # << >>
             \/ flaw = "one key refused" /\ Len(d.crypto.items) = 1
          THEN {flaw} ELSE {})

-----------------------------------------------------------------------------
(* The vectors                                                              *)

EnvelopeReject(id, doc, catches) ==
  V3Vector("v3-envelope", "v3-check-envelope", id, doc, "ENVELOPE_REJECTED",
           NoFacts, catches)
EnvelopeAccept(id, doc, catches) ==
  V3Vector("v3-envelope", "v3-check-envelope", id, doc, "none", NoFacts, catches)

Faulty(text) == [HappyDoc EXCEPT !.text = {text}]

\* A replaced section keeps the endorsed hash of the one it replaces.
WithCrypto(section) == [HappyDoc EXCEPT !.crypto = section]
WithDevice(section) == [HappyDoc EXCEPT !.device = section]

EnvelopeFamily ==
  LET tls == Item("tls", "spki-fp-sha256/v1", "ab")
      other == Section("bb", << >>)
  IN
  {EnvelopeAccept("envelope-happy", HappyDoc, {}),
   EnvelopeAccept("envelope-pos-crypto-items",
     Envelope(CryptoMaterial(<<tls>>), DeviceEvidence(<< >>)), {"one key refused"}),
   EnvelopeAccept("envelope-pos-device-item",
     Envelope(CryptoMaterial(<< >>), DeviceEvidence(<<Item("gpu0", "x", "")>>)),
     {"device items refused"}),
   EnvelopeAccept("envelope-pos-collateral",
     [Envelope(CryptoMaterial(<< >>), DeviceEvidence(<< >>))
        EXCEPT !.collateral = <<CrlEntry>>], {"collateral refused"}),
   EnvelopeReject("e1", Faulty("unknown member"), {"E1"}),
   EnvelopeReject("e2", Faulty("duplicate member"), {"E2"}),
   EnvelopeReject("e3", Faulty("no UTF-8"), {"E3"}),
   EnvelopeReject("e4", [HappyDoc EXCEPT !.canonicalBase64 = FALSE], {"E4"}),
   EnvelopeReject("e5", [HappyDoc EXCEPT !.lowerHex = FALSE], {"E5"}),
   EnvelopeReject("e6", Faulty("trailing data"), {"E6"}),
   EnvelopeReject("e7", WithCrypto(NoSection), {"E7"}),
   EnvelopeReject("e8", [HappyDoc EXCEPT !.algorithm = "report-data/v1-x"], {"E8"}),
   EnvelopeReject("e9",
     [HappyDoc EXCEPT !.endorsed.crypto = [of |-> other, bytes |-> 31]], {"E9"}),
   EnvelopeReject("e10", WithCrypto(CryptoMaterial(<<tls, tls>>)), {"E10"}),
   EnvelopeReject("e11", WithCrypto(Section("crypto-material/v1-x", << >>)), {"E11"}),
   EnvelopeReject("e12", WithDevice(DeviceEvidence(<<Item("", "x", "")>>)), {"E12"}),
   EnvelopeReject("e13", [HappyDoc EXCEPT !.collateral = <<CrlEntry, CrlEntry>>], {"E13"}),
   EnvelopeReject("e14", [HappyDoc EXCEPT !.nonce = OtherNonce], {"E14"}),
   EnvelopeReject("e15", [HappyDoc EXCEPT !.endorsed.crypto = Sha(other)], {"E15"}),
   EnvelopeReject("e16", [HappyDoc EXCEPT !.endorsed.device = Sha(other)], {"E16"}),
   EnvelopeReject("e17", [HappyDoc EXCEPT !.reportData = Ladder("cc", @.endorsed)],
                  {"E17"})}

=============================================================================
