------------------------- MODULE EnclaveCertVectors -------------------------
(***************************************************************************)
(* The verify-enclave-cert vectors of fixturegen/enclave_cert_fixtures.py:  *)
(* a certificate whose DNS names carry, in numbered base32 pieces, the HPKE *)
(* key of the enclave and the hash of its attestation document.             *)
(*                                                                         *)
(* A DNS name is [idx, piece, prefix, domain]; idx 0 with the empty piece   *)
(* and no prefix is a plain host name.  Domains are sequences of labels.    *)
(***************************************************************************)
EXTENDS VectorKit, SequencesExt

Domain  == <<"inference", "tinfoil", "sh">>
Apex    == <<"tinfoil", "sh">>
Wild    == <<"*", "tinfoil", "sh">>
Foreign == <<"another", "example", "com">>

HpkeKey == "key 1..32"
OtherKey == "key 2..33"
Predicate == "snp-tdx-multiplatform/v1"
Body == "attestation body"

DocHash(fmt, body) == <<"sha256", fmt, body>>

-----------------------------------------------------------------------------
(* Encoding: n bytes are (8 n + 4) \div 5 base32 letters without padding.   *)

Base32(value, bytes) == [i \in 1..((8 * bytes + 4) \div 5) |-> <<value, i>>]

Chunk == 50

\* Slip: whole chunks only, the short last one is lost.
WholePieces(letters) ==
  [k \in 1..(Len(letters) \div Chunk) |->
     SubSeq(letters, Chunk * (k - 1) + 1, Chunk * k)]

Pieces(letters) ==
  IF letters = << >> THEN << << >> >>
  ELSE [k \in 1..((Len(letters) + Chunk - 1) \div Chunk) |->
          SubSeq(letters, Chunk * (k - 1) + 1,
                 IF Chunk * k < Len(letters) THEN Chunk * k ELSE Len(letters))]

DcodeSans(value, bytes, prefix, domain) ==
  LET pieces == Pieces(Base32(value, bytes))
  IN  {[idx |-> k - 1, piece |-> pieces[k], prefix |-> prefix, domain |-> domain] :
         k \in DOMAIN pieces}

Host(domain) == {[idx |-> 0, piece |-> << >>, prefix |-> "", domain |-> domain]}

\* A key is 32 bytes; the hash is put in as the 64 characters of its hex.
HpkeSans(key, domain) == DcodeSans(<<"key", key>>, 32, "hpke", domain)
HattSans(hash, domain) == DcodeSans(hash, 64, "hatt", domain)

EnclaveSans(domain, key, hash) ==
  Host(domain) \cup HpkeSans(key, domain) \cup HattSans(hash, domain)

-----------------------------------------------------------------------------
(* The verifier the expectations are written for                            *)

\* The pieces of a prefix put together in the order of their numbers.
Decoded(sans, prefix) ==
  LET parts == {s \in sans : s.prefix = prefix}
  IN  FlattenSeq([k \in 1..Cardinality(parts) |->
                    (CHOOSE s \in parts : s.idx = k - 1).piece])

HostMatches(name, host, flaw) ==
  \/ name = host
  \/ /\ Head(name) = "*"
     /\ \/ Len(name) = Len(host) /\ Tail(name) = Tail(host)
        \/ flaw = "wildcard covers the apex" /\ Tail(name) = host

EnclaveCertFailures(doc, flaw) ==
  LET sans == doc.sans
      has(prefix) == \E s \in sans : s.prefix = prefix
      binds(prefix, letters, missing, mismatch) ==
        IF ~has(prefix) THEN {missing}
        ELSE IF Decoded(sans, prefix) # letters THEN {mismatch} ELSE {}
  IN  IF ~doc.parses THEN {"ENCLAVE_CERT_MALFORMED"}
      ELSE IF sans = {} THEN {"ENCLAVE_CERT_NO_SAN"}
      ELSE (IF \E s \in sans : s.prefix = "" /\ HostMatches(s.domain, doc.host, flaw)
            THEN {} ELSE {"ENCLAVE_CERT_DOMAIN_MISMATCH"})
           \cup binds("hpke", Base32(<<"key", doc.key>>, 32),
                      "ENCLAVE_CERT_HPKE_MISSING", "ENCLAVE_CERT_HPKE_MISMATCH")
           \cup binds("hatt", Base32(DocHash(Predicate, doc.body), 64),
                      "ENCLAVE_CERT_HASH_MISSING", "ENCLAVE_CERT_HASH_MISMATCH")

EnclaveCertFacts(doc, flaw) ==
  [key \in {"hpke_public_key_hex", "attestation_hash_hex"} |->
     IF key = "hpke_public_key_hex" THEN Fact(Text(<<Decoded(doc.sans, "hpke")>>))
     ELSE Fact(Text(<<Decoded(doc.sans, "hatt")>>))]

-----------------------------------------------------------------------------
(* The vectors                                                              *)

BasePayload(sans) ==
  [parses |-> TRUE, sans |-> sans, host |-> Domain, key |-> HpkeKey, body |-> Body]

EnclaveCertCaps ==
  [path \in {"enclave_cert.offline_verification_supported"} |-> {"true"}]

EnclaveCert(id, doc, exit, codes, catches) ==
  [family |-> "enclave-cert", stage |-> "verify-enclave-cert", id |-> id,
   doc |-> doc, exit |-> exit, codes |-> codes, caps |-> EnclaveCertCaps,
   catches |-> catches,
   outputs |->
     IF exit # Accept THEN NoFacts
     ELSE [key \in {"hpke_public_key_hex", "attestation_hash_hex"} |->
             IF key = "hpke_public_key_hex"
             THEN Fact(Text(<<Base32(<<"key", HpkeKey>>, 32)>>))
             ELSE Fact(Text(<<Base32(DocHash(Predicate, Body), 64)>>))]]

GoodSans == EnclaveSans(Domain, HpkeKey, DocHash(Predicate, Body))

BindingVectors ==
  {EnclaveCert("700", BasePayload(GoodSans), Accept, {}, {}),
   EnclaveCert("710", [BasePayload(GoodSans) EXCEPT !.key = OtherKey], Reject,
               {"ENCLAVE_CERT_HPKE_MISMATCH"}, {}),
   EnclaveCert("720", [BasePayload(GoodSans) EXCEPT !.body = "tampered body"],
               Reject, {"ENCLAVE_CERT_HASH_MISMATCH"}, {}),
   EnclaveCert("730", BasePayload(GoodSans \ HpkeSans(HpkeKey, Domain)), Reject,
               {"ENCLAVE_CERT_HPKE_MISSING"}, {}),
   EnclaveCert("740", BasePayload(GoodSans \ HattSans(DocHash(Predicate, Body), Domain)),
               Reject, {"ENCLAVE_CERT_HASH_MISSING"}, {})}

DomainVectors ==
  {EnclaveCert("750", [BasePayload(GoodSans) EXCEPT !.host = Foreign], Reject,
               {"ENCLAVE_CERT_DOMAIN_MISMATCH"}, {}),
   EnclaveCert("760", BasePayload({}), Reject, {"ENCLAVE_CERT_NO_SAN"}, {}),
   EnclaveCert("770",
               [BasePayload(Host(Wild) \cup HpkeSans(HpkeKey, Apex)
                              \cup HattSans(DocHash(Predicate, Body), Apex))
                  EXCEPT !.host = Apex],
               Reject, {"ENCLAVE_CERT_DOMAIN_MISMATCH"},
               {"wildcard covers the apex"}),
   EnclaveCert("780", [BasePayload({}) EXCEPT !.parses = FALSE], BadInput,
               {"ENCLAVE_CERT_MALFORMED"}, {})}

EnclaveCertFamily == BindingVectors \cup DomainVectors

=============================================================================
