--------------------------- MODULE SigstoreVectors ---------------------------
(***************************************************************************)
(* The verify-sigstore vectors: signed_fixtures.py builds bundles with the  *)
(* synthetic stack, policy_variations.py and coverage_fixtures.py mutate    *)
(* the frozen production bundle of 001.                                     *)
(*                                                                         *)
(* Refs and prefixes are sequences of the pieces the fixtures tell apart.   *)
(* Times are seconds since 2019, with years of YearLength seconds.          *)
(***************************************************************************)
EXTENDS SigstoreStack, VectorKit, SequencesExt, TLC

\* Place of the production entry in its log: a size and a position from 0.
CONSTANT SeedTrees
ASSUME SeedTreesAssumption ==
  \A t \in SeedTrees : t.size \in Nat \ {0, 1} /\ t.at \in 0..(t.size - 1)

YearLength == 10000
Year(y) == (y - 2019) * YearLength
Minute == 60

Tags == <<"refs/tags/">>
TagRef == <<"refs/tags/", "v", "1.0.0">>
HeadRef == <<"refs/heads/main">>

GithubIssuer == "github"
GitlabIssuer == "gitlab"
Mp == "snp-tdx-multiplatform/v1"
InToto == "application/vnd.in-toto+json"
Digest == Text(<<"d">>)
ZeroDigest == Text(<<"0">>)

-----------------------------------------------------------------------------
(* The statement and its mutations before signing                           *)

SeedStatement ==
  [type |-> "Statement/v1", predicateType |-> Mp,
   subjects |-> <<[name |-> "tinfoil-deployment.json", digest |-> Digest]>>,
   registers |-> {"snp", "rtmr1", "rtmr2"}, extra |-> FALSE]

Without(register) ==
  [SeedStatement EXCEPT !.registers = SeedStatement.registers \ {register}]

NoSubject == [SeedStatement EXCEPT !.subjects = << >>]

\* Slip: the zeroed subject is put last.
SpoofLast(subjects, n) ==
  [i \in 1..n |-> IF i = n THEN [name |-> "spoof", digest |-> ZeroDigest]
                  ELSE subjects[1]]

SpoofFirst(subjects, n) ==
  [i \in 1..n |-> IF i = 1 THEN [name |-> "spoof", digest |-> ZeroDigest]
                  ELSE subjects[1]]

MaybeMutatePayload(spec) ==
  [spec.payload EXCEPT
     !.type = IF spec.typeOverride = "" THEN @ ELSE spec.typeOverride,
     !.predicateType =
       IF spec.predicateTypeOverride = "" THEN @ ELSE spec.predicateTypeOverride,
     !.subjects = IF spec.numSubjects > 1 THEN SpoofFirst(@, spec.numSubjects) ELSE @,
     !.extra = spec.extraField]

\* FixtureSpec with its defaults.
DefaultSpec ==
  [payload |-> SeedStatement, payloadType |-> InToto, issuer |-> GithubIssuer,
   repo |-> "test-repo", ref |-> TagRef, signerRef |-> << >>,
   rootFrom |-> Year(2024), rootUntil |-> Year(2034),
   leafFrom |-> Year(2026), leafUntil |-> Year(2026) + 10 * Minute,
   sctTime |-> Year(2026) + Minute, numScts |-> 1, numTlogs |-> 1,
   omit |-> {}, v1Override |-> "", numDsseSigs |-> 1, numSubjects |-> 1,
   extraField |-> FALSE, typeOverride |-> "", predicateTypeOverride |-> "",
   integrated |-> Year(2026) + 2 * Minute,
   rekorFrom |-> Year(2024), ctFrom |-> Year(2024)]

\* What build_bundle_and_trust_root makes of a spec; a log of one entry each.
Resolved(spec) ==
  LET signer == IF spec.signerRef = << >> THEN spec.ref ELSE spec.signerRef
      s == [spec EXCEPT !.signerRef = signer]
  IN  [leafFrom |-> s.leafFrom, leafUntil |-> s.leafUntil, exts |-> LeafExts(s),
       numScts |-> s.numScts, sctTime |-> s.sctTime, sctStep |-> 1,
       caKeys |-> <<"fulcio root">>, dsseKey |-> "leaf",
       payloadType |-> s.payloadType, statement |-> MaybeMutatePayload(s),
       numDsseSigs |-> IF s.numDsseSigs > 1 THEN s.numDsseSigs ELSE 1,
       numTlogs |-> s.numTlogs, integrated |-> s.integrated,
       treeSize |-> 1, treeIndex |-> 0,
       rootFrom |-> s.rootFrom, rootUntil |-> s.rootUntil,
       ctFrom |-> s.ctFrom, rekorFrom |-> s.rekorFrom]

-----------------------------------------------------------------------------
(* The policy and the verifier the expectations are written for             *)

\* A null list of allowed types.
Unrestricted == {"any"}

DefaultPolicy ==
  [issuer |-> GithubIssuer, refPrefix |-> Tags, predicateTypes |-> {Mp},
   statementTypes |-> Unrestricted, payloadType |-> InToto]

\* The issuer a certificate names: the newer extension, then the older one.
CertIssuer(exts, flaw) ==
  LET order == IF flaw = "V1 issuer preferred" THEN <<"v1", "v2">> ELSE <<"v2", "v1">>
      read == SelectSeq(order, LAMBDA n : n \in DOMAIN exts
                                   /\ ~(flaw = "V2 issuer required" /\ n = "v1"))
  IN  IF read = << >> THEN "none" ELSE exts[read[1]]

RefAllowed(exts, prefix, flaw) ==
  LET ref == CASE flaw = "ref read from signer URI" -> {"signer uri"}
               [] flaw = "signer URI as fallback" /\ "ref" \notin DOMAIN exts ->
                    {"signer uri"}
               [] OTHER -> {"ref"}
      holds(r) ==
        CASE flaw = "prefix found anywhere" -> \E i \in DOMAIN r : r[i] \in Range(prefix)
          [] flaw = "empty prefix matches exactly" /\ prefix = << >> -> r = prefix
          [] OTHER -> IsPrefix(prefix, r)
  IN  /\ \E name \in ref \cap DOMAIN exts : holds(exts[name])
      /\ flaw = "signer URI required" => "signer uri" \in DOMAIN exts

\* An exact comparison, or one that is lenient in the way the flaw names.
SameUri(x, y, flaw) ==
  \/ x = y
  \/ flaw = "trailing slash ignored" /\ {x, y} = {Mp, "snp-tdx-multiplatform/v1/"}
  \/ flaw = "case of types ignored" /\ {x, y} = {"Statement/v1", "Statement/V1"}

ListAllows(list, x, flaw) ==
  IF list = Unrestricted THEN flaw # "null list allows nothing"
  ELSE IF list = {} THEN flaw = "empty list allows anything"
  ELSE \E y \in list : SameUri(x, y, flaw)

IssuingCas(doc) ==
  {ca \in doc.root.cas :
     /\ doc.bundle.cert.sig = Sig(ca.keys[1], doc.bundle.cert.tbs)
     /\ ca.from <= doc.bundle.cert.tbs.from /\ doc.bundle.cert.tbs.from <= ca.until}

ValidScts(doc) ==
  LET tbs == doc.bundle.cert.tbs
  IN  {i \in DOMAIN tbs.scts :
         \E log \in doc.root.ctlogs :
           /\ log.log = tbs.scts[i].log /\ log.from <= tbs.scts[i].time
           /\ tbs.scts[i].sig =
                Sig(log.key, [issuer |-> tbs.issuer, tbs |-> WithoutScts(tbs),
                              time |-> tbs.scts[i].time])}

DuplicateLog(scts) ==
  \E i, j \in DOMAIN scts : i # j /\ scts[i].log = scts[j].log

EntryKeys(doc, e) ==
  {log.key : log \in {l \in doc.root.tlogs : l.log = e.log}}

\* Codes of what is wrong with one log entry, once a key for its log is known.
EntryFailures(doc, e) ==
  LET p == e.proof
      keys == EntryKeys(doc, e)
      signed == \E k \in keys :
        p.checkpoint.sig = Sig(k, [size |-> p.checkpoint.size, root |-> p.checkpoint.root])
  IN  IF keys = {} THEN {"REKOR_KEY_NOT_TRUSTED"}
      ELSE (IF signed /\ Includes(p.root, p.size, p.index, LeafHash(e.body), p.hashes)
            THEN {} ELSE {"REKOR_INCLUSION_INVALID"})
           \cup (IF p.checkpoint.root = p.root THEN {} ELSE {"CHECKPOINT_ROOT_MISMATCH"})

\* Times a verifier may go by: a promised integration time or a TSA's.
ObservedTimes(doc) ==
  {e.time : e \in {f \in Range(doc.bundle.tlogs) :
     \E k \in EntryKeys(doc, f) :
       f.promise = Sig(k, [body |-> f.body, time |-> f.time, log |-> f.log,
                           index |-> f.index])}}
    \cup doc.bundle.tsa

SeesRegisters(statement, flaw) ==
  LET needed == CASE flaw = "only snp_measurement read" -> {"snp"}
                  [] flaw = "rtmr1 optional" -> {"snp", "rtmr2"}
                  [] OTHER -> {"snp", "rtmr1", "rtmr2"}
  IN  needed \subseteq statement.registers

SubjectFailures(doc, statement, flaw) ==
  LET matches(s) ==
        SameLetters(s.digest, doc.digest, flaw # "case of digest compared")
  IN  IF statement.subjects = << >> THEN {"SUBJECT_MISSING"}
      ELSE IF \/ matches(statement.subjects[1])
              \/ flaw = "any subject will do"
                 /\ \E i \in DOMAIN statement.subjects : matches(statement.subjects[i])
      THEN {} ELSE {"SUBJECT_DIGEST_MISMATCH"}

StatementFailures(doc, flaw) ==
  LET s == doc.bundle.envelope.payload
      policy == IF flaw = "statement types not configurable"
                THEN [doc.policy EXCEPT !.statementTypes = Unrestricted]
                ELSE IF flaw = "payload type not configurable"
                THEN [doc.policy EXCEPT !.payloadType = InToto] ELSE doc.policy
      fails(ok, code) == IF ok THEN {} ELSE {code}
  IN  fails(~s.extra, "BUNDLE_MALFORMED")
      \cup fails(doc.bundle.envelope.type = policy.payloadType, "PAYLOAD_TYPE_MISMATCH")
      \cup fails(ListAllows(policy.statementTypes, s.type, flaw),
                 "IN_TOTO_STATEMENT_TYPE_NOT_ALLOWED")
      \cup fails(\/ flaw = "predicate type not pinned"
                 \/ ListAllows(policy.predicateTypes, s.predicateType, flaw),
                 "PREDICATE_TYPE_NOT_ALLOWED")
      \cup fails(SeesRegisters(s, flaw), "PREDICATE_MEASUREMENT_INVALID")
      \cup SubjectFailures(doc, s, flaw)

IdentityFailures(doc, flaw) ==
  LET exts == doc.bundle.cert.tbs.exts
      issuer == CertIssuer(exts, flaw)
      pinned == IF flaw = "issuer hard-coded" THEN GithubIssuer ELSE doc.policy.issuer
      fails(ok, code) == IF ok THEN {} ELSE {code}
  IN  fails(\/ issuer = pinned
            \/ flaw = "no issuer is no policy" /\ issuer = "none", "OIDC_ISSUER_MISMATCH")
      \cup fails(exts["repo"] = doc.repo, "WORKFLOW_REPOSITORY_MISMATCH")
      \cup fails(RefAllowed(exts, doc.policy.refPrefix, flaw),
                 "WORKFLOW_REF_PREFIX_MISMATCH")

\* No check waits for another: what an SCT signs names the issuing CA, so that
\* without one no SCT holds (policy_variations.py:439-441); a time outside the
\* leaf's can be blamed on the entry that tells it (signed_fixtures.py:378-379).
\* The body of an entry is compared with the envelope if that verifies.
CryptoFailures(doc, flaw) ==
  LET b == doc.bundle
      tbs == b.cert.tbs
      signed == b.envelope.sigs[1] = Sig(tbs.key, Pae(b.envelope.type, b.envelope.payload))
      inTime == \A t \in ObservedTimes(doc) : tbs.from <= t /\ t <= tbs.until
      fails(ok, code) == IF ok THEN {} ELSE {code}
  IN  fails(IssuingCas(doc) # {}, "FULCIO_CHAIN_INVALID")
      \cup fails(IssuingCas(doc) # {} /\ ValidScts(doc) # {}, "SCT_INSUFFICIENT")
      \cup fails(~DuplicateLog(tbs.scts) \/ flaw = "duplicate SCTs accepted",
                 "SCT_DUPLICATE_LOG")
      \cup (UNION {EntryFailures(doc, e) : e \in Range(b.tlogs)})
      \cup fails(\/ ObservedTimes(doc) # {} \/ flaw = "no observer time needed"
                 \/ \E e \in Range(b.tlogs) : EntryKeys(doc, e) = {},
                 "OBSERVER_TIMESTAMP_INSUFFICIENT")
      \cup fails(inTime, "CERT_EXPIRED")
      \cup fails(signed, "DSSE_SIGNATURE_INVALID")
      \cup fails(inTime /\ (signed => \A e \in Range(b.tlogs) :
                              e.body = DsseBody(b.envelope, b.cert)),
                 "REKOR_INCLUSION_INVALID")

SigstoreFailures(doc, flaw) ==
  LET b == doc.bundle
  IN  IF ~doc.root.parses THEN {"TRUST_ROOT_INVALID"}
      ELSE IF ~b.hasEnvelope \/ ~b.hasMaterial \/ b.layout # "certificate"
      THEN {"BUNDLE_MALFORMED"}
      ELSE IF Len(b.envelope.sigs) # 1 THEN {"DSSE_SIGNATURE_INVALID"}
      ELSE IF \/ Len(b.tlogs) = 0
              \/ Len(b.tlogs) > 1 /\ flaw = "one log entry only"
      THEN {"TLOG_COUNT_OUT_OF_RANGE"}
      ELSE CryptoFailures(doc, flaw) \cup StatementFailures(doc, flaw)
             \cup IdentityFailures(doc, flaw)

SigstoreFacts(doc, flaw) ==
  LET s == doc.bundle.envelope.payload
      exts == doc.bundle.cert.tbs.exts
      text(t) == Fact(Text(<<t>>))
  IN  [key \in {"predicate_type", "in_toto_statement_type", "subject_name",
                "subject_digest_sha256_hex", "cert_oidc_issuer",
                "cert_workflow_signer_uri", "tlog_entry_count"} |->
         CASE key = "predicate_type" -> text(s.predicateType)
           [] key = "in_toto_statement_type" -> text(s.type)
           [] key = "subject_name" -> text(s.subjects[1].name)
           [] key = "subject_digest_sha256_hex" ->
                Fact(IF flaw = "digest echoed as given" THEN doc.digest
                     ELSE Lower(doc.digest))
           [] key = "cert_oidc_issuer" -> text(CertIssuer(exts, flaw))
           [] key = "cert_workflow_signer_uri" ->
                IF "signer uri" \in DOMAIN exts THEN Fact(Text(exts["signer uri"]))
                ELSE Fact(Text(<< >>))
           [] OTHER -> Fact(Text(<<Len(doc.bundle.tlogs)>>))]

-----------------------------------------------------------------------------
(* Vectors built by signed_fixtures.py                                      *)

BaseCaps ==
  [path \in {"sigstore.trust_root_loading", "sigstore.verification_time_override",
             "sigstore.policy_fields_configurable.workflow_ref_prefix",
             "sigstore.policy_fields_configurable.predicate_types_allowed"} |->
     CASE path = "sigstore.trust_root_loading" -> {"configurable"}
       [] path = "sigstore.verification_time_override" ->
            {"supported", "bundle-supplied-only"}
       [] OTHER -> {"true"}]

\* Slip: the capability a fixture adds is not written.
CapsWithoutExtra(extra) == BaseCaps

\* capabilities.update(extra_capabilities)
CapsWith(extra) ==
  [path \in DOMAIN BaseCaps \cup extra |->
     IF path \in extra THEN {"true"} ELSE BaseCaps[path]]

SigstoreVector(id, doc, codes, outputs, extraCaps, catches) ==
  [family |-> "sigstore", stage |-> "verify-sigstore", id |-> id, doc |-> doc,
   exit |-> IF codes = {} THEN Accept ELSE Reject, codes |-> codes,
   caps |-> CapsWith(extraCaps), outputs |-> outputs, catches |-> catches]

\* write_fixture of signed_fixtures.py.
Signed(id, spec, policy, codes, outputs, extraCaps, catches) ==
  LET r == Resolved(spec)
  IN  SigstoreVector(id,
        [bundle |-> BuildBundle(r), root |-> BuildTrustRoot(r), digest |-> Digest,
         repo |-> "test-repo", policy |-> policy],
        codes, outputs, extraCaps, catches)

Out(key, t) == [k \in {key} |-> Fact(Text(t))]
PredicateOut == Out("predicate_type", <<Mp>>)
StatementOut == Out("in_toto_statement_type", <<"Statement/v1">>)
IssuerOut == Out("cert_oidc_issuer", <<GithubIssuer>>)

CertRefVectors ==
  LET ref(id, r, signer, catches) ==
        Signed(id, [DefaultSpec EXCEPT !.ref = r, !.signerRef = signer],
               DefaultPolicy, {"WORKFLOW_REF_PREFIX_MISMATCH"}, NoFacts, {}, catches)
      trojan == <<"refs/heads/main", "@", "refs/tags/", "v", "1">>
  IN  {ref("060", trojan, trojan, {"prefix found anywhere"}),
       ref("060b", HeadRef, TagRef, {"ref read from signer URI"}),
       ref("061", HeadRef, HeadRef, {})}

PayloadVectors ==
  LET payload(id, statement, codes, catches) ==
        Signed(id, [DefaultSpec EXCEPT !.payload = statement], DefaultPolicy,
               codes, NoFacts, {}, catches)
  IN  {payload("062", Without("rtmr2"), {"PREDICATE_MEASUREMENT_INVALID"},
               {"only snp_measurement read"}),
       payload("063", NoSubject, {"SUBJECT_MISSING", "SUBJECT_DIGEST_MISMATCH"}, {}),
       payload("080", Without("snp"), {"PREDICATE_MEASUREMENT_INVALID"}, {}),
       payload("081", Without("rtmr1"), {"PREDICATE_MEASUREMENT_INVALID"},
               {"rtmr1 optional"})}

\* The leaf lives ten minutes in 2020, everything else since 2019; only the
\* log entry is of 2026.
ExpiredSpec ==
  [DefaultSpec EXCEPT !.rootFrom = Year(2019), !.rootUntil = Year(2030),
     !.leafFrom = Year(2020), !.leafUntil = Year(2020) + 10 * Minute,
     !.sctTime = Year(2020) + Minute, !.integrated = Year(2026) + 2 * Minute,
     !.rekorFrom = Year(2019), !.ctFrom = Year(2019)]

LogVectors ==
  LET log(id, spec, codes, outputs, caps, catches) ==
        Signed(id, spec, DefaultPolicy, codes, outputs, caps, catches)
  IN  {log("064", ExpiredSpec, {"CERT_EXPIRED"}, NoFacts, {}, {}),
       log("065", [DefaultSpec EXCEPT !.numScts = 0], {"SCT_INSUFFICIENT"},
           NoFacts, {}, {}),
       log("066", [DefaultSpec EXCEPT !.numScts = 2], {"SCT_DUPLICATE_LOG"}, NoFacts,
           {"sigstore.rejects_duplicate_sct_log"}, {"duplicate SCTs accepted"}),
       log("067", [DefaultSpec EXCEPT !.numTlogs = 2], {},
           [key \in {"predicate_type", "in_toto_statement_type", "subject_name",
                     "subject_digest_sha256_hex", "tlog_entry_count"} |->
              CASE key = "predicate_type" -> Fact(Text(<<Mp>>))
                [] key = "in_toto_statement_type" -> Fact(Text(<<"Statement/v1">>))
                [] key = "subject_name" -> Fact(Text(<<"tinfoil-deployment.json">>))
                [] key = "tlog_entry_count" -> Fact(Text(<<2>>))
                [] OTHER -> Fact(Digest)],
           {"sigstore.accepts_multi_tlog_entries"}, {"one log entry only"})}

IssuerVectors ==
  LET v2Preferred == {"sigstore.oidc_issuer_v2_preferred"}
  IN  {Signed("068", [DefaultSpec EXCEPT !.omit = {"v2"}], DefaultPolicy, {},
              PredicateOut @@ StatementOut @@ IssuerOut, {}, {"V2 issuer required"}),
       Signed("069", [DefaultSpec EXCEPT !.v1Override = GitlabIssuer], DefaultPolicy,
              {}, IssuerOut, v2Preferred, {"V1 issuer preferred"}),
       Signed("069b",
              [DefaultSpec EXCEPT !.issuer = GitlabIssuer, !.v1Override = GithubIssuer],
              DefaultPolicy, {"OIDC_ISSUER_MISMATCH"}, NoFacts, v2Preferred,
              {"V1 issuer preferred"}),
       Signed("075", [DefaultSpec EXCEPT !.omit = {"v1", "v2"}], DefaultPolicy,
              {"OIDC_ISSUER_MISMATCH", "BUNDLE_MALFORMED"}, NoFacts, {},
              {"no issuer is no policy"})}

ExtensionVectors ==
  {Signed("070", [DefaultSpec EXCEPT !.omit = {"ref"}], DefaultPolicy,
          {"WORKFLOW_REF_PREFIX_MISMATCH"}, NoFacts, {}, {"signer URI as fallback"}),
   Signed("071", [DefaultSpec EXCEPT !.omit = {"signer uri"}], DefaultPolicy, {},
          Out("cert_workflow_signer_uri", << >>), {}, {"signer URI required"}),
   Signed("076", [DefaultSpec EXCEPT !.ref = HeadRef],
          [DefaultPolicy EXCEPT !.refPrefix = << >>], {}, PredicateOut, {},
          {"empty prefix matches exactly"})}

StatementVectors ==
  {Signed("072", [DefaultSpec EXCEPT !.numDsseSigs = 2], DefaultPolicy,
          {"DSSE_SIGNATURE_INVALID", "BUNDLE_MALFORMED"}, NoFacts, {}, {}),
   Signed("073", [DefaultSpec EXCEPT !.numSubjects = 2], DefaultPolicy,
          {"SUBJECT_DIGEST_MISMATCH"}, NoFacts, {"sigstore.checks_only_subject_0"},
          {"any subject will do"}),
   Signed("074", [DefaultSpec EXCEPT !.extraField = TRUE], DefaultPolicy,
          {"BUNDLE_MALFORMED", "DSSE_SIGNATURE_INVALID"}, NoFacts, {}, {}),
   Signed("077",
          [DefaultSpec EXCEPT !.predicateTypeOverride = "snp-tdx-multiplatform/v1/"],
          DefaultPolicy, {"PREDICATE_TYPE_NOT_ALLOWED"}, NoFacts, {},
          {"trailing slash ignored"}),
   Signed("078", [DefaultSpec EXCEPT !.typeOverride = "Statement/V1"],
          [DefaultPolicy EXCEPT !.statementTypes = {"Statement/v0.1", "Statement/v1"}],
          {"IN_TOTO_STATEMENT_TYPE_NOT_ALLOWED"}, NoFacts,
          {"sigstore.policy_fields_configurable.in_toto_statement_types_allowed"},
          {"case of types ignored"})}

-----------------------------------------------------------------------------
(* Vectors made from the frozen bundle of 001                               *)

SeedInput(tree) ==
  LET r == [Resolved(DefaultSpec) EXCEPT !.treeSize = tree.size, !.treeIndex = tree.at]
  IN  [bundle |-> BuildBundle(r), root |-> BuildTrustRoot(r), digest |-> Digest,
       repo |-> "test-repo", policy |-> DefaultPolicy]

SeedOutputs == PredicateOut @@ Out("subject_digest_sha256_hex", Digest.t)

\* write_fixture of policy_variations.py: the outputs of 001, or none.
Varied(id, doc, codes, extraCaps, catches) ==
  SigstoreVector(id, doc, codes, IF codes = {} THEN SeedOutputs ELSE NoFacts,
                 extraCaps, catches)

StatementTypesCap ==
  {"sigstore.policy_fields_configurable.in_toto_statement_types_allowed"}

IdentityPolicyVectors(seed) ==
  {Varied("010", [seed EXCEPT !.policy.refPrefix = <<"refs/heads/release/">>],
          {"WORKFLOW_REF_PREFIX_MISMATCH"}, {}, {}),
   Varied("011", [seed EXCEPT !.policy.issuer = GitlabIssuer],
          {"OIDC_ISSUER_MISMATCH"}, {}, {"issuer hard-coded"}),
   Varied("012", [seed EXCEPT !.repo = "another repository"],
          {"WORKFLOW_REPOSITORY_MISMATCH"}, {}, {}),
   Varied("050", [seed EXCEPT !.policy.refPrefix = <<"refs/tags/", "v">>], {}, {}, {})}

StatementPolicyVectors(seed) ==
  {Varied("013", [seed EXCEPT !.policy.predicateTypes = {"other/v1"}],
          {"PREDICATE_TYPE_NOT_ALLOWED"}, {}, {"predicate type not pinned"}),
   Varied("014", [seed EXCEPT !.policy.statementTypes = {"Statement/v0.99"}],
          {"IN_TOTO_STATEMENT_TYPE_NOT_ALLOWED"}, StatementTypesCap,
          {"statement types not configurable"}),
   Varied("015", [seed EXCEPT !.policy.payloadType = "application/vnd.something-else"],
          {"PAYLOAD_TYPE_MISMATCH"},
          {"sigstore.policy_fields_configurable.payload_type"},
          {"payload type not configurable"}),
   Varied("016", [seed EXCEPT !.digest = ZeroDigest], {"SUBJECT_DIGEST_MISMATCH"}, {}, {}),
   Varied("017", [seed EXCEPT !.digest = Upper(Digest)], {}, {},
          {"case of digest compared"}),
   Varied("018", [seed EXCEPT !.policy.predicateTypes = Unrestricted], {}, {},
          {"null list allows nothing"}),
   Varied("019", [seed EXCEPT !.policy.statementTypes = Unrestricted], {}, StatementTypesCap, {}),
   Varied("051", [seed EXCEPT !.policy.predicateTypes = {}],
          {"PREDICATE_TYPE_NOT_ALLOWED"}, {}, {"empty list allows anything"}),
   Varied("052", [seed EXCEPT !.policy.statementTypes = {}],
          {"IN_TOTO_STATEMENT_TYPE_NOT_ALLOWED"}, StatementTypesCap,
          {"empty list allows anything"})}

TrustRootVectors(seed) ==
  {Varied("020", [seed EXCEPT !.root.parses = FALSE], {"TRUST_ROOT_INVALID"}, {}, {}),
   Varied("021", [seed EXCEPT !.root.tlogs = {}],
          {"REKOR_KEY_NOT_TRUSTED", "REKOR_INCLUSION_INVALID", "TLOG_COUNT_OUT_OF_RANGE"},
          {}, {}),
   Varied("023", [seed EXCEPT !.root.ctlogs = {}],
          {"SCT_INSUFFICIENT", "FULCIO_CHAIN_INVALID", "BUNDLE_MALFORMED",
           "TRUST_ROOT_INVALID"}, {}, {}),
   Varied("022", [seed EXCEPT !.root.cas = {}], {"FULCIO_CHAIN_INVALID"}, {}, {})}

Flipped(sig) == [sig EXCEPT !.key = "flipped"]

\* 079: written by hand from the same seed, asking for less.
Relocated(doc) ==
  [Varied("079", doc, {"BUNDLE_MALFORMED"}, {}, {}) EXCEPT
     !.caps = [path \in {"sigstore.trust_root_loading",
                         "sigstore.verification_time_override"} |-> BaseCaps[path]]]

BundleShapeVectors(seed) ==
  {Varied("030", [seed EXCEPT !.bundle.hasEnvelope = FALSE], {"BUNDLE_MALFORMED"}, {}, {}),
   Varied("031", [seed EXCEPT !.bundle.tlogs = << >>], {"TLOG_COUNT_OUT_OF_RANGE"}, {}, {}),
   Varied("035", [seed EXCEPT !.bundle.envelope.sigs = << >>],
          {"DSSE_SIGNATURE_INVALID", "BUNDLE_MALFORMED"}, {}, {}),
   Varied("036", [seed EXCEPT !.bundle.hasMaterial = FALSE], {"BUNDLE_MALFORMED"}, {}, {}),
   Relocated([seed EXCEPT !.bundle.layout = "chain"])}

BundleCryptoVectors(seed) ==
  {Varied("032", [seed EXCEPT !.bundle.envelope.sigs[1] = Flipped(@)],
          {"DSSE_SIGNATURE_INVALID"}, {}, {}),
   Varied("033", [seed EXCEPT !.bundle.tlogs[1].proof.root = <<"flipped", @>>],
          {"CHECKPOINT_ROOT_MISMATCH", "REKOR_INCLUSION_INVALID"}, {}, {}),
   Varied("034", [seed EXCEPT !.bundle.tlogs[1].proof.hashes[1] = <<"flipped", @>>],
          {"REKOR_INCLUSION_INVALID", "CHECKPOINT_ROOT_MISMATCH"}, {}, {})}

\* coverage_fixtures.py, which writes with policy_variations.write_fixture.
CoverageVectors(seed) ==
  {Varied("090", [seed EXCEPT !.bundle.tlogs[1].time = 0,
                              !.bundle.tlogs[1].promise.key = "none", !.bundle.tsa = {}],
          {"OBSERVER_TIMESTAMP_INSUFFICIENT", "TLOG_COUNT_OUT_OF_RANGE",
           "BUNDLE_MALFORMED"}, {}, {"no observer time needed"}),
   Varied("091", [seed EXCEPT !.root.cas = {[ca EXCEPT !.keys = <<"rogue">>] : ca \in @}],
          {"FULCIO_CHAIN_INVALID"}, {}, {}),
   Varied("092", [seed EXCEPT !.root.ctlogs = {[log EXCEPT !.key = "other"] : log \in @}],
          {"SCT_INSUFFICIENT", "BUNDLE_MALFORMED", "DSSE_SIGNATURE_INVALID"}, {}, {}),
   Varied("093", [seed EXCEPT !.bundle.tlogs[1].proof.checkpoint.sig = Flipped(@)],
          {"REKOR_INCLUSION_INVALID"}, {}, {})}

SignedFamily ==
  CertRefVectors \cup PayloadVectors \cup LogVectors \cup IssuerVectors
    \cup ExtensionVectors \cup StatementVectors

SeedFamily(seed) ==
  IdentityPolicyVectors(seed) \cup StatementPolicyVectors(seed)
    \cup TrustRootVectors(seed) \cup BundleShapeVectors(seed)
    \cup BundleCryptoVectors(seed) \cup CoverageVectors(seed)

=============================================================================
