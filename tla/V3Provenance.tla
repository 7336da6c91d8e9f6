----------------------------- MODULE V3Provenance -----------------------------
(***************************************************************************)
(* The v3-authenticate-provenance vectors of v3/gen_provenance.py, the      *)
(* bundles of v3/sigstore_synth.py they are made of, and the freshness      *)
(* witnesses a whole v3 document carries beside its two artifacts.          *)
(*                                                                         *)
(* Times are seconds from an epoch 500 days before BASE_TIME.  The SAN is   *)
(* [repo, path, file, ref], refs are sequences of their pieces.             *)
(***************************************************************************)
EXTENDS V3Envelope, SigstoreVectors

Hour == 3600
Day == 24 * Hour
BaseTime == 500 * Day
IntegratedTime == BaseTime + 1
MaxFreshnessAge == 7 * Day

ActionsIssuer == "https://token.actions.githubusercontent.com"

Identity(repo, path, file, ref) ==
  [repo |-> repo, path |-> path, file |-> file, ref |-> ref]
Workflows == ".github/workflows"

-----------------------------------------------------------------------------
(* build_bundle of sigstore_synth.py                                        *)

\* Arguments of build_bundle with their defaults; `none` is what is not given.
BundleArgs(san, statement) ==
  [san |-> san, statement |-> statement, integrated |-> IntegratedTime,
   dupSct |-> FALSE, badDsse |-> FALSE, issuer |-> ActionsIssuer,
   runner |-> "github-hosted",
   source |-> [name \in {} |-> << >>]]

\* Every certificate names its workflow; the source extensions are optional.
V3Exts(args) ==
  [name \in {"san", "issuer", "runner"} |->
     CASE name = "san" -> args.san [] name = "issuer" -> args.issuer
       [] OTHER -> args.runner]
    @@ args.source

\* One log entry, alone in its log; the same SCT twice where dup_sct asks.
V3Spec(args) ==
  [leafFrom |-> BaseTime - 5 * Minute, leafUntil |-> BaseTime + 10 * Minute,
   exts |-> V3Exts(args), numScts |-> IF args.dupSct THEN 2 ELSE 1,
   sctTime |-> BaseTime, sctStep |-> 0, caKeys |-> <<"fulcio int", "fulcio root">>,
   dsseKey |-> IF args.badDsse THEN "ct" ELSE "leaf", payloadType |-> InToto,
   statement |-> args.statement, numDsseSigs |-> 1, numTlogs |-> 1,
   integrated |-> args.integrated, treeSize |-> 1, treeIndex |-> 0,
   rootFrom |-> BaseTime - Day, rootUntil |-> BaseTime + 3650 * Day,
   ctFrom |-> BaseTime - Day, rekorFrom |-> BaseTime - Day]

V3Bundle(args) == BuildBundle(V3Spec(args))
V3Root == BuildTrustRoot(V3Spec(BundleArgs("", "")))
RogueRoot == [V3Root EXCEPT !.cas = {[ca EXCEPT !.keys = <<"rogue int", "rogue root">>] : ca \in @}]

-----------------------------------------------------------------------------
(* Statements                                                               *)

V3Statement(type, subjects, predicate) ==
  [type |-> "Statement/v1", predicateType |-> type, subjects |-> subjects,
   predicate |-> predicate]
SubjectOf(name, digest) == [name |-> name, digest |-> digest]

\* `defects` are the branches of the schema a predicate breaks.
CodePredicate ==
  [snp |-> "aa", rtmr1 |-> "bb", rtmr2 |-> "cc", shape |-> 8, defects |-> {}]
CodeSubject == SubjectOf("cip", "code digest")
CodeStatement(predicate) == V3Statement(Mp, <<CodeSubject>>, predicate)

CodeRepo == "confidential-inference-proxy"
CodeTag == <<"v", "1.0.0">>
CodeIdentity == Identity(CodeRepo, Workflows, "release.yml", Tags \o CodeTag)

\* The ref of the tag and the commit, which the verifier reads off the leaf.
Source(ref, commit) ==
  [name \in {"source ref", "source digest"} |->
     IF name = "source ref" THEN ref ELSE <<commit>>]

\* Slip: setdefault forgotten: the extensions are only written when asked for.
CodeArgsBare(san, statement) == BundleArgs(san, statement)

CodeArgs(san, statement) ==
  [BundleArgs(san, statement) EXCEPT !.source = Source(Tags \o CodeTag, "code commit")]

HappyCode == CodeArgs(CodeIdentity, CodeStatement(CodePredicate))

ReferenceValues(id, format, data) == CollateralEntry(id, "reference-values", format, data)

CodeEntry(bundle, digest) ==
  ReferenceValues("sigstore-code", "sigstore-code/v1",
    [repo |-> CodeRepo, tag |-> CodeTag, digest |-> digest, bundle |-> bundle])

WitnessIdentity == Identity("freshness-witness", Workflows, "freshness.yml", HeadRef)
WitnessType == "freshness-witness/v1"
Endorses(repo, tag, commit, subject) ==
  [repo |-> repo, tag |-> tag, commit |-> commit, subject |-> subject]
WitnessStatement(endorsed) == V3Statement(WitnessType, <<endorsed.subject>>, endorsed)

CodeEndorsement == Endorses(CodeRepo, CodeTag, "code commit", CodeSubject)

WitnessEntry(id, bundle) == ReferenceValues(id, WitnessType, [bundle |-> bundle])
CodeWitness ==
  WitnessEntry("code-freshness",
    V3Bundle(BundleArgs(WitnessIdentity, WitnessStatement(CodeEndorsement))))

-----------------------------------------------------------------------------
(* The rules of a bundle: P3 to P12                                         *)

InWindow(t, tbs) == tbs.from <= t /\ t <= tbs.until

\* Entries that prove this signature and this certificate were logged.
LoggedEntries(root, b) ==
  {e \in Range(b.tlogs) :
     /\ EntryFailures([root |-> root], e) = {}
     /\ e.body.cert = b.cert /\ e.body.payload = b.envelope.payload
     /\ \E i \in DOMAIN b.envelope.sigs : e.body.sig = b.envelope.sigs[i]}

BundleHolds(root, b) ==
  LET d == [root |-> root, bundle |-> b]
      tbs == b.cert.tbs
      pae == Pae(b.envelope.type, b.envelope.payload)
  IN  "P3" :> (b.layout = "certificate")
   @@ "P4" :> (Len(b.envelope.sigs) = 1)
   @@ "P5" :> (IssuingCas(d) # {})
   @@ "P6" :> (ValidScts(d) # {})
   @@ "P7" :> (LoggedEntries(root, b) # {})
   @@ "P8" :> (\E t \in ObservedTimes(d) : InWindow(t, tbs))
   @@ "P9" :> (\A i \in DOMAIN b.envelope.sigs : b.envelope.sigs[i] = Sig(tbs.key, pae))
   @@ "P11-issuer" :> (tbs.exts["issuer"] = ActionsIssuer)
   @@ "P11-runner" :> (tbs.exts["runner"] = "github-hosted")
   @@ "P12" :> ~DuplicateLog(tbs.scts)

-----------------------------------------------------------------------------
(* The rules of an artifact: its digest, its identity, its source           *)

SubjectHolds(statement, digest) ==
     "P10-none" :> (statement.subjects # << >>)
  @@ "P10" :> (\A i \in DOMAIN statement.subjects \cap {1} :
                 statement.subjects[i].digest = digest)

IsTag(ref) == IsPrefix(Tags, ref)

\* The certificate names the tag the collateral declares, and a commit.
SourceHolds(exts, tag) ==
  LET named == {exts[name] : name \in DOMAIN exts \cap {"source ref"}}
  IN   "source ref is a tag" :> (\E ref \in named : IsTag(ref))
    @@ "source tag" :> (\A ref \in named : IsTag(ref) => ref = Tags \o tag)
    @@ "source commit" :> (/\ "source digest" \in DOMAIN exts
                           /\ exts["source digest"] # <<"not-a-commit">>)

CodeHolds(root, data) ==
  LET b == data.bundle
      san == b.cert.tbs.exts["san"]
      statement == b.envelope.payload
  IN  BundleHolds(root, b) @@ SubjectHolds(statement, data.digest)
   @@ SourceHolds(b.cert.tbs.exts, data.tag)
   @@ "P11-san" :> (san.repo = data.repo)
   @@ "P13-type" :> (statement.predicateType = Mp)
   @@ "P14-ref" :> IsTag(san.ref)
   @@ "P14-path" :> (san.path = Workflows)

EntriesOf(env, format) ==
  {i \in DOMAIN env.collateral : env.collateral[i].format = format}

\* An SDK stricter than the rules, as the positive vectors say.
TooStrict(b, flaw) ==
  \/ flaw = "workflow file pinned" /\ b.cert.tbs.exts["san"].file # "release.yml"
  \/ flaw = "SAN tag pinned" /\ b.cert.tbs.exts["san"].ref # Tags \o CodeTag
  \/ flaw = "one subject only" /\ Len(b.envelope.payload.subjects) > 1

\* The branches of a predicate's schema count as rules of their own.
CodeBroken(d, flaw) ==
  LET entries == EntriesOf(d.env, "sigstore-code/v1")
  IN  IF entries = {} THEN {"P1"} \ {flaw}
      ELSE UNION {LET data == d.env.collateral[i].data
                      payload == data.bundle.envelope.payload
                  IN  Broken(CodeHolds(d.root, data), flaw)
                        \cup (IF payload.predicateType = Mp
                              THEN payload.predicate.defects \ {flaw} ELSE {})
                        \cup (IF TooStrict(data.bundle, flaw) THEN {flaw} ELSE {})
                  : i \in entries}

-----------------------------------------------------------------------------
(* Freshness: each artifact has a witness, as old as a week at most         *)

\* A witness is good for a week to the second, and for no time before its entry.
WitnessHolds(root, b, endorsed, time, flaw) ==
  LET s == b.envelope.payload
      times == ObservedTimes([root |-> root, bundle |-> b])
      limit == IF flaw = "last second of the window excluded"
               THEN MaxFreshnessAge - 1 ELSE MaxFreshnessAge
  IN  BundleHolds(root, b)
   @@ "FR2-identity" :> (b.cert.tbs.exts["san"] = WitnessIdentity)
   @@ "FR2-type" :> (s.type = "Statement/v1")
   @@ "FR2-predicate" :> (s.predicateType = WitnessType)
   @@ "FR2-no-subject" :> (s.subjects # << >>)
   @@ "FR2-subject" :> (\A i \in DOMAIN s.subjects : s.subjects[i] = endorsed.subject)
   @@ "FR2-endorses" :> (s.predicate = endorsed)
   @@ "FR2-stale" :> (\A t \in times : time <= t + limit)
   @@ "FR2-future" :> (\A t \in times : t <= time)

WitnessBroken(d, id, endorsed, flaw) ==
  LET entries == {i \in EntriesOf(d.env, WitnessType) : d.env.collateral[i].id = id}
  IN  IF entries = {} THEN {"FR2-missing"} \ {flaw}
      ELSE UNION {Broken(WitnessHolds(d.root, d.env.collateral[i].data.bundle, endorsed,
                                      d.time, flaw), flaw) : i \in entries}

-----------------------------------------------------------------------------
(* The vectors                                                              *)

CodeDoc(collateral, root) ==
  [env |-> [HappyDoc EXCEPT !.collateral = collateral], root |-> root,
   time |-> IntegratedTime]

\* What an accepting SDK reports of the release, if there is one.
CodeFacts(d) ==
  LET entries == EntriesOf(d.env, "sigstore-code/v1")
      data == d.env.collateral[CHOOSE i \in entries : TRUE].data
      p == data.bundle.envelope.payload.predicate
  IN  IF entries = {} THEN NoFacts
      ELSE "code_digest" :> data.digest
             @@ "code_measurement" :> <<Mp, p.snp, p.rtmr1, p.rtmr2>>

ExpectedCodeFacts ==
  "code_digest" :> CodeSubject.digest @@ "code_measurement" :> <<Mp, "aa", "bb", "cc">>

ProvenanceVector(id, collateral, root, code, facts, catches) ==
  V3Vector("v3-provenance", "v3-authenticate-provenance", id, CodeDoc(collateral, root),
           code, facts, catches)
ProvenanceReject(id, collateral, root, catches) ==
  ProvenanceVector(id, collateral, root, "PROVENANCE_REJECTED", NoFacts, catches)

\* A mutation of the bundle, under the root that endorses its keys.
RejectBundle(id, bundle, rule) ==
  ProvenanceReject(id, <<CodeEntry(bundle, CodeSubject.digest)>>, V3Root, {rule})
AcceptBundle(id, args, catches) ==
  ProvenanceVector(id, <<CodeEntry(V3Bundle(args), CodeSubject.digest)>>, V3Root,
                   "none", ExpectedCodeFacts, catches)

\* p8, p9 and p11 to p14 call build_bundle itself: no source extensions.
RejectBare(id, args, rule) == RejectBundle(id, V3Bundle(args), rule)
\* An entry made long after the leaf is over.
LateEntry == IntegratedTime + 400 * Day
Bare == BundleArgs(CodeIdentity, CodeStatement(CodePredicate))

SchemaBranches ==
  {"p13-no-tdx", "p13-tdx-not-struct", "p13-no-snp", "p13-no-rtmr1",
   "p13-missing-shape", "p13-shape-not-object", "p13-shape-missing-member",
   "p13-shape-negative"}

ProvenanceFamily ==
  LET happy == V3Bundle(HappyCode)
      sigs == happy.envelope.sigs
      san(ref, file) == [CodeIdentity EXCEPT !.ref = ref, !.file = file]
      sourced(ref, commit) == V3Bundle([HappyCode EXCEPT !.source = Source(ref, commit)])
      subjects(list) == CodeArgs(CodeIdentity, V3Statement(Mp, list, CodePredicate))
  IN
  {AcceptBundle("provenance-happy", HappyCode, {}),
   AcceptBundle("provenance-pos-wildcard-workflow",
     [HappyCode EXCEPT !.san.file = "ci.yml"], {"workflow file pinned"}),
   AcceptBundle("provenance-pos-other-tag",
     [HappyCode EXCEPT !.san.ref = Tags \o <<"v", "9.9.9-rc.1">>], {"SAN tag pinned"}),
   AcceptBundle("provenance-pos-multi-subject",
     subjects(<<CodeSubject, SubjectOf("extra", "11")>>), {"one subject only"}),
   ProvenanceReject("p1", << >>, V3Root, {"P1"}),
   RejectBundle("p3", [happy EXCEPT !.layout = "chain"], "P3"),
   RejectBundle("p4-zero-sigs", [happy EXCEPT !.envelope.sigs = << >>], "P4"),
   RejectBundle("p4-two-sigs", [happy EXCEPT !.envelope.sigs = sigs \o sigs], "P4"),
   ProvenanceReject("p5", <<CodeEntry(happy, CodeSubject.digest)>>, RogueRoot, {"P5"}),
   ProvenanceReject("p6", <<CodeEntry(happy, CodeSubject.digest)>>,
                    [V3Root EXCEPT !.ctlogs = {}], {"P6"}),
   RejectBundle("p7", [happy EXCEPT !.tlogs = << >>], "P7"),
   RejectBare("p8", [Bare EXCEPT !.integrated = LateEntry], "P8"),
   RejectBare("p9", [Bare EXCEPT !.badDsse = TRUE], "P9"),
   ProvenanceReject("p10", <<CodeEntry(happy, "different")>>, V3Root, {"P10"}),
   RejectBare("p11-san", [Bare EXCEPT !.san.repo = "another repository"], "P11-san"),
   RejectBare("p11-issuer", [Bare EXCEPT !.issuer = "another issuer"], "P11-issuer"),
   RejectBare("p11-runner", [Bare EXCEPT !.runner = "self-hosted"], "P11-runner"),
   RejectBare("p12", [Bare EXCEPT !.dupSct = TRUE], "P12"),
   RejectBare("p13-predicate-type", [Bare EXCEPT !.statement.predicateType = "wrong"],
              "P13-type"),
   RejectBare("p14-ref", [Bare EXCEPT !.san.ref = HeadRef], "P14-ref"),
   RejectBare("p14-path", [Bare EXCEPT !.san.path = ".github/workflows/nested"], "P14-path"),
   RejectBundle("p-code-ref-not-tag", sourced(HeadRef, "code commit"),
                "source ref is a tag"),
   RejectBundle("p-code-tag-mismatch", sourced(Tags \o <<"v", "2.0.0">>, "code commit"),
                "source tag"),
   RejectBundle("p-code-bad-commit", sourced(Tags \o CodeTag, "not-a-commit"),
                "source commit"),
   RejectBundle("p-no-subject", V3Bundle(subjects(<< >>)), "P10-none")}
  \cup {RejectBare(branch, [Bare EXCEPT !.statement.predicate.defects = {branch}], branch)
        : branch \in SchemaBranches}

=============================================================================
