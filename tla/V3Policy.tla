------------------------------- MODULE V3Policy -------------------------------
(***************************************************************************)
(* The v3-assemble-policy vectors of v3/gen_policy.py: a platform bundle    *)
(* that signs an artifact of measurements, machines and named policies.     *)
(*                                                                         *)
(* A block of an artifact is a function from its members, so that one can   *)
(* be missing or unknown.  Members that no vector varies are left out.      *)
(***************************************************************************)
EXTENDS V3Provenance, Integers

PlatformRepo == "cvmimage"
PlatformTag == <<"platform-v", "1.0.0">>
PlatformIdentity ==
  Identity(PlatformRepo, Workflows, "platform-release.yml", Tags \o PlatformTag)
PlatformSubject == SubjectOf("platform-endorsements-classic.json", "platform digest")
ArtifactFormat == "platform-endorsements/v1"

\* A key of the machines map: CHIP_ID or PPID.
Machine(id, bytes) == [id |-> id, bytes |-> bytes, hex |-> TRUE]
SevChip == Machine("ab", 64)
TdxPpid == Machine("cd", 16)

-----------------------------------------------------------------------------
(* The artifact                                                             *)

TcbMembers == {"bl_spl", "tee_spl", "snp_spl", "ucode_spl"}
ZeroTcb == [part \in TcbMembers |-> 0]
InfoBits ==
  {"smt_enabled", "tsme_enabled", "ecc_enabled", "rapl_disabled", "ciphertext_hiding_dram"}
PolicyBits == {"debug", "smt", "migrate_ma", "single_socket"}

\* Flags are functions from the bits to whether they are set.
Flags(bits, set) == [bit \in bits |-> bit \in set]

\* `info` is what PLATFORM_INFO is to hold.
SevBlock(info) ==
  [minimum_guest_svn |-> 0, minimum_tcb |-> ZeroTcb, minimum_launch_tcb |-> ZeroTcb,
   guest_policy |-> Flags(PolicyBits, {"smt"}), platform_info |-> Flags(InfoBits, info),
   vmpl |-> 0, host_data |-> "00", image_id |-> "00", family_id |-> "00",
   minimum_launch_mitigation_vector |-> {}]

TdxBlock ==
  [qe_vendor_id |-> "intel", minimum_tee_tcb_svn |-> <<0, 0, 0>>, mr_seam |-> "00",
   td_attributes |-> {}, xfam |-> {}, minimum_tcb_evaluation_data_number |-> 0,
   platform_measurements |-> <<"m1">>]

SevNamed(block) == [platform |-> "sev-snp", blocks |-> "sev_snp" :> block]
TdxNamed(block) == [platform |-> "tdx", blocks |-> "tdx" :> block]

BaseArtifact ==
  [format |-> ArtifactFormat,
   measurements |-> "m1" :> [mrtd |-> "dd", rtmr0 |-> "ee", shape |-> 8],
   machines |-> SevChip :> "sev-policy" @@ TdxPpid :> "tdx-policy",
   policies |->
     "sev-policy" :> SevNamed(SevBlock({"smt_enabled", "tsme_enabled", "ecc_enabled"}))
       @@ "tdx-policy" :> TdxNamed(TdxBlock)]

PlatformStatement(artifact) ==
  V3Statement(ArtifactFormat, <<PlatformSubject>>, artifact)

PlatformEntry(repo, bundle) ==
  ReferenceValues("sigstore-platform", "sigstore-platform/v1",
    [repo |-> repo, tag |-> PlatformTag, digest |-> PlatformSubject.digest,
     bundle |-> bundle])

\* Every platform bundle names its tag and its commit.
PlatformArgs(artifact) ==
  [BundleArgs(PlatformIdentity, PlatformStatement(artifact)) EXCEPT
     !.source = Source(Tags \o PlatformTag, "platform commit")]

PlatformEndorsement ==
  Endorses(PlatformRepo, PlatformTag, "platform commit", PlatformSubject)
PlatformWitness ==
  WitnessEntry("platform-freshness",
    V3Bundle(BundleArgs(WitnessIdentity, WitnessStatement(PlatformEndorsement))))

-----------------------------------------------------------------------------
(* What an artifact must be                                                 *)

SevRequired == DOMAIN SevBlock({})
SevOptional == {"require_author_key"}
TdxRequired == DOMAIN TdxBlock
KnownPlatforms == {"sev-snp", "tdx"}
BlockOf(platform) == IF platform = "tdx" THEN "tdx" ELSE "sev_snp"

\* Policies of the platform whose block is theirs.
Blocks(a, platform) ==
  LET name == BlockOf(platform)
  IN  {p.blocks[name] : p \in {q \in Range(a.policies) :
                                 q.platform = platform /\ name \in DOMAIN q.blocks}}

MachinesOf(a, platform) ==
  {m \in DOMAIN a.machines : /\ m.hex /\ a.machines[m] \in DOMAIN a.policies
                             /\ a.policies[a.machines[m]].platform = platform}

ArtifactHolds(a) ==
  LET sev == Blocks(a, "sev-snp")
      tdx == Blocks(a, "tdx")
      has(block, name) == name \in DOMAIN block
      whole(name) == \A b \in sev : has(b, name) => TcbMembers \subseteq DOMAIN b[name]
      own(platform) == \A p \in Range(a.policies) :
                         p.platform = platform => DOMAIN p.blocks = {BlockOf(platform)}
      refs == UNION {Range(b["platform_measurements"]) : b \in tdx}
  IN  "format" :> (a.format = ArtifactFormat)
   @@ "machine policy" :> (Range(a.machines) \subseteq DOMAIN a.policies)
   @@ "machine hex" :> (\A m \in DOMAIN a.machines : m.hex)
   @@ "CHIP_ID length" :> (\A m \in MachinesOf(a, "sev-snp") : m.bytes = 64)
   @@ "PPID length" :> (\A m \in MachinesOf(a, "tdx") : m.bytes = 16)
   @@ "platform" :> (\A p \in Range(a.policies) : p.platform \in KnownPlatforms)
   @@ "SEV block" :> own("sev-snp")
   @@ "TDX block" :> own("tdx")
   @@ "SEV members" :> (\A b \in sev : SevRequired \subseteq DOMAIN b)
   @@ "TDX members" :> (\A b \in tdx : TdxRequired \subseteq DOMAIN b)
   @@ "TCB members" :> whole("minimum_tcb")
   @@ "launch TCB members" :> whole("minimum_launch_tcb")
   @@ "unknown member" :> (/\ \A b \in sev : DOMAIN b \subseteq SevRequired \cup SevOptional
                           /\ \A b \in tdx : DOMAIN b \subseteq TdxRequired)
   @@ "author key" :> (\A b \in sev : ~has(b, "require_author_key"))
   @@ "vmpl" :> (\A b \in sev : has(b, "vmpl") => b["vmpl"] \in 0..3)
   @@ "evaluation number" :>
        (\A b \in tdx : b["minimum_tcb_evaluation_data_number"] >= 0)
   @@ "measurement named" :> (refs \subseteq DOMAIN a.measurements)
   @@ "some measurement" :> (\A b \in tdx : b["platform_measurements"] # << >>)
   @@ "measurement shape" :> (\A m \in Range(a.measurements) : "shape" \in DOMAIN m)

\* An SDK stricter than the artifact's rules.
ArtifactTooStrict(a, flaw) ==
  \/ flaw = "fmc_spl refused"
     /\ \E b \in Blocks(a, "sev-snp") : "fmc_spl" \in DOMAIN b["minimum_tcb"]
  \/ flaw = "one machine per policy"
     /\ \E m, n \in DOMAIN a.machines : m # n /\ a.machines[m] = a.machines[n]

\* The bundle is the platform's own, under its pinned identity.
PlatformHolds(root, data) ==
  LET b == data.bundle
      san == b.cert.tbs.exts["san"]
  IN  BundleHolds(root, b) @@ SubjectHolds(b.envelope.payload, data.digest)
   @@ SourceHolds(b.cert.tbs.exts, data.tag)
   @@ "platform repo" :> (data.repo = PlatformRepo)
   @@ "P15-workflow" :> ([san EXCEPT !.ref = << >>] = [PlatformIdentity EXCEPT !.ref = << >>])
   @@ "P15-tag" :> IsPrefix(Tags \o <<"platform-v">>, san.ref)

PlatformBroken(d, flaw) ==
  LET entries == EntriesOf(d.env, "sigstore-platform/v1")
  IN  IF entries = {} THEN {"P2"} \ {flaw}
      ELSE UNION {LET data == d.env.collateral[i].data
                      artifact == data.bundle.envelope.payload.predicate
                  IN  Broken(PlatformHolds(d.root, data), flaw)
                        \cup Broken(ArtifactHolds(artifact), flaw)
                        \cup (IF ArtifactTooStrict(artifact, flaw) THEN {flaw} ELSE {})
                  : i \in entries}

-----------------------------------------------------------------------------
(* The vectors                                                              *)

PolicyVector(id, collateral, code, catches) ==
  V3Vector("v3-policy", "v3-assemble-policy", id, CodeDoc(collateral, V3Root),
           code, NoFacts, catches)
PolicySigned(args) == <<PlatformEntry(PlatformRepo, V3Bundle(args))>>

AcceptArtifact(id, artifact, catches) ==
  PolicyVector(id, PolicySigned(PlatformArgs(artifact)), "none", catches)
RejectPlatform(id, collateral, rule) ==
  PolicyVector(id, collateral, "PROVENANCE_REJECTED", {rule})
RejectArtifact(id, artifact, rule) ==
  RejectPlatform(id, PolicySigned(PlatformArgs(artifact)), rule)

Lacking(block, name) == [member \in DOMAIN block \ {name} |-> block[member]]

\* The base artifact with a block of its own.
WithSev(block) == [BaseArtifact EXCEPT !.policies["sev-policy"].blocks["sev_snp"] = block]
WithTdx(block) == [BaseArtifact EXCEPT !.policies["tdx-policy"].blocks["tdx"] = block]

\* One key of the machines map taken for another.
Rekeyed(old, new) ==
  LET rest == Lacking(BaseArtifact.machines, old)
  IN  [BaseArtifact EXCEPT !.machines = new :> @[old] @@ rest]

PolicyFamily ==
  LET base == PlatformArgs(BaseArtifact)
      sev == BaseArtifact.policies["sev-policy"].blocks["sev_snp"]
      tdx == TdxBlock
      source(ref, commit) == PolicySigned([base EXCEPT !.source = Source(ref, commit)])
      named(name, policy) == [BaseArtifact EXCEPT !.policies[name] = policy]
  IN
  {AcceptArtifact("policy-happy", BaseArtifact, {}),
   AcceptArtifact("policy-pos-fmc-spl",
     WithSev([sev EXCEPT !.minimum_tcb = "fmc_spl" :> 0 @@ @]), {"fmc_spl refused"}),
   AcceptArtifact("policy-pos-multi-machine",
     [BaseArtifact EXCEPT !.machines = Machine("ef", 64) :> "sev-policy" @@ @],
     {"one machine per policy"}),
   RejectPlatform("p2", << >>, "P2"),
   RejectPlatform("p15-workflow", PolicySigned([base EXCEPT !.san.file = "other.yml"]), "P15-workflow"),
   RejectPlatform("p15-tag", PolicySigned([base EXCEPT !.san.ref = Tags \o <<"release">>]), "P15-tag"),
   RejectPlatform("p16", PolicySigned([base EXCEPT !.integrated = LateEntry]), "P8"),
   RejectPlatform("i-plat-ref-not-tag", source(HeadRef, "platform commit"),
                  "source ref is a tag"),
   RejectPlatform("i-plat-bad-commit", source(Tags \o PlatformTag, "not-a-commit"),
                  "source commit"),
   RejectPlatform("i-plat-wrong-repo",
     <<PlatformEntry("not-platform-endorsements", V3Bundle(base))>>, "platform repo"),
   RejectArtifact("i-unknown-policy",
     [BaseArtifact EXCEPT !.machines[SevChip] = "nonexistent"], "machine policy"),
   RejectArtifact("i-sev-len", Rekeyed(SevChip, Machine("ab", 2)), "CHIP_ID length"),
   RejectArtifact("i-tdx-len", Rekeyed(TdxPpid, Machine("cd", 32)), "PPID length"),
   RejectArtifact("i-not-hex", Rekeyed(SevChip, [Machine("zz", 64) EXCEPT !.hex = FALSE]),
                  "machine hex"),
   RejectArtifact("pl-block-mismatch",
     named("sev-policy", [platform |-> "sev-snp", blocks |-> "tdx" :> tdx]), "SEV block"),
   RejectArtifact("pl-tdx-block-mismatch",
     named("tdx-policy", [platform |-> "tdx", blocks |-> "sev_snp" :> sev]), "TDX block"),
   RejectArtifact("pl-unsupported-platform",
     named("sev-policy", [SevNamed(sev) EXCEPT !.platform = "nitro"]), "platform"),
   RejectArtifact("pl-missing-required", WithSev(Lacking(sev, "vmpl")), "SEV members"),
   RejectArtifact("pl-bad-tcb",
     WithSev([sev EXCEPT !.minimum_tcb = Lacking(@, "ucode_spl")]), "TCB members"),
   RejectArtifact("pl-bad-launch-tcb",
     WithSev([sev EXCEPT !.minimum_launch_tcb = Lacking(@, "bl_spl")]), "launch TCB members"),
   RejectArtifact("pl-dangling-measurement",
     WithTdx([tdx EXCEPT !.platform_measurements = <<"missing">>]), "measurement named"),
   RejectArtifact("pl-tdx-empty-measurements",
     WithTdx([tdx EXCEPT !.platform_measurements = << >>]), "some measurement"),
   RejectArtifact("pl-measurement-no-shape",
     [BaseArtifact EXCEPT !.measurements["m1"] = Lacking(@, "shape")], "measurement shape"),
   RejectArtifact("pl-unknown-member", WithSev("extra_field" :> 1 @@ sev), "unknown member"),
   RejectArtifact("pl-bad-format", [BaseArtifact EXCEPT !.format = "wrong"], "format"),
   RejectArtifact("pl-require-author-key", WithSev("require_author_key" :> TRUE @@ sev),
                  "author key"),
   RejectArtifact("pl-negative-tcb-eval",
     WithTdx([tdx EXCEPT !.minimum_tcb_evaluation_data_number = -1]), "evaluation number"),
   RejectArtifact("pl-vmpl-range", WithSev([sev EXCEPT !.vmpl = 7]), "vmpl"),
   RejectArtifact("pl-tdx-missing-required", WithTdx(Lacking(tdx, "qe_vendor_id")),
                  "TDX members")}

=============================================================================
