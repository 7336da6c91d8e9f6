----------------------------- MODULE V3Approvals -----------------------------
(***************************************************************************)
(* The v3-authenticate-approval vectors of v3/gen_approval_bundle.py: key- *)
(* signed bundles, the Rekor v2 entries of lib/rekor.py that witness them, *)
(* and the rules of docs/CONFORMANCE_ADAPTER_SPEC.md, 2.1.                 *)
(*                                                                         *)
(* `material` is a "hint" or a "certificate" and names a key.  A log is     *)
(* [key, origin], a key by name; its ID is its key's.                      *)
(***************************************************************************)
EXTENDS V3Envelope, SigstoreStack

PinnedKeys == {"A", "B"}
FirstPinned == "A"

LogEcdsa   == [key |-> "log ecdsa",   origin |-> "rekor host"]
LogEd25519 == [key |-> "log ed25519", origin |-> "rekor-ed25519 host"]
LogUnknown == [key |-> "unknown log", origin |-> "rekor-unknown host"]

\* The logs of the trusted root, whose base URLs have their origins for hosts.
TrustedLogs == {LogEcdsa, LogEd25519}
MaxEntries == 8

ApprovalTreeSize == 5
ApprovalLogIndex == 2

ApprovedDigest == "approved digest"
Approval(digests) == [subjects |-> digests]
ApprovalPae(statement) == Pae("in-toto", statement)

-----------------------------------------------------------------------------
(* lib/rekor.py: hashedrekord 0.0.2                                         *)

HashedRekord == [kind |-> "hashedrekord", version |-> "0.0.2"]

HashedRekordBody(digest, sig, verifier) ==
  [kindVersion |-> HashedRekord, digest |-> digest, sig |-> sig, verifier |-> verifier]

\* A note's hint at its signer: an Ed25519 key's depends on the origin too.
NoteKeyHint(log) ==
  IF log.key = LogEd25519.key THEN log ELSE [spki |-> log.key]

\* A signed note, its line in the name of the origin.
V2Checkpoint(log, size, root) ==
  LET text == [origin |-> log.origin, size |-> size, root |-> root]
  IN  [text |-> text, name |-> log.origin, hint |-> NoteKeyHint(log),
       sig |-> Sig(log.key, text)]

FillerLeafHash(origin, index) == LeafHash([filler |-> index, of |-> origin])

\* The other leaves of the log's tree are filler.
RekorV2Entry(body, log, index, size, kindVersion) ==
  LET leaves == [i \in 1..size |->
                   IF i = index + 1 THEN LeafHash(body) ELSE FillerLeafHash(log.origin, i - 1)]
      root == MerkleRoot(leaves)
  IN  [index |-> index, logId |-> log.key, kindVersion |-> kindVersion, body |-> body,
       integrated |-> {}, promise |-> {},
       proof |-> [index |-> index, size |-> size, root |-> root,
                  hashes |-> MerkleInclusionProof(leaves, index),
                  checkpoint |-> V2Checkpoint(log, size, root)]]

-----------------------------------------------------------------------------
(* log_entry, bundle and with_entries of gen_approval_bundle.py             *)

LogEntry(sig, digest, verifier, log, index, size) ==
  RekorV2Entry(HashedRekordBody(digest, sig, verifier), log, index, size, HashedRekord)

ApprovalOf(statement, signer, hint, entries) ==
  [material |-> [form |-> "hint", key |-> hint], keyid |-> "", entries |-> entries,
   timestamps |-> {}, payload |-> statement, sig |-> Sig(signer, ApprovalPae(statement))]

\* An entry for what the signer signed, where log_entry puts it.
OwnEntry(statement, signer, verifier, log) ==
  LET pae == ApprovalPae(statement)
  IN  LogEntry(Sig(signer, pae), Sha(pae), verifier, log, ApprovalLogIndex, ApprovalTreeSize)

\* One entry, consistent with the bundle.
ApprovalBy(statement, signer, log) ==
  ApprovalOf(statement, signer, signer, <<OwnEntry(statement, signer, signer, log)>>)

HappyStatement == Approval(<<ApprovedDigest>>)
HappyApproval == ApprovalBy(HappyStatement, "A", LogEcdsa)
HappyEntry == HappyApproval.entries[1]

\* Each entry sits at an index of its own, in a tree of its own.
WithEntries(n) ==
  LET pae == ApprovalPae(HappyStatement)
  IN  ApprovalOf(HappyStatement, "A", "A",
                 [i \in 1..n |-> LogEntry(Sig("A", pae), Sha(pae), "A", LogEcdsa, i - 1, n)])

-----------------------------------------------------------------------------
(* The rules                                                                *)

\* Without the rule "pinned" the first pinned key stands in.
ApprovalHolds(b, digest, flaw) ==
  LET pae == ApprovalPae(b.payload)
      named == b.material.key
      key == IF named \in PinnedKeys THEN named ELSE FirstPinned
      each(rule(_)) == \A i \in DOMAIN b.entries : rule(b.entries[i])
      ownKind(e) == e.kindVersion.kind = HashedRekord.kind
      ownVersion(e) == e.kindVersion.version = HashedRekord.version
      timeless(e) == e.integrated = {}
      unpromised(e) == e.promise = {}
      ofPae(e) == e.body.digest = Sha(pae)
      ofSig(e) == e.body.sig = b.sig
      ofKey(e) == e.body.verifier = key
      included(e) == Includes(e.proof.root, e.proof.size, e.proof.index, LeafHash(e.body),
                              e.proof.hashes)
      listed(e) == \E log \in TrustedLogs : log.key = e.logId
      signed(e) == LET c == e.proof.checkpoint
                   IN  /\ c.text.size = e.proof.size /\ c.text.root = e.proof.root
                       /\ \A log \in TrustedLogs :
                            log.key = e.logId => /\ c.text.origin = log.origin
                                                 /\ c.name = log.origin
                                                 /\ c.hint = NoteKeyHint(log)
                                                 /\ c.sig = Sig(log.key, c.text)
      subjects == IF flaw = "first subject only" THEN {1} ELSE DOMAIN b.payload.subjects
  IN  [layout |-> b.material.form = "hint",
       someEntry |-> b.entries # << >>,
       entryLimit |-> Len(b.entries) <= MaxEntries,
       kind |-> each(ownKind),
       version |-> each(ownVersion),
       noTime |-> each(timeless),
       noPromise |-> each(unpromised),
       noTimestamps |-> b.timestamps = {},
       pinned |-> named \in PinnedKeys,
       keyidDiffers |-> b.keyid \in {"", named},
       keyidEmpty |-> b.keyid # named,
       bodyDigest |-> each(ofPae),
       bodySignature |-> each(ofSig),
       bodyKey |-> each(ofKey),
       inclusion |-> each(included),
       logListed |-> each(listed),
       checkpoint |-> each(signed),
       signature |-> b.sig = Sig(key, pae),
       subject |-> \E i \in subjects : b.payload.subjects[i] = digest]

\* An SDK that cannot verify, or does not look for, what an approval may hold.
ApprovalTooStrict(b, flaw) ==
  \/ flaw = "ECDSA logs only"
     /\ \E i \in DOMAIN b.entries : b.entries[i].logId = LogEd25519.key
  \/ flaw = "first pinned key only" /\ b.material.key # FirstPinned
  \/ flaw = "limit excluded" /\ Len(b.entries) = MaxEntries

ApprovalBroken(d, flaw) ==
  Broken(ApprovalHolds(d.bundle, d.digest, flaw), flaw)
    \cup (IF ApprovalTooStrict(d.bundle, flaw) THEN {flaw} ELSE {})

\* The hint of the key that verified.
ApprovalFacts(d) == "signing_key_hint" :> d.bundle.material.key

-----------------------------------------------------------------------------
(* The vectors                                                              *)

ApprovalVector(id, bundle, code, facts, catches) ==
  V3Vector("v3-approval", "v3-authenticate-approval", id,
           [bundle |-> bundle, digest |-> ApprovedDigest], code, facts, catches)
ApprovalAccept(id, bundle, key, catches) ==
  ApprovalVector(id, bundle, "none", "signing_key_hint" :> key, catches)
ApprovalReject(id, bundle, rule) ==
  ApprovalVector(id, bundle, "PROVENANCE_REJECTED", NoFacts, {rule})

\* The happy bundle with this entry for its own.
WithEntry(entry) == [HappyApproval EXCEPT !.entries = <<entry>>]

\* Which key, which subject and how many entries.
SelectionVectors ==
  LET second == Approval(<<"other digest", ApprovedDigest>>)
  IN
  {ApprovalAccept("happy", HappyApproval, "A", {}),
   ApprovalAccept("happy-ed25519-log", ApprovalBy(HappyStatement, "A", LogEd25519), "A",
                  {"ECDSA logs only"}),
   ApprovalAccept("happy-second-key", ApprovalBy(HappyStatement, "B", LogEcdsa), "B",
                  {"first pinned key only"}),
   ApprovalReject("keyid-equals-hint", [HappyApproval EXCEPT !.keyid = "A"], "keyidEmpty"),
   ApprovalAccept("eight-entries", WithEntries(MaxEntries), "A", {"limit excluded"}),
   ApprovalAccept("digest-in-second-subject", ApprovalBy(second, "A", LogEcdsa), "A",
                  {"first subject only"}),
   ApprovalReject("wrong-hint", [HappyApproval EXCEPT !.material.key = "unpinned"], "pinned"),
   ApprovalReject("keyid-mismatch", [HappyApproval EXCEPT !.keyid = "B"], "keyidDiffers"),
   ApprovalReject("zero-entries", [HappyApproval EXCEPT !.entries = << >>], "someEntry"),
   ApprovalReject("nine-entries", WithEntries(MaxEntries + 1), "entryLimit")}

\* What an approval must not state: another kind of entry, or a time.
StatedTimeVectors ==
  LET entry == HappyEntry
      promise == Sig(LogEcdsa.key, [promised |-> entry.body])
      token == Sig("tsa leaf", [imprint |-> Sha(ApprovalPae(HappyStatement)), time |-> 0])
  IN
  {ApprovalReject("entry-wrong-kind", WithEntry([entry EXCEPT !.kindVersion.kind = "dsse"]),
                  "kind"),
   ApprovalReject("entry-wrong-version",
     WithEntry([entry EXCEPT !.kindVersion.version = "0.0.1"]), "version"),
   ApprovalReject("integrated-time-present", WithEntry([entry EXCEPT !.integrated = {1}]),
                  "noTime"),
   ApprovalReject("inclusion-promise-present", WithEntry([entry EXCEPT !.promise = {promise}]),
                  "noPromise"),
   ApprovalReject("rfc3161-timestamps-present",
     [HappyApproval EXCEPT !.timestamps = {token}], "noTimestamps")}

\* Witnesses of something else, or under something else.
WitnessVectors ==
  LET pae == ApprovalPae(HappyStatement)
      sig == Sig("A", pae)
      at(digest, verifier, log) ==
        LogEntry(sig, digest, verifier, log, ApprovalLogIndex, ApprovalTreeSize)
      posing == [key |-> LogUnknown.key, origin |-> LogEcdsa.origin]
  IN
  {ApprovalReject("body-digest-mismatch", WithEntry(at(Sha(HappyStatement), "A", LogEcdsa)),
                  "bodyDigest"),
   ApprovalReject("body-key-mismatch", WithEntry(at(Sha(pae), "B", LogEcdsa)), "bodyKey"),
   ApprovalReject("bad-inclusion-proof",
     WithEntry([HappyEntry EXCEPT !.proof.hashes[1] = <<"corrupted", @>>]), "inclusion"),
   ApprovalReject("checkpoint-unknown-log", ApprovalBy(HappyStatement, "A", LogUnknown),
                  "logListed"),
   ApprovalReject("checkpoint-bad-signature",
     WithEntry([at(Sha(pae), "A", posing) EXCEPT !.logId = LogEcdsa.key]), "checkpoint")}

\* Another key's signature, another subject, a certificate of the key.
SignatureVectors ==
  LET other == Approval(<<"other digest">>)
      forged == OwnEntry(HappyStatement, "unpinned", "A", LogEcdsa)
  IN
  {ApprovalReject("bad-dsse-signature",
     [WithEntry(forged) EXCEPT !.sig = Sig("unpinned", ApprovalPae(HappyStatement))],
     "signature"),
   ApprovalReject("subject-digest-mismatch", ApprovalBy(other, "A", LogEcdsa), "subject"),
   ApprovalReject("certificate-instead-of-key",
     [HappyApproval EXCEPT !.material.form = "certificate"], "layout")}

ApprovalFamily ==
  SelectionVectors \cup StatedTimeVectors \cup WitnessVectors \cup SignatureVectors

=============================================================================
