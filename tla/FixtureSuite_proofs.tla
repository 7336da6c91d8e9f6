------------------------- MODULE FixtureSuite_proofs -------------------------
(***************************************************************************)
(* Proofs about the fixture generators and the suite they write: what a     *)
(* verifier makes of the bundles of the synthetic Sigstore stack, for every *)
(* spec they can be built from and for logs of every size; what kind of     *)
(* vectors the suite is made of; and that what a run of it can record does  *)
(* not depend on where in its log the production entry of vector 001 sits.  *)
(***************************************************************************)
EXTENDS FixtureSuite, MerkleTree_proofs

-----------------------------------------------------------------------------
(* A log entry                                                              *)

\* The leaves of a log with the entry at `at`, as make_rekor_entry lists them.
LogOf(body, size, at) ==
  [i \in 1..size |->
     IF i = at + 1 THEN LeafHash(body) ELSE LeafHash([filler |-> i])]

(* The leaves of the log are a sequence of its size, the entry's own among  *)
(* them.                                                                    *)
LEMMA LogIs ==
  ASSUME NEW size \in Nat, NEW at \in 0..(size - 1), NEW body
  PROVE  LET leaves == LogOf(body, size, at)
         IN  /\ leaves \in Seq({leaves[i] : i \in 1..size}) /\ Len(leaves) = size
             /\ leaves[at + 1] = LeafHash(body)
<1> DEFINE f(i) == IF i = at + 1 THEN LeafHash(body) ELSE LeafHash([filler |-> i])
<1>1. LogOf(body, size, at) = [i \in 1..size |-> f(i)]
  BY DEF LogOf
<1>2. f(at + 1) = LeafHash(body) /\ at + 1 \in 1..size
  OBVIOUS
<1> HIDE DEF f
<1> DEFINE leaves == [i \in 1..size |-> f(i)]
<1>3. leaves \in Seq({leaves[i] : i \in 1..size}) /\ Len(leaves) = size
  OBVIOUS
<1>4. leaves[at + 1] = LeafHash(body)
  BY <1>2
<1>5. QED
  BY <1>1, <1>3, <1>4

(* An entry carries the body, the time and the index it was made for.       *)
LEMMA EntryIs ==
  ASSUME NEW key, NEW body, NEW time, NEW index, NEW size, NEW at
  PROVE  LET e == RekorEntry(key, body, time, index, size, at)
         IN  /\ e.log = key /\ e.time = time /\ e.body = body /\ e.index = index
             /\ e.promise = SignedEntryTimestamp(key, body, time, index)
BY DEF RekorEntry

(* Its proof gives its place in the log, the log's root and the audit path, *)
(* under a checkpoint the log signed.                                       *)
LEMMA ProofIs ==
  ASSUME NEW key, NEW body, NEW time, NEW index, NEW size, NEW at
  PROVE  LET proof == RekorEntry(key, body, time, index, size, at).proof
             leaves == LogOf(body, size, at)
             root == MerkleRoot(leaves)
         IN  /\ proof.index = at /\ proof.size = size /\ proof.root = root
             /\ proof.hashes = MerkleInclusionProof(leaves, at)
             /\ proof.checkpoint.size = size /\ proof.checkpoint.root = root
             /\ proof.checkpoint.sig = Sig(key, [size |-> size, root |-> root])
<1> DEFINE leaves == LogOf(body, size, at)
           root == MerkleRoot(leaves)
           hashes == MerkleInclusionProof(leaves, at)
<1>1. RekorEntry(key, body, time, index, size, at).proof =
        [index |-> at, size |-> size, root |-> root, hashes |-> hashes,
         checkpoint |-> Checkpoint(key, size, root)]
  BY DEF RekorEntry, LogOf
<1> HIDE DEF leaves, root, hashes
<1>2. QED
  BY <1>1 DEF Checkpoint, leaves, root, hashes

(* An entry of make_rekor_entry, wherever it sits in a log of whatever      *)
(* size, gives no verifier that trusts its log cause for complaint.         *)
THEOREM BuiltEntriesVerify ==
  ASSUME NEW size \in Nat, NEW at \in 0..(size - 1),
         NEW key, NEW body, NEW time, NEW index, NEW doc,
         key \in EntryKeys(doc, RekorEntry(key, body, time, index, size, at))
  PROVE  EntryFailures(doc, RekorEntry(key, body, time, index, size, at)) = {}
<1> DEFINE e == RekorEntry(key, body, time, index, size, at)
           leaves == LogOf(body, size, at)
           root == MerkleRoot(leaves)
           S == {leaves[i] : i \in 1..size}
<1>1. leaves \in Seq(S) /\ Len(leaves) = size /\ leaves[at + 1] = LeafHash(body)
  BY LogIs
<1>2. /\ e.body = body /\ e.proof.index = at /\ e.proof.size = size /\ e.proof.root = root
      /\ e.proof.hashes = MerkleInclusionProof(leaves, at)
      /\ e.proof.checkpoint.size = size /\ e.proof.checkpoint.root = root
      /\ e.proof.checkpoint.sig = Sig(key, [size |-> size, root |-> root])
  BY EntryIs, ProofIs
<1> HIDE DEF e, leaves, S
<1>3. Includes(MerkleRoot(leaves), Len(leaves), at, leaves[at + 1],
               MerkleInclusionProof(leaves, at))
  BY <1>1, AuditPathVerifies
<1> HIDE DEF root
<1>4. Includes(e.proof.root, e.proof.size, e.proof.index, LeafHash(e.body), e.proof.hashes)
  BY <1>1, <1>2, <1>3 DEF root
<1>5. key \in EntryKeys(doc, e)
  BY DEF e
<1>6. EntryKeys(doc, e) # {}
      /\ \E k \in EntryKeys(doc, e) :
           e.proof.checkpoint.sig = Sig(k, [size |-> e.proof.checkpoint.size,
                                            root |-> e.proof.checkpoint.root])
  BY <1>2, <1>5
<1>7. EntryFailures(doc, e) = {}
  BY <1>2, <1>4, <1>6 DEF EntryFailures
<1>8. QED
  BY <1>7 DEF e

(* The fixtures that alter an entry: whoever claims another body or another *)
(* audit path for the same place in the same log is refused, whatever was   *)
(* altered and however large the log (034).                                 *)
THEOREM AlteredEntriesAreRefused ==
  ASSUME NEW size \in Nat, NEW at \in 0..(size - 1),
         NEW key, NEW body, NEW time, NEW index
  PROVE  LET built == RekorEntry(key, body, time, index, size, at)
         IN  \A doc, e, R :
               /\ EntryKeys(doc, e) # {} /\ e.proof.hashes \in Seq(R)
               /\ e.proof.index = at /\ e.proof.size = size
               /\ e.proof.root = built.proof.root
               /\ e.body # built.body \/ e.proof.hashes # built.proof.hashes
               => "REKOR_INCLUSION_INVALID" \in EntryFailures(doc, e)
<1> DEFINE built == RekorEntry(key, body, time, index, size, at)
           leaves == LogOf(body, size, at)
           S == {leaves[i] : i \in 1..size}
<1>1. leaves \in Seq(S) /\ Len(leaves) = size /\ leaves[at + 1] = LeafHash(body)
  BY LogIs
<1>2. /\ built.body = body /\ built.proof.root = MerkleRoot(leaves)
      /\ built.proof.hashes = MerkleInclusionProof(leaves, at)
  <2>1. built.body = body
    BY EntryIs
  <2>2. /\ built.proof.root = MerkleRoot(leaves)
        /\ built.proof.hashes = MerkleInclusionProof(leaves, at)
        /\ built.proof.checkpoint.root = MerkleRoot(leaves)
        /\ built.proof.checkpoint.sig =
             Sig(key, [size |-> size, root |-> MerkleRoot(leaves)])
    BY ProofIs
  <2>3. QED
    BY <2>1, <2>2
<1> HIDE DEF built, leaves, S
<1>3. ASSUME NEW R, NEW path \in Seq(R), NEW leaf,
             Includes(MerkleRoot(leaves), size, at, leaf, path)
      PROVE  leaf = LeafHash(body) /\ path = MerkleInclusionProof(leaves, at)
  BY <1>1, <1>3, OnlyTheAuditPathVerifies
<1>4. \A x, y : LeafHash(x) = LeafHash(y) => x = y
  BY DEF LeafHash
<1>5. ASSUME NEW doc, NEW e, NEW R, EntryKeys(doc, e) # {}, e.proof.hashes \in Seq(R),
             e.proof.index = at, e.proof.size = size, e.proof.root = built.proof.root,
             e.body # built.body \/ e.proof.hashes # built.proof.hashes
      PROVE  "REKOR_INCLUSION_INVALID" \in EntryFailures(doc, e)
  <2>1. ~Includes(e.proof.root, e.proof.size, e.proof.index, LeafHash(e.body),
                  e.proof.hashes)
    BY <1>2, <1>3, <1>4, <1>5
  <2>2. QED
    BY <1>5, <2>1 DEF EntryFailures
<1>6. QED
  BY <1>5 DEF built

-----------------------------------------------------------------------------
(* A bundle                                                                 *)

\* Specs a bundle can be built from: counts, times and a place in the log.
IsSpec(spec) ==
  /\ spec.numTlogs \in Nat \ {0} /\ spec.numScts \in Nat /\ spec.numDsseSigs \in Nat \ {0}
  /\ spec.treeSize \in Nat /\ spec.treeIndex \in 0..(spec.treeSize - 1)
  /\ \A t \in {spec.sctTime, spec.sctStep, spec.integrated, spec.ctFrom,
               spec.leafFrom, spec.leafUntil, spec.rootFrom, spec.rootUntil} : t \in Int

\* What is wrong with the bundle of a spec, going by the spec alone.  Neither
\* the size of the log nor the place in it is among what it goes by.
SpecFaults(spec, flaw) ==
  LET trusted == {i \in 1..spec.numScts :
                    spec.ctFrom <= spec.sctTime + spec.sctStep * (i - 1)}
      issued == spec.rootFrom <= spec.leafFrom /\ spec.leafFrom <= spec.rootUntil
      inTime == /\ spec.leafFrom <= spec.integrated
                /\ spec.integrated + spec.numTlogs - 1 <= spec.leafUntil
      fails(ok, code) == IF ok THEN {} ELSE {code}
  IN  fails(issued, "FULCIO_CHAIN_INVALID")
      \cup fails(issued /\ trusted # {}, "SCT_INSUFFICIENT")
      \cup fails(spec.numScts <= 1 \/ flaw = "duplicate SCTs accepted",
                 "SCT_DUPLICATE_LOG")
      \cup fails(inTime, "CERT_EXPIRED")
      \cup fails(spec.dsseKey = "leaf", "DSSE_SIGNATURE_INVALID")
      \cup fails(inTime, "REKOR_INCLUSION_INVALID")

\* The parts of the bundle of a spec.
LeafOf(spec) == Leaf(spec, spec.caKeys[1])
EnvelopeOf(spec) ==
  SignEnvelope(spec.dsseKey, spec.payloadType, spec.statement, spec.numDsseSigs)
BodyOf(spec) == DsseBody(EnvelopeOf(spec), LeafOf(spec))
EntryOf(spec, i) ==
  RekorEntry("rekor", BodyOf(spec), spec.integrated + i - 1, i - 1,
             spec.treeSize, spec.treeIndex)
SctOf(spec, i) ==
  MakeSct("ct", spec.caKeys[1], Tbs(spec, spec.caKeys[1], 1, << >>),
          spec.sctTime + spec.sctStep * (i - 1))

(* A bundle holds the leaf, the envelope and the log entries of its spec.   *)
LEMMA BundleIs ==
  ASSUME NEW spec
  PROVE  LET b == BuildBundle(spec)
         IN  /\ b.cert = LeafOf(spec) /\ b.envelope = EnvelopeOf(spec) /\ b.tsa = {}
             /\ b.tlogs = [i \in 1..spec.numTlogs |-> EntryOf(spec, i)]
BY DEF BuildBundle, Bundle, LeafOf, EnvelopeOf, EntryOf, BodyOf

(* The trust root built beside it endorses its CA and its two logs.         *)
LEMMA RootIs ==
  ASSUME NEW spec
  PROVE  LET r == BuildTrustRoot(spec)
         IN  /\ r.cas = {[keys |-> spec.caKeys, from |-> spec.rootFrom,
                          until |-> spec.rootUntil]}
             /\ r.ctlogs = {[log |-> "ct", key |-> "ct", from |-> spec.ctFrom]}
             /\ r.tlogs = {[log |-> "rekor", key |-> "rekor", from |-> spec.rekorFrom]}
BY DEF BuildTrustRoot, TrustRoot

(* The leaf is signed by the CA over what the spec says and the SCTs;       *)
(* without its SCT list it is what the SCTs were made for.                  *)
LEMMA LeafIs ==
  ASSUME NEW spec
  PROVE  LET leaf == LeafOf(spec)
             tbs == leaf.tbs
         IN  /\ leaf.sig = Sig(spec.caKeys[1], tbs)
             /\ tbs.issuer = spec.caKeys[1] /\ tbs.key = "leaf" /\ tbs.exts = spec.exts
             /\ tbs.from = spec.leafFrom /\ tbs.until = spec.leafUntil
             /\ tbs.scts = [i \in 1..spec.numScts |-> SctOf(spec, i)]
             /\ WithoutScts(tbs) = Tbs(spec, spec.caKeys[1], 1, << >>)
<1> DEFINE key == spec.caKeys[1]
           scts == [i \in 1..spec.numScts |-> SctOf(spec, i)]
           tbs == Tbs(spec, key, 1, scts)
<1>1. LeafOf(spec) = [tbs |-> tbs, sig |-> Sig(key, tbs)]
  BY DEF LeafOf, Leaf, FinalLeaf, SctOf
<1> HIDE DEF scts, key
<1>2. /\ tbs.issuer = key /\ tbs.key = "leaf" /\ tbs.exts = spec.exts
      /\ tbs.from = spec.leafFrom /\ tbs.until = spec.leafUntil /\ tbs.scts = scts
      /\ WithoutScts(tbs) = Tbs(spec, key, 1, << >>)
  BY DEF Tbs, WithoutScts
<1> HIDE DEF tbs
<1>3. LeafOf(spec).tbs = tbs /\ LeafOf(spec).sig = Sig(key, tbs)
  BY <1>1
<1>4. QED
  BY <1>2, <1>3 DEF key, scts

(* An SCT is the CT log's signature of the leaf before it had SCTs.         *)
LEMMA SctIs ==
  ASSUME NEW spec, NEW i
  PROVE  LET key == spec.caKeys[1]
             time == spec.sctTime + spec.sctStep * (i - 1)
         IN  /\ SctOf(spec, i).log = "ct" /\ SctOf(spec, i).time = time
             /\ SctOf(spec, i).sig =
                  Sig("ct", [issuer |-> key, tbs |-> Tbs(spec, key, 1, << >>),
                             time |-> time])
BY DEF SctOf, MakeSct

\* A document with the bundle of a spec and the trust root it was built with.
Built(doc, spec) ==
  IsSpec(spec) /\ doc.bundle = BuildBundle(spec) /\ doc.root = BuildTrustRoot(spec)

(* The CA of the bundle issued the leaf if it was valid at the time.        *)
LEMMA IssuerOfBuilt ==
  ASSUME NEW spec, NEW doc, Built(doc, spec)
  PROVE  IssuingCas(doc) = {} <=> ~(/\ spec.rootFrom <= spec.leafFrom
                                    /\ spec.leafFrom <= spec.rootUntil)
<1> DEFINE ca == [keys |-> spec.caKeys, from |-> spec.rootFrom, until |-> spec.rootUntil]
           cert == doc.bundle.cert
<1>1. doc.root.cas = {ca}
  BY RootIs DEF Built
<1>2. /\ cert.sig = Sig(spec.caKeys[1], cert.tbs) /\ cert.tbs.from = spec.leafFrom
  <2>1. cert = LeafOf(spec)
    BY BundleIs DEF Built
  <2> HIDE DEF cert
  <2>2. QED
    BY <2>1, LeafIs
<1>3. ca.keys = spec.caKeys /\ ca.from = spec.rootFrom /\ ca.until = spec.rootUntil
  OBVIOUS
<1> HIDE DEF ca
<1>4. \A c : c \in IssuingCas(doc) <=>
               /\ c = ca
               /\ spec.rootFrom <= spec.leafFrom /\ spec.leafFrom <= spec.rootUntil
  BY <1>1, <1>2, <1>3 DEF IssuingCas
<1>5. QED
  BY <1>4

(* The valid SCTs are those of times at which the log's key was valid.      *)
LEMMA SctsOfBuilt ==
  ASSUME NEW spec, NEW doc, Built(doc, spec)
  PROVE  /\ ValidScts(doc) = {i \in 1..spec.numScts :
                                spec.ctFrom <= spec.sctTime + spec.sctStep * (i - 1)}
         /\ DuplicateLog(doc.bundle.cert.tbs.scts) <=> ~(spec.numScts <= 1)
<1> DEFINE tbs == doc.bundle.cert.tbs
           time(i) == spec.sctTime + spec.sctStep * (i - 1)
           log == [log |-> "ct", key |-> "ct", from |-> spec.ctFrom]
           key == spec.caKeys[1]
           pre == Tbs(spec, key, 1, << >>)
<1>1. spec.numScts \in Nat
  BY DEF Built, IsSpec
<1>2. /\ tbs.scts = [i \in 1..spec.numScts |-> SctOf(spec, i)]
      /\ tbs.issuer = key /\ WithoutScts(tbs) = pre
  <2>1. tbs = LeafOf(spec).tbs
    BY BundleIs DEF Built
  <2> HIDE DEF tbs
  <2>2. QED
    BY <2>1, LeafIs
<1>3. doc.root.ctlogs = {log}
  BY RootIs DEF Built
<1>4. log.log = "ct" /\ log.key = "ct" /\ log.from = spec.ctFrom
  OBVIOUS
<1> HIDE DEF log, pre, tbs, key, time
<1>5. DOMAIN tbs.scts = 1..spec.numScts
  BY <1>2
<1>6. \A i \in 1..spec.numScts :
        /\ tbs.scts[i].log = "ct" /\ tbs.scts[i].time = time(i)
        /\ tbs.scts[i].sig = Sig("ct", [issuer |-> key, tbs |-> pre, time |-> time(i)])
  BY <1>2, SctIs DEF key, pre, time
<1>7. ValidScts(doc) = {i \in 1..spec.numScts : spec.ctFrom <= time(i)}
  <2> DEFINE valid(i) == \E l \in {log} :
                           /\ l.log = tbs.scts[i].log /\ l.from <= tbs.scts[i].time
                           /\ tbs.scts[i].sig =
                                Sig(l.key, [issuer |-> tbs.issuer, tbs |-> WithoutScts(tbs),
                                            time |-> tbs.scts[i].time])
  <2>1. ValidScts(doc) = {i \in DOMAIN tbs.scts : valid(i)}
    BY <1>3 DEF ValidScts, tbs
  <2>2. \A i \in 1..spec.numScts : valid(i) <=> spec.ctFrom <= time(i)
    BY <1>2, <1>4, <1>6
  <2> HIDE DEF valid
  <2>3. QED
    BY <1>5, <2>1, <2>2
<1>8. DuplicateLog(tbs.scts) <=> \E i, j \in 1..spec.numScts : i # j
  BY <1>5, <1>6 DEF DuplicateLog
<1>9. (\E i, j \in 1..spec.numScts : i # j) <=> ~(spec.numScts <= 1)
  <2>1. ASSUME ~(spec.numScts <= 1) PROVE \E i, j \in 1..spec.numScts : i # j
    <3>1. 1 \in 1..spec.numScts /\ 2 \in 1..spec.numScts
      BY <1>1, <2>1
    <3>2. QED
      BY <3>1
  <2>2. QED
    BY <1>1, <2>1
<1>10. QED
  BY <1>7, <1>8, <1>9 DEF tbs, time

(* Its log entries are without fault, and promise the times of the spec.    *)
LEMMA EntriesOfBuilt ==
  ASSUME NEW spec, NEW doc, Built(doc, spec)
  PROVE  /\ Range(doc.bundle.tlogs) = {EntryOf(spec, i) : i \in 1..spec.numTlogs}
         /\ \A e \in Range(doc.bundle.tlogs) :
              /\ EntryKeys(doc, e) = {"rekor"} /\ EntryFailures(doc, e) = {}
              /\ e.body = BodyOf(spec)
         /\ ObservedTimes(doc) = {spec.integrated + i - 1 : i \in 1..spec.numTlogs}
<1> DEFINE log == [log |-> "rekor", key |-> "rekor", from |-> spec.rekorFrom]
           time(i) == spec.integrated + i - 1
           body == BodyOf(spec)
<1>1. /\ doc.bundle.tlogs = [i \in 1..spec.numTlogs |-> EntryOf(spec, i)]
      /\ doc.bundle.tsa = {}
  BY BundleIs DEF Built
<1>2. Range(doc.bundle.tlogs) = {EntryOf(spec, i) : i \in 1..spec.numTlogs}
  BY <1>1 DEF Range
<1>3. doc.root.tlogs = {log}
  BY RootIs DEF Built
<1>4. log.log = "rekor" /\ log.key = "rekor"
  OBVIOUS
<1> HIDE DEF log, time, body
<1>5. \A i \in 1..spec.numTlogs :
        /\ EntryOf(spec, i).log = "rekor" /\ EntryOf(spec, i).time = time(i)
        /\ EntryOf(spec, i).body = body /\ EntryOf(spec, i).index = i - 1
        /\ EntryOf(spec, i).promise =
             Sig("rekor", [body |-> body, time |-> time(i), log |-> "rekor",
                           index |-> i - 1])
  <2> SUFFICES ASSUME NEW i \in 1..spec.numTlogs
               PROVE  /\ EntryOf(spec, i).log = "rekor" /\ EntryOf(spec, i).time = time(i)
                      /\ EntryOf(spec, i).body = body /\ EntryOf(spec, i).index = i - 1
                      /\ EntryOf(spec, i).promise =
                           Sig("rekor", [body |-> body, time |-> time(i), log |-> "rekor",
                                         index |-> i - 1])
    OBVIOUS
  <2> DEFINE e == EntryOf(spec, i)
             index == i - 1
  <2>1. e = RekorEntry("rekor", body, time(i), index, spec.treeSize, spec.treeIndex)
    BY DEF EntryOf, time, body
  <2> HIDE DEF e, index
  <2>2. /\ e.log = "rekor" /\ e.time = time(i) /\ e.body = body /\ e.index = index
        /\ e.promise = SignedEntryTimestamp("rekor", body, time(i), index)
    BY <2>1, EntryIs
  <2>3. QED
    BY <2>2 DEF SignedEntryTimestamp, e, index
<1>6. \A e : e.log = "rekor" => EntryKeys(doc, e) = {"rekor"}
  BY <1>3, <1>4 DEF EntryKeys
<1>7. \A i \in 1..spec.numTlogs : EntryFailures(doc, EntryOf(spec, i)) = {}
  <2>1. spec.treeSize \in Nat /\ spec.treeIndex \in 0..(spec.treeSize - 1)
    BY DEF Built, IsSpec
  <2>2. QED
    BY <1>5, <1>6, <2>1, BuiltEntriesVerify DEF EntryOf
<1>8. ObservedTimes(doc) = {time(i) : i \in 1..spec.numTlogs}
  <2> DEFINE entries == Range(doc.bundle.tlogs)
             kept(f) == \E k \in EntryKeys(doc, f) :
                          f.promise = Sig(k, [body |-> f.body, time |-> f.time,
                                              log |-> f.log, index |-> f.index])
  <2>1. ObservedTimes(doc) = {e.time : e \in {f \in entries : kept(f)}}
    BY <1>1 DEF ObservedTimes
  <2>2. \A i \in 1..spec.numTlogs : kept(EntryOf(spec, i))
    BY <1>5, <1>6
  <2> HIDE DEF kept
  <2>3. {f \in entries : kept(f)} = {EntryOf(spec, i) : i \in 1..spec.numTlogs}
    BY <1>2, <2>2
  <2>4. {e.time : e \in {EntryOf(spec, i) : i \in 1..spec.numTlogs}}
          = {time(i) : i \in 1..spec.numTlogs}
    BY <1>5
  <2>5. QED
    BY <2>1, <2>3, <2>4
<1>9. \A e \in Range(doc.bundle.tlogs) :
        /\ EntryKeys(doc, e) = {"rekor"} /\ EntryFailures(doc, e) = {}
        /\ e.body = BodyOf(spec)
  BY <1>2, <1>5, <1>6, <1>7 DEF body
<1>10. QED
  BY <1>2, <1>8, <1>9 DEF time

(* The times promised all fall within the leaf's life if the first and the  *)
(* last do.                                                                 *)
LEMMA TimesOfBuilt ==
  ASSUME NEW spec, IsSpec(spec)
  PROVE  LET times == {spec.integrated + i - 1 : i \in 1..spec.numTlogs}
         IN  /\ times # {}
             /\ (\A t \in times : spec.leafFrom <= t /\ t <= spec.leafUntil) <=>
                  /\ spec.leafFrom <= spec.integrated
                  /\ spec.integrated + spec.numTlogs - 1 <= spec.leafUntil
<1> DEFINE n == spec.numTlogs
           first == spec.integrated
           from == spec.leafFrom
           until == spec.leafUntil
           times == {first + i - 1 : i \in 1..n}
<1>1. n \in Nat /\ n >= 1 /\ first \in Int /\ from \in Int /\ until \in Int
  BY DEF IsSpec
<1> HIDE DEF n, first, from, until
<1>2. 1 \in 1..n /\ n \in 1..n /\ first + 1 - 1 = first
  BY <1>1
<1>3. first \in times /\ first + n - 1 \in times
  BY <1>2
<1>4. \A i \in 1..n : first <= first + i - 1 /\ first + i - 1 <= first + n - 1
                      /\ first + i - 1 \in Int
  BY <1>1
<1>5. ASSUME from <= first, first + n - 1 <= until, NEW t \in times
      PROVE  from <= t /\ t <= until
  <2>1. t \in Int /\ first <= t /\ t <= first + n - 1
    BY <1>4
  <2> HIDE DEF times
  <2>2. QED
    BY <1>1, <1>5, <2>1
<1>6. QED
  BY <1>3, <1>5 DEF n, first, from, until

(* The verifier's verdict on the signatures, certificates and log entries   *)
(* of a bundle is what the spec says, for every spec: build_bundle and      *)
(* every fixture of signed_fixtures.py produce the faults they are asked    *)
(* for and no others, in a log of whatever size.                            *)
THEOREM BuiltBundlesAreJudgedBySpec ==
  ASSUME NEW spec, NEW doc, Built(doc, spec), NEW flaw
  PROVE  CryptoFailures(doc, flaw) = SpecFaults(spec, flaw)
<1> DEFINE b == doc.bundle
           tbs == b.cert.tbs
           signed == b.envelope.sigs[1]
                       = Sig(tbs.key, Pae(b.envelope.type, b.envelope.payload))
           issued == spec.rootFrom <= spec.leafFrom /\ spec.leafFrom <= spec.rootUntil
           trusted == {i \in 1..spec.numScts :
                         spec.ctFrom <= spec.sctTime + spec.sctStep * (i - 1)}
           inTime == /\ spec.leafFrom <= spec.integrated
                     /\ spec.integrated + spec.numTlogs - 1 <= spec.leafUntil
           times == ObservedTimes(doc)
           entries == Range(b.tlogs)
           if(ok, code) == IF ok THEN {} ELSE {code}
<1>1. IssuingCas(doc) = {} <=> ~issued
  BY IssuerOfBuilt
<1>2. ValidScts(doc) = trusted /\ (DuplicateLog(tbs.scts) <=> ~(spec.numScts <= 1))
  BY SctsOfBuilt
<1>3. \A e \in entries : /\ EntryKeys(doc, e) = {"rekor"} /\ EntryFailures(doc, e) = {}
                         /\ e.body = BodyOf(spec)
  BY EntriesOfBuilt
<1>4. times # {} /\ ((\A t \in times : spec.leafFrom <= t /\ t <= spec.leafUntil) <=> inTime)
  <2>1. times = {spec.integrated + i - 1 : i \in 1..spec.numTlogs}
    BY EntriesOfBuilt
  <2>2. IsSpec(spec)
    BY DEF Built
  <2> HIDE DEF times
  <2>3. QED
    BY <2>1, <2>2, TimesOfBuilt
<1>5. b.cert = LeafOf(spec) /\ b.envelope = EnvelopeOf(spec)
  BY BundleIs DEF Built
<1>6. tbs.key = "leaf" /\ tbs.from = spec.leafFrom /\ tbs.until = spec.leafUntil
  BY <1>5, LeafIs
<1>7. signed <=> spec.dsseKey = "leaf"
  <2>1. spec.numDsseSigs \in Nat \ {0}
    BY DEF Built, IsSpec
  <2> DEFINE pae == Pae(spec.payloadType, spec.statement)
  <2>2. /\ EnvelopeOf(spec).type = spec.payloadType
        /\ EnvelopeOf(spec).payload = spec.statement
        /\ EnvelopeOf(spec).sigs[1] = Sig(spec.dsseKey, pae)
    BY <2>1 DEF EnvelopeOf, SignEnvelope
  <2> HIDE DEF pae, b, tbs
  <2>3. signed <=> Sig(spec.dsseKey, pae) = Sig("leaf", pae)
    BY <1>5, <1>6, <2>2 DEF pae
  <2>4. QED
    BY <2>3 DEF Sig
<1>8. \A e \in entries : e.body = DsseBody(b.envelope, b.cert)
  BY <1>3, <1>5 DEF BodyOf
<1>9. UNION {EntryFailures(doc, e) : e \in entries} = {}
  BY <1>3
<1> HIDE DEF times, entries, signed, b, tbs
<1> DEFINE within == \A t \in times : tbs.from <= t /\ t <= tbs.until
           chain == if(IssuingCas(doc) # {}, "FULCIO_CHAIN_INVALID")
           sct == if(IssuingCas(doc) # {} /\ ValidScts(doc) # {}, "SCT_INSUFFICIENT")
           dup == if(~DuplicateLog(tbs.scts) \/ flaw = "duplicate SCTs accepted",
                     "SCT_DUPLICATE_LOG")
           log == UNION {EntryFailures(doc, e) : e \in entries}
           obs == if(\/ times # {} \/ flaw = "no observer time needed"
                     \/ \E e \in entries : EntryKeys(doc, e) = {},
                     "OBSERVER_TIMESTAMP_INSUFFICIENT")
           exp == if(within, "CERT_EXPIRED")
           sig == if(signed, "DSSE_SIGNATURE_INVALID")
           inc == if(within /\ (signed => \A e \in entries :
                                  e.body = DsseBody(b.envelope, b.cert)),
                     "REKOR_INCLUSION_INVALID")
<1>10. CryptoFailures(doc, flaw) =
         chain \cup sct \cup dup \cup log \cup obs \cup exp \cup sig \cup inc
  BY Zenon DEF CryptoFailures, times, entries, signed, b, tbs
<1>11. SpecFaults(spec, flaw) =
         if(issued, "FULCIO_CHAIN_INVALID")
           \cup if(issued /\ trusted # {}, "SCT_INSUFFICIENT")
           \cup if(spec.numScts <= 1 \/ flaw = "duplicate SCTs accepted",
                   "SCT_DUPLICATE_LOG")
           \cup if(inTime, "CERT_EXPIRED")
           \cup if(spec.dsseKey = "leaf", "DSSE_SIGNATURE_INVALID")
           \cup if(inTime, "REKOR_INCLUSION_INVALID")
  BY Zenon DEF SpecFaults
<1> HIDE DEF issued, trusted, inTime
<1>12. /\ chain = if(issued, "FULCIO_CHAIN_INVALID")
       /\ sct = if(issued /\ trusted # {}, "SCT_INSUFFICIENT")
  BY <1>1, <1>2
<1>13. dup = if(spec.numScts <= 1 \/ flaw = "duplicate SCTs accepted",
                "SCT_DUPLICATE_LOG")
  BY <1>2
<1>14. log = {} /\ obs = {}
  BY <1>4, <1>9
<1>15. within <=> inTime
  BY <1>4, <1>6
<1> HIDE DEF within
<1>16. /\ exp = if(inTime, "CERT_EXPIRED")
       /\ inc = if(inTime, "REKOR_INCLUSION_INVALID")
  BY <1>8, <1>15
<1>17. sig = if(spec.dsseKey = "leaf", "DSSE_SIGNATURE_INVALID")
  BY <1>7
<1> HIDE DEF chain, sct, dup, log, obs, exp, sig, inc
<1>18. chain \cup sct \cup dup \cup log \cup obs \cup exp \cup sig \cup inc
         = chain \cup sct \cup dup \cup exp \cup sig \cup inc
  BY <1>14
<1> HIDE DEF if
<1>19. QED
  BY <1>10, <1>11, <1>12, <1>13, <1>16, <1>17, <1>18, Zenon

(* The bundle of 001 stands for the production bundle, whose log the suite  *)
(* does not show: however large that log is and wherever the entry sits, no *)
(* signature, certificate or log entry of it is at fault.                   *)
THEOREM SeedSignaturesVerify ==
  ASSUME NEW tree \in SeedTrees, NEW flaw
  PROVE  CryptoFailures(SeedInput(tree), flaw) = {}
<1> DEFINE r == Resolved(DefaultSpec)
           spec == [r EXCEPT !.treeSize = tree.size, !.treeIndex = tree.at]
<1>1. tree.size \in Nat /\ tree.at \in 0..(tree.size - 1)
  BY SeedTreesAssumption
<1> DEFINE d == DefaultSpec
           signer == IF d.signerRef = << >> THEN d.ref ELSE d.signerRef
           s == [d EXCEPT !.signerRef = signer]
           n == IF s.numDsseSigs > 1 THEN s.numDsseSigs ELSE 1
<1>2. /\ s.numTlogs = 1 /\ s.numScts = 1 /\ s.numDsseSigs = 1
      /\ s.sctTime = Year(2026) + Minute /\ s.integrated = Year(2026) + 2 * Minute
      /\ s.leafFrom = Year(2026) /\ s.leafUntil = Year(2026) + 10 * Minute
      /\ s.rootFrom = Year(2024) /\ s.rootUntil = Year(2034) /\ s.ctFrom = Year(2024)
  <2> HIDE DEF signer
  <2>1. QED
    BY DEF DefaultSpec
<1>3. n = 1
  BY <1>2
<1>4. r = [leafFrom |-> s.leafFrom, leafUntil |-> s.leafUntil, exts |-> LeafExts(s),
           numScts |-> s.numScts, sctTime |-> s.sctTime, sctStep |-> 1,
           caKeys |-> <<"fulcio root">>, dsseKey |-> "leaf",
           payloadType |-> s.payloadType, statement |-> MaybeMutatePayload(s),
           numDsseSigs |-> n,
           numTlogs |-> s.numTlogs, integrated |-> s.integrated,
           treeSize |-> 1, treeIndex |-> 0,
           rootFrom |-> s.rootFrom, rootUntil |-> s.rootUntil,
           ctFrom |-> s.ctFrom, rekorFrom |-> s.rekorFrom]
  BY DEF Resolved
<1> HIDE DEF s, n, r
<1>5. /\ spec.treeSize = tree.size /\ spec.treeIndex = tree.at
      /\ spec.numTlogs = 1 /\ spec.numScts = 1 /\ spec.numDsseSigs = 1
      /\ spec.dsseKey = "leaf"
      /\ spec.sctTime = Year(2026) + Minute /\ spec.sctStep = 1
      /\ spec.integrated = Year(2026) + 2 * Minute
      /\ spec.leafFrom = Year(2026) /\ spec.leafUntil = Year(2026) + 10 * Minute
      /\ spec.rootFrom = Year(2024) /\ spec.rootUntil = Year(2034)
      /\ spec.ctFrom = Year(2024)
  <2> DEFINE size == tree.size
             at == tree.at
             exts == LeafExts(s)
             statement == MaybeMutatePayload(s)
             full == [leafFrom |-> s.leafFrom, leafUntil |-> s.leafUntil, exts |-> exts,
                      numScts |-> s.numScts, sctTime |-> s.sctTime, sctStep |-> 1,
                      caKeys |-> <<"fulcio root">>, dsseKey |-> "leaf",
                      payloadType |-> s.payloadType, statement |-> statement,
                      numDsseSigs |-> n,
                      numTlogs |-> s.numTlogs, integrated |-> s.integrated,
                      treeSize |-> size, treeIndex |-> at,
                      rootFrom |-> s.rootFrom, rootUntil |-> s.rootUntil,
                      ctFrom |-> s.ctFrom, rekorFrom |-> s.rekorFrom]
  <2>1. spec = [r EXCEPT !.treeSize = size, !.treeIndex = at]
    OBVIOUS
  <2> HIDE DEF exts, statement, spec, size, at, d, signer
  <2>2. spec = full
    BY <1>4, <2>1 DEF exts, statement
  <2>3. /\ full.treeSize = size /\ full.treeIndex = at
        /\ full.numTlogs = s.numTlogs /\ full.numScts = s.numScts /\ full.numDsseSigs = n
        /\ full.dsseKey = "leaf"
        /\ full.sctTime = s.sctTime /\ full.sctStep = 1 /\ full.integrated = s.integrated
        /\ full.leafFrom = s.leafFrom /\ full.leafUntil = s.leafUntil
        /\ full.rootFrom = s.rootFrom /\ full.rootUntil = s.rootUntil
        /\ full.ctFrom = s.ctFrom
    OBVIOUS
  <2> HIDE DEF full
  <2>4. QED
    BY <1>2, <1>3, <2>2, <2>3 DEF size, at
<1> HIDE DEF spec
<1>6. /\ Minute = 60 /\ Year(2024) = 50000 /\ Year(2026) = 70000 /\ Year(2034) = 150000
  BY DEF Minute, Year, YearLength
<1>7. IsSpec(spec)
  BY <1>1, <1>5, <1>6 DEF IsSpec
<1>8. Built(SeedInput(tree), spec)
  BY <1>7 DEF Built, SeedInput, spec, r
<1>9. SpecFaults(spec, flaw) = {}
  BY <1>5, <1>6 DEF SpecFaults
<1>10. QED
  BY <1>8, <1>9, BuiltBundlesAreJudgedBySpec

-----------------------------------------------------------------------------
(* An approval bundle                                                       *)

\* The leaves of a Rekor v2 log, as build_rekor_v2_entry lists them.
V2LogOf(body, log, index, size) ==
  [i \in 1..size |->
     IF i = index + 1 THEN LeafHash(body) ELSE FillerLeafHash(log.origin, i - 1)]

(* They are a sequence of the log's size, the entry's own among them.       *)
LEMMA V2LogIs ==
  ASSUME NEW size \in Nat, NEW index \in 0..(size - 1), NEW body, NEW log
  PROVE  LET leaves == V2LogOf(body, log, index, size)
         IN  /\ leaves \in Seq({leaves[i] : i \in 1..size}) /\ Len(leaves) = size
             /\ leaves[index + 1] = LeafHash(body)
<1> DEFINE f(i) == IF i = index + 1 THEN LeafHash(body)
                   ELSE FillerLeafHash(log.origin, i - 1)
<1>1. V2LogOf(body, log, index, size) = [i \in 1..size |-> f(i)]
  BY DEF V2LogOf
<1>2. f(index + 1) = LeafHash(body) /\ index + 1 \in 1..size
  OBVIOUS
<1> HIDE DEF f
<1> DEFINE leaves == [i \in 1..size |-> f(i)]
<1>3. leaves \in Seq({leaves[i] : i \in 1..size}) /\ Len(leaves) = size
  OBVIOUS
<1>4. leaves[index + 1] = LeafHash(body)
  BY <1>2
<1>5. QED
  BY <1>1, <1>3, <1>4

\* What a verifier asks of an entry for `body`: no time and no promise, the
\* place it claims in a log the trusted root lists, under a checkpoint of that
\* log's.
InOrder(e, body) ==
  LET c == e.proof.checkpoint
  IN  /\ e.kindVersion = HashedRekord /\ e.body = body
      /\ e.integrated = {} /\ e.promise = {}
      /\ Includes(e.proof.root, e.proof.size, e.proof.index, LeafHash(e.body),
                  e.proof.hashes)
      /\ c.text.size = e.proof.size /\ c.text.root = e.proof.root
      /\ \E log \in TrustedLogs :
           /\ log.key = e.logId /\ c.text.origin = log.origin /\ c.name = log.origin
           /\ c.hint = NoteKeyHint(log) /\ c.sig = Sig(log.key, c.text)

(* The trusted root lists no two logs under one key.                        *)
LEMMA TrustedKeysDiffer ==
  ASSUME NEW m \in TrustedLogs, NEW n \in TrustedLogs, m.key = n.key
  PROVE  m = n
<1>1. LogEcdsa.key # LogEd25519.key
  BY DEF LogEcdsa, LogEd25519
<1>2. QED
  BY <1>1 DEF TrustedLogs

(* Entries of version 2 are in order in logs of whatever size.              *)
LEMMA V2EntriesAreInOrder ==
  ASSUME NEW body, NEW log \in TrustedLogs, NEW size \in Nat, NEW index \in 0..(size - 1)
  PROVE  InOrder(RekorV2Entry(body, log, index, size, HashedRekord), body)
<1> DEFINE e == RekorV2Entry(body, log, index, size, HashedRekord)
           leaves == V2LogOf(body, log, index, size)
           root == MerkleRoot(leaves)
           hashes == MerkleInclusionProof(leaves, index)
           S == {leaves[i] : i \in 1..size}
           text == [origin |-> log.origin, size |-> size, root |-> root]
           checkpoint == V2Checkpoint(log, size, root)
           proof == [index |-> index, size |-> size, root |-> root,
                     hashes |-> hashes, checkpoint |-> checkpoint]
<1>1. e = [index |-> index, logId |-> log.key, kindVersion |-> HashedRekord, body |-> body,
           integrated |-> {}, promise |-> {}, proof |-> proof]
  BY DEF RekorV2Entry, V2LogOf
<1>2. leaves \in Seq(S) /\ Len(leaves) = size /\ leaves[index + 1] = LeafHash(body)
  BY V2LogIs
<1> HIDE DEF leaves, S
<1>3. Includes(MerkleRoot(leaves), Len(leaves), index, leaves[index + 1],
               MerkleInclusionProof(leaves, index))
  BY <1>2, AuditPathVerifies
<1>4. Includes(root, size, index, LeafHash(body), hashes)
  BY <1>2, <1>3
<1> HIDE DEF root, hashes
<1>5. /\ checkpoint.text = text /\ checkpoint.name = log.origin
      /\ checkpoint.hint = NoteKeyHint(log) /\ checkpoint.sig = Sig(log.key, text)
  BY DEF V2Checkpoint
<1>6. text.origin = log.origin /\ text.size = size /\ text.root = root
  OBVIOUS
<1> HIDE DEF checkpoint, text
<1>7. /\ proof.index = index /\ proof.size = size /\ proof.root = root
      /\ proof.hashes = hashes /\ proof.checkpoint = checkpoint
  OBVIOUS
<1> HIDE DEF proof, e
<1>8. /\ e.logId = log.key /\ e.kindVersion = HashedRekord /\ e.body = body
      /\ e.integrated = {} /\ e.promise = {} /\ e.proof = proof
  BY <1>1
<1>9. InOrder(e, body)
  BY <1>4, <1>5, <1>6, <1>7, <1>8 DEF InOrder
<1>10. QED
  BY <1>9 DEF e

\* What the holder of the key has a log record of the statement.
ApprovalBody(statement, signer) ==
  HashedRekordBody(Sha(ApprovalPae(statement)), Sig(signer, ApprovalPae(statement)), signer)

\* An entry for the statement in a log of whatever size, anywhere in it.
IsWitness(e, statement, signer) ==
  \E log \in TrustedLogs, size \in Nat : \E index \in 0..(size - 1) :
    e = RekorV2Entry(ApprovalBody(statement, signer), log, index, size, HashedRekord)

\* What the statement and the number of entries leave to say against it.
ApprovalFaults(statement, entries, digest) ==
  (IF entries # << >> THEN {} ELSE {"someEntry"})
    \cup (IF Len(entries) <= MaxEntries THEN {} ELSE {"entryLimit"})
    \cup (IF \E i \in DOMAIN statement.subjects : statement.subjects[i] = digest
          THEN {} ELSE {"subject"})

(* An approval of gen_approval_bundle.py, signed with a pinned key and      *)
(* witnessed by listed logs of whatever size, breaks no rule but those on   *)
(* what it is about and on how many entries it has (eight-entries,          *)
(* nine-entries, zero-entries, digest-in-second-subject).                   *)
THEOREM BuiltApprovalsAreJudgedByContent ==
  ASSUME NEW statement, NEW signer \in PinnedKeys, NEW S, NEW entries \in Seq(S),
         \A e \in S : IsWitness(e, statement, signer), NEW digest
  PROVE  LET b == ApprovalOf(statement, signer, signer, entries)
         IN  ApprovalBroken([bundle |-> b, digest |-> digest], "none")
               = ApprovalFaults(statement, entries, digest)
<1> DEFINE b == ApprovalOf(statement, signer, signer, entries)
           d == [bundle |-> b, digest |-> digest]
           pae == ApprovalPae(statement)
           rules == ApprovalHolds(b, digest, "none")
<1>1. /\ b.material.form = "hint" /\ b.material.key = signer /\ b.keyid = ""
      /\ b.entries = entries /\ b.timestamps = {}
      /\ b.payload = statement /\ b.sig = Sig(signer, pae)
  BY DEF ApprovalOf
<1>2. signer \in PinnedKeys /\ signer # ""
  BY DEF PinnedKeys
<1> DEFINE body == ApprovalBody(statement, signer)
<1>3. body.digest = Sha(pae) /\ body.sig = Sig(signer, pae) /\ body.verifier = signer
  BY DEF ApprovalBody, HashedRekordBody
<1> HIDE DEF b, pae, body
<1>4. \A i \in DOMAIN entries : InOrder(entries[i], body)
  <2>1. \A i \in DOMAIN entries : IsWitness(entries[i], statement, signer)
    OBVIOUS
  <2>2. QED
    BY <2>1, V2EntriesAreInOrder DEF IsWitness, body
<1>5. /\ rules.layout = TRUE /\ rules.kind = TRUE /\ rules.version = TRUE
      /\ rules.noTime = TRUE /\ rules.noPromise = TRUE /\ rules.noTimestamps = TRUE
      /\ rules.pinned = TRUE /\ rules.keyidDiffers = TRUE /\ rules.keyidEmpty = TRUE
      /\ rules.logListed = TRUE
  BY <1>1, <1>2, <1>4 DEF ApprovalHolds, InOrder
<1>6. /\ rules.bodyDigest = TRUE /\ rules.bodySignature = TRUE /\ rules.bodyKey = TRUE
      /\ rules.signature = TRUE
  BY <1>1, <1>2, <1>3, <1>4 DEF ApprovalHolds, InOrder, pae
<1>7. rules.inclusion = TRUE
  BY <1>1, <1>4 DEF ApprovalHolds, InOrder
<1>8. rules.checkpoint = TRUE
  <2>1. ASSUME NEW i \in DOMAIN entries, NEW log \in TrustedLogs, log.key = entries[i].logId
        PROVE  LET c == entries[i].proof.checkpoint
               IN  /\ c.text.origin = log.origin /\ c.name = log.origin
                   /\ c.hint = NoteKeyHint(log) /\ c.sig = Sig(log.key, c.text)
    <3>1. PICK m \in TrustedLogs :
            LET c == entries[i].proof.checkpoint
            IN  /\ m.key = entries[i].logId /\ c.text.origin = m.origin
                /\ c.name = m.origin /\ c.hint = NoteKeyHint(m)
                /\ c.sig = Sig(m.key, c.text)
      BY <1>4 DEF InOrder
    <3>2. m = log
      BY <2>1, <3>1, TrustedKeysDiffer
    <3>3. QED
      BY <3>1, <3>2
  <2>2. \A i \in DOMAIN entries :
          LET e == entries[i]
          IN  /\ e.proof.checkpoint.text.size = e.proof.size
              /\ e.proof.checkpoint.text.root = e.proof.root
    BY <1>4 DEF InOrder
  <2>3. QED
    BY <1>1, <2>1, <2>2 DEF ApprovalHolds
<1>9. /\ rules.someEntry = (entries # << >>)
      /\ rules.entryLimit = (Len(entries) <= MaxEntries)
      /\ rules.subject = \E i \in DOMAIN statement.subjects :
                           statement.subjects[i] = digest
  BY <1>1 DEF ApprovalHolds
<1>10. DOMAIN rules =
        {"layout", "someEntry", "entryLimit", "kind", "version", "noTime", "noPromise",
         "noTimestamps", "pinned", "keyidDiffers", "keyidEmpty", "bodyDigest",
         "bodySignature", "bodyKey", "inclusion", "logListed", "checkpoint",
         "signature", "subject"}
  BY DEF ApprovalHolds
<1>11. ApprovalTooStrict(b, "none") = FALSE
  BY DEF ApprovalTooStrict
<1>12. "none" \notin DOMAIN rules
  BY <1>10
<1> HIDE DEF rules
<1>13. Broken(rules, "none") = ApprovalFaults(statement, entries, digest)
  BY <1>5, <1>6, <1>7, <1>8, <1>9, <1>10 DEF Broken, ApprovalFaults
<1>14. ApprovalBroken(d, "none") = Broken(rules, "none")
  BY <1>11 DEF ApprovalBroken, rules
<1>15. QED
  BY <1>13, <1>14 DEF b

(* At index i - 1 of a log of n leaves each, n entries are at fault only    *)
(* when there are none or more than the limit (eight-entries, nine-entries, *)
(* zero-entries).                                                           *)
THEOREM EntryLimitIsExact ==
  ASSUME NEW n \in Nat
  PROVE  ApprovalBroken([bundle |-> WithEntries(n), digest |-> ApprovedDigest], "none")
           = IF n = 0 THEN {"someEntry"}
             ELSE IF n <= MaxEntries THEN {} ELSE {"entryLimit"}
<1> DEFINE body == ApprovalBody(HappyStatement, "A")
           f(i) == RekorV2Entry(body, LogEcdsa, i - 1, n, HashedRekord)
           entries == [i \in 1..n |-> f(i)]
           S == {f(i) : i \in 1..n}
           subjects == HappyStatement.subjects
<1>1. WithEntries(n) = ApprovalOf(HappyStatement, "A", "A", entries)
  BY DEF WithEntries, LogEntry, ApprovalBody
<1>2. subjects = <<ApprovedDigest>>
  BY DEF HappyStatement, Approval
<1>3. \A e \in S : IsWitness(e, HappyStatement, "A")
  <2>1. \A i \in 1..n : n \in Nat /\ i - 1 \in 0..(n - 1)
    OBVIOUS
  <2> HIDE DEF body
  <2>2. QED
    BY <2>1 DEF IsWitness, TrustedLogs, body
<1> HIDE DEF f
<1>4. entries \in Seq(S) /\ Len(entries) = n /\ (entries = << >> <=> n = 0)
  OBVIOUS
<1>5. \E i \in DOMAIN subjects : subjects[i] = ApprovedDigest
  BY <1>2
<1>6. "A" \in PinnedKeys
  BY DEF PinnedKeys
<1> HIDE DEF S, entries, subjects
<1>7. ApprovalBroken([bundle |-> ApprovalOf(HappyStatement, "A", "A", entries),
                      digest |-> ApprovedDigest], "none")
        = ApprovalFaults(HappyStatement, entries, ApprovedDigest)
  BY <1>3, <1>4, <1>6, BuiltApprovalsAreJudgedByContent
<1>8. ApprovalFaults(HappyStatement, entries, ApprovedDigest)
        = IF n = 0 THEN {"someEntry"}
          ELSE IF n <= MaxEntries THEN {} ELSE {"entryLimit"}
  BY <1>4, <1>5 DEF ApprovalFaults, MaxEntries, subjects
<1>9. QED
  BY <1>1, <1>7, <1>8

(* An entry of version 2 that claims another body or another audit path for *)
(* its place in its log breaks the rule on inclusion, whatever was altered, *)
(* however large the log and whatever else the approval holds               *)
(* (bad-inclusion-proof).                                                   *)
THEOREM AlteredWitnessesAreRefused ==
  ASSUME NEW size \in Nat, NEW index \in 0..(size - 1), NEW body, NEW log,
         NEW kindVersion, NEW b, NEW digest, NEW flaw, flaw # "inclusion",
         NEW i \in DOMAIN b.entries, NEW R, b.entries[i].proof.hashes \in Seq(R)
  PROVE  LET built == RekorV2Entry(body, log, index, size, kindVersion)
             e == b.entries[i]
         IN  /\ e.proof.index = index /\ e.proof.size = size
             /\ e.proof.root = built.proof.root
             /\ e.body # body \/ e.proof.hashes # built.proof.hashes
             => "inclusion" \in ApprovalBroken([bundle |-> b, digest |-> digest], flaw)
<1> DEFINE built == RekorV2Entry(body, log, index, size, kindVersion)
           e == b.entries[i]
           leaves == V2LogOf(body, log, index, size)
           root == MerkleRoot(leaves)
           hashes == MerkleInclusionProof(leaves, index)
           S == {leaves[k] : k \in 1..size}
           rules == ApprovalHolds(b, digest, flaw)
<1>1. leaves \in Seq(S) /\ Len(leaves) = size /\ leaves[index + 1] = LeafHash(body)
  BY V2LogIs
<1>2. built.proof = [index |-> index, size |-> size, root |-> root,
                     hashes |-> hashes, checkpoint |-> V2Checkpoint(log, size, root)]
  BY DEF RekorV2Entry, V2LogOf
<1> HIDE DEF leaves, S, built, hashes, root
<1>3. built.proof.root = root /\ built.proof.hashes = hashes
  BY <1>2
<1>4. ASSUME e.proof.index = index, e.proof.size = size, e.proof.root = root,
             e.body # body \/ e.proof.hashes # hashes
      PROVE  ~Includes(e.proof.root, e.proof.size, e.proof.index, LeafHash(e.body),
                       e.proof.hashes)
  <2>1. ASSUME Includes(root, size, index, LeafHash(e.body), e.proof.hashes)
        PROVE  LeafHash(e.body) = LeafHash(body) /\ e.proof.hashes = hashes
    BY <1>1, <2>1, OnlyTheAuditPathVerifies DEF root, hashes
  <2>2. LeafHash(e.body) = LeafHash(body) => e.body = body
    BY DEF LeafHash
  <2>3. QED
    BY <1>4, <2>1, <2>2
<1>5. "inclusion" \in DOMAIN rules
      /\ rules.inclusion = \A k \in DOMAIN b.entries :
           Includes(b.entries[k].proof.root, b.entries[k].proof.size,
                    b.entries[k].proof.index, LeafHash(b.entries[k].body),
                    b.entries[k].proof.hashes)
  BY DEF ApprovalHolds
<1> HIDE DEF rules
<1>6. ASSUME e.proof.index = index, e.proof.size = size, e.proof.root = root,
             e.body # body \/ e.proof.hashes # hashes
      PROVE  "inclusion" \in ApprovalBroken([bundle |-> b, digest |-> digest], flaw)
  <2>1. ~rules.inclusion
    BY <1>4, <1>5, <1>6
  <2>2. "inclusion" \in Broken(rules, flaw)
    BY <1>5, <2>1 DEF Broken
  <2>3. QED
    BY <2>2 DEF ApprovalBroken, rules
<1>7. QED
  BY <1>3, <1>6 DEF built

-----------------------------------------------------------------------------
(* An envelope                                                              *)

(* The rules of the envelope by name.                                       *)
LEMMA EnvelopeRules ==
  ASSUME NEW d, NEW flaw
  PROVE  DOMAIN EnvelopeHolds(d, flaw) =
           {"E1", "E2", "E3", "E4", "E5", "E6", "E7", "E8", "E9", "E10", "E11", "E12",
            "E13", "E14", "E15", "E16", "E17"}
BY DEF EnvelopeHolds

(* Equal report data are of one nonce and one pair of hashes.               *)
LEMMA LadderIs ==
  ASSUME NEW m, NEW n, NEW a, NEW b, Ladder(m, a) = Ladder(n, b)
  PROVE  m = n /\ a = b
<1>1. Ladder(m, a).nonce = m /\ Ladder(m, a).endorsed = a
  BY DEF Ladder
<1>2. Ladder(n, b).nonce = n /\ Ladder(n, b).endorsed = b
  BY DEF Ladder
<1>3. QED
  BY <1>1, <1>2

\* What the items of the two sections leave to say against an envelope.
ItemFaults(crypto, device) ==
  (IF NoRepeatedId(crypto) /\ NoRepeatedId(device) THEN {} ELSE {"E10"})
    \cup (IF \A i \in DOMAIN device : device[i].id # "" THEN {} ELSE {"E12"})

(* A document of gen_envelope.py breaks no rule but those on the identities *)
(* of its items, whatever keys and devices it lists: sections, hashes,      *)
(* nonce and ladder fit each other (envelope-pos-crypto-items,              *)
(* envelope-pos-device-item, e10, e12).                                     *)
THEOREM BuiltEnvelopesAreJudgedByItems ==
  ASSUME NEW crypto, NEW device
  PROVE  EnvelopeBroken(Envelope(CryptoMaterial(crypto), DeviceEvidence(device)), "none")
           = ItemFaults(crypto, device)
<1> DEFINE d == Envelope(CryptoMaterial(crypto), DeviceEvidence(device))
           rules == EnvelopeHolds(d, "none")
<1>1. /\ d.text = {} /\ d.canonicalBase64 = TRUE /\ d.lowerHex = TRUE
      /\ d.nonce = OwnNonce /\ d.verifier = OwnNonce
      /\ d.algorithm = "report-data/v1" /\ d.reportData = Ladder(OwnNonce, d.endorsed)
      /\ d.endorsed.crypto = Sha(d.crypto) /\ d.endorsed.device = Sha(d.device)
      /\ d.crypto = CryptoMaterial(crypto) /\ d.device = DeviceEvidence(device)
      /\ d.collateral = << >>
  BY DEF Envelope
<1>2. /\ d.crypto.format = "crypto-material/v1" /\ d.crypto.items = crypto
      /\ d.device.format = "device-evidence/v1" /\ d.device.items = device
      /\ NoSection.format = "missing"
      /\ d.endorsed.crypto.bytes = 32 /\ d.endorsed.device.bytes = 32
  BY <1>1 DEF CryptoMaterial, DeviceEvidence, NoSection, Section, Sha
<1> HIDE DEF d
<1>3. /\ rules.E1 = TRUE /\ rules.E2 = TRUE /\ rules.E3 = TRUE /\ rules.E4 = TRUE
      /\ rules.E5 = TRUE /\ rules.E6 = TRUE /\ rules.E8 = TRUE /\ rules.E9 = TRUE
  BY <1>1, <1>2 DEF EnvelopeHolds
<1>4. rules.E7 = TRUE /\ rules.E11 = TRUE
  BY <1>2 DEF EnvelopeHolds
<1>5. rules.E13 = TRUE
  BY <1>1 DEF EnvelopeHolds, NoRepeatedId
<1>6. rules.E14 = TRUE /\ rules.E15 = TRUE /\ rules.E16 = TRUE /\ rules.E17 = TRUE
  BY <1>1 DEF EnvelopeHolds
<1>7. /\ rules.E10 = (NoRepeatedId(crypto) /\ NoRepeatedId(device))
      /\ rules.E12 = \A i \in DOMAIN device : device[i].id # ""
  BY <1>2 DEF EnvelopeHolds
<1>8. DOMAIN rules =
        {"E1", "E2", "E3", "E4", "E5", "E6", "E7", "E8", "E9", "E10", "E11", "E12",
         "E13", "E14", "E15", "E16", "E17"}
  BY EnvelopeRules
<1>9. EnvelopeBroken(d, "none") = Broken(rules, "none")
  BY DEF EnvelopeBroken
<1> HIDE DEF rules
<1>10. Broken(rules, "none") = ItemFaults(crypto, device)
  BY <1>3, <1>4, <1>5, <1>6, <1>7, <1>8 DEF Broken, ItemFaults
<1>11. QED
  BY <1>9, <1>10 DEF d

(* Report data stand for one nonce, one set of keys and one set of device   *)
(* evidence: two documents an SDK accepts under the same report data agree  *)
(* on all three, even when the SDK lacks any one rule but those on the two  *)
(* hashes and the ladder, or refuses too much (e15, e16, e17).              *)
THEOREM ReportDataBindTheSections ==
  ASSUME NEW d, NEW e, d.reportData = e.reportData,
         NEW flaw, flaw \notin {"E15", "E16", "E17", "document's nonce trusted"},
         EnvelopeBroken(d, flaw) = {}, EnvelopeBroken(e, flaw) = {}
  PROVE  d.verifier = e.verifier /\ d.crypto = e.crypto /\ d.device = e.device
<1> DEFINE kept == {"E15", "E16", "E17"}
<1>1. ASSUME NEW x, EnvelopeBroken(x, flaw) = {}
      PROVE  /\ x.endorsed.crypto = Sha(x.crypto) /\ x.endorsed.device = Sha(x.device)
             /\ x.reportData = Ladder(x.verifier, x.endorsed)
  <2> DEFINE rules == EnvelopeHolds(x, flaw)
  <2>1. \A r \in kept : r \in DOMAIN rules /\ r # flaw
    BY EnvelopeRules
  <2>2. Broken(rules, flaw) = {}
    BY <1>1 DEF EnvelopeBroken
  <2> HIDE DEF rules
  <2>3. rules.E15 /\ rules.E16 /\ rules.E17
    BY <2>1, <2>2 DEF Broken
  <2>4. QED
    BY <2>3 DEF EnvelopeHolds, rules
<1>2. d.verifier = e.verifier /\ d.endorsed = e.endorsed
  <2>1. d.reportData = Ladder(d.verifier, d.endorsed)
    BY <1>1
  <2>2. e.reportData = Ladder(e.verifier, e.endorsed)
    BY <1>1
  <2>3. Ladder(d.verifier, d.endorsed) = Ladder(e.verifier, e.endorsed)
    BY <2>1, <2>2
  <2>4. /\ Ladder(d.verifier, d.endorsed).nonce = d.verifier
        /\ Ladder(d.verifier, d.endorsed).endorsed = d.endorsed
    BY DEF Ladder
  <2>5. /\ Ladder(e.verifier, e.endorsed).nonce = e.verifier
        /\ Ladder(e.verifier, e.endorsed).endorsed = e.endorsed
    BY DEF Ladder
  <2>6. QED
    BY <2>3, <2>4, <2>5
<1>3. Sha(d.crypto) = Sha(e.crypto) /\ Sha(d.device) = Sha(e.device)
  BY <1>1, <1>2
<1>4. QED
  BY <1>2, <1>3 DEF Sha

(* A section put in place of another breaks E15 under the old hash and E17  *)
(* under its own hash with the old ladder, whatever other rule an SDK       *)
(* lacks: e7, e10 and e11 are refused without the rule they are named for.  *)
THEOREM ReplacedSectionsAreRefused ==
  ASSUME NEW crypto, NEW device, NEW section, section # crypto, NEW flaw
  PROVE  LET built == Envelope(crypto, device)
             old == [built EXCEPT !.crypto = section]
             own == [old EXCEPT !.endorsed.crypto = Sha(section)]
         IN  /\ flaw # "E15" => "E15" \in EnvelopeBroken(old, flaw)
             /\ flaw # "E17" => "E17" \in EnvelopeBroken(own, flaw)
<1> DEFINE built == Envelope(crypto, device)
           old == [built EXCEPT !.crypto = section]
           own == [old EXCEPT !.endorsed.crypto = Sha(section)]
<1>1. /\ built.endorsed.crypto = Sha(crypto) /\ built.nonce = OwnNonce
      /\ built.verifier = OwnNonce
      /\ built.reportData = Ladder(OwnNonce, built.endorsed)
  BY DEF Envelope
<1>2. Sha(section) # Sha(crypto)
  BY DEF Sha
<1>3. old.endorsed = built.endorsed /\ old.crypto = section
  BY DEF Envelope
<1>4. /\ own.reportData = built.reportData /\ own.nonce = OwnNonce
      /\ own.verifier = OwnNonce /\ own.endorsed.crypto = Sha(section)
  BY DEF Envelope
<1> HIDE DEF built, old, own
<1>5. ~EnvelopeHolds(old, flaw).E15
  BY <1>1, <1>2, <1>3 DEF EnvelopeHolds
<1>6. ~EnvelopeHolds(own, flaw).E17
  <2>1. built.endorsed # own.endorsed
    BY <1>1, <1>2, <1>4
  <2>2. own.reportData # Ladder(OwnNonce, own.endorsed)
    BY <1>1, <1>4, <2>1, LadderIs
  <2>3. QED
    BY <1>4, <2>2 DEF EnvelopeHolds
<1>7. flaw # "E15" => "E15" \in EnvelopeBroken(old, flaw)
  BY <1>5, EnvelopeRules DEF EnvelopeBroken, Broken
<1>8. flaw # "E17" => "E17" \in EnvelopeBroken(own, flaw)
  BY <1>6, EnvelopeRules DEF EnvelopeBroken, Broken
<1>9. QED
  BY <1>7, <1>8 DEF built, old, own

-----------------------------------------------------------------------------
(* What the suite holds and what a run of it records                        *)

\* A vector of a v3 generator as the lane admits it.
OfV3(v) ==
  /\ v.family \in V3Families
  /\ \/ v.exit = Accept /\ v.codes = {}
     \/ /\ v.exit # Accept /\ \E code \in V3Codes : v.codes = {code}
        /\ v.outputs = NoFacts

(* A rejecting fixture states no facts at all.                            *)
LEMMA NoFactsIsEmpty == DOMAIN NoFacts = {}
BY DEF NoFacts

(* What write_fixture of the v3 generators makes is a vector of the lane, *)
(* whatever the document, if its code is none or one of the taxonomy.     *)
LEMMA V3VectorIs ==
  ASSUME NEW family \in V3Families, NEW stage, NEW id, NEW doc,
         NEW code, NEW facts, NEW catches,
         code = "none" \/ (code \in V3Codes /\ facts = NoFacts)
  PROVE  OfV3(V3Vector(family, stage, id, doc, code, facts, catches))
<1> DEFINE v == V3Vector(family, stage, id, doc, code, facts, catches)
<1>1. /\ v.family = family /\ v.outputs = facts /\ v.codes = {code} \ {"none"}
      /\ v.exit = IF code = "none" THEN Accept ELSE Reject
  BY DEF V3Vector
<1>5. v.family \in V3Families
  BY <1>1
<1> HIDE DEF v
<1>2. \A c \in V3Codes : c # "none"
  BY DEF V3Codes
<1>3. CASE code = "none"
  <2>1. {code} \ {"none"} = {}
    BY <1>3
  <2>2. v.codes = {} /\ v.exit = Accept
    BY <1>1, <1>3, <2>1
  <2>3. QED
    BY <1>5, <2>2 DEF OfV3, v
<1>4. CASE code \in V3Codes /\ facts = NoFacts
  <2>0. {code} \ {"none"} = {code} /\ code # "none"
    BY <1>2, <1>4
  <2>1. v.codes = {code} /\ v.exit = Reject /\ v.outputs = NoFacts
    BY <1>1, <1>4, <2>0
  <2>2. QED
    BY <1>5, <1>4, <2>1 DEF OfV3, Accept, Reject, v
<1>6. QED
  BY <1>3, <1>4

(* The codes and the families the generators write are of the v3 suite.   *)
LEMMA V3NamesAre ==
  /\ {"ENVELOPE_REJECTED", "PROVENANCE_REJECTED", "QUOTE_REJECTED", "POLICY_REJECTED"}
       \subseteq V3Codes
  /\ {"v3-envelope", "v3-provenance", "v3-policy", "v3-sev", "v3-frozen-time",
   "v3-embedded-roots", "v3-golden", "v3-freshness", "v3-tdx", "v3-golden-tdx",
   "v3-timestamp", "v3-approval"} \subseteq V3Families
BY DEF V3Codes, V3Families

(* One lemma per generator: each of its vectors is one of the lane.       *)
LEMMA EnvelopeVectorsAre == \A v \in EnvelopeFamily : OfV3(v)
<1>1. /\ \A v, id, doc, catches : v = EnvelopeReject(id, doc, catches) => OfV3(v)
      /\ \A v, id, doc, catches : v = EnvelopeAccept(id, doc, catches) => OfV3(v)
  BY V3VectorIs, V3NamesAre DEF EnvelopeReject, EnvelopeAccept
<1>2. QED
  BY <1>1, ZenonT(60) DEF EnvelopeFamily

LEMMA ProvenanceVectorsAre == \A v \in ProvenanceFamily : OfV3(v)
<1>1. /\ \A v, id, x, y, z : v = ProvenanceReject(id, x, y, z) => OfV3(v)
      /\ \A v, id, x, y : v = RejectBundle(id, x, y) => OfV3(v)
      /\ \A v, id, x, y : v = RejectBare(id, x, y) => OfV3(v)
      /\ \A v, id, x, y : v = AcceptBundle(id, x, y) => OfV3(v)
  BY V3VectorIs, V3NamesAre
  DEF ProvenanceReject, ProvenanceVector, RejectBundle, RejectBare, AcceptBundle
<1>2. QED
  BY <1>1, ZenonT(60) DEF ProvenanceFamily

LEMMA PolicyVectorsAre == \A v \in PolicyFamily : OfV3(v)
<1>1. /\ \A v, id, x, y : v = RejectPlatform(id, x, y) => OfV3(v)
      /\ \A v, id, x, y : v = RejectArtifact(id, x, y) => OfV3(v)
      /\ \A v, id, x, y : v = AcceptArtifact(id, x, y) => OfV3(v)
  BY V3VectorIs, V3NamesAre DEF RejectPlatform, RejectArtifact, AcceptArtifact, PolicyVector
<1>2. QED
  BY <1>1, ZenonT(60) DEF PolicyFamily

LEMMA V3SevVectorsAre == \A v \in V3SevFamily \cup FrozenTimeFamily : OfV3(v)
<1>1. /\ \A v, id, x, y : v = SevReject(id, x, y) => OfV3(v)
      /\ \A v, id, x, y : v = SevAccept(id, x, y) => OfV3(v)
      /\ \A v, id, x, y : v = QuoteVector("v3-frozen-time", id, x, "none", y) => OfV3(v)
      /\ \A v, id, x, y : v = QuoteVector("v3-frozen-time", id, x, "QUOTE_REJECTED", y) => OfV3(v)
  BY V3VectorIs, V3NamesAre DEF SevReject, SevAccept, QuoteVector
<1>2. QED
  BY <1>1, ZenonT(60) DEF V3SevFamily, FrozenTimeFamily

LEMMA EmbeddedRootVectorsAre == \A v \in EmbeddedRootsFamily : OfV3(v)
<1>1. /\ \A v, id, x, y : v = QuoteVector("v3-embedded-roots", id, x, "QUOTE_REJECTED", y)
           => OfV3(v)
      /\ \A v, id, x, y, z :
           v = V3Vector("v3-embedded-roots", z, id, x, "PROVENANCE_REJECTED", NoFacts, y)
             => OfV3(v)
  BY V3VectorIs, V3NamesAre DEF QuoteVector
<1>2. QED
  BY <1>1, ZenonT(60) DEF EmbeddedRootsFamily

(* Sealing the document afterwards changes nothing the lane reads.        *)
LEMMA OnlyTheDocDiffers == \A v, w, doc : OfV3(v) /\ w = [v EXCEPT !.doc = doc] => OfV3(w)
<1>1. ASSUME NEW v, NEW w, NEW doc, OfV3(v), w = [v EXCEPT !.doc = doc]
      PROVE OfV3(w)
   <2>1. w.family = v.family /\ w.exit = v.exit /\ w.codes = v.codes /\ w.outputs = v.outputs
     BY <1>1
   <2>2. QED BY <1>1, <2>1 DEF OfV3
<1>2. QED BY <1>1

LEMMA V3TdxVectorsAre == \A v \in V3TdxFamily : OfV3(v)
<1>1. /\ \A v, id, x, y : v = TdxReject(id, x, y) => OfV3(v)
      /\ \A v, id, x, y : v = TdxAccept(id, x, y) => OfV3(v)
  BY V3VectorIs, V3NamesAre DEF TdxReject, TdxAccept, QuoteVector
<1>2. QED
  BY <1>1, ZenonT(60) DEF V3TdxFamily

LEMMA FreshnessVectorsAre == \A v \in FreshnessFamily : OfV3(v)
<1>1. /\ \A v, id, x, y : v = FreshnessReject(id, x, y) => OfV3(v)
      /\ \A v, id, x, y : v = FreshnessAccept(id, x, y) => OfV3(v)
      /\ \A v, id, x, y : v = WholeVector("v3-freshness", id, x, "ENVELOPE_REJECTED", NoFacts, y)
           => OfV3(v)
  BY V3VectorIs, V3NamesAre DEF FreshnessReject, FreshnessAccept, WholeVector
<1>2. QED
  BY <1>1, ZenonT(60) DEF FreshnessFamily, FreshnessOf

LEMMA GoldenRecipesAre == \A v \in GoldenRecipes : OfV3(v)
<1>1. /\ \A v, id, x, y : v = GoldenReject(id, x, y) => OfV3(v)
      /\ \A v, id, x, y : v = GoldenAccept(id, x, y) => OfV3(v)
      /\ \A v, id, x, y : v = KeyReject(id, x, y) => OfV3(v)
  BY V3VectorIs, V3NamesAre DEF GoldenReject, GoldenAccept, KeyReject, WholeVector
<1>2. QED
  BY <1>1, ZenonT(60) DEF GoldenRecipes

LEMMA GoldenVectorsAre == \A v \in GoldenFamily : OfV3(v)
<1>0. \A v : v \in GoldenRecipes => OfV3([v EXCEPT !.doc = Golden(@)])
  BY GoldenRecipesAre, OnlyTheDocDiffers
<1>1. /\ \A v, id, x, y : v = GoldenAccept(id, x, y) => OfV3(v)
  BY V3VectorIs, V3NamesAre DEF GoldenAccept, WholeVector
<1>2. QED
  BY <1>0, <1>1, ZenonT(60) DEF GoldenFamily

LEMMA GoldenTdxRecipesAre == \A v \in GoldenTdxRecipes : OfV3(v)
<1>1. /\ \A v, id, x, y : v = WholeVector("v3-golden-tdx", id, x, "POLICY_REJECTED", NoFacts, y)
           => OfV3(v)
      /\ \A v, id, x, y : v = WholeVector("v3-golden-tdx", id, x, "none", GoldenTdxFacts, y)
           => OfV3(v)
  BY V3VectorIs, V3NamesAre DEF WholeVector
<1>2. QED
  BY <1>1, ZenonT(60) DEF GoldenTdxRecipes

LEMMA GoldenTdxVectorsAre == \A v \in GoldenTdxFamily : OfV3(v)
  BY GoldenTdxRecipesAre, OnlyTheDocDiffers, ZenonT(60) DEF GoldenTdxFamily

LEMMA TimestampVectorsAre == \A v \in TimestampFamily : OfV3(v)
<1>1. /\ \A v, id, x, y, z : v = TimestampVector(id, x, y, "PROVENANCE_REJECTED", z) => OfV3(v)
      /\ \A v, id, x, y, z : v = TimestampVector(id, x, y, "none", z) => OfV3(v)
  BY V3VectorIs, V3NamesAre DEF TimestampVector
<1>2. QED
  BY <1>1, ZenonT(60) DEF TimestampFamily

LEMMA ApprovalVectorsAre == \A v \in ApprovalFamily : OfV3(v)
<1>1. /\ \A v, id, x, y : v = ApprovalReject(id, x, y) => OfV3(v)
      /\ \A v, id, x, y, z : v = ApprovalAccept(id, x, y, z) => OfV3(v)
  BY V3VectorIs, V3NamesAre DEF ApprovalReject, ApprovalAccept, ApprovalVector
<1>2. QED
  BY <1>1, ZenonT(60)
  DEF ApprovalFamily, SelectionVectors, StatedTimeVectors, WitnessVectors, SignatureVectors

(* Every vector of the v3 generators is one the lane admits.              *)
LEMMA V3VectorsAre == \A v \in V3Vectors : OfV3(v)
  BY EnvelopeVectorsAre, ProvenanceVectorsAre, PolicyVectorsAre, V3SevVectorsAre,
     EmbeddedRootVectorsAre, V3TdxVectorsAre, FreshnessVectorsAre, GoldenVectorsAre,
     GoldenTdxVectorsAre, TimestampVectorsAre, ApprovalVectorsAre, Zenon DEF V3Vectors

\* A vector of the first suite, by its family.
OfV1(v) ==
  v.family \in {"measurement", "hardware", "enclave-cert", "sigstore", "sev", "tdx", "full"}

(* One lemma per script of the first suite.                               *)
LEMMA MeasurementVectorsAre == \A v \in MeasurementFamily \cup HardwareFamily : OfV1(v)
<1>1. /\ \A v, id, x, y, c, d, e : v = Measured(id, x, y, c, d, e) => OfV1(v)
      /\ \A v, id, x, y, c, d, e : v = HardwareListed(id, x, y, c, d, e) => OfV1(v)
  BY DEF Measured, HardwareListed, OfV1
<1>2. QED
  BY <1>1, ZenonT(60) DEF MeasurementFamily, FingerprintVectors, SameTypeVectors,
       MultiPlatformToTdxVectors, OtherComparisonVectors, HardwareFamily,
       HardwareMatchVectors, HardwareMismatchVectors, HardwareShapeVectors

LEMMA EnclaveCertVectorsAre == \A v \in EnclaveCertFamily : OfV1(v)
<1>1. \A v, id, x, y, c, d : v = EnclaveCert(id, x, y, c, d) => OfV1(v)
  BY DEF EnclaveCert, OfV1
<1>2. QED
  BY <1>1, ZenonT(60) DEF EnclaveCertFamily, BindingVectors, DomainVectors

LEMMA SignedVectorsAre == \A v \in SignedFamily : OfV1(v)
<1>1. \A v, id, x, y, c, d, e, f : v = Signed(id, x, y, c, d, e, f) => OfV1(v)
  BY DEF Signed, SigstoreVector, OfV1
<1>2. QED
  BY <1>1, ZenonT(60) DEF SignedFamily, CertRefVectors, PayloadVectors, LogVectors,
       IssuerVectors, ExtensionVectors, StatementVectors

LEMMA SeedVectorsAre == \A seed : \A v \in SeedFamily(seed) : OfV1(v)
<1> TAKE seed
<1>1. /\ \A v, id, x, y, c, d : v = Varied(id, x, y, c, d) => OfV1(v)
      /\ \A v, x : v = Relocated(x) => OfV1(v)
  <2>1. \A v, id, x, y, c, d : v = Varied(id, x, y, c, d) => OfV1(v)
    BY DEF Varied, SigstoreVector, OfV1
  <2>2. ASSUME NEW x PROVE Relocated(x).family = "sigstore"
    BY DEF Relocated, Varied, SigstoreVector
  <2>3. QED
    BY <2>1, <2>2 DEF OfV1
<1>2. \A v \in IdentityPolicyVectors(seed) : OfV1(v)
  BY <1>1, ZenonT(60) DEF IdentityPolicyVectors
<1>3. \A v \in StatementPolicyVectors(seed) : OfV1(v)
  BY <1>1, ZenonT(60) DEF StatementPolicyVectors
<1>4. \A v \in TrustRootVectors(seed) : OfV1(v)
  BY <1>1, ZenonT(60) DEF TrustRootVectors
<1>5. \A v \in BundleShapeVectors(seed) : OfV1(v)
  BY <1>1, ZenonT(60) DEF BundleShapeVectors
<1>6. \A v \in BundleCryptoVectors(seed) : OfV1(v)
  BY <1>1, ZenonT(60) DEF BundleCryptoVectors
<1>7. \A v \in CoverageVectors(seed) : OfV1(v)
  BY <1>1, ZenonT(60) DEF CoverageVectors
<1>8. QED
  BY <1>2, <1>3, <1>4, <1>5, <1>6, <1>7 DEF SeedFamily

LEMMA FullVectorsAre == \A seed : \A v \in FullFamily(seed) : OfV1(v)
<1>1. \A v, id, x, y, c, d, e : v = FullVector(id, x, y, c, d, e) => OfV1(v)
  BY DEF FullVector, OfV1
<1>2. QED
  BY <1>1, ZenonT(60) DEF FullFamily, StandardFlowVectors, PinnedFlowVectors, TdxFlowVector

LEMMA SevVectorsAre == \A v \in SevFamily : OfV1(v)
<1>1. \A v, id, x, y, c, d, e, f : v = SevVector(id, x, y, c, d, e, f) => OfV1(v)
  BY DEF SevVector, OfV1
<1>2. /\ \A v, id, x, y, c, d : v = Injected(id, x, y, c, d) => OfV1(v)
      /\ \A v, id, x, y, c : v = Pinned(id, x, y, c) => OfV1(v)
  BY <1>1, Zenon DEF Injected, Pinned
<1>3. \A v, id, x, y, c : v = Phase5(id, x, y, c) => OfV1(v)
  BY <1>2, Zenon DEF Phase5
<1>4. \A v, id, x, y, c : v = Phase6(id, x, y, c) => OfV1(v)
  BY <1>3, Zenon DEF Phase6
<1>5. \A v \in HappySevVectors : OfV1(v)
  BY <1>1, <1>2, <1>3, <1>4, ZenonT(30) DEF HappySevVectors
<1>6. \A v \in TamperedReportVectors : OfV1(v)
  BY <1>1, <1>2, <1>3, <1>4, ZenonT(30) DEF TamperedReportVectors
<1>7. \A v \in TamperedVcekVectors : OfV1(v)
  BY <1>1, <1>2, <1>3, <1>4, ZenonT(30) DEF TamperedVcekVectors
<1>8. \A v \in PinMismatchVectors : OfV1(v)
  BY <1>1, <1>2, <1>3, <1>4, ZenonT(30) DEF PinMismatchVectors
<1>9. \A v \in MinimumAndMatchVectors : OfV1(v)
  BY <1>1, <1>2, <1>3, <1>4, ZenonT(30) DEF MinimumAndMatchVectors
<1>10. \A v \in GuestPolicyVectors : OfV1(v)
  BY <1>1, <1>2, <1>3, <1>4, ZenonT(30) DEF GuestPolicyVectors
<1>11. \A v \in SynthBaselineVector : OfV1(v)
  BY <1>1, <1>2, <1>3, <1>4, ZenonT(30) DEF SynthBaselineVector
<1>12. \A v \in VcekExtensionVectors : OfV1(v)
  BY <1>1, <1>2, <1>3, <1>4, ZenonT(30) DEF VcekExtensionVectors
<1>13. \A v \in ChainIntegrityVectors : OfV1(v)
  BY <1>1, <1>2, <1>3, <1>4, ZenonT(30) DEF ChainIntegrityVectors
<1>14. \A v \in FirmwareVectors : OfV1(v)
  BY <1>1, <1>2, <1>3, <1>4, ZenonT(30) DEF FirmwareVectors
<1>15. \A v \in PlatformVectors : OfV1(v)
  BY <1>1, <1>2, <1>3, <1>4, ZenonT(30) DEF PlatformVectors
<1>16. \A v \in SignerVectors : OfV1(v)
  BY <1>1, <1>2, <1>3, <1>4, ZenonT(30) DEF SignerVectors
<1>17. \A v \in Phase6Vectors : OfV1(v)
  BY <1>1, <1>2, <1>3, <1>4, ZenonT(30) DEF Phase6Vectors
<1>18. \A v \in Probes5 : OfV1(v)
  BY <1>1, <1>2, <1>3, <1>4, ZenonT(30) DEF Probes5
<1>19. \A v \in Probes6 : OfV1(v)
  BY <1>1, <1>2, <1>3, <1>4, ZenonT(30) DEF Probes6
<1>20. QED
  BY <1>5, <1>6, <1>7, <1>8, <1>9, <1>10, <1>11, <1>12, <1>13, <1>14, <1>15, <1>16, <1>17,
     <1>18, <1>19 DEF SevFamily

LEMMA TdxVectorsAre == \A v \in TdxFamily : OfV1(v)
<1>1. \A v, id, x, y, c, d, e : v = TdxVector(id, x, y, c, d, e) => OfV1(v)
  BY DEF TdxVector, OfV1
<1>2. \A v, id, x, y, c : v = TamperedQuote(id, x, y, c) => OfV1(v)
  BY <1>1, Zenon DEF TamperedQuote
<1>3. \A v, id, x, y, c : v = TdxPinned(id, x, y, c) => OfV1(v)
  BY <1>1, Zenon DEF TdxPinned
<1>4. \A v, id, x, y, c : v = Evaluated(id, x, y, c) => OfV1(v)
  BY <1>1, Zenon DEF Evaluated
<1>5. \A v, id, x, y, c, d : v = WithStatus(id, x, y, c, d) => OfV1(v)
  BY <1>1, Zenon DEF WithStatus
<1>6. \A v, id, x, y, c, d, e, f : v = SpecViolation(id, x, y, c, d, e, f) => OfV1(v)
  BY <1>1, Zenon DEF SpecViolation
<1>7. \A v \in QuoteFormatVectors : OfV1(v)
  BY <1>1, <1>2, <1>3, <1>4, <1>5, <1>6, ZenonT(30) DEF QuoteFormatVectors
<1>8. \A v \in PckChainVectors : OfV1(v)
  BY <1>1, <1>2, <1>3, <1>4, <1>5, <1>6, ZenonT(30) DEF PckChainVectors
<1>9. \A v \in QuoteSignatureVectors : OfV1(v)
  BY <1>1, <1>2, <1>3, <1>4, <1>5, <1>6, ZenonT(30) DEF QuoteSignatureVectors
<1>10. \A v \in TdxPinVectors : OfV1(v)
  BY <1>1, <1>2, <1>3, <1>4, <1>5, <1>6, ZenonT(30) DEF TdxPinVectors
<1>11. \A v \in TdxPolicyVectors : OfV1(v)
  BY <1>1, <1>2, <1>3, <1>4, <1>5, <1>6, ZenonT(30) DEF TdxPolicyVectors
<1>12. \A v \in RealCollateralVectors : OfV1(v)
  BY <1>1, <1>2, <1>3, <1>4, <1>5, <1>6, ZenonT(30) DEF RealCollateralVectors
<1>13. \A v \in CrlVectors : OfV1(v)
  BY <1>1, <1>2, <1>3, <1>4, <1>5, <1>6, ZenonT(30) DEF CrlVectors
<1>14. \A v \in QeIdentityVectors : OfV1(v)
  BY <1>1, <1>2, <1>3, <1>4, <1>5, <1>6, ZenonT(30) DEF QeIdentityVectors
<1>15. \A v \in AttestationKeyVectors : OfV1(v)
  BY <1>1, <1>2, <1>3, <1>4, <1>5, <1>6, ZenonT(30) DEF AttestationKeyVectors
<1>16. \A v \in TcbStatusVectors : OfV1(v)
  BY <1>1, <1>2, <1>3, <1>4, <1>5, <1>6, ZenonT(30) DEF TcbStatusVectors
<1>17. \A v \in PublicApiAndPolicyVectors : OfV1(v)
  BY <1>1, <1>2, <1>3, <1>4, <1>5, <1>6, ZenonT(30) DEF PublicApiAndPolicyVectors
<1>18. \A v \in TdAttributeVectors : OfV1(v)
  BY <1>1, <1>2, <1>3, <1>4, <1>5, <1>6, ZenonT(30) DEF TdAttributeVectors
<1>19. \A v \in XfamVectors : OfV1(v)
  BY <1>1, <1>2, <1>3, <1>4, <1>5, <1>6, ZenonT(30) DEF XfamVectors
<1>20. \A v \in EvaluationNumberVectors : OfV1(v)
  BY <1>1, <1>2, <1>3, <1>4, <1>5, <1>6, ZenonT(30) DEF EvaluationNumberVectors
<1>21. QED
  BY <1>7, <1>8, <1>9, <1>10, <1>11, <1>12, <1>13, <1>14, <1>15, <1>16, <1>17, <1>18, <1>19,
     <1>20 DEF TdxFamily

(* Every vector of the suite is of one kind or the other.                 *)
LEMMA SuiteVectorsAre == \A v \in Suite : OfV1(v) \/ OfV3(v)
  BY MeasurementVectorsAre, EnclaveCertVectorsAre, SignedVectorsAre, SeedVectorsAre,
     FullVectorsAre, SevVectorsAre, TdxVectorsAre, V3VectorsAre, Zenon DEF Suite, FixedVectors

(* check_fixture finds nothing wrong with a vector of the v3 generators.  *)
LEMMA V3VectorsAreValid == \A v : OfV3(v) => Lane!Valid(LaneFixtureOf(v))
<1> SUFFICES ASSUME NEW v, OfV3(v) PROVE Lane!Valid(LaneFixtureOf(v))
  OBVIOUS
<1> DEFINE fx == LaneFixtureOf(v)
<1>1. /\ fx.accepted = (v.exit = Accept) /\ fx.facts = v.outputs
      /\ fx.code = IF v.codes = {} THEN Lane!NoCode ELSE CHOOSE code \in v.codes : TRUE
  BY DEF LaneFixtureOf
<1> HIDE DEF fx
<1>2. CASE v.exit = Accept /\ v.codes = {}
  <2>1. QED
   BY <1>1, <1>2 DEF Lane!Valid, fx
<1>3. CASE /\ v.exit # Accept /\ \E code \in V3Codes : v.codes = {code}
           /\ v.outputs = NoFacts
  <2>1. fx.code \in V3Codes
    BY <1>1, <1>3
  <2>2. ~fx.accepted /\ DOMAIN fx.facts = {}
    BY <1>1, <1>3, NoFactsIsEmpty
  <2>3. QED
    BY <2>1, <2>2 DEF Lane!Valid, fx
<1>4. QED
  BY <1>2, <1>3 DEF OfV3

(* The two kinds do not overlap.                                          *)
LEMMA V1IsNotV3 == \A v : OfV1(v) => v.family \in Families /\ v.family # "none" /\ ~IsV3(v)
BY DEF OfV1, IsV3, V3Families, Families

LEMMA V3IsAFamily == \A v : OfV3(v) => v.family \in Families /\ v.family # "none"
BY DEF OfV3, V3Families, Families

(* What TypeOK says of a vector holds of every one of the suite.          *)
LEMMA SuiteIsTyped ==
  \A v \in Suite : /\ v.family \in Families /\ v.family # "none"
                   /\ IsV3(v) => Lane!Valid(LaneFixtureOf(v))
BY SuiteVectorsAre, V3VectorsAreValid, V1IsNotV3, V3IsAFamily, Zenon

(* A flaw the SDK of a vector has is the vector's or a missing feature.   *)
LEMMA SdksAreTyped == \A v, s : s \in SdksFor(v) => s.flaw \in {"none"} \cup Gaps \cup v.catches
BY DEF SdksFor

(* The lane records one of the three statuses, whatever the answer.       *)
LEMMA LaneRecordsStatuses == \A v, a : LaneVerdict(v, a) \in Statuses
BY DEF LaneVerdict, Lane!Status, Statuses

\* What SDKs answer, when they do: what the two answering actions write.
Answers(a) ==
  \/ a = Idle
  \/ \E code, stage : a = Rejects(code, stage)
  \/ \E facts : a = Accepts(facts)

(* No answer of these SDKs makes the runner raise: it always has a        *)
(* verdict.                                                               *)
LEMMA NoAnswerRaises ==
  \A v, a : Answers(a) /\ a # Idle => Verdict(FixtureOf(v), a) \in Statuses
<1> SUFFICES ASSUME NEW v, NEW a, Answers(a), a # Idle
             PROVE  Verdict(FixtureOf(v), a) \in Statuses
  OBVIOUS
<1>1. a.body = "object" /\ ~RaisesOn(FixtureOf(v), a)
  <2>1. CASE \E code, stage : a = Rejects(code, stage)
    <3>1. a.exit \in {Reject, BadInput} /\ a.body = "object" /\ a.rejection = "object"
      BY <2>1 DEF Rejects, Idle, ExitFor
    <3>2. QED
      BY <3>1 DEF RaisesOn, Reject, BadInput, Accept
  <2>2. CASE \E facts : a = Accepts(facts)
    <3>1. a.exit = Accept /\ a.body = "object" /\ a.outputs = "object"
      BY <2>2 DEF Accepts, Idle
    <3>2. QED
      BY <3>1 DEF RaisesOn, Reject, Accept
  <2>3. QED
    BY <2>1, <2>2 DEF Answers
<1>2. QED
  BY <1>1 DEF Verdict, Statuses

\* Judge records a status only because an answer is one of these.
SuiteInv == TypeOK /\ Answers(answer)

(* A vector not judged yet has no status.                                 *)
LEMMA StatusesAreFinal == "pending" \notin Statuses /\ "none" \notin Statuses
BY DEF Statuses

(* Whatever SDK is put before the suite and in whatever order it checks, no  *)
(* vector is unreadable, every flaw is one of the vector or a missing        *)
(* feature, and what is recorded is a status.                                *)
THEOREM TypeCorrect == Spec => []TypeOK
<1>1. Init => SuiteInv
  <2> SUFFICES ASSUME Init PROVE SuiteInv
    OBVIOUS
  <2>1. NoVector.family = "none" /\ ~IsV3(NoVector)
    BY DEF NoVector, IsV3, V3Families
  <2>2. Faultless.flaw = "none"
    BY DEF Faultless
  <2>3. QED
    BY <2>1, <2>2 DEF Init, SuiteInv, TypeOK, Answers
<1>2. SuiteInv /\ [Next]_vars => SuiteInv'
  <2> SUFFICES ASSUME SuiteInv, [Next]_vars PROVE SuiteInv'
    OBVIOUS
  <2>1. CASE Present
    <3>1. PICK v \in Suite : \E s \in SdksFor(v) :
            vector' = v /\ sdk' = s /\ verdict' \in {"pending", "skip"} /\ answer' = answer
      BY <2>1 DEF Present
    <3>2. PICK s \in SdksFor(v) :
            vector' = v /\ sdk' = s /\ verdict' \in {"pending", "skip"} /\ answer' = answer
      BY <3>1
    <3>3. /\ v.family \in Families /\ v.family # "none"
          /\ IsV3(v) => Lane!Valid(LaneFixtureOf(v))
      BY SuiteIsTyped
    <3>4. s.flaw \in {"none"} \cup Gaps \cup v.catches
      BY SdksAreTyped
    <3>5. QED
      BY <3>2, <3>3, <3>4 DEF SuiteInv, TypeOK, Answers, Statuses
  <2>2. CASE AnswerReject
    <3>1. Answers(answer')
      BY <2>2 DEF AnswerReject, Answers
    <3>2. QED
      BY <2>2, <3>1 DEF AnswerReject, SuiteInv, TypeOK
  <2>3. CASE AnswerAccept
    <3>1. Answers(answer')
      BY <2>3 DEF AnswerAccept, Answers
    <3>2. QED
      BY <2>3, <3>1 DEF AnswerAccept, SuiteInv, TypeOK
  <2>4. CASE Judge
    <3>1. verdict' \in Statuses
      BY <2>4, LaneRecordsStatuses, NoAnswerRaises DEF Judge, SuiteInv
    <3>2. verdict # "none" /\ verdict' # "none"
      BY <2>4, <3>1, StatusesAreFinal DEF Judge
    <3>3. QED
      BY <2>4, <3>1, <3>2 DEF Judge, SuiteInv, TypeOK
  <2>5. CASE Record
    <3>1. NoVector.family = "none" /\ ~IsV3(NoVector) /\ Faultless.flaw = "none"
      BY DEF NoVector, IsV3, V3Families, Faultless
    <3>2. QED
      BY <2>5, <3>1 DEF Record, SuiteInv, TypeOK, Answers
  <2>6. CASE UNCHANGED vars
    BY <2>6 DEF vars, SuiteInv, TypeOK
  <2>7. QED
    BY <2>1, <2>2, <2>3, <2>4, <2>5, <2>6 DEF Next
<1>3. SuiteInv => TypeOK
  BY DEF SuiteInv
<1>4. QED
  BY <1>1, <1>2, <1>3, PTL DEF Spec

-----------------------------------------------------------------------------
(* Log entries a verifier takes alike                                       *)

(* Two entries no verifier can tell apart, whatever keys it trusts.         *)
EntryTwins(e, f) ==
  /\ e.log = f.log /\ e.index = f.index /\ e.time = f.time /\ e.body = f.body
  /\ e.promise = f.promise
  /\ \A doc : EntryFailures(doc, e) = EntryFailures(doc, f)

\* Two documents that are alike but for what their log entries prove.
Twins(d, e) ==
  /\ d.root = e.root /\ d.digest = e.digest /\ d.repo = e.repo /\ d.policy = e.policy
  /\ LET b == d.bundle
         c == e.bundle
     IN  /\ b.layout = c.layout /\ b.cert = c.cert /\ b.hasEnvelope = c.hasEnvelope
         /\ b.hasMaterial = c.hasMaterial /\ b.envelope = c.envelope /\ b.tsa = c.tsa
         /\ Len(b.tlogs) = Len(c.tlogs) /\ DOMAIN b.tlogs = DOMAIN c.tlogs
         /\ \A i \in DOMAIN b.tlogs : EntryTwins(b.tlogs[i], c.tlogs[i])

(* Twins are refused for the same reasons by every verifier, faultless or *)
(* not.                                                                   *)
LEMMA TwinsFailAlike ==
  ASSUME NEW d, NEW e, Twins(d, e), NEW flaw
  PROVE  SigstoreFailures(d, flaw) = SigstoreFailures(e, flaw)
<1> DEFINE b == d.bundle
           c == e.bundle
           I == DOMAIN b.tlogs
<1>1. /\ d.root = e.root /\ d.digest = e.digest /\ d.repo = e.repo /\ d.policy = e.policy
      /\ b.layout = c.layout /\ b.cert = c.cert /\ b.hasEnvelope = c.hasEnvelope
      /\ b.hasMaterial = c.hasMaterial /\ b.envelope = c.envelope /\ b.tsa = c.tsa
      /\ Len(b.tlogs) = Len(c.tlogs) /\ DOMAIN c.tlogs = I
  BY DEF Twins
<1>2. ASSUME NEW i \in I
      PROVE  /\ b.tlogs[i].log = c.tlogs[i].log /\ b.tlogs[i].index = c.tlogs[i].index
             /\ b.tlogs[i].time = c.tlogs[i].time /\ b.tlogs[i].body = c.tlogs[i].body
             /\ b.tlogs[i].promise = c.tlogs[i].promise
             /\ EntryFailures(d, b.tlogs[i]) = EntryFailures(d, c.tlogs[i])
  BY DEF Twins, EntryTwins
<1>3. Range(b.tlogs) = {b.tlogs[i] : i \in I} /\ Range(c.tlogs) = {c.tlogs[i] : i \in I}
  BY <1>1 DEF Range
<1>4. \A f : EntryKeys(e, f) = EntryKeys(d, f)
  BY <1>1 DEF EntryKeys
<1>5. \A f : EntryFailures(e, f) = EntryFailures(d, f)
  BY <1>4 DEF EntryFailures
<1>6. \A i \in I : EntryKeys(d, b.tlogs[i]) = EntryKeys(d, c.tlogs[i])
  BY <1>2 DEF EntryKeys
<1>7. IssuingCas(d) = IssuingCas(e) /\ ValidScts(d) = ValidScts(e)
  BY <1>1 DEF IssuingCas, ValidScts
<1>8. StatementFailures(d, flaw) = StatementFailures(e, flaw)
  <2>1. \A s : SubjectFailures(d, s, flaw) = SubjectFailures(e, s, flaw)
    BY <1>1 DEF SubjectFailures
  <2>2. d.bundle.envelope = e.bundle.envelope /\ d.policy = e.policy
    BY <1>1
  <2> DEFINE fails(ok, code) == IF ok THEN {} ELSE {code}
             inForce(p) == IF flaw = "statement types not configurable"
                           THEN [p EXCEPT !.statementTypes = Unrestricted]
                           ELSE IF flaw = "payload type not configurable"
                           THEN [p EXCEPT !.payloadType = InToto] ELSE p
             all(envelope, policy, unmatched) ==
               fails(~envelope.payload.extra, "BUNDLE_MALFORMED")
                 \cup fails(envelope.type = policy.payloadType, "PAYLOAD_TYPE_MISMATCH")
                 \cup fails(ListAllows(policy.statementTypes, envelope.payload.type, flaw),
                            "IN_TOTO_STATEMENT_TYPE_NOT_ALLOWED")
                 \cup fails(\/ flaw = "predicate type not pinned"
                            \/ ListAllows(policy.predicateTypes,
                                          envelope.payload.predicateType, flaw),
                            "PREDICATE_TYPE_NOT_ALLOWED")
                 \cup fails(SeesRegisters(envelope.payload, flaw),
                            "PREDICATE_MEASUREMENT_INVALID")
                 \cup unmatched
  <2>3. \A x : StatementFailures(x, flaw) =
                all(x.bundle.envelope, inForce(x.policy),
                    SubjectFailures(x, x.bundle.envelope.payload, flaw))
    BY Zenon DEF StatementFailures
  <2> HIDE DEF all, inForce
  <2>4. SubjectFailures(d, d.bundle.envelope.payload, flaw)
          = SubjectFailures(e, e.bundle.envelope.payload, flaw)
    BY <2>1, <2>2
  <2>5. QED
    BY <2>2, <2>3, <2>4
<1>9. IdentityFailures(d, flaw) = IdentityFailures(e, flaw)
  BY <1>1, Zenon DEF IdentityFailures
<1> HIDE DEF b, c, I
<1>10. UNION {EntryFailures(d, f) : f \in Range(b.tlogs)}
         = UNION {EntryFailures(e, f) : f \in Range(c.tlogs)}
  <2>1. \A i \in I : EntryFailures(d, b.tlogs[i]) = EntryFailures(e, c.tlogs[i])
    BY <1>2, <1>5
  <2>2. {EntryFailures(d, f) : f \in Range(b.tlogs)}
          = {EntryFailures(e, f) : f \in Range(c.tlogs)}
    BY <1>3, <2>1
  <2>3. QED
    BY <2>2
<1>11. ObservedTimes(d) = ObservedTimes(e)
  <2> DEFINE kept(f) == \E k \in EntryKeys(d, f) :
                          f.promise = Sig(k, [body |-> f.body, time |-> f.time,
                                              log |-> f.log, index |-> f.index])
  <2>1. ObservedTimes(d) = {f.time : f \in {g \in Range(b.tlogs) : kept(g)}} \cup b.tsa
    BY DEF ObservedTimes, b
  <2>2. ObservedTimes(e) = {f.time : f \in {g \in Range(c.tlogs) : kept(g)}} \cup c.tsa
    BY <1>4 DEF ObservedTimes, c
  <2>3. \A i \in I : kept(b.tlogs[i]) <=> kept(c.tlogs[i])
    BY <1>2, <1>6
  <2> HIDE DEF kept
  <2>4. {f.time : f \in {g \in Range(b.tlogs) : kept(g)}}
          = {b.tlogs[i].time : i \in {j \in I : kept(b.tlogs[j])}}
    BY <1>3
  <2>5. {f.time : f \in {g \in Range(c.tlogs) : kept(g)}}
          = {c.tlogs[i].time : i \in {j \in I : kept(c.tlogs[j])}}
    BY <1>3
  <2>6. {b.tlogs[i].time : i \in {j \in I : kept(b.tlogs[j])}}
          = {c.tlogs[i].time : i \in {j \in I : kept(c.tlogs[j])}}
    BY <1>2, <2>3
  <2>7. QED
    BY <1>1, <2>1, <2>2, <2>4, <2>5, <2>6
<1>12. (\E f \in Range(b.tlogs) : EntryKeys(d, f) = {})
         <=> (\E f \in Range(c.tlogs) : EntryKeys(e, f) = {})
  BY <1>3, <1>4, <1>6
<1>13. (\A f \in Range(b.tlogs) : f.body = DsseBody(b.envelope, b.cert))
         <=> (\A f \in Range(c.tlogs) : f.body = DsseBody(c.envelope, c.cert))
  BY <1>1, <1>2, <1>3
<1>14. CryptoFailures(d, flaw) = CryptoFailures(e, flaw)
  <2> DEFINE x == UNION {EntryFailures(d, f) : f \in Range(b.tlogs)}
             keyless == \E f \in Range(b.tlogs) : EntryKeys(d, f) = {}
             logged == \A f \in Range(b.tlogs) : f.body = DsseBody(b.envelope, b.cert)
             tbs == b.cert.tbs
             signed == b.envelope.sigs[1] = Sig(tbs.key, Pae(b.envelope.type, b.envelope.payload))
             fails(ok, code) == IF ok THEN {} ELSE {code}
             all(cas, scts, times, failures, unkeyed, same) ==
               fails(cas # {}, "FULCIO_CHAIN_INVALID")
                 \cup fails(cas # {} /\ scts # {}, "SCT_INSUFFICIENT")
                 \cup fails(~DuplicateLog(tbs.scts) \/ flaw = "duplicate SCTs accepted",
                            "SCT_DUPLICATE_LOG")
                 \cup failures
                 \cup fails(times # {} \/ flaw = "no observer time needed" \/ unkeyed,
                            "OBSERVER_TIMESTAMP_INSUFFICIENT")
                 \cup fails(\A t \in times : tbs.from <= t /\ t <= tbs.until,
                            "CERT_EXPIRED")
                 \cup fails(signed, "DSSE_SIGNATURE_INVALID")
                 \cup fails(/\ \A t \in times : tbs.from <= t /\ t <= tbs.until
                            /\ signed => same,
                            "REKOR_INCLUSION_INVALID")
  <2>1. CryptoFailures(d, flaw) =
          all(IssuingCas(d), ValidScts(d), ObservedTimes(d), x, keyless, logged)
    BY Zenon DEF CryptoFailures, b
  <2>2. CryptoFailures(e, flaw) =
          all(IssuingCas(e), ValidScts(e), ObservedTimes(e),
              UNION {EntryFailures(e, f) : f \in Range(c.tlogs)},
              \E f \in Range(c.tlogs) : EntryKeys(e, f) = {},
              \A f \in Range(c.tlogs) : f.body = DsseBody(c.envelope, c.cert))
    BY <1>1, Zenon DEF CryptoFailures, c
  <2> HIDE DEF all
  <2>3. QED
    BY <1>7, <1>10, <1>11, <1>12, <1>13, <2>1, <2>2
<1>15. QED
  BY <1>1, <1>8, <1>9, <1>14, Zenon DEF SigstoreFailures, b, c

(* An accepting verifier reads the same facts in them.                    *)
LEMMA TwinsReadAlike ==
  ASSUME NEW d, NEW e, Twins(d, e), NEW flaw
  PROVE  SigstoreFacts(d, flaw) = SigstoreFacts(e, flaw)
<1>1. /\ d.digest = e.digest /\ d.bundle.cert = e.bundle.cert
      /\ d.bundle.envelope = e.bundle.envelope /\ Len(d.bundle.tlogs) = Len(e.bundle.tlogs)
  BY DEF Twins
<1>2. QED
  BY <1>1, Zenon DEF SigstoreFacts

\* Whole-flow inputs that are alike but for what their log entries prove.
FullTwins(d, e) ==
  /\ d.mode = e.mode /\ d.signed = e.signed /\ d.sev = e.sev /\ d.tdx = e.tdx
  /\ d.pinned = e.pinned
  /\ \/ d.sigstore = NoBlock /\ e.sigstore = NoBlock
     \/ d.sigstore # NoBlock /\ e.sigstore # NoBlock /\ Twins(d.sigstore, e.sigstore)

(* Whole-flow inputs whose Sigstore blocks are twins fail at the same     *)
(* steps for the same reasons.                                            *)
LEMMA FullTwinsFailAlike ==
  ASSUME NEW d, NEW e, FullTwins(d, e), NEW flaw
  PROVE  FullFailures(d, flaw) = FullFailures(e, flaw)
<1>1. /\ d.mode = e.mode /\ d.signed = e.signed /\ d.sev = e.sev /\ d.tdx = e.tdx
      /\ d.pinned = e.pinned /\ (d.sigstore = NoBlock <=> e.sigstore = NoBlock)
  BY DEF FullTwins
<1> DEFINE signed(x) == IF x.sigstore = NoBlock THEN {}
                        ELSE {<<c, "verify-sigstore">> : c \in SigstoreFailures(x.sigstore, flaw)}
<1>2. signed(d) = signed(e)
  BY TwinsFailAlike DEF FullTwins
<1>3. AttestationFailures(d, flaw) = AttestationFailures(e, flaw)
  BY <1>1 DEF AttestationFailures
<1>4. Attested(d) = Attested(e) /\ Trusted(d) = Trusted(e)
  BY <1>1 DEF Attested, Trusted
<1>5. FlowFailures(d, flaw) = FlowFailures(e, flaw)
  <2> DEFINE malformed == {<<"BUNDLE_MALFORMED", "verify-full">>}
             all(mode, unsigned, bundle, none, attestation, trusted, attested) ==
               IF \/ mode = "pinned" /\ flaw = "no pinned flow"
                  \/ mode = "standard" /\ unsigned /\ flaw # "standard taken for pinned"
               THEN malformed
               ELSE IF bundle # {} THEN bundle
               ELSE IF ~none
               THEN IF flaw = "attestation block not required" THEN {} ELSE malformed
               ELSE IF attestation # {} THEN attestation
               ELSE IF trusted = NoTarget \/ flaw = "cross-check skipped" THEN {}
               ELSE {<<c, "verify-measurement">> : c \in CompareFailures(trusted, attested, flaw)}
  <2>1. \A x : FlowFailures(x, flaw) =
                 all(x.mode, x.sigstore = NoBlock, signed(x),
                     x.sev # NoBlock \/ x.tdx # NoBlock, AttestationFailures(x, flaw),
                     Trusted(x), Attested(x))
    BY Zenon DEF FlowFailures
  <2> HIDE DEF all, signed
  <2>2. QED
    BY <1>1, <1>2, <1>3, <1>4, <2>1
<1>6. QED
  BY <1>5, Zenon DEF FullFailures

\* Two vectors of the first suite that ask the same of every SDK.
SameCase(v, w) ==
  /\ v.family = w.family /\ v.stage = w.stage /\ v.id = w.id /\ v.exit = w.exit
  /\ v.codes = w.codes /\ v.caps = w.caps /\ v.outputs = w.outputs
  /\ v.catches = w.catches /\ ~IsV3(v)
  /\ v.family = "full" => v.rstage = w.rstage
  /\ \A flaw : Rejections(v, flaw) = Rejections(w, flaw) /\ Facts(v, flaw) = Facts(w, flaw)

(* Vectors of verify-sigstore that differ only in that their inputs are   *)
(* twins ask the same of every SDK.                                       *)
LEMMA SigstoreTwins ==
  ASSUME NEW v, NEW w, NEW d, NEW e, Twins(d, e),
         v.family = "sigstore", w.family = "sigstore", v.stage = w.stage, v.id = w.id,
         v.exit = w.exit, v.codes = w.codes, v.caps = w.caps, v.outputs = w.outputs,
         v.catches = w.catches, v.doc = d, w.doc = e
  PROVE  SameCase(v, w)
<1>1. v.family = "sigstore" /\ w.family = "sigstore" /\ v.stage = w.stage
  OBVIOUS
<1>2. ~IsV3(v) /\ v.family # "full"
  BY <1>1 DEF IsV3, V3Families
<1>3. ASSUME NEW x, x.family = "sigstore", NEW flaw
      PROVE  /\ Rejections(x, flaw) = {<<c, x.stage>> : c \in SigstoreFailures(x.doc, flaw)}
             /\ Facts(x, flaw) = SigstoreFacts(x.doc, flaw)
  BY <1>3 DEF Rejections, Facts, IsV3, V3Families
<1>4. ASSUME NEW flaw
      PROVE  Rejections(v, flaw) = Rejections(w, flaw) /\ Facts(v, flaw) = Facts(w, flaw)
  <2>1. /\ Rejections(v, flaw) = {<<c, v.stage>> : c \in SigstoreFailures(d, flaw)}
        /\ Rejections(w, flaw) = {<<c, v.stage>> : c \in SigstoreFailures(e, flaw)}
        /\ Facts(v, flaw) = SigstoreFacts(d, flaw) /\ Facts(w, flaw) = SigstoreFacts(e, flaw)
    BY <1>1, <1>3
  <2>2. /\ SigstoreFailures(d, flaw) = SigstoreFailures(e, flaw)
        /\ SigstoreFacts(d, flaw) = SigstoreFacts(e, flaw)
    BY TwinsFailAlike, TwinsReadAlike
  <2>3. QED
    BY <2>1, <2>2
<1>5. QED
  BY <1>1, <1>2, <1>4 DEF SameCase

(* So do vectors made of twins by write_fixture of policy_variations.py.  *)
LEMMA VariedTwins ==
  ASSUME NEW id, NEW d, NEW e, NEW codes, NEW caps, NEW catches, Twins(d, e)
  PROVE  SameCase(Varied(id, d, codes, caps, catches), Varied(id, e, codes, caps, catches))
<1> DEFINE v == Varied(id, d, codes, caps, catches)
           w == Varied(id, e, codes, caps, catches)
<1>1. /\ v.family = "sigstore" /\ w.family = "sigstore" /\ v.stage = w.stage /\ v.id = w.id
      /\ v.exit = w.exit /\ v.codes = w.codes /\ v.caps = w.caps /\ v.outputs = w.outputs
      /\ v.catches = w.catches /\ v.doc = d /\ w.doc = e
  BY DEF Varied, SigstoreVector
<1> HIDE DEF v, w
<1>2. QED
  BY <1>1, SigstoreTwins DEF v, w

(* And the one written by hand.                                           *)
LEMMA RelocatedTwins ==
  ASSUME NEW d, NEW e, Twins(d, e)
  PROVE  SameCase(Relocated(d), Relocated(e))
<1> DEFINE v == Relocated(d)
           w == Relocated(e)
<1>1. /\ v.family = "sigstore" /\ w.family = "sigstore" /\ v.stage = w.stage /\ v.id = w.id
      /\ v.exit = w.exit /\ v.codes = w.codes /\ v.caps = w.caps /\ v.outputs = w.outputs
      /\ v.catches = w.catches /\ v.doc = d /\ w.doc = e
  BY DEF Relocated, Varied, SigstoreVector
<1> HIDE DEF v, w
<1>2. QED
  BY <1>1, SigstoreTwins DEF v, w

(* So do the whole-flow vectors made of them.                             *)
LEMMA FullVectorTwins ==
  ASSUME NEW id, NEW d, NEW e, NEW code, NEW rstage, NEW caps, NEW catches, FullTwins(d, e)
  PROVE  SameCase(FullVector(id, d, code, rstage, caps, catches),
                  FullVector(id, e, code, rstage, caps, catches))
<1> DEFINE v == FullVector(id, d, code, rstage, caps, catches)
           w == FullVector(id, e, code, rstage, caps, catches)
<1>1. /\ v.family = "full" /\ w.family = "full" /\ v.stage = w.stage /\ v.id = w.id
      /\ v.exit = w.exit /\ v.codes = w.codes /\ v.caps = w.caps /\ v.outputs = w.outputs
      /\ v.catches = w.catches /\ v.doc = d /\ w.doc = e /\ v.rstage = w.rstage
  BY DEF FullVector
<1> HIDE DEF v, w
<1>2. ~IsV3(v)
  BY <1>1 DEF IsV3, V3Families
<1>3. ASSUME NEW x, x.family = "full", NEW flaw
      PROVE  Rejections(x, flaw) = FullFailures(x.doc, flaw) /\ Facts(x, flaw) = NoFacts
  BY <1>3 DEF Rejections, Facts, IsV3, V3Families
<1>4. ASSUME NEW flaw
      PROVE  Rejections(v, flaw) = Rejections(w, flaw) /\ Facts(v, flaw) = Facts(w, flaw)
  BY <1>1, <1>3, FullTwinsFailAlike
<1>5. QED
  BY <1>1, <1>2, <1>4 DEF SameCase, v, w

\* A document and its bundle, part by part.
DocOf(bundle, root, digest, repo, policy) ==
  [bundle |-> bundle, root |-> root, digest |-> digest, repo |-> repo, policy |-> policy]
BundleOf(layout, cert, hasEnvelope, hasMaterial, envelope, tlogs, tsa) ==
  [layout |-> layout, cert |-> cert, hasEnvelope |-> hasEnvelope,
   hasMaterial |-> hasMaterial, envelope |-> envelope, tlogs |-> tlogs, tsa |-> tsa]

\* Sequences of log entries that verifiers take alike.
EntriesTwin(s, t) ==
  /\ Len(s) = Len(t) /\ DOMAIN s = DOMAIN t
  /\ \A i \in DOMAIN s : EntryTwins(s[i], t[i])

(* Documents of the same parts are twins when their log entries are.      *)
LEMMA DocsTwin ==
  \A layout, cert, hasEnvelope, hasMaterial, envelope, tsa, root, digest, repo, policy, s, t :
    EntriesTwin(s, t) =>
      Twins(DocOf(BundleOf(layout, cert, hasEnvelope, hasMaterial, envelope, s, tsa),
                  root, digest, repo, policy),
            DocOf(BundleOf(layout, cert, hasEnvelope, hasMaterial, envelope, t, tsa),
                  root, digest, repo, policy))
BY DEF EntriesTwin, Twins, DocOf, BundleOf

\* Altering a part of a document is making it with that part altered.
DocAlters(b, root, digest, repo, policy) ==
  LET d == DocOf(b, root, digest, repo, policy)
      ruled(p) == DocOf(b, root, digest, repo, p)
      trusting(r) == DocOf(b, r, digest, repo, policy)
  IN  /\ \A x : [d EXCEPT !.digest = x] = DocOf(b, root, x, repo, policy)
      /\ \A x : [d EXCEPT !.repo = x] = DocOf(b, root, digest, x, policy)
      /\ \A x : [d EXCEPT !.policy.refPrefix = x] = ruled([policy EXCEPT !.refPrefix = x])
      /\ \A x : [d EXCEPT !.policy.issuer = x] = ruled([policy EXCEPT !.issuer = x])
      /\ \A x : [d EXCEPT !.policy.predicateTypes = x]
                  = ruled([policy EXCEPT !.predicateTypes = x])
      /\ \A x : [d EXCEPT !.policy.statementTypes = x]
                  = ruled([policy EXCEPT !.statementTypes = x])
      /\ \A x : [d EXCEPT !.policy.payloadType = x] = ruled([policy EXCEPT !.payloadType = x])
      /\ \A x : [d EXCEPT !.root.parses = x] = trusting([root EXCEPT !.parses = x])
      /\ \A x : [d EXCEPT !.root.tlogs = x] = trusting([root EXCEPT !.tlogs = x])
      /\ \A x : [d EXCEPT !.root.ctlogs = x] = trusting([root EXCEPT !.ctlogs = x])
      /\ \A x : [d EXCEPT !.root.cas = x] = trusting([root EXCEPT !.cas = x])

(* The alterations policy_variations.py and coverage_fixtures.py make to  *)
(* the policy, the trust root and the rest of the input, part by part.    *)
LEMMA ReplacedParts ==
  ASSUME NEW b, NEW root, NEW digest, NEW repo, NEW policy
  PROVE  DocAlters(b, root, digest, repo, policy)
BY DEF DocOf, DocAlters

\* Altering a part of its bundle is making it with that part of the bundle
\* altered.
BundleAlters(layout, cert, hasEnvelope, hasMaterial, envelope, tlogs, tsa,
             root, digest, repo, policy) ==
  LET with(l, he, hm, env, t, at) ==
        DocOf(BundleOf(l, cert, he, hm, env, t, at), root, digest, repo, policy)
      d == with(layout, hasEnvelope, hasMaterial, envelope, tlogs, tsa)
      enveloped(env) == with(layout, hasEnvelope, hasMaterial, env, tlogs, tsa)
      logged(t) == with(layout, hasEnvelope, hasMaterial, envelope, t, tsa)
  IN  /\ \A x : [d EXCEPT !.bundle.layout = x]
                  = with(x, hasEnvelope, hasMaterial, envelope, tlogs, tsa)
      /\ \A x : [d EXCEPT !.bundle.hasEnvelope = x]
                  = with(layout, x, hasMaterial, envelope, tlogs, tsa)
      /\ \A x : [d EXCEPT !.bundle.hasMaterial = x]
                  = with(layout, hasEnvelope, x, envelope, tlogs, tsa)
      /\ \A x : [d EXCEPT !.bundle.tlogs = x] = logged(x)
      /\ \A x : [d EXCEPT !.bundle.envelope.sigs = x]
                  = enveloped([envelope EXCEPT !.sigs = x])
      /\ [d EXCEPT !.bundle.envelope.sigs[1] = Flipped(@)]
           = enveloped([envelope EXCEPT !.sigs[1] = Flipped(@)])
      /\ [d EXCEPT !.bundle.tlogs[1].proof.root = <<"flipped", @>>]
           = logged([tlogs EXCEPT ![1].proof.root = <<"flipped", @>>])
      /\ [d EXCEPT !.bundle.tlogs[1].proof.hashes[1] = <<"flipped", @>>]
           = logged([tlogs EXCEPT ![1].proof.hashes[1] = <<"flipped", @>>])
      /\ [d EXCEPT !.bundle.tlogs[1].proof.checkpoint.sig = Flipped(@)]
           = logged([tlogs EXCEPT ![1].proof.checkpoint.sig = Flipped(@)])
      /\ [d EXCEPT !.bundle.tlogs[1].time = 0, !.bundle.tlogs[1].promise.key = "none",
                   !.bundle.tsa = {}]
           = with(layout, hasEnvelope, hasMaterial, envelope,
                  [tlogs EXCEPT ![1].time = 0, ![1].promise.key = "none"], {})

(* Those they make to the bundle.                                         *)
LEMMA ReplacedBundleParts ==
  ASSUME NEW layout, NEW cert, NEW hasEnvelope, NEW hasMaterial, NEW envelope, NEW tlogs,
         NEW tsa, NEW root, NEW digest, NEW repo, NEW policy
  PROVE  BundleAlters(layout, cert, hasEnvelope, hasMaterial, envelope, tlogs, tsa,
                      root, digest, repo, policy)
<1> DEFINE b == BundleOf(layout, cert, hasEnvelope, hasMaterial, envelope, tlogs, tsa)
           d == DocOf(b, root, digest, repo, policy)
           with(l, he, hm, env, t) == DocOf(BundleOf(l, cert, he, hm, env, t, tsa),
                        root, digest, repo, policy)
<1>1. \A x : [d EXCEPT !.bundle.layout = x] = with(x, hasEnvelope, hasMaterial, envelope, tlogs)
  BY DEF DocOf, BundleOf
<1>2. \A x : [d EXCEPT !.bundle.hasEnvelope = x] = with(layout, x, hasMaterial, envelope, tlogs)
  BY DEF DocOf, BundleOf
<1>3. \A x : [d EXCEPT !.bundle.hasMaterial = x] = with(layout, hasEnvelope, x, envelope, tlogs)
  BY DEF DocOf, BundleOf
<1>4. \A x : [d EXCEPT !.bundle.tlogs = x] = with(layout, hasEnvelope, hasMaterial, envelope, x)
  BY DEF DocOf, BundleOf
<1>5. \A x : [d EXCEPT !.bundle.envelope.sigs = x]
        = with(layout, hasEnvelope, hasMaterial, [envelope EXCEPT !.sigs = x], tlogs)
  BY DEF DocOf, BundleOf
<1>6. [d EXCEPT !.bundle.envelope.sigs[1] = Flipped(@)]
        = with(layout, hasEnvelope, hasMaterial, [envelope EXCEPT !.sigs[1] = Flipped(@)], tlogs)
  BY DEF DocOf, BundleOf
<1>7. [d EXCEPT !.bundle.tlogs[1].proof.root = <<"flipped", @>>]
        = with(layout, hasEnvelope, hasMaterial, envelope,
               [tlogs EXCEPT ![1].proof.root = <<"flipped", @>>])
  BY DEF DocOf, BundleOf
<1>8. [d EXCEPT !.bundle.tlogs[1].proof.hashes[1] = <<"flipped", @>>]
        = with(layout, hasEnvelope, hasMaterial, envelope,
               [tlogs EXCEPT ![1].proof.hashes[1] = <<"flipped", @>>])
  BY DEF DocOf, BundleOf
<1>9. [d EXCEPT !.bundle.tlogs[1].proof.checkpoint.sig = Flipped(@)]
        = with(layout, hasEnvelope, hasMaterial, envelope,
               [tlogs EXCEPT ![1].proof.checkpoint.sig = Flipped(@)])
  BY DEF DocOf, BundleOf
<1>10. [d EXCEPT !.bundle.tlogs[1].time = 0, !.bundle.tlogs[1].promise.key = "none",
                  !.bundle.tsa = {}]
          = DocOf(BundleOf(layout, cert, hasEnvelope, hasMaterial, envelope,
                           [tlogs EXCEPT ![1].time = 0, ![1].promise.key = "none"], {}),
                  root, digest, repo, policy)
  <2>1. \A x : [x EXCEPT !.bundle.tlogs[1].time = 0, !.bundle.tlogs[1].promise.key = "none",
                !.bundle.tsa = {}]
          = [[[x EXCEPT !.bundle.tlogs[1].time = 0]
                EXCEPT !.bundle.tlogs[1].promise.key = "none"] EXCEPT !.bundle.tsa = {}]
    OBVIOUS
  <2>2. \A x : [x EXCEPT ![1].time = 0, ![1].promise.key = "none"]
          = [[x EXCEPT ![1].time = 0] EXCEPT ![1].promise.key = "none"]
    OBVIOUS
  <2> DEFINE of(t, tsas) ==
               DocOf(BundleOf(layout, cert, hasEnvelope, hasMaterial, envelope, t, tsas),
                     root, digest, repo, policy)
  <2>3. \A t : [of(t, tsa) EXCEPT !.bundle.tlogs[1].time = 0] = of([t EXCEPT ![1].time = 0], tsa)
    BY DEF DocOf, BundleOf
  <2>4. \A t : [of(t, tsa) EXCEPT !.bundle.tlogs[1].promise.key = "none"]
          = of([t EXCEPT ![1].promise.key = "none"], tsa)
    BY DEF DocOf, BundleOf
  <2>5. \A t : [of(t, tsa) EXCEPT !.bundle.tsa = {}] = of(t, {})
    BY DEF DocOf, BundleOf
  <2>6. d = of(tlogs, tsa)
    OBVIOUS
  <2> DEFINE t1 == [tlogs EXCEPT ![1].time = 0]
             t2 == [t1 EXCEPT ![1].promise.key = "none"]
  <2> HIDE DEF of, d
  <2>7. [d EXCEPT !.bundle.tlogs[1].time = 0] = of(t1, tsa)
    BY <2>3, <2>6
  <2>8. [of(t1, tsa) EXCEPT !.bundle.tlogs[1].promise.key = "none"] = of(t2, tsa)
    BY <2>4
  <2>9. [d EXCEPT !.bundle.tlogs[1].time = 0, !.bundle.tlogs[1].promise.key = "none",
         !.bundle.tsa = {}] = of(t2, {})
    BY <2>1, <2>5, <2>7, <2>8
  <2>10. [tlogs EXCEPT ![1].time = 0, ![1].promise.key = "none"] = t2
    BY <2>2
  <2>11. QED
    BY <2>9, <2>10 DEF of
<1>11. QED
  BY <1>1, <1>2, <1>3, <1>4, <1>5, <1>6, <1>7, <1>8, <1>9, <1>10, Zenon DEF BundleAlters

\* An entry, part by part; `place` is its time, body and the like.
EntryOfParts(log, index, time, body, promise, proof) ==
  [log |-> log, index |-> index, time |-> time, body |-> body, promise |-> promise,
   proof |-> proof]
ProofOfParts(index, size, root, hashes, checkpoint) ==
  [index |-> index, size |-> size, root |-> root, hashes |-> hashes,
   checkpoint |-> checkpoint]

\* An altered part of the only entry of a log's list is that part altered.
EntryAlters(log, index, time, body, promise, at, size, root, hashes, checkpoint) ==
  LET e == EntryOfParts(log, index, time, body, promise,
                        ProofOfParts(at, size, root, hashes, checkpoint))
      proven(p) == <<EntryOfParts(log, index, time, body, promise, p)>>
  IN  /\ [<<e>> EXCEPT ![1].proof.root = <<"flipped", @>>]
           = proven(ProofOfParts(at, size, <<"flipped", root>>, hashes, checkpoint))
      /\ [<<e>> EXCEPT ![1].proof.hashes[1] = <<"flipped", @>>]
           = proven(ProofOfParts(at, size, root,
                                 [hashes EXCEPT ![1] = <<"flipped", @>>], checkpoint))
      /\ [<<e>> EXCEPT ![1].proof.checkpoint.sig = Flipped(@)]
           = proven(ProofOfParts(at, size, root, hashes,
                                 [checkpoint EXCEPT !.sig = Flipped(@)]))
      /\ [<<e>> EXCEPT ![1].time = 0, ![1].promise.key = "none"]
           = <<EntryOfParts(log, index, 0, body, [promise EXCEPT !.key = "none"],
                            ProofOfParts(at, size, root, hashes, checkpoint))>>

(* Those they make to its only log entry.                                 *)
LEMMA ReplacedEntryParts ==
  ASSUME NEW log, NEW index, NEW time, NEW body, NEW promise, NEW at, NEW size, NEW root,
         NEW hashes, NEW checkpoint
  PROVE  EntryAlters(log, index, time, body, promise, at, size, root, hashes, checkpoint)
<1> DEFINE e == EntryOfParts(log, index, time, body, promise,
                               ProofOfParts(at, size, root, hashes, checkpoint))
           proven(p) == <<EntryOfParts(log, index, time, body, promise, p)>>
<1>0. \A x, y : [<<x>> EXCEPT ![1] = y] = <<y>>
  OBVIOUS
<1>1. [<<e>> EXCEPT ![1].proof.root = <<"flipped", @>>]
                  = proven(ProofOfParts(at, size, <<"flipped", root>>, hashes, checkpoint))
  BY DEF EntryOfParts, ProofOfParts
<1>2. [<<e>> EXCEPT ![1].proof.hashes[1] = <<"flipped", @>>]
                  = proven(ProofOfParts(at, size, root,
                                        [hashes EXCEPT ![1] = <<"flipped", @>>], checkpoint))
  BY DEF EntryOfParts, ProofOfParts
<1>3. [<<e>> EXCEPT ![1].proof.checkpoint.sig = Flipped(@)]
                  = proven(ProofOfParts(at, size, root, hashes,
                                        [checkpoint EXCEPT !.sig = Flipped(@)]))
  BY DEF EntryOfParts, ProofOfParts
<1>4. [<<e>> EXCEPT ![1].time = 0, ![1].promise.key = "none"]
                  = <<EntryOfParts(log, index, 0, body, [promise EXCEPT !.key = "none"],
                                   ProofOfParts(at, size, root, hashes, checkpoint))>>
  <2> DEFINE p == ProofOfParts(at, size, root, hashes, checkpoint)
             of(t, q) == <<EntryOfParts(log, index, t, body, q, p)>>
  <2>1. \A x : [x EXCEPT ![1].time = 0, ![1].promise.key = "none"]
                 = [[x EXCEPT ![1].time = 0] EXCEPT ![1].promise.key = "none"]
    OBVIOUS
  <2>2. <<e>> = of(time, promise)
    OBVIOUS
  <2> HIDE DEF p, e
  <2>3. [of(time, promise) EXCEPT ![1].time = 0] = of(0, promise)
    BY DEF EntryOfParts
  <2>4. [of(0, promise) EXCEPT ![1].promise.key = "none"]
          = of(0, [promise EXCEPT !.key = "none"])
    BY DEF EntryOfParts
  <2>5. QED
    BY <2>1, <2>2, <2>3, <2>4 DEF p
<1>5. QED
  BY <1>1, <1>2, <1>3, <1>4 DEF EntryAlters

\* The check of an entry's path, and whether its checkpoint is of its root.
Included(e) ==
  Includes(e.proof.root, e.proof.size, e.proof.index, LeafHash(e.body), e.proof.hashes)
SameRoot(e) == e.proof.checkpoint.root = e.proof.root
SignedBy(e, signer) ==
  e.proof.checkpoint.sig = Sig(signer, [size |-> e.proof.checkpoint.size,
                                        root |-> e.proof.checkpoint.root])

(* Two entries of one log, each under a checkpoint of the same signer,    *)
(* are judged alike when the path of both holds or of neither, and        *)
(* likewise whether the checkpoint is of the root.                        *)
LEMMA EntriesJudgedAlike ==
  ASSUME NEW e, NEW f, e.log = f.log, NEW signer, SignedBy(e, signer), SignedBy(f, signer),
         Included(e) <=> Included(f), SameRoot(e) <=> SameRoot(f)
  PROVE  \A doc : EntryFailures(doc, e) = EntryFailures(doc, f)
<1> SUFFICES ASSUME NEW doc PROVE EntryFailures(doc, e) = EntryFailures(doc, f)
  OBVIOUS
<1>1. EntryKeys(doc, e) = EntryKeys(doc, f)
  BY DEF EntryKeys
<1> DEFINE signed(x) == \E k \in EntryKeys(doc, x) : SignedBy(x, k)
<1>2. ASSUME NEW x, SignedBy(x, signer) PROVE signed(x) <=> signer \in EntryKeys(doc, x)
  <2>1. \A k, y : Sig(k, y) = Sig(signer, y) => k = signer
    BY DEF Sig
  <2>2. QED
    BY <1>2, <2>1 DEF SignedBy
<1>3. signed(e) <=> signed(f)
  BY <1>1, <1>2
<1> DEFINE all(keys, sig, included, same) ==
             IF keys = {} THEN {"REKOR_KEY_NOT_TRUSTED"}
             ELSE (IF sig /\ included THEN {} ELSE {"REKOR_INCLUSION_INVALID"})
                  \cup (IF same THEN {} ELSE {"CHECKPOINT_ROOT_MISMATCH"})
<1>4. \A x : EntryFailures(doc, x) = all(EntryKeys(doc, x), signed(x), Included(x), SameRoot(x))
  BY DEF EntryFailures, SignedBy, Included, SameRoot
<1> HIDE DEF signed
<1>5. QED
  BY <1>1, <1>3, <1>4

-----------------------------------------------------------------------------
(* The production entry, wherever it sits in its log                        *)

\* The spec of the bundle of 001, but for its place in the log.
SeedSpec == Resolved(DefaultSpec)
SeedEntry(tree) ==
  RekorEntry("rekor", BodyOf(SeedSpec), SeedSpec.integrated + 1 - 1, 1 - 1, tree.size, tree.at)
SeedDoc(entries) ==
  DocOf(BundleOf("certificate", LeafOf(SeedSpec), TRUE, TRUE, EnvelopeOf(SeedSpec), entries, {}),
        BuildTrustRoot(SeedSpec), Digest, "test-repo", DefaultPolicy)

(* Where the entry sits in the log changes nothing else of the bundle or  *)
(* of its trust root.                                                     *)
LEMMA PlacedSpecIs ==
  ASSUME NEW size, NEW at
  PROVE  LET s == [SeedSpec EXCEPT !.treeSize = size, !.treeIndex = at]
         IN  /\ s.treeSize = size /\ s.treeIndex = at /\ s.numTlogs = 1
             /\ s.integrated = SeedSpec.integrated
             /\ LeafOf(s) = LeafOf(SeedSpec) /\ EnvelopeOf(s) = EnvelopeOf(SeedSpec)
             /\ BuildTrustRoot(s) = BuildTrustRoot(SeedSpec)
<1> DEFINE s == [SeedSpec EXCEPT !.treeSize = size, !.treeIndex = at]
           signer == IF DefaultSpec.signerRef = << >> THEN DefaultSpec.ref
                     ELSE DefaultSpec.signerRef
           d == [DefaultSpec EXCEPT !.signerRef = signer]
           n == IF d.numDsseSigs > 1 THEN d.numDsseSigs ELSE 1
           exts == LeafExts(d)
           statement == MaybeMutatePayload(d)
<1>1. SeedSpec = [leafFrom |-> d.leafFrom, leafUntil |-> d.leafUntil, exts |-> exts,
           numScts |-> d.numScts, sctTime |-> d.sctTime, sctStep |-> 1,
           caKeys |-> <<"fulcio root">>, dsseKey |-> "leaf",
           payloadType |-> d.payloadType, statement |-> statement,
           numDsseSigs |-> n,
           numTlogs |-> d.numTlogs, integrated |-> d.integrated,
           treeSize |-> 1, treeIndex |-> 0,
           rootFrom |-> d.rootFrom, rootUntil |-> d.rootUntil,
           ctFrom |-> d.ctFrom, rekorFrom |-> d.rekorFrom]
  BY DEF SeedSpec, Resolved
<1>2. d.numTlogs = 1
  <2> HIDE DEF signer
  <2>1. QED
    BY DEF DefaultSpec
<1> HIDE DEF n, d, exts, statement
<1>3. /\ s.treeSize = size /\ s.treeIndex = at /\ s.numTlogs = SeedSpec.numTlogs
      /\ SeedSpec.numTlogs = 1
      /\ s.integrated = SeedSpec.integrated /\ s.leafFrom = SeedSpec.leafFrom
      /\ s.leafUntil = SeedSpec.leafUntil /\ s.exts = SeedSpec.exts
      /\ s.numScts = SeedSpec.numScts /\ s.sctTime = SeedSpec.sctTime
      /\ s.sctStep = SeedSpec.sctStep /\ s.caKeys = SeedSpec.caKeys
      /\ s.dsseKey = SeedSpec.dsseKey /\ s.payloadType = SeedSpec.payloadType
      /\ s.statement = SeedSpec.statement /\ s.numDsseSigs = SeedSpec.numDsseSigs
      /\ s.rootFrom = SeedSpec.rootFrom /\ s.rootUntil = SeedSpec.rootUntil
      /\ s.ctFrom = SeedSpec.ctFrom /\ s.rekorFrom = SeedSpec.rekorFrom
  BY <1>1, <1>2
<1> HIDE DEF s
<1>4. EnvelopeOf(s) = EnvelopeOf(SeedSpec) /\ BuildTrustRoot(s) = BuildTrustRoot(SeedSpec)
  BY <1>3 DEF EnvelopeOf, BuildTrustRoot
<1>5. LeafOf(s) = LeafOf(SeedSpec)
  <2>1. \A key, serial, scts : Tbs(s, key, serial, scts) = Tbs(SeedSpec, key, serial, scts)
    BY <1>3 DEF Tbs
  <2>2. \A key, serial, scts :
          FinalLeaf(s, key, serial, scts) = FinalLeaf(SeedSpec, key, serial, scts)
    BY <2>1 DEF FinalLeaf
  <2>3. \A x : LeafOf(x) = FinalLeaf(x, x.caKeys[1], 1, [i \in 1..x.numScts |-> SctOf(x, i)])
    BY Zenon DEF LeafOf, Leaf, SctOf
  <2>4. \A i : SctOf(s, i) = SctOf(SeedSpec, i)
    BY <1>3, <2>1 DEF SctOf
  <2> DEFINE scts(x) == [i \in 1..x.numScts |-> SctOf(x, i)]
  <2>5. scts(s) = scts(SeedSpec)
    BY <1>3, <2>4
  <2>6. \A x : LeafOf(x) = FinalLeaf(x, x.caKeys[1], 1, scts(x))
    BY <2>3
  <2> HIDE DEF scts
  <2>7. s.caKeys = SeedSpec.caKeys
    BY <1>3
  <2>8. QED
    BY <2>2, <2>5, <2>6, <2>7
<1>6. QED
  BY <1>3, <1>4, <1>5 DEF s

(* The input of 001 is that of a log of one entry, but for the entry.     *)
LEMMA SeedInputIs ==
  ASSUME NEW tree
  PROVE  SeedInput(tree) = SeedDoc(<<SeedEntry(tree)>>)
<1> DEFINE s == [SeedSpec EXCEPT !.treeSize = tree.size, !.treeIndex = tree.at]
           b == BuildBundle(s)
<1>1. /\ s.treeSize = tree.size /\ s.treeIndex = tree.at /\ s.numTlogs = 1
      /\ s.integrated = SeedSpec.integrated
      /\ LeafOf(s) = LeafOf(SeedSpec) /\ EnvelopeOf(s) = EnvelopeOf(SeedSpec)
      /\ BuildTrustRoot(s) = BuildTrustRoot(SeedSpec)
  BY PlacedSpecIs
<1>2. SeedInput(tree) = DocOf(b, BuildTrustRoot(s), Digest, "test-repo", DefaultPolicy)
  BY DEF SeedInput, DocOf, SeedSpec
<1> HIDE DEF s
<1>3. b = BundleOf("certificate", LeafOf(s), TRUE, TRUE, EnvelopeOf(s),
                   [i \in 1..s.numTlogs |-> EntryOf(s, i)], {})
  BY Zenon DEF BuildBundle, Bundle, BundleOf, LeafOf, EnvelopeOf, EntryOf, BodyOf
<1>4. BodyOf(s) = BodyOf(SeedSpec)
  BY <1>1 DEF BodyOf
<1>5. EntryOf(s, 1) = SeedEntry(tree)
  BY <1>1, <1>4 DEF EntryOf, SeedEntry
<1>6. [i \in 1..s.numTlogs |-> EntryOf(s, i)] = <<SeedEntry(tree)>>
  <2> DEFINE f(i) == EntryOf(s, i)
  <2> HIDE DEF f
  <2>1. [i \in 1..1 |-> f(i)] = <<f(1)>>
    OBVIOUS
  <2>2. QED
    BY <1>1, <1>5, <2>1 DEF f
<1> HIDE DEF b
<1>7. QED
  BY <1>1, <1>2, <1>3, <1>6 DEF SeedDoc

(* The entry of 001 and what it claims of its place in the log.           *)
LEMMA SeedEntryIs ==
  ASSUME NEW tree
  PROVE  LET body == BodyOf(SeedSpec)
             time == SeedSpec.integrated + 1 - 1
             leaves == LogOf(body, tree.size, tree.at)
         IN  SeedEntry(tree) =
               EntryOfParts("rekor", 1 - 1, time, body,
                 SignedEntryTimestamp("rekor", body, time, 1 - 1),
                 ProofOfParts(tree.at, tree.size, MerkleRoot(leaves),
                              MerkleInclusionProof(leaves, tree.at),
                              Checkpoint("rekor", tree.size, MerkleRoot(leaves))))
BY Zenon DEF SeedEntry, RekorEntry, EntryOfParts, ProofOfParts, LogOf

IsTree(t) == t.size \in Nat \ {0, 1} /\ t.at \in 0..(t.size - 1)

\* The log of the seed entry: its root, the entry's path and the checkpoint.
SeedLog(t) == LogOf(BodyOf(SeedSpec), t.size, t.at)
SeedRoot(t) == MerkleRoot(SeedLog(t))
SeedPath(t) == MerkleInclusionProof(SeedLog(t), t.at)
SeedCheckpoint(t) == Checkpoint("rekor", t.size, SeedRoot(t))

(* The log it sits in: the path of the entry holds, and is not empty.     *)
LEMMA SeedLogIs ==
  ASSUME NEW t, IsTree(t)
  PROVE  /\ Len(SeedLog(t)) = t.size /\ SeedLog(t)[t.at + 1] = LeafHash(BodyOf(SeedSpec))
         /\ Includes(SeedRoot(t), t.size, t.at, LeafHash(BodyOf(SeedSpec)), SeedPath(t))
         /\ IsSeq(SeedPath(t)) /\ Len(SeedPath(t)) >= 1
         /\ IsHash(SeedRoot(t)) /\ IsHash(SeedPath(t)[1])
<1> DEFINE body == BodyOf(SeedSpec)
           size == t.size
           at == t.at
           leaves == LogOf(body, size, at)
           S == {leaves[i] : i \in 1..size}
<1>1. size \in Nat /\ size >= 2 /\ at \in 0..(size - 1)
  BY DEF IsTree
<1> HIDE DEF body, size, at
<1>2. SeedLog(t) = leaves
  BY DEF SeedLog, body, size, at
<1>3. leaves \in Seq(S) /\ Len(leaves) = size /\ leaves[at + 1] = LeafHash(body)
  BY <1>1, LogIs
<1>4. \A i \in 1..size : IsHash(leaves[i])
  BY <1>1 DEF LogOf, IsHash, LeafHash
<1> HIDE DEF S, leaves
<1>5. /\ IsHash(MerkleRoot(leaves)) /\ IsSeq(MerkleInclusionProof(leaves, at))
      /\ Len(MerkleInclusionProof(leaves, at)) >= 1
      /\ IsHash(MerkleInclusionProof(leaves, at)[1])
  BY <1>1, <1>3, <1>4, RootAndPathAreHashes
<1>6. Includes(MerkleRoot(leaves), size, at, LeafHash(body), MerkleInclusionProof(leaves, at))
  BY <1>1, <1>3, AuditPathVerifies
<1>7. QED
  BY <1>2, <1>3, <1>5, <1>6 DEF SeedRoot, SeedPath, body, size, at

(* No path leads to a flipped root (033).                                 *)
LEMMA FlippedRootExcluded ==
  ASSUME NEW t, IsTree(t)
  PROVE  ~Includes(<<"flipped", SeedRoot(t)>>, t.size, t.at, LeafHash(BodyOf(SeedSpec)),
                   SeedPath(t))
<1> DEFINE leaf == LeafHash(BodyOf(SeedSpec))
           top == Climb(t.at, t.size - 1, leaf, SeedPath(t))[Len(SeedPath(t))]
<1>1. top.hash = SeedRoot(t)
  BY SeedLogIs DEF Includes
<1>2. <<"flipped", SeedRoot(t)>> # SeedRoot(t)
  BY SeedLogIs, FlippedDiffers
<1> HIDE DEF leaf, top
<1>3. QED
  BY <1>1, <1>2 DEF Includes, leaf, top

(* A path with a flipped hash does not lead to the root (034).            *)
LEMMA FlippedPathExcluded ==
  ASSUME NEW t, IsTree(t)
  PROVE  ~Includes(SeedRoot(t), t.size, t.at, LeafHash(BodyOf(SeedSpec)),
                   [SeedPath(t) EXCEPT ![1] = <<"flipped", @>>])
<1> DEFINE p == SeedPath(t)
           q == [p EXCEPT ![1] = <<"flipped", @>>]
           leaf == LeafHash(BodyOf(SeedSpec))
           leaves == SeedLog(t)
<1>1. PICK S : p \in Seq(S)
  BY SeedLogIs DEF IsSeq
<1>2. Len(p) \in Nat /\ Len(p) >= 1 /\ <<"flipped", p[1]>> # p[1]
  <2>1. Len(p) >= 1 /\ IsHash(p[1])
    BY SeedLogIs
  <2>2. Len(p) \in Nat
    BY <1>1
  <2> HIDE DEF p
  <2>3. QED
    BY <2>1, <2>2, FlippedDiffers
<1>3. /\ t.size \in Nat /\ t.at \in 0..(t.size - 1) /\ Len(leaves) = t.size
  BY SeedLogIs DEF IsTree
<1>4. p = MerkleInclusionProof(leaves, t.at) /\ SeedRoot(t) = MerkleRoot(leaves)
  BY DEF SeedPath, SeedRoot
<1> HIDE DEF p, leaves
<1>5. Len(q) = Len(p) /\ q[1] = <<"flipped", p[1]>>
  BY <1>1, <1>2
<1> HIDE DEF q
<1>6. ASSUME Includes(MerkleRoot(leaves), Len(leaves), t.at, leaf, q) PROVE FALSE
  <2>1. Len(q) \in Nat /\ t.at \in 0..(Len(leaves) - 1) /\ Len(leaves) \in Nat
    BY <1>2, <1>3, <1>5
  <2>2. \A j \in 1..Len(p) : p[j] = q[j]
    BY <1>2, <1>4, <1>6, <2>1, AcceptedAgrees
  <2>3. QED
    BY <1>2, <1>5, <2>2
<1>7. QED
  BY <1>3, <1>4, <1>6 DEF q, p, leaf

(* An entry is made of its parts.                                         *)
LEMMA PartsOfEntry ==
  ASSUME NEW log, NEW index, NEW time, NEW body, NEW promise, NEW proof
  PROVE  LET e == EntryOfParts(log, index, time, body, promise, proof)
         IN  /\ e.log = log /\ e.index = index /\ e.time = time /\ e.body = body
             /\ e.promise = promise /\ e.proof = proof
BY DEF EntryOfParts

(* So is its proof.                                                       *)
LEMMA PartsOfProof ==
  ASSUME NEW index, NEW size, NEW root, NEW hashes, NEW checkpoint
  PROVE  LET p == ProofOfParts(index, size, root, hashes, checkpoint)
         IN  /\ p.index = index /\ p.size = size /\ p.root = root /\ p.hashes = hashes
             /\ p.checkpoint = checkpoint
BY DEF ProofOfParts

(* A checkpoint is signed by its log; flipped, by nobody anyone trusts    *)
(* (093).                                                                 *)
LEMMA CheckpointIs ==
  ASSUME NEW size, NEW root
  PROVE  LET c == Checkpoint("rekor", size, root)
             d == [c EXCEPT !.sig = Flipped(@)]
         IN  /\ c.size = size /\ c.root = root
             /\ c.sig = Sig("rekor", [size |-> size, root |-> root])
             /\ d.size = size /\ d.root = root
             /\ d.sig = Sig("flipped", [size |-> size, root |-> root])
BY DEF Checkpoint, Sig, Flipped

\* The entry of the seed at `time`, with `promise`, claiming what `root`, `path`
\* and `checkpoint` say of its place.
Claim(t, time, promise, root, path, checkpoint) ==
  EntryOfParts("rekor", 1 - 1, time, BodyOf(SeedSpec), promise,
               ProofOfParts(t.at, t.size, root, path, checkpoint))

(* What a verifier goes by in such an entry.                              *)
LEMMA ClaimIs ==
  ASSUME NEW t, NEW time, NEW promise, NEW root, NEW path, NEW checkpoint
  PROVE  LET e == Claim(t, time, promise, root, path, checkpoint)
         IN  /\ e.log = "rekor" /\ e.index = 1 - 1 /\ e.time = time
             /\ e.body = BodyOf(SeedSpec) /\ e.promise = promise
             /\ Included(e) <=> Includes(root, t.size, t.at, LeafHash(BodyOf(SeedSpec)), path)
             /\ SameRoot(e) <=> checkpoint.root = root
             /\ \A k : SignedBy(e, k) <=>
                  checkpoint.sig = Sig(k, [size |-> checkpoint.size, root |-> checkpoint.root])
<1> DEFINE e == Claim(t, time, promise, root, path, checkpoint)
<1>1. /\ e.log = "rekor" /\ e.index = 1 - 1 /\ e.time = time
      /\ e.body = BodyOf(SeedSpec) /\ e.promise = promise
      /\ e.proof = ProofOfParts(t.at, t.size, root, path, checkpoint)
  BY PartsOfEntry DEF Claim
<1>2. /\ e.proof.index = t.at /\ e.proof.size = t.size
      /\ e.proof.root = root /\ e.proof.hashes = path /\ e.proof.checkpoint = checkpoint
  BY <1>1, PartsOfProof
<1> HIDE DEF e
<1>3. QED
  BY <1>1, <1>2 DEF Included, SameRoot, SignedBy, e

\* As built, and with the root, the path or the checkpoint's signature flipped.
BuiltClaim(t, time, promise) ==
  Claim(t, time, promise, SeedRoot(t), SeedPath(t), SeedCheckpoint(t))
OtherRoot(t, time, promise) ==
  Claim(t, time, promise, <<"flipped", SeedRoot(t)>>, SeedPath(t), SeedCheckpoint(t))
OtherPath(t, time, promise) ==
  Claim(t, time, promise, SeedRoot(t), [SeedPath(t) EXCEPT ![1] = <<"flipped", @>>],
        SeedCheckpoint(t))
OtherSigner(t, time, promise) ==
  Claim(t, time, promise, SeedRoot(t), SeedPath(t), [SeedCheckpoint(t) EXCEPT !.sig = Flipped(@)])

(* What it finds, wherever the entry sits: the path as built and under a  *)
(* flipped checkpoint holds, with a flipped root or hash it does not.     *)
LEMMA ClaimsJudged ==
  ASSUME NEW t, IsTree(t), NEW time, NEW promise
  PROVE  LET built == BuiltClaim(t, time, promise)
             rerooted == OtherRoot(t, time, promise)
             rehashed == OtherPath(t, time, promise)
             resigned == OtherSigner(t, time, promise)
         IN  /\ Included(built) /\ SameRoot(built) /\ SignedBy(built, "rekor")
             /\ ~Included(rerooted) /\ ~SameRoot(rerooted) /\ SignedBy(rerooted, "rekor")
             /\ ~Included(rehashed) /\ SameRoot(rehashed) /\ SignedBy(rehashed, "rekor")
             /\ Included(resigned) /\ SameRoot(resigned) /\ SignedBy(resigned, "flipped")
<1> DEFINE c == SeedCheckpoint(t)
           d == [c EXCEPT !.sig = Flipped(@)]
           root == SeedRoot(t)
           path == SeedPath(t)
           bent == [path EXCEPT ![1] = <<"flipped", @>>]
           leaf == LeafHash(BodyOf(SeedSpec))
<1>1. /\ c.root = root /\ c.sig = Sig("rekor", [size |-> c.size, root |-> c.root])
      /\ d.root = root /\ d.sig = Sig("flipped", [size |-> d.size, root |-> d.root])
  <2> DEFINE size == t.size
  <2>1. c = Checkpoint("rekor", size, root)
    BY DEF SeedCheckpoint
  <2> HIDE DEF c, root, size
  <2>2. /\ c.size = size /\ c.root = root
        /\ c.sig = Sig("rekor", [size |-> size, root |-> root])
        /\ d.size = size /\ d.root = root
        /\ d.sig = Sig("flipped", [size |-> size, root |-> root])
    BY <2>1, CheckpointIs
  <2> HIDE DEF d
  <2>3. QED
    BY <2>2
<1>2. /\ Includes(root, t.size, t.at, leaf, path)
      /\ ~Includes(<<"flipped", root>>, t.size, t.at, leaf, path)
      /\ ~Includes(root, t.size, t.at, leaf, bent)
  BY SeedLogIs, FlippedRootExcluded, FlippedPathExcluded
<1>3. root # <<"flipped", root>>
  BY SeedLogIs, FlippedDiffers
<1> HIDE DEF c, d, root, path, bent, leaf
<1> DEFINE all(e, r, p, check) ==
             /\ Included(e) <=> Includes(r, t.size, t.at, leaf, p)
             /\ SameRoot(e) <=> check.root = r
             /\ \A k : SignedBy(e, k) <=>
                  check.sig = Sig(k, [size |-> check.size, root |-> check.root])
<1>4. /\ all(BuiltClaim(t, time, promise), root, path, c)
      /\ all(OtherRoot(t, time, promise), <<"flipped", root>>, path, c)
      /\ all(OtherPath(t, time, promise), root, bent, c)
      /\ all(OtherSigner(t, time, promise), root, path, d)
  <2>1. \A r, p, x : all(Claim(t, time, promise, r, p, x), r, p, x)
    BY ClaimIs DEF leaf
  <2>2. /\ BuiltClaim(t, time, promise) = Claim(t, time, promise, root, path, c)
        /\ OtherRoot(t, time, promise) = Claim(t, time, promise, <<"flipped", root>>, path, c)
        /\ OtherPath(t, time, promise) = Claim(t, time, promise, root, bent, c)
        /\ OtherSigner(t, time, promise) = Claim(t, time, promise, root, path, d)
    BY Zenon DEF BuiltClaim, OtherRoot, OtherPath, OtherSigner, c, d, root, path, bent
  <2> HIDE DEF all
  <2>3. QED
    BY <2>1, <2>2
<1>5. QED
  BY <1>1, <1>2, <1>3, <1>4

(* So the entries of two places are twins, as built and altered alike.    *)
LEMMA ClaimsTwin ==
  ASSUME NEW t, IsTree(t), NEW u, IsTree(u), NEW time, NEW promise
  PROVE  /\ EntryTwins(BuiltClaim(t, time, promise), BuiltClaim(u, time, promise))
         /\ EntryTwins(OtherRoot(t, time, promise), OtherRoot(u, time, promise))
         /\ EntryTwins(OtherPath(t, time, promise), OtherPath(u, time, promise))
         /\ EntryTwins(OtherSigner(t, time, promise), OtherSigner(u, time, promise))
<1> DEFINE alike(e, f) == /\ e.log = f.log /\ e.index = f.index /\ e.time = f.time
                          /\ e.body = f.body /\ e.promise = f.promise
<1>1. \A p, q, root, path, check, root2, path2, check2 :
        alike(Claim(p, time, promise, root, path, check),
              Claim(q, time, promise, root2, path2, check2))
  <2> DEFINE is(e) == /\ e.log = "rekor" /\ e.index = 1 - 1 /\ e.time = time
                      /\ e.body = BodyOf(SeedSpec) /\ e.promise = promise
  <2>1. \A p, root, path, check : is(Claim(p, time, promise, root, path, check))
    <3> SUFFICES ASSUME NEW p, NEW root, NEW path, NEW check
                 PROVE  is(Claim(p, time, promise, root, path, check))
      OBVIOUS
    <3> DEFINE e == Claim(p, time, promise, root, path, check)
    <3>1. /\ e.log = "rekor" /\ e.index = 1 - 1 /\ e.time = time
          /\ e.body = BodyOf(SeedSpec) /\ e.promise = promise
      BY PartsOfEntry DEF Claim
    <3> HIDE DEF e
    <3>2. is(e)
      BY <3>1
    <3>3. QED
      BY <3>2 DEF e
  <2>2. \A e, f : is(e) /\ is(f) => alike(e, f)
    OBVIOUS
  <2> HIDE DEF is, alike
  <2>3. QED
    BY <2>1, <2>2
<1>2. /\ alike(BuiltClaim(t, time, promise), BuiltClaim(u, time, promise))
      /\ alike(OtherRoot(t, time, promise), OtherRoot(u, time, promise))
      /\ alike(OtherPath(t, time, promise), OtherPath(u, time, promise))
      /\ alike(OtherSigner(t, time, promise), OtherSigner(u, time, promise))
  <2> HIDE DEF alike
  <2>1. QED
    BY <1>1, Zenon DEF BuiltClaim, OtherRoot, OtherPath, OtherSigner
<1>3. ASSUME NEW e, NEW f, alike(e, f), NEW signer, SignedBy(e, signer), SignedBy(f, signer),
             Included(e) <=> Included(f), SameRoot(e) <=> SameRoot(f)
      PROVE  EntryTwins(e, f)
  BY <1>3, EntriesJudgedAlike DEF EntryTwins
<1> HIDE DEF alike
<1>4. EntryTwins(BuiltClaim(t, time, promise), BuiltClaim(u, time, promise))
  BY <1>2, <1>3, ClaimsJudged
<1>5. EntryTwins(OtherRoot(t, time, promise), OtherRoot(u, time, promise))
  BY <1>2, <1>3, ClaimsJudged
<1>6. EntryTwins(OtherPath(t, time, promise), OtherPath(u, time, promise))
  BY <1>2, <1>3, ClaimsJudged
<1>7. EntryTwins(OtherSigner(t, time, promise), OtherSigner(u, time, promise))
  BY <1>2, <1>3, ClaimsJudged
<1>8. QED
  BY <1>4, <1>5, <1>6, <1>7

(* The entry of 001 and its alterations are such entries.                 *)
LEMMA SeedEntryClaims ==
  ASSUME NEW t
  PROVE  LET time == SeedSpec.integrated + 1 - 1
             promise == SignedEntryTimestamp("rekor", BodyOf(SeedSpec), time, 1 - 1)
             entries == <<SeedEntry(t)>>
         IN  /\ entries = <<BuiltClaim(t, time, promise)>>
             /\ [entries EXCEPT ![1].proof.root = <<"flipped", @>>]
                  = <<OtherRoot(t, time, promise)>>
             /\ [entries EXCEPT ![1].proof.hashes[1] = <<"flipped", @>>]
                  = <<OtherPath(t, time, promise)>>
             /\ [entries EXCEPT ![1].proof.checkpoint.sig = Flipped(@)]
                  = <<OtherSigner(t, time, promise)>>
             /\ [entries EXCEPT ![1].time = 0, ![1].promise.key = "none"]
                  = <<BuiltClaim(t, 0, [promise EXCEPT !.key = "none"])>>
<1> DEFINE time == SeedSpec.integrated + 1 - 1
           body == BodyOf(SeedSpec)
           index == 1 - 1
           promise == SignedEntryTimestamp("rekor", body, time, index)
           root == SeedRoot(t)
           path == SeedPath(t)
           check == SeedCheckpoint(t)
           size == t.size
           at == t.at
           e == EntryOfParts("rekor", index, time, body, promise,
                             ProofOfParts(at, size, root, path, check))
<1>1. SeedEntry(t) = e
  BY SeedEntryIs, Zenon DEF SeedRoot, SeedPath, SeedCheckpoint, SeedLog
<1>2. /\ BuiltClaim(t, time, promise) = e
      /\ OtherRoot(t, time, promise) =
           EntryOfParts("rekor", index, time, body, promise,
                        ProofOfParts(at, size, <<"flipped", root>>, path, check))
      /\ OtherPath(t, time, promise) =
           EntryOfParts("rekor", index, time, body, promise,
                        ProofOfParts(at, size, root, [path EXCEPT ![1] = <<"flipped", @>>], check))
      /\ OtherSigner(t, time, promise) =
           EntryOfParts("rekor", index, time, body, promise,
                        ProofOfParts(at, size, root, path, [check EXCEPT !.sig = Flipped(@)]))
      /\ BuiltClaim(t, 0, [promise EXCEPT !.key = "none"]) =
           EntryOfParts("rekor", index, 0, body, [promise EXCEPT !.key = "none"],
                        ProofOfParts(at, size, root, path, check))
  BY Zenon DEF BuiltClaim, OtherRoot, OtherPath, OtherSigner, Claim
<1> HIDE DEF time, body, index, promise, root, path, check, size, at
<1>3. /\ [<<e>> EXCEPT ![1].proof.root = <<"flipped", @>>] = <<OtherRoot(t, time, promise)>>
      /\ [<<e>> EXCEPT ![1].proof.hashes[1] = <<"flipped", @>>] = <<OtherPath(t, time, promise)>>
      /\ [<<e>> EXCEPT ![1].proof.checkpoint.sig = Flipped(@)] = <<OtherSigner(t, time, promise)>>
      /\ [<<e>> EXCEPT ![1].time = 0, ![1].promise.key = "none"]
           = <<BuiltClaim(t, 0, [promise EXCEPT !.key = "none"])>>
  <2> DEFINE proven(p) == EntryOfParts("rekor", index, time, body, promise, p)
  <2>1. /\ [<<e>> EXCEPT ![1].proof.root = <<"flipped", @>>]
             = <<proven(ProofOfParts(at, size, <<"flipped", root>>, path, check))>>
        /\ [<<e>> EXCEPT ![1].proof.hashes[1] = <<"flipped", @>>]
             = <<proven(ProofOfParts(at, size, root, [path EXCEPT ![1] = <<"flipped", @>>],
                                     check))>>
        /\ [<<e>> EXCEPT ![1].proof.checkpoint.sig = Flipped(@)]
             = <<proven(ProofOfParts(at, size, root, path, [check EXCEPT !.sig = Flipped(@)]))>>
        /\ [<<e>> EXCEPT ![1].time = 0, ![1].promise.key = "none"]
             = <<EntryOfParts("rekor", index, 0, body, [promise EXCEPT !.key = "none"],
                              ProofOfParts(at, size, root, path, check))>>
    <3>1. EntryAlters("rekor", index, time, body, promise, at, size, root, path, check)
      BY ReplacedEntryParts
    <3>2. QED
      BY <3>1, Zenon DEF EntryAlters
  <2> HIDE DEF e
  <2>2. QED
    BY <1>2, <2>1
<1> DEFINE entries == <<SeedEntry(t)>>
<1>4. entries = <<e>> /\ entries = <<BuiltClaim(t, time, promise)>>
  BY <1>1, <1>2
<1> HIDE DEF e, entries
<1>5. /\ [entries EXCEPT ![1].proof.root = <<"flipped", @>>] = <<OtherRoot(t, time, promise)>>
      /\ [entries EXCEPT ![1].proof.hashes[1] = <<"flipped", @>>] = <<OtherPath(t, time, promise)>>
      /\ [entries EXCEPT ![1].proof.checkpoint.sig = Flipped(@)]
           = <<OtherSigner(t, time, promise)>>
      /\ [entries EXCEPT ![1].time = 0, ![1].promise.key = "none"]
           = <<BuiltClaim(t, 0, [promise EXCEPT !.key = "none"])>>
  BY <1>3, <1>4, Zenon
<1>6. QED
  BY <1>4, <1>5 DEF time, body, index, promise, entries

(* The log entries of 001, and of the vectors that alter them, are twins  *)
(* wherever the entry sits.                                               *)
LEMMA SeedEntriesTwin ==
  ASSUME NEW t, IsTree(t), NEW u, IsTree(u)
  PROVE  LET a == <<SeedEntry(t)>>
             b == <<SeedEntry(u)>>
         IN  /\ EntriesTwin(a, b)
             /\ EntriesTwin([a EXCEPT ![1].proof.root = <<"flipped", @>>],
                            [b EXCEPT ![1].proof.root = <<"flipped", @>>])
             /\ EntriesTwin([a EXCEPT ![1].proof.hashes[1] = <<"flipped", @>>],
                            [b EXCEPT ![1].proof.hashes[1] = <<"flipped", @>>])
             /\ EntriesTwin([a EXCEPT ![1].proof.checkpoint.sig = Flipped(@)],
                            [b EXCEPT ![1].proof.checkpoint.sig = Flipped(@)])
             /\ EntriesTwin([a EXCEPT ![1].time = 0, ![1].promise.key = "none"],
                            [b EXCEPT ![1].time = 0, ![1].promise.key = "none"])
<1>1. ASSUME NEW e, NEW f, EntryTwins(e, f) PROVE EntriesTwin(<<e>>, <<f>>)
  BY <1>1 DEF EntriesTwin
<1> DEFINE time == SeedSpec.integrated + 1 - 1
           promise == SignedEntryTimestamp("rekor", BodyOf(SeedSpec), time, 1 - 1)
           none == [promise EXCEPT !.key = "none"]
<1>2. /\ EntriesTwin(<<BuiltClaim(t, time, promise)>>, <<BuiltClaim(u, time, promise)>>)
      /\ EntriesTwin(<<OtherRoot(t, time, promise)>>, <<OtherRoot(u, time, promise)>>)
      /\ EntriesTwin(<<OtherPath(t, time, promise)>>, <<OtherPath(u, time, promise)>>)
      /\ EntriesTwin(<<OtherSigner(t, time, promise)>>, <<OtherSigner(u, time, promise)>>)
      /\ EntriesTwin(<<BuiltClaim(t, 0, none)>>, <<BuiltClaim(u, 0, none)>>)
  <2> HIDE DEF time, promise, none
  <2>1. QED
    BY <1>1, ClaimsTwin, Zenon
<1> DEFINE is(x, entries) ==
             /\ entries = <<BuiltClaim(x, time, promise)>>
             /\ [entries EXCEPT ![1].proof.root = <<"flipped", @>>]
                  = <<OtherRoot(x, time, promise)>>
             /\ [entries EXCEPT ![1].proof.hashes[1] = <<"flipped", @>>]
                  = <<OtherPath(x, time, promise)>>
             /\ [entries EXCEPT ![1].proof.checkpoint.sig = Flipped(@)]
                  = <<OtherSigner(x, time, promise)>>
             /\ [entries EXCEPT ![1].time = 0, ![1].promise.key = "none"]
                  = <<BuiltClaim(x, 0, none)>>
           a == <<SeedEntry(t)>>
           b == <<SeedEntry(u)>>
<1>3. is(t, a)
  BY SeedEntryClaims
<1>4. is(u, b)
  BY SeedEntryClaims
<1> HIDE DEF time, promise, none, a, b
<1>5. EntriesTwin(a, b)
  BY <1>2, <1>3, <1>4, Zenon
<1>6. EntriesTwin([a EXCEPT ![1].proof.root = <<"flipped", @>>],
                  [b EXCEPT ![1].proof.root = <<"flipped", @>>])
  BY <1>2, <1>3, <1>4, Zenon
<1>7. EntriesTwin([a EXCEPT ![1].proof.hashes[1] = <<"flipped", @>>],
                  [b EXCEPT ![1].proof.hashes[1] = <<"flipped", @>>])
  BY <1>2, <1>3, <1>4, Zenon
<1>8. EntriesTwin([a EXCEPT ![1].proof.checkpoint.sig = Flipped(@)],
                  [b EXCEPT ![1].proof.checkpoint.sig = Flipped(@)])
  BY <1>2, <1>3, <1>4, Zenon
<1>9. EntriesTwin([a EXCEPT ![1].time = 0, ![1].promise.key = "none"],
                  [b EXCEPT ![1].time = 0, ![1].promise.key = "none"])
  BY <1>2, <1>3, <1>4, Zenon
<1>10. QED
  BY <1>5, <1>6, <1>7, <1>8, <1>9, Zenon DEF a, b

-----------------------------------------------------------------------------
(* The vectors made of the production bundle                                *)

\* Two documents that stay twins whatever a vector of the seed alters.
AlteredAlike(s, w) ==
  /\ Twins(s, w) /\ s.root = w.root
  /\ \A x : Twins([s EXCEPT !.digest = x], [w EXCEPT !.digest = x])
  /\ \A x : Twins([s EXCEPT !.repo = x], [w EXCEPT !.repo = x])
  /\ \A x : Twins([s EXCEPT !.policy.refPrefix = x], [w EXCEPT !.policy.refPrefix = x])
  /\ \A x : Twins([s EXCEPT !.policy.issuer = x], [w EXCEPT !.policy.issuer = x])
  /\ \A x : Twins([s EXCEPT !.policy.predicateTypes = x], [w EXCEPT !.policy.predicateTypes = x])
  /\ \A x : Twins([s EXCEPT !.policy.statementTypes = x], [w EXCEPT !.policy.statementTypes = x])
  /\ \A x : Twins([s EXCEPT !.policy.payloadType = x], [w EXCEPT !.policy.payloadType = x])
  /\ \A x : Twins([s EXCEPT !.root.parses = x], [w EXCEPT !.root.parses = x])
  /\ \A x : Twins([s EXCEPT !.root.tlogs = x], [w EXCEPT !.root.tlogs = x])
  /\ \A x : Twins([s EXCEPT !.root.ctlogs = x], [w EXCEPT !.root.ctlogs = x])
  /\ \A x : Twins([s EXCEPT !.root.cas = x], [w EXCEPT !.root.cas = x])
  /\ \A x : Twins([s EXCEPT !.bundle.layout = x], [w EXCEPT !.bundle.layout = x])
  /\ \A x : Twins([s EXCEPT !.bundle.hasEnvelope = x], [w EXCEPT !.bundle.hasEnvelope = x])
  /\ \A x : Twins([s EXCEPT !.bundle.hasMaterial = x], [w EXCEPT !.bundle.hasMaterial = x])
  /\ \A x : Twins([s EXCEPT !.bundle.envelope.sigs = x], [w EXCEPT !.bundle.envelope.sigs = x])
  /\ Twins([s EXCEPT !.bundle.tlogs = << >>], [w EXCEPT !.bundle.tlogs = << >>])
  /\ Twins([s EXCEPT !.bundle.envelope.sigs[1] = Flipped(@)],
           [w EXCEPT !.bundle.envelope.sigs[1] = Flipped(@)])
  /\ Twins([s EXCEPT !.bundle.tlogs[1].proof.root = <<"flipped", @>>],
           [w EXCEPT !.bundle.tlogs[1].proof.root = <<"flipped", @>>])
  /\ Twins([s EXCEPT !.bundle.tlogs[1].proof.hashes[1] = <<"flipped", @>>],
           [w EXCEPT !.bundle.tlogs[1].proof.hashes[1] = <<"flipped", @>>])
  /\ Twins([s EXCEPT !.bundle.tlogs[1].proof.checkpoint.sig = Flipped(@)],
           [w EXCEPT !.bundle.tlogs[1].proof.checkpoint.sig = Flipped(@)])
  /\ Twins([s EXCEPT !.bundle.tlogs[1].time = 0, !.bundle.tlogs[1].promise.key = "none",
                     !.bundle.tsa = {}],
           [w EXCEPT !.bundle.tlogs[1].time = 0, !.bundle.tlogs[1].promise.key = "none",
                     !.bundle.tsa = {}])

(* Whatever a vector alters, the inputs it makes of 001 in one place of   *)
(* one log and in another of another are twins.                           *)
LEMMA SeedsTwin ==
  ASSUME NEW t, IsTree(t), NEW u, IsTree(u)
  PROVE  AlteredAlike(SeedInput(t), SeedInput(u))
<1> DEFINE leaf == LeafOf(SeedSpec)
           env == EnvelopeOf(SeedSpec)
           root == BuildTrustRoot(SeedSpec)
           policy == DefaultPolicy
           layout == "certificate"
           repo == "test-repo"
           digest == Digest
           of(l, he, hm, e, entries, tsa, r, g, n, p) ==
             DocOf(BundleOf(l, leaf, he, hm, e, entries, tsa), r, g, n, p)
           doc(entries) == of(layout, TRUE, TRUE, env, entries, {}, root, digest, repo, policy)
           a == <<SeedEntry(t)>>
           b == <<SeedEntry(u)>>
           s == SeedInput(t)
           w == SeedInput(u)
<1>1. s = doc(a) /\ w = doc(b)
  BY SeedInputIs DEF SeedDoc
<1>2. \A l, he, hm, e, tsa, r, g, n, p, x, y :
        EntriesTwin(x, y) => Twins(of(l, he, hm, e, x, tsa, r, g, n, p),
                                   of(l, he, hm, e, y, tsa, r, g, n, p))
  BY DocsTwin
<1>3. /\ EntriesTwin(a, b) /\ EntriesTwin(<< >>, << >>)
      /\ EntriesTwin([a EXCEPT ![1].proof.root = <<"flipped", @>>],
                     [b EXCEPT ![1].proof.root = <<"flipped", @>>])
      /\ EntriesTwin([a EXCEPT ![1].proof.hashes[1] = <<"flipped", @>>],
                     [b EXCEPT ![1].proof.hashes[1] = <<"flipped", @>>])
      /\ EntriesTwin([a EXCEPT ![1].proof.checkpoint.sig = Flipped(@)],
                     [b EXCEPT ![1].proof.checkpoint.sig = Flipped(@)])
      /\ EntriesTwin([a EXCEPT ![1].time = 0, ![1].promise.key = "none"],
                     [b EXCEPT ![1].time = 0, ![1].promise.key = "none"])
  <2>1. EntriesTwin(<< >>, << >>)
    BY DEF EntriesTwin
  <2>2. QED
    BY <2>1, SeedEntriesTwin
<1>4. /\ DocAlters(BundleOf(layout, leaf, TRUE, TRUE, env, a, {}), root, digest, repo, policy)
      /\ DocAlters(BundleOf(layout, leaf, TRUE, TRUE, env, b, {}), root, digest, repo, policy)
      /\ BundleAlters(layout, leaf, TRUE, TRUE, env, a, {}, root, digest, repo, policy)
      /\ BundleAlters(layout, leaf, TRUE, TRUE, env, b, {}, root, digest, repo, policy)
  BY ReplacedParts, ReplacedBundleParts
<1> HIDE DEF leaf, env, root, policy, layout, repo, digest, a, b, s, w
<1> DEFINE ruled(x, p) == of(layout, TRUE, TRUE, env, x, {}, root, digest, repo, p)
           trusting(x, r) == of(layout, TRUE, TRUE, env, x, {}, r, digest, repo, policy)
           enveloped(x, e) == of(layout, TRUE, TRUE, e, x, {}, root, digest, repo, policy)
           c == doc(a)
           d == doc(b)
<1>6. /\ \A x : [c EXCEPT !.digest = x] = of(layout, TRUE, TRUE, env, a, {}, root, x, repo, policy)
      /\ \A x : [c EXCEPT !.repo = x] = of(layout, TRUE, TRUE, env, a, {}, root, digest, x, policy)
      /\ \A x : [c EXCEPT !.policy.refPrefix = x] = ruled(a, [policy EXCEPT !.refPrefix = x])
      /\ \A x : [c EXCEPT !.policy.issuer = x] = ruled(a, [policy EXCEPT !.issuer = x])
      /\ \A x : [c EXCEPT !.policy.predicateTypes = x]
           = ruled(a, [policy EXCEPT !.predicateTypes = x])
      /\ \A x : [c EXCEPT !.policy.statementTypes = x]
           = ruled(a, [policy EXCEPT !.statementTypes = x])
      /\ \A x : [c EXCEPT !.policy.payloadType = x] = ruled(a, [policy EXCEPT !.payloadType = x])
      /\ \A x : [c EXCEPT !.root.parses = x] = trusting(a, [root EXCEPT !.parses = x])
      /\ \A x : [c EXCEPT !.root.tlogs = x] = trusting(a, [root EXCEPT !.tlogs = x])
      /\ \A x : [c EXCEPT !.root.ctlogs = x] = trusting(a, [root EXCEPT !.ctlogs = x])
      /\ \A x : [c EXCEPT !.root.cas = x] = trusting(a, [root EXCEPT !.cas = x])
      /\ \A x : [d EXCEPT !.digest = x] = of(layout, TRUE, TRUE, env, b, {}, root, x, repo, policy)
      /\ \A x : [d EXCEPT !.repo = x] = of(layout, TRUE, TRUE, env, b, {}, root, digest, x, policy)
      /\ \A x : [d EXCEPT !.policy.refPrefix = x] = ruled(b, [policy EXCEPT !.refPrefix = x])
      /\ \A x : [d EXCEPT !.policy.issuer = x] = ruled(b, [policy EXCEPT !.issuer = x])
      /\ \A x : [d EXCEPT !.policy.predicateTypes = x]
           = ruled(b, [policy EXCEPT !.predicateTypes = x])
      /\ \A x : [d EXCEPT !.policy.statementTypes = x]
           = ruled(b, [policy EXCEPT !.statementTypes = x])
      /\ \A x : [d EXCEPT !.policy.payloadType = x] = ruled(b, [policy EXCEPT !.payloadType = x])
      /\ \A x : [d EXCEPT !.root.parses = x] = trusting(b, [root EXCEPT !.parses = x])
      /\ \A x : [d EXCEPT !.root.tlogs = x] = trusting(b, [root EXCEPT !.tlogs = x])
      /\ \A x : [d EXCEPT !.root.ctlogs = x] = trusting(b, [root EXCEPT !.ctlogs = x])
      /\ \A x : [d EXCEPT !.root.cas = x] = trusting(b, [root EXCEPT !.cas = x])
  BY <1>4, Zenon DEF DocAlters
<1>7. /\ \A x : [c EXCEPT !.bundle.layout = x]
           = of(x, TRUE, TRUE, env, a, {}, root, digest, repo, policy)
      /\ \A x : [c EXCEPT !.bundle.hasEnvelope = x]
           = of(layout, x, TRUE, env, a, {}, root, digest, repo, policy)
      /\ \A x : [c EXCEPT !.bundle.hasMaterial = x]
           = of(layout, TRUE, x, env, a, {}, root, digest, repo, policy)
      /\ \A x : [c EXCEPT !.bundle.tlogs = x] = doc(x)
      /\ \A x : [c EXCEPT !.bundle.envelope.sigs = x] = enveloped(a, [env EXCEPT !.sigs = x])
      /\ [c EXCEPT !.bundle.envelope.sigs[1] = Flipped(@)]
           = enveloped(a, [env EXCEPT !.sigs[1] = Flipped(@)])
      /\ [c EXCEPT !.bundle.tlogs[1].proof.root = <<"flipped", @>>]
           = doc([a EXCEPT ![1].proof.root = <<"flipped", @>>])
      /\ [c EXCEPT !.bundle.tlogs[1].proof.hashes[1] = <<"flipped", @>>]
           = doc([a EXCEPT ![1].proof.hashes[1] = <<"flipped", @>>])
      /\ [c EXCEPT !.bundle.tlogs[1].proof.checkpoint.sig = Flipped(@)]
           = doc([a EXCEPT ![1].proof.checkpoint.sig = Flipped(@)])
      /\ [c EXCEPT !.bundle.tlogs[1].time = 0, !.bundle.tlogs[1].promise.key = "none",
              !.bundle.tsa = {}]
           = doc([a EXCEPT ![1].time = 0, ![1].promise.key = "none"])
      /\ \A x : [d EXCEPT !.bundle.layout = x]
           = of(x, TRUE, TRUE, env, b, {}, root, digest, repo, policy)
      /\ \A x : [d EXCEPT !.bundle.hasEnvelope = x]
           = of(layout, x, TRUE, env, b, {}, root, digest, repo, policy)
      /\ \A x : [d EXCEPT !.bundle.hasMaterial = x]
           = of(layout, TRUE, x, env, b, {}, root, digest, repo, policy)
      /\ \A x : [d EXCEPT !.bundle.tlogs = x] = doc(x)
      /\ \A x : [d EXCEPT !.bundle.envelope.sigs = x] = enveloped(b, [env EXCEPT !.sigs = x])
      /\ [d EXCEPT !.bundle.envelope.sigs[1] = Flipped(@)]
           = enveloped(b, [env EXCEPT !.sigs[1] = Flipped(@)])
      /\ [d EXCEPT !.bundle.tlogs[1].proof.root = <<"flipped", @>>]
           = doc([b EXCEPT ![1].proof.root = <<"flipped", @>>])
      /\ [d EXCEPT !.bundle.tlogs[1].proof.hashes[1] = <<"flipped", @>>]
           = doc([b EXCEPT ![1].proof.hashes[1] = <<"flipped", @>>])
      /\ [d EXCEPT !.bundle.tlogs[1].proof.checkpoint.sig = Flipped(@)]
           = doc([b EXCEPT ![1].proof.checkpoint.sig = Flipped(@)])
      /\ [d EXCEPT !.bundle.tlogs[1].time = 0, !.bundle.tlogs[1].promise.key = "none",
              !.bundle.tsa = {}]
           = doc([b EXCEPT ![1].time = 0, ![1].promise.key = "none"])
  BY <1>4, Zenon DEF BundleAlters
<1>8. Twins(c, d) /\ c.root = d.root
  <2>1. Twins(c, d)
    BY <1>2, <1>3, Zenon
  <2>2. QED
    BY <2>1 DEF Twins
<1> HIDE DEF of, c, d
<1>9. /\ \A x : Twins([c EXCEPT !.digest = x], [d EXCEPT !.digest = x])
      /\ \A x : Twins([c EXCEPT !.repo = x], [d EXCEPT !.repo = x])
  <2>1. ASSUME NEW x
        PROVE  Twins([c EXCEPT !.digest = x], [d EXCEPT !.digest = x])
    <3>1. Twins(of(layout, TRUE, TRUE, env, a, {}, root, x, repo, policy),
                of(layout, TRUE, TRUE, env, b, {}, root, x, repo, policy))
      BY <1>2, <1>3, Zenon
    <3>2. /\ [c EXCEPT !.digest = x] = of(layout, TRUE, TRUE, env, a, {}, root, x, repo, policy)
          /\ [d EXCEPT !.digest = x] = of(layout, TRUE, TRUE, env, b, {}, root, x, repo, policy)
      BY <1>6
    <3>3. QED
      BY <3>1, <3>2
  <2>2. ASSUME NEW x
        PROVE  Twins([c EXCEPT !.repo = x], [d EXCEPT !.repo = x])
    <3>1. Twins(of(layout, TRUE, TRUE, env, a, {}, root, digest, x, policy),
                of(layout, TRUE, TRUE, env, b, {}, root, digest, x, policy))
      BY <1>2, <1>3, Zenon
    <3>2. /\ [c EXCEPT !.repo = x] = of(layout, TRUE, TRUE, env, a, {}, root, digest, x, policy)
          /\ [d EXCEPT !.repo = x] = of(layout, TRUE, TRUE, env, b, {}, root, digest, x, policy)
      BY <1>6
    <3>3. QED
      BY <3>1, <3>2
  <2>3. QED
    BY <2>1, <2>2
<1>10. /\ \A x : Twins([c EXCEPT !.policy.refPrefix = x], [d EXCEPT !.policy.refPrefix = x])
       /\ \A x : Twins([c EXCEPT !.policy.issuer = x], [d EXCEPT !.policy.issuer = x])
       /\ \A x : Twins([c EXCEPT !.policy.predicateTypes = x],
                       [d EXCEPT !.policy.predicateTypes = x])
       /\ \A x : Twins([c EXCEPT !.policy.statementTypes = x],
                       [d EXCEPT !.policy.statementTypes = x])
       /\ \A x : Twins([c EXCEPT !.policy.payloadType = x],
                       [d EXCEPT !.policy.payloadType = x])
  <2>1. ASSUME NEW x
        PROVE  Twins([c EXCEPT !.policy.refPrefix = x], [d EXCEPT !.policy.refPrefix = x])
    <3>1. Twins(ruled(a, [policy EXCEPT !.refPrefix = x]),
                ruled(b, [policy EXCEPT !.refPrefix = x]))
      BY <1>2, <1>3, Zenon
    <3>2. /\ [c EXCEPT !.policy.refPrefix = x] = ruled(a, [policy EXCEPT !.refPrefix = x])
          /\ [d EXCEPT !.policy.refPrefix = x] = ruled(b, [policy EXCEPT !.refPrefix = x])
      BY <1>6
    <3>3. QED
      BY <3>1, <3>2
  <2>2. ASSUME NEW x
        PROVE  Twins([c EXCEPT !.policy.issuer = x], [d EXCEPT !.policy.issuer = x])
    <3>1. Twins(ruled(a, [policy EXCEPT !.issuer = x]),
                ruled(b, [policy EXCEPT !.issuer = x]))
      BY <1>2, <1>3, Zenon
    <3>2. /\ [c EXCEPT !.policy.issuer = x] = ruled(a, [policy EXCEPT !.issuer = x])
          /\ [d EXCEPT !.policy.issuer = x] = ruled(b, [policy EXCEPT !.issuer = x])
      BY <1>6
    <3>3. QED
      BY <3>1, <3>2
  <2>3. ASSUME NEW x
        PROVE  Twins([c EXCEPT !.policy.predicateTypes = x], [d EXCEPT !.policy.predicateTypes = x])
    <3>1. Twins(ruled(a, [policy EXCEPT !.predicateTypes = x]),
                ruled(b, [policy EXCEPT !.predicateTypes = x]))
      BY <1>2, <1>3, Zenon
    <3>2. /\ [c EXCEPT !.policy.predicateTypes = x] = ruled(a, [policy EXCEPT !.predicateTypes = x])
          /\ [d EXCEPT !.policy.predicateTypes = x] = ruled(b, [policy EXCEPT !.predicateTypes = x])
      BY <1>6
    <3>3. QED
      BY <3>1, <3>2
  <2>4. ASSUME NEW x
        PROVE  Twins([c EXCEPT !.policy.statementTypes = x], [d EXCEPT !.policy.statementTypes = x])
    <3>1. Twins(ruled(a, [policy EXCEPT !.statementTypes = x]),
                ruled(b, [policy EXCEPT !.statementTypes = x]))
      BY <1>2, <1>3, Zenon
    <3>2. /\ [c EXCEPT !.policy.statementTypes = x] = ruled(a, [policy EXCEPT !.statementTypes = x])
          /\ [d EXCEPT !.policy.statementTypes = x] = ruled(b, [policy EXCEPT !.statementTypes = x])
      BY <1>6
    <3>3. QED
      BY <3>1, <3>2
  <2>5. ASSUME NEW x
        PROVE  Twins([c EXCEPT !.policy.payloadType = x], [d EXCEPT !.policy.payloadType = x])
    <3>1. Twins(ruled(a, [policy EXCEPT !.payloadType = x]),
                ruled(b, [policy EXCEPT !.payloadType = x]))
      BY <1>2, <1>3, Zenon
    <3>2. /\ [c EXCEPT !.policy.payloadType = x] = ruled(a, [policy EXCEPT !.payloadType = x])
          /\ [d EXCEPT !.policy.payloadType = x] = ruled(b, [policy EXCEPT !.payloadType = x])
      BY <1>6
    <3>3. QED
      BY <3>1, <3>2
  <2>6. QED
    BY <2>1, <2>2, <2>3, <2>4, <2>5
<1>11. /\ \A x : Twins([c EXCEPT !.root.parses = x], [d EXCEPT !.root.parses = x])
       /\ \A x : Twins([c EXCEPT !.root.tlogs = x], [d EXCEPT !.root.tlogs = x])
       /\ \A x : Twins([c EXCEPT !.root.ctlogs = x], [d EXCEPT !.root.ctlogs = x])
       /\ \A x : Twins([c EXCEPT !.root.cas = x], [d EXCEPT !.root.cas = x])
  <2>1. ASSUME NEW x
        PROVE  Twins([c EXCEPT !.root.parses = x], [d EXCEPT !.root.parses = x])
    <3>1. Twins(trusting(a, [root EXCEPT !.parses = x]),
                trusting(b, [root EXCEPT !.parses = x]))
      BY <1>2, <1>3, Zenon
    <3>2. /\ [c EXCEPT !.root.parses = x] = trusting(a, [root EXCEPT !.parses = x])
          /\ [d EXCEPT !.root.parses = x] = trusting(b, [root EXCEPT !.parses = x])
      BY <1>6
    <3>3. QED
      BY <3>1, <3>2
  <2>2. ASSUME NEW x
        PROVE  Twins([c EXCEPT !.root.tlogs = x], [d EXCEPT !.root.tlogs = x])
    <3>1. Twins(trusting(a, [root EXCEPT !.tlogs = x]),
                trusting(b, [root EXCEPT !.tlogs = x]))
      BY <1>2, <1>3, Zenon
    <3>2. /\ [c EXCEPT !.root.tlogs = x] = trusting(a, [root EXCEPT !.tlogs = x])
          /\ [d EXCEPT !.root.tlogs = x] = trusting(b, [root EXCEPT !.tlogs = x])
      BY <1>6
    <3>3. QED
      BY <3>1, <3>2
  <2>3. ASSUME NEW x
        PROVE  Twins([c EXCEPT !.root.ctlogs = x], [d EXCEPT !.root.ctlogs = x])
    <3>1. Twins(trusting(a, [root EXCEPT !.ctlogs = x]),
                trusting(b, [root EXCEPT !.ctlogs = x]))
      BY <1>2, <1>3, Zenon
    <3>2. /\ [c EXCEPT !.root.ctlogs = x] = trusting(a, [root EXCEPT !.ctlogs = x])
          /\ [d EXCEPT !.root.ctlogs = x] = trusting(b, [root EXCEPT !.ctlogs = x])
      BY <1>6
    <3>3. QED
      BY <3>1, <3>2
  <2>4. ASSUME NEW x
        PROVE  Twins([c EXCEPT !.root.cas = x], [d EXCEPT !.root.cas = x])
    <3>1. Twins(trusting(a, [root EXCEPT !.cas = x]),
                trusting(b, [root EXCEPT !.cas = x]))
      BY <1>2, <1>3, Zenon
    <3>2. /\ [c EXCEPT !.root.cas = x] = trusting(a, [root EXCEPT !.cas = x])
          /\ [d EXCEPT !.root.cas = x] = trusting(b, [root EXCEPT !.cas = x])
      BY <1>6
    <3>3. QED
      BY <3>1, <3>2
  <2>5. QED
    BY <2>1, <2>2, <2>3, <2>4
<1>12. /\ \A x : Twins([c EXCEPT !.bundle.layout = x], [d EXCEPT !.bundle.layout = x])
       /\ \A x : Twins([c EXCEPT !.bundle.hasEnvelope = x],
                       [d EXCEPT !.bundle.hasEnvelope = x])
       /\ \A x : Twins([c EXCEPT !.bundle.hasMaterial = x],
                       [d EXCEPT !.bundle.hasMaterial = x])
       /\ \A x : Twins([c EXCEPT !.bundle.envelope.sigs = x],
                       [d EXCEPT !.bundle.envelope.sigs = x])
       /\ Twins([c EXCEPT !.bundle.tlogs = << >>], [d EXCEPT !.bundle.tlogs = << >>])
       /\ Twins([c EXCEPT !.bundle.envelope.sigs[1] = Flipped(@)],
                [d EXCEPT !.bundle.envelope.sigs[1] = Flipped(@)])
  <2>1. ASSUME NEW x
        PROVE  Twins([c EXCEPT !.bundle.layout = x], [d EXCEPT !.bundle.layout = x])
    <3>1. Twins(of(x, TRUE, TRUE, env, a, {}, root, digest, repo, policy),
                of(x, TRUE, TRUE, env, b, {}, root, digest, repo, policy))
      BY <1>2, <1>3, Zenon
    <3>2. /\ [c EXCEPT !.bundle.layout = x]
               = of(x, TRUE, TRUE, env, a, {}, root, digest, repo, policy)
          /\ [d EXCEPT !.bundle.layout = x]
               = of(x, TRUE, TRUE, env, b, {}, root, digest, repo, policy)
      BY <1>7
    <3>3. QED
      BY <3>1, <3>2
  <2>2. ASSUME NEW x
        PROVE  Twins([c EXCEPT !.bundle.hasEnvelope = x], [d EXCEPT !.bundle.hasEnvelope = x])
    <3>1. Twins(of(layout, x, TRUE, env, a, {}, root, digest, repo, policy),
                of(layout, x, TRUE, env, b, {}, root, digest, repo, policy))
      BY <1>2, <1>3, Zenon
    <3>2. /\ [c EXCEPT !.bundle.hasEnvelope = x]
               = of(layout, x, TRUE, env, a, {}, root, digest, repo, policy)
          /\ [d EXCEPT !.bundle.hasEnvelope = x]
               = of(layout, x, TRUE, env, b, {}, root, digest, repo, policy)
      BY <1>7
    <3>3. QED
      BY <3>1, <3>2
  <2>3. ASSUME NEW x
        PROVE  Twins([c EXCEPT !.bundle.hasMaterial = x], [d EXCEPT !.bundle.hasMaterial = x])
    <3>1. Twins(of(layout, TRUE, x, env, a, {}, root, digest, repo, policy),
                of(layout, TRUE, x, env, b, {}, root, digest, repo, policy))
      BY <1>2, <1>3, Zenon
    <3>2. /\ [c EXCEPT !.bundle.hasMaterial = x]
               = of(layout, TRUE, x, env, a, {}, root, digest, repo, policy)
          /\ [d EXCEPT !.bundle.hasMaterial = x]
               = of(layout, TRUE, x, env, b, {}, root, digest, repo, policy)
      BY <1>7
    <3>3. QED
      BY <3>1, <3>2
  <2>4. ASSUME NEW x
        PROVE  Twins([c EXCEPT !.bundle.envelope.sigs = x], [d EXCEPT !.bundle.envelope.sigs = x])
    <3>1. Twins(enveloped(a, [env EXCEPT !.sigs = x]),
                enveloped(b, [env EXCEPT !.sigs = x]))
      BY <1>2, <1>3, Zenon
    <3>2. /\ [c EXCEPT !.bundle.envelope.sigs = x] = enveloped(a, [env EXCEPT !.sigs = x])
          /\ [d EXCEPT !.bundle.envelope.sigs = x] = enveloped(b, [env EXCEPT !.sigs = x])
      BY <1>7
    <3>3. QED
      BY <3>1, <3>2
  <2>5. Twins([c EXCEPT !.bundle.tlogs = << >>], [d EXCEPT !.bundle.tlogs = << >>])
    <3>1. Twins(doc(<< >>), doc(<< >>))
      BY <1>2, <1>3, Zenon
    <3>2. \A x : /\ [c EXCEPT !.bundle.tlogs = x] = doc(x)
                 /\ [d EXCEPT !.bundle.tlogs = x] = doc(x)
      BY <1>7
    <3> DEFINE none == << >>
    <3> HIDE DEF none
    <3>4. Twins([c EXCEPT !.bundle.tlogs = none], [d EXCEPT !.bundle.tlogs = none])
      <4>1. Twins(doc(none), doc(none))
        BY <3>1 DEF none
      <4>2. QED
        BY <3>2, <4>1
    <3>3. QED
      BY <3>4 DEF none
  <2>6. Twins([c EXCEPT !.bundle.envelope.sigs[1] = Flipped(@)],
              [d EXCEPT !.bundle.envelope.sigs[1] = Flipped(@)])
    <3> DEFINE e == [env EXCEPT !.sigs[1] = Flipped(@)]
    <3>1. Twins(enveloped(a, e), enveloped(b, e))
      BY <1>2, <1>3, Zenon
    <3>2. /\ [c EXCEPT !.bundle.envelope.sigs[1] = Flipped(@)] = enveloped(a, e)
          /\ [d EXCEPT !.bundle.envelope.sigs[1] = Flipped(@)] = enveloped(b, e)
      BY <1>7
    <3>3. QED
      BY <3>1, <3>2
  <2>7. QED
    BY <2>1, <2>2, <2>3, <2>4, <2>5, <2>6
<1>13. /\ Twins([c EXCEPT !.bundle.tlogs[1].proof.root = <<"flipped", @>>],
                [d EXCEPT !.bundle.tlogs[1].proof.root = <<"flipped", @>>])
       /\ Twins([c EXCEPT !.bundle.tlogs[1].proof.hashes[1] = <<"flipped", @>>],
                [d EXCEPT !.bundle.tlogs[1].proof.hashes[1] = <<"flipped", @>>])
       /\ Twins([c EXCEPT !.bundle.tlogs[1].proof.checkpoint.sig = Flipped(@)],
                [d EXCEPT !.bundle.tlogs[1].proof.checkpoint.sig = Flipped(@)])
       /\ Twins([c EXCEPT !.bundle.tlogs[1].time = 0, !.bundle.tlogs[1].promise.key = "none",
                          !.bundle.tsa = {}],
                [d EXCEPT !.bundle.tlogs[1].time = 0, !.bundle.tlogs[1].promise.key = "none",
                          !.bundle.tsa = {}])
  <2>1. Twins([c EXCEPT !.bundle.tlogs[1].proof.root = <<"flipped", @>>],
              [d EXCEPT !.bundle.tlogs[1].proof.root = <<"flipped", @>>])
    <3> DEFINE x == [a EXCEPT ![1].proof.root = <<"flipped", @>>]
               y == [b EXCEPT ![1].proof.root = <<"flipped", @>>]
    <3>1. Twins(doc(x), doc(y))
      BY <1>2, <1>3, Zenon
    <3>2. /\ [c EXCEPT !.bundle.tlogs[1].proof.root = <<"flipped", @>>] = doc(x)
          /\ [d EXCEPT !.bundle.tlogs[1].proof.root = <<"flipped", @>>] = doc(y)
      BY <1>7
    <3>3. QED
      BY <3>1, <3>2
  <2>2. Twins([c EXCEPT !.bundle.tlogs[1].proof.hashes[1] = <<"flipped", @>>],
              [d EXCEPT !.bundle.tlogs[1].proof.hashes[1] = <<"flipped", @>>])
    <3> DEFINE x == [a EXCEPT ![1].proof.hashes[1] = <<"flipped", @>>]
               y == [b EXCEPT ![1].proof.hashes[1] = <<"flipped", @>>]
    <3>1. Twins(doc(x), doc(y))
      BY <1>2, <1>3, Zenon
    <3>2. /\ [c EXCEPT !.bundle.tlogs[1].proof.hashes[1] = <<"flipped", @>>] = doc(x)
          /\ [d EXCEPT !.bundle.tlogs[1].proof.hashes[1] = <<"flipped", @>>] = doc(y)
      BY <1>7
    <3>3. QED
      BY <3>1, <3>2
  <2>3. Twins([c EXCEPT !.bundle.tlogs[1].proof.checkpoint.sig = Flipped(@)],
              [d EXCEPT !.bundle.tlogs[1].proof.checkpoint.sig = Flipped(@)])
    <3> DEFINE x == [a EXCEPT ![1].proof.checkpoint.sig = Flipped(@)]
               y == [b EXCEPT ![1].proof.checkpoint.sig = Flipped(@)]
    <3>1. Twins(doc(x), doc(y))
      BY <1>2, <1>3, Zenon
    <3>2. /\ [c EXCEPT !.bundle.tlogs[1].proof.checkpoint.sig = Flipped(@)] = doc(x)
          /\ [d EXCEPT !.bundle.tlogs[1].proof.checkpoint.sig = Flipped(@)] = doc(y)
      BY <1>7
    <3>3. QED
      BY <3>1, <3>2
  <2>4. Twins([c EXCEPT !.bundle.tlogs[1].time = 0, !.bundle.tlogs[1].promise.key = "none",
                             !.bundle.tsa = {}],
              [d EXCEPT !.bundle.tlogs[1].time = 0, !.bundle.tlogs[1].promise.key = "none",
                             !.bundle.tsa = {}])
    <3> DEFINE x == [a EXCEPT ![1].time = 0, ![1].promise.key = "none"]
               y == [b EXCEPT ![1].time = 0, ![1].promise.key = "none"]
    <3>1. Twins(doc(x), doc(y))
      BY <1>2, <1>3, Zenon
    <3>2. /\ [c EXCEPT !.bundle.tlogs[1].time = 0, !.bundle.tlogs[1].promise.key = "none",
                             !.bundle.tsa = {}] = doc(x)
          /\ [d EXCEPT !.bundle.tlogs[1].time = 0, !.bundle.tlogs[1].promise.key = "none",
                             !.bundle.tsa = {}] = doc(y)
      BY <1>7
    <3>3. QED
      BY <3>1, <3>2
  <2>5. QED
    BY <2>1, <2>2, <2>3, <2>4
<1>14. AlteredAlike(c, d)
  BY <1>8, <1>9, <1>10, <1>11, <1>12, <1>13 DEF AlteredAlike
<1>15. QED
  <2>1. AlteredAlike(s, w)
    BY <1>1, <1>14 DEF c, d
  <2>2. QED
    BY <2>1 DEF s, w

(* One lemma per set of vectors made of the seed: each has its like among *)
(* those made of a seed in another place.                                 *)
LEMMA IdentityVectorsTwin ==
  ASSUME NEW s, NEW w, AlteredAlike(s, w), NEW v \in IdentityPolicyVectors(s)
  PROVE  \E x \in IdentityPolicyVectors(w) : SameCase(v, x)
<1> DEFINE v010(d) ==
             Varied("010", [d EXCEPT !.policy.refPrefix = <<"refs/heads/release/">>],
                    {"WORKFLOW_REF_PREFIX_MISMATCH"}, {}, {})
           v011(d) ==
             Varied("011", [d EXCEPT !.policy.issuer = GitlabIssuer],
                    {"OIDC_ISSUER_MISMATCH"}, {}, {"issuer hard-coded"})
           v012(d) ==
             Varied("012", [d EXCEPT !.repo = "another repository"],
                    {"WORKFLOW_REPOSITORY_MISMATCH"}, {}, {})
           v050(d) ==
             Varied("050", [d EXCEPT !.policy.refPrefix = <<"refs/tags/", "v">>],
                    {}, {}, {})
<1>1. SameCase(v010(s), v010(w))
  <2>1. Twins([s EXCEPT !.policy.refPrefix = <<"refs/heads/release/">>],
              [w EXCEPT !.policy.refPrefix = <<"refs/heads/release/">>])
    BY DEF AlteredAlike
  <2>2. QED
    BY <2>1, VariedTwins
<1>2. SameCase(v011(s), v011(w))
  <2>1. Twins([s EXCEPT !.policy.issuer = GitlabIssuer],
              [w EXCEPT !.policy.issuer = GitlabIssuer])
    BY DEF AlteredAlike
  <2>2. QED
    BY <2>1, VariedTwins
<1>3. SameCase(v012(s), v012(w))
  <2>1. Twins([s EXCEPT !.repo = "another repository"],
              [w EXCEPT !.repo = "another repository"])
    BY DEF AlteredAlike
  <2>2. QED
    BY <2>1, VariedTwins
<1>4. SameCase(v050(s), v050(w))
  <2>1. Twins([s EXCEPT !.policy.refPrefix = <<"refs/tags/", "v">>],
              [w EXCEPT !.policy.refPrefix = <<"refs/tags/", "v">>])
    BY DEF AlteredAlike
  <2>2. QED
    BY <2>1, VariedTwins
<1>5. \A d : IdentityPolicyVectors(d) = {v010(d), v011(d), v012(d), v050(d)}
  BY Zenon DEF IdentityPolicyVectors
<1> HIDE DEF v010, v011, v012, v050
<1>6. QED
  BY <1>1, <1>2, <1>3, <1>4, <1>5

(* Those about the statement, its types and the rules of the policy (013  *)
(* to 019, 051, 052).                                                     *)
LEMMA StatementRuleVectorsTwin ==
  ASSUME NEW s, NEW w, AlteredAlike(s, w), NEW v \in StatementPolicyVectors(s)
  PROVE  \E x \in StatementPolicyVectors(w) : SameCase(v, x)
<1> DEFINE v013(d) ==
             Varied("013", [d EXCEPT !.policy.predicateTypes = {"other/v1"}],
                    {"PREDICATE_TYPE_NOT_ALLOWED"}, {}, {"predicate type not pinned"})
           v014(d) ==
             Varied("014", [d EXCEPT !.policy.statementTypes = {"Statement/v0.99"}],
                    {"IN_TOTO_STATEMENT_TYPE_NOT_ALLOWED"}, StatementTypesCap,
                    {"statement types not configurable"})
           v015(d) ==
             Varied("015", [d EXCEPT !.policy.payloadType = "application/vnd.something-else"],
                    {"PAYLOAD_TYPE_MISMATCH"},
                    {"sigstore.policy_fields_configurable.payload_type"},
                    {"payload type not configurable"})
           v016(d) ==
             Varied("016", [d EXCEPT !.digest = ZeroDigest],
                    {"SUBJECT_DIGEST_MISMATCH"}, {}, {})
           v017(d) ==
             Varied("017", [d EXCEPT !.digest = Upper(Digest)],
                    {}, {}, {"case of digest compared"})
           v018(d) ==
             Varied("018", [d EXCEPT !.policy.predicateTypes = Unrestricted],
                    {}, {}, {"null list allows nothing"})
           v019(d) ==
             Varied("019", [d EXCEPT !.policy.statementTypes = Unrestricted],
                    {}, StatementTypesCap, {})
           v051(d) ==
             Varied("051", [d EXCEPT !.policy.predicateTypes = {}],
                    {"PREDICATE_TYPE_NOT_ALLOWED"}, {}, {"empty list allows anything"})
           v052(d) ==
             Varied("052", [d EXCEPT !.policy.statementTypes = {}],
                    {"IN_TOTO_STATEMENT_TYPE_NOT_ALLOWED"}, StatementTypesCap,
                    {"empty list allows anything"})
<1>1. SameCase(v013(s), v013(w))
  <2>1. Twins([s EXCEPT !.policy.predicateTypes = {"other/v1"}],
              [w EXCEPT !.policy.predicateTypes = {"other/v1"}])
    BY DEF AlteredAlike
  <2>2. QED
    BY <2>1, VariedTwins
<1>2. SameCase(v014(s), v014(w))
  <2>1. Twins([s EXCEPT !.policy.statementTypes = {"Statement/v0.99"}],
              [w EXCEPT !.policy.statementTypes = {"Statement/v0.99"}])
    BY DEF AlteredAlike
  <2>2. QED
    BY <2>1, VariedTwins
<1>3. SameCase(v015(s), v015(w))
  <2>1. Twins([s EXCEPT !.policy.payloadType = "application/vnd.something-else"],
              [w EXCEPT !.policy.payloadType = "application/vnd.something-else"])
    BY DEF AlteredAlike
  <2>2. QED
    BY <2>1, VariedTwins
<1>4. SameCase(v016(s), v016(w))
  <2>1. Twins([s EXCEPT !.digest = ZeroDigest],
              [w EXCEPT !.digest = ZeroDigest])
    BY DEF AlteredAlike
  <2>2. QED
    BY <2>1, VariedTwins
<1>5. SameCase(v017(s), v017(w))
  <2>1. Twins([s EXCEPT !.digest = Upper(Digest)],
              [w EXCEPT !.digest = Upper(Digest)])
    BY DEF AlteredAlike
  <2>2. QED
    BY <2>1, VariedTwins
<1>6. SameCase(v018(s), v018(w))
  <2>1. Twins([s EXCEPT !.policy.predicateTypes = Unrestricted],
              [w EXCEPT !.policy.predicateTypes = Unrestricted])
    BY DEF AlteredAlike
  <2>2. QED
    BY <2>1, VariedTwins
<1>7. SameCase(v019(s), v019(w))
  <2>1. Twins([s EXCEPT !.policy.statementTypes = Unrestricted],
              [w EXCEPT !.policy.statementTypes = Unrestricted])
    BY DEF AlteredAlike
  <2>2. QED
    BY <2>1, VariedTwins
<1>8. SameCase(v051(s), v051(w))
  <2>1. Twins([s EXCEPT !.policy.predicateTypes = {}],
              [w EXCEPT !.policy.predicateTypes = {}])
    BY DEF AlteredAlike
  <2>2. QED
    BY <2>1, VariedTwins
<1>9. SameCase(v052(s), v052(w))
  <2>1. Twins([s EXCEPT !.policy.statementTypes = {}],
              [w EXCEPT !.policy.statementTypes = {}])
    BY DEF AlteredAlike
  <2>2. QED
    BY <2>1, VariedTwins
<1>10. \A d : StatementPolicyVectors(d)
         = {v013(d), v014(d), v015(d), v016(d), v017(d), v018(d), v019(d), v051(d), v052(d)}
  BY Zenon DEF StatementPolicyVectors
<1> HIDE DEF v013, v014, v015, v016, v017, v018, v019, v051, v052
<1>11. QED
  BY <1>1, <1>2, <1>3, <1>4, <1>5, <1>6, <1>7, <1>8, <1>9, <1>10

(* Those that take keys and authorities out of the trust root.            *)
LEMMA TrustRootVectorsTwin ==
  ASSUME NEW s, NEW w, AlteredAlike(s, w), NEW v \in TrustRootVectors(s)
  PROVE  \E x \in TrustRootVectors(w) : SameCase(v, x)
<1> DEFINE v020(d) ==
             Varied("020", [d EXCEPT !.root.parses = FALSE],
                    {"TRUST_ROOT_INVALID"}, {}, {})
           v021(d) ==
             Varied("021", [d EXCEPT !.root.tlogs = {}],
                    {"REKOR_KEY_NOT_TRUSTED", "REKOR_INCLUSION_INVALID",
                     "TLOG_COUNT_OUT_OF_RANGE"}, {}, {})
           v023(d) ==
             Varied("023", [d EXCEPT !.root.ctlogs = {}],
                    {"SCT_INSUFFICIENT", "FULCIO_CHAIN_INVALID", "BUNDLE_MALFORMED",
                     "TRUST_ROOT_INVALID"}, {}, {})
           v022(d) ==
             Varied("022", [d EXCEPT !.root.cas = {}], {"FULCIO_CHAIN_INVALID"}, {}, {})
<1>1. SameCase(v020(s), v020(w))
  <2>1. Twins([s EXCEPT !.root.parses = FALSE],
              [w EXCEPT !.root.parses = FALSE])
    BY DEF AlteredAlike
  <2>2. QED
    BY <2>1, VariedTwins
<1>2. SameCase(v021(s), v021(w))
  <2>1. Twins([s EXCEPT !.root.tlogs = {}],
              [w EXCEPT !.root.tlogs = {}])
    BY DEF AlteredAlike
  <2>2. QED
    BY <2>1, VariedTwins
<1>3. SameCase(v023(s), v023(w))
  <2>1. Twins([s EXCEPT !.root.ctlogs = {}],
              [w EXCEPT !.root.ctlogs = {}])
    BY DEF AlteredAlike
  <2>2. QED
    BY <2>1, VariedTwins
<1>4. SameCase(v022(s), v022(w))
  <2>1. Twins([s EXCEPT !.root.cas = {}],
              [w EXCEPT !.root.cas = {}])
    BY DEF AlteredAlike
  <2>2. QED
    BY <2>1, VariedTwins
<1>5. \A d : TrustRootVectors(d) = {v020(d), v021(d), v023(d), v022(d)}
  BY Zenon DEF TrustRootVectors
<1> HIDE DEF v020, v021, v023, v022
<1>6. QED
  BY <1>1, <1>2, <1>3, <1>4, <1>5

(* Those that break the shape of the bundle.                              *)
LEMMA BundleShapeVectorsTwin ==
  ASSUME NEW s, NEW w, AlteredAlike(s, w), NEW v \in BundleShapeVectors(s)
  PROVE  \E x \in BundleShapeVectors(w) : SameCase(v, x)
<1> DEFINE v030(d) ==
             Varied("030", [d EXCEPT !.bundle.hasEnvelope = FALSE],
                    {"BUNDLE_MALFORMED"}, {}, {})
           v031(d) ==
             Varied("031", [d EXCEPT !.bundle.tlogs = << >>],
                    {"TLOG_COUNT_OUT_OF_RANGE"}, {}, {})
           v035(d) ==
             Varied("035", [d EXCEPT !.bundle.envelope.sigs = << >>],
                    {"DSSE_SIGNATURE_INVALID", "BUNDLE_MALFORMED"}, {}, {})
           v036(d) ==
             Varied("036", [d EXCEPT !.bundle.hasMaterial = FALSE],
                    {"BUNDLE_MALFORMED"}, {}, {})
           v079(d) ==
             Relocated([d EXCEPT !.bundle.layout = "chain"])
<1>1. SameCase(v030(s), v030(w))
  <2>1. Twins([s EXCEPT !.bundle.hasEnvelope = FALSE],
              [w EXCEPT !.bundle.hasEnvelope = FALSE])
    BY DEF AlteredAlike
  <2>2. QED
    BY <2>1, VariedTwins
<1>2. SameCase(v031(s), v031(w))
  <2>1. Twins([s EXCEPT !.bundle.tlogs = << >>],
              [w EXCEPT !.bundle.tlogs = << >>])
    BY DEF AlteredAlike
  <2>2. QED
    BY <2>1, VariedTwins
<1>3. SameCase(v035(s), v035(w))
  <2>1. Twins([s EXCEPT !.bundle.envelope.sigs = << >>],
              [w EXCEPT !.bundle.envelope.sigs = << >>])
    BY DEF AlteredAlike
  <2>2. QED
    BY <2>1, VariedTwins
<1>4. SameCase(v036(s), v036(w))
  <2>1. Twins([s EXCEPT !.bundle.hasMaterial = FALSE],
              [w EXCEPT !.bundle.hasMaterial = FALSE])
    BY DEF AlteredAlike
  <2>2. QED
    BY <2>1, VariedTwins
<1>5. SameCase(v079(s), v079(w))
  <2>1. Twins([s EXCEPT !.bundle.layout = "chain"],
              [w EXCEPT !.bundle.layout = "chain"])
    BY DEF AlteredAlike
  <2>2. QED
    BY <2>1, RelocatedTwins
<1>6. \A d : BundleShapeVectors(d) = {v030(d), v031(d), v035(d), v036(d), v079(d)}
  BY Zenon DEF BundleShapeVectors
<1> HIDE DEF v030, v031, v035, v036, v079
<1>7. QED
  BY <1>1, <1>2, <1>3, <1>4, <1>5, <1>6

(* Those that break its signatures and its log entry.                     *)
LEMMA BundleCryptoVectorsTwin ==
  ASSUME NEW s, NEW w, AlteredAlike(s, w), NEW v \in BundleCryptoVectors(s)
  PROVE  \E x \in BundleCryptoVectors(w) : SameCase(v, x)
<1> DEFINE v032(d) ==
             Varied("032", [d EXCEPT !.bundle.envelope.sigs[1] = Flipped(@)],
                    {"DSSE_SIGNATURE_INVALID"}, {}, {})
           v033(d) ==
             Varied("033", [d EXCEPT !.bundle.tlogs[1].proof.root = <<"flipped", @>>],
                    {"CHECKPOINT_ROOT_MISMATCH", "REKOR_INCLUSION_INVALID"}, {}, {})
           v034(d) ==
             Varied("034", [d EXCEPT !.bundle.tlogs[1].proof.hashes[1] = <<"flipped", @>>],
                    {"REKOR_INCLUSION_INVALID", "CHECKPOINT_ROOT_MISMATCH"}, {}, {})
<1>1. SameCase(v032(s), v032(w))
  <2>1. Twins([s EXCEPT !.bundle.envelope.sigs[1] = Flipped(@)],
              [w EXCEPT !.bundle.envelope.sigs[1] = Flipped(@)])
    BY DEF AlteredAlike
  <2>2. QED
    BY <2>1, VariedTwins
<1>2. SameCase(v033(s), v033(w))
  <2>1. Twins([s EXCEPT !.bundle.tlogs[1].proof.root = <<"flipped", @>>],
              [w EXCEPT !.bundle.tlogs[1].proof.root = <<"flipped", @>>])
    BY DEF AlteredAlike
  <2>2. QED
    BY <2>1, VariedTwins
<1>3. SameCase(v034(s), v034(w))
  <2>1. Twins([s EXCEPT !.bundle.tlogs[1].proof.hashes[1] = <<"flipped", @>>],
              [w EXCEPT !.bundle.tlogs[1].proof.hashes[1] = <<"flipped", @>>])
    BY DEF AlteredAlike
  <2>2. QED
    BY <2>1, VariedTwins
<1>4. \A d : BundleCryptoVectors(d) = {v032(d), v033(d), v034(d)}
  BY Zenon DEF BundleCryptoVectors
<1> HIDE DEF v032, v033, v034
<1>5. QED
  BY <1>1, <1>2, <1>3, <1>4

(* Those of coverage_fixtures.py.                                         *)
LEMMA CoverageVectorsTwin ==
  ASSUME NEW s, NEW w, AlteredAlike(s, w), NEW v \in CoverageVectors(s)
  PROVE  \E x \in CoverageVectors(w) : SameCase(v, x)
<1> DEFINE v090(d) ==
             Varied("090",
                    [d EXCEPT !.bundle.tlogs[1].time = 0,
                     !.bundle.tlogs[1].promise.key = "none", !.bundle.tsa = {}],
                    {"OBSERVER_TIMESTAMP_INSUFFICIENT", "TLOG_COUNT_OUT_OF_RANGE",
                     "BUNDLE_MALFORMED"}, {}, {"no observer time needed"})
           v091(d) ==
             Varied("091", [d EXCEPT !.root.cas = {[ca EXCEPT !.keys = <<"rogue">>] : ca \in @}],
                    {"FULCIO_CHAIN_INVALID"}, {}, {})
           v092(d) ==
             Varied("092", [d EXCEPT !.root.ctlogs = {[log EXCEPT !.key = "other"] : log \in @}],
                    {"SCT_INSUFFICIENT", "BUNDLE_MALFORMED", "DSSE_SIGNATURE_INVALID"}, {}, {})
           v093(d) ==
             Varied("093", [d EXCEPT !.bundle.tlogs[1].proof.checkpoint.sig = Flipped(@)],
                    {"REKOR_INCLUSION_INVALID"}, {}, {})
<1>1. SameCase(v090(s), v090(w))
  <2>1. Twins([s EXCEPT !.bundle.tlogs[1].time = 0, !.bundle.tlogs[1].promise.key = "none",
               !.bundle.tsa = {}],
              [w EXCEPT !.bundle.tlogs[1].time = 0, !.bundle.tlogs[1].promise.key = "none",
               !.bundle.tsa = {}])
    BY DEF AlteredAlike
  <2>2. QED
    BY <2>1, VariedTwins
<1>2. SameCase(v091(s), v091(w))
  <2>1. Twins([s EXCEPT !.root.cas = {[ca EXCEPT !.keys = <<"rogue">>] : ca \in @}],
              [w EXCEPT !.root.cas = {[ca EXCEPT !.keys = <<"rogue">>] : ca \in @}])
    BY DEF AlteredAlike
  <2>2. QED
    BY <2>1, VariedTwins
<1>3. SameCase(v092(s), v092(w))
  <2>1. Twins([s EXCEPT !.root.ctlogs = {[log EXCEPT !.key = "other"] : log \in @}],
              [w EXCEPT !.root.ctlogs = {[log EXCEPT !.key = "other"] : log \in @}])
    BY DEF AlteredAlike
  <2>2. QED
    BY <2>1, VariedTwins
<1>4. SameCase(v093(s), v093(w))
  <2>1. Twins([s EXCEPT !.bundle.tlogs[1].proof.checkpoint.sig = Flipped(@)],
              [w EXCEPT !.bundle.tlogs[1].proof.checkpoint.sig = Flipped(@)])
    BY DEF AlteredAlike
  <2>2. QED
    BY <2>1, VariedTwins
<1>5. \A d : CoverageVectors(d) = {v090(d), v091(d), v092(d), v093(d)}
  BY Zenon DEF CoverageVectors
<1> HIDE DEF v090, v091, v092, v093
<1>6. QED
  BY <1>1, <1>2, <1>3, <1>4, <1>5

\* The input is a Sigstore block.
IsBlock(d) == DOMAIN d # DOMAIN NoBlock

(* The input of 001 is not an absent block.                               *)
LEMMA SeedInputIsBlock == \A tree : IsBlock(SeedInput(tree))
<1> SUFFICES ASSUME NEW tree PROVE IsBlock(SeedInput(tree))
  OBVIOUS
<1>1. \A b, r, g, n, p : "repo" \in DOMAIN DocOf(b, r, g, n, p)
  BY DEF DocOf
<1>2. "repo" \in DOMAIN SeedInput(tree)
  BY <1>1, SeedInputIs DEF SeedDoc
<1>3. "repo" \notin DOMAIN NoBlock
  BY DEF NoBlock
<1>4. QED
  BY <1>2, <1>3 DEF IsBlock

(* The whole-flow vectors have their like too; those without the seed are *)
(* the same vectors.                                                      *)
LEMMA FlowVectorsTwin ==
  ASSUME NEW s, NEW w, AlteredAlike(s, w), IsBlock(s), IsBlock(w),
         NEW v \in FullFamily(s)
  PROVE  \E x \in FullFamily(w) : ~IsV3(v) /\ (SameCase(v, x) \/ v = x)
<1> DEFINE pay(sigstore, signed, sev) ==
             [mode |-> "standard", sigstore |-> sigstore, signed |-> signed, sev |-> sev,
              tdx |-> NoBlock, pinned |-> NoTarget]
           signed == M(MpUri, <<Template.measurement, Rtmr1, Rtmr2>>)
           real == RealInput(NoPolicy)
           standard == RootCap \cup Mode("standard")
           pinF == SevPolicy("measurement" :> Text(<<"f">>), NoMins, FALSE)
           v500(d) == FullVector("500", StandardPayload(d), {}, AnyStage,
                                 DefaultFullCaps \cup standard, {})
           v501(d) == FullVector("501", [StandardPayload(d) EXCEPT !.sigstore.digest = ZeroDigest],
                                 {"SUBJECT_DIGEST_MISMATCH"}, "verify-sigstore", standard,
                                 {"stage flattened"})
           v502(d) == FullVector("502", [StandardPayload(d) EXCEPT !.sev.policy = pinF],
                                 {"MEASUREMENT_MISMATCH"}, "verify-attestation-sev",
                                 DefaultFullCaps \cup standard
                                   \cup {<<"attestation_sev.extended_checks_supported", "true">>},
                                 {"stage flattened", "no SEV policy pins"})
           v503(d) == FullVector("503", [StandardPayload(d) EXCEPT !.sigstore = NoBlock,
                                                                   !.signed = NoTarget],
                                 {"BUNDLE_MALFORMED"}, "verify-full", Mode("standard"),
                                 {"standard taken for pinned"})
           v504(d) == FullVector("504", [StandardPayload(d) EXCEPT !.sev = NoBlock],
                                 {"BUNDLE_MALFORMED"}, "verify-full", standard,
                                 {"attestation block not required"})
<1>1. \A d : StandardPayload(d) = pay(d, signed, real)
  BY DEF StandardPayload
<1>2. ASSUME NEW d, NEW e, Twins(d, e), IsBlock(d), IsBlock(e), NEW x, NEW y
      PROVE  FullTwins(pay(d, x, y), pay(e, x, y))
  <2>1. d # NoBlock /\ e # NoBlock
    BY <1>2 DEF IsBlock
  <2>2. QED
    BY <1>2, <2>1 DEF FullTwins
<1>3. /\ Twins(s, w) /\ Twins([s EXCEPT !.digest = ZeroDigest], [w EXCEPT !.digest = ZeroDigest])
      /\ IsBlock([s EXCEPT !.digest = ZeroDigest]) /\ IsBlock([w EXCEPT !.digest = ZeroDigest])
  <2>1. \A d, x : IsBlock(d) => IsBlock([d EXCEPT !.digest = x])
    BY DEF IsBlock
  <2>2. QED
    BY <2>1 DEF AlteredAlike
<1>4. \A d : /\ [StandardPayload(d) EXCEPT !.sigstore.digest = ZeroDigest]
                 = pay([d EXCEPT !.digest = ZeroDigest], signed, real)
            /\ [StandardPayload(d) EXCEPT !.sev.policy = pinF]
                 = pay(d, signed, [real EXCEPT !.policy = pinF])
            /\ [StandardPayload(d) EXCEPT !.sev = NoBlock] = pay(d, signed, NoBlock)
            /\ [StandardPayload(d) EXCEPT !.sigstore = NoBlock, !.signed = NoTarget]
                 = pay(NoBlock, NoTarget, real)
  <2> SUFFICES ASSUME NEW d
               PROVE  /\ [StandardPayload(d) EXCEPT !.sigstore.digest = ZeroDigest]
                           = pay([d EXCEPT !.digest = ZeroDigest], signed, real)
                      /\ [StandardPayload(d) EXCEPT !.sev.policy = pinF]
                           = pay(d, signed, [real EXCEPT !.policy = pinF])
                      /\ [StandardPayload(d) EXCEPT !.sev = NoBlock] = pay(d, signed, NoBlock)
                      /\ [StandardPayload(d) EXCEPT !.sigstore = NoBlock, !.signed = NoTarget]
                           = pay(NoBlock, NoTarget, real)
    OBVIOUS
  <2> DEFINE p == StandardPayload(d)
  <2>1. p = pay(d, signed, real)
    BY <1>1
  <2> HIDE DEF p, signed, real, pinF
  <2>2. /\ [p EXCEPT !.sigstore.digest = ZeroDigest]
             = pay([d EXCEPT !.digest = ZeroDigest], signed, real)
        /\ [p EXCEPT !.sev.policy = pinF] = pay(d, signed, [real EXCEPT !.policy = pinF])
        /\ [p EXCEPT !.sev = NoBlock] = pay(d, signed, NoBlock)
    BY <2>1
  <2>3. [p EXCEPT !.sigstore = NoBlock, !.signed = NoTarget] = pay(NoBlock, NoTarget, real)
    <3>1. \A x : [x EXCEPT !.sigstore = NoBlock, !.signed = NoTarget]
                   = [[x EXCEPT !.sigstore = NoBlock] EXCEPT !.signed = NoTarget]
      OBVIOUS
    <3>2. [p EXCEPT !.sigstore = NoBlock] = pay(NoBlock, signed, real)
      BY <2>1
    <3>3. [pay(NoBlock, signed, real) EXCEPT !.signed = NoTarget] = pay(NoBlock, NoTarget, real)
      OBVIOUS
    <3> HIDE DEF pay
    <3>4. QED
      BY <3>1, <3>2, <3>3
  <2>4. QED
    BY <2>2, <2>3 DEF p
<1>10. \A d : FullFamily(d) = {v500(d), v501(d), v502(d), v503(d), v504(d)}
                                \cup PinnedFlowVectors \cup TdxFlowVector
  BY Zenon DEF FullFamily, StandardFlowVectors
<1> HIDE DEF signed, real, pinF, pay
<1>5. SameCase(v500(s), v500(w))
  <2>1. FullTwins(StandardPayload(s), StandardPayload(w))
    BY <1>1, <1>2, <1>3
  <2>2. QED
    BY <2>1, FullVectorTwins
<1>6. SameCase(v501(s), v501(w))
  <2>1. FullTwins([StandardPayload(s) EXCEPT !.sigstore.digest = ZeroDigest],
                  [StandardPayload(w) EXCEPT !.sigstore.digest = ZeroDigest])
    <3>1. FullTwins(pay([s EXCEPT !.digest = ZeroDigest], signed, real),
                    pay([w EXCEPT !.digest = ZeroDigest], signed, real))
      BY <1>2, <1>3
    <3>2. /\ [StandardPayload(s) EXCEPT !.sigstore.digest = ZeroDigest]
               = pay([s EXCEPT !.digest = ZeroDigest], signed, real)
          /\ [StandardPayload(w) EXCEPT !.sigstore.digest = ZeroDigest]
               = pay([w EXCEPT !.digest = ZeroDigest], signed, real)
      BY <1>4
    <3>3. QED
      BY <3>1, <3>2, Zenon
  <2>2. QED
    BY <2>1, FullVectorTwins
<1>7. SameCase(v502(s), v502(w))
  <2>1. FullTwins([StandardPayload(s) EXCEPT !.sev.policy = pinF],
                  [StandardPayload(w) EXCEPT !.sev.policy = pinF])
    <3>1. FullTwins(pay(s, signed, [real EXCEPT !.policy = pinF]),
                    pay(w, signed, [real EXCEPT !.policy = pinF]))
      BY <1>2, <1>3
    <3>2. /\ [StandardPayload(s) EXCEPT !.sev.policy = pinF]
               = pay(s, signed, [real EXCEPT !.policy = pinF])
          /\ [StandardPayload(w) EXCEPT !.sev.policy = pinF]
               = pay(w, signed, [real EXCEPT !.policy = pinF])
      BY <1>4
    <3>3. QED
      BY <3>1, <3>2, Zenon
  <2>2. QED
    BY <2>1, FullVectorTwins
<1>8. v503(s) = v503(w)
  <2>1. [StandardPayload(s) EXCEPT !.sigstore = NoBlock, !.signed = NoTarget]
          = [StandardPayload(w) EXCEPT !.sigstore = NoBlock, !.signed = NoTarget]
    BY <1>4
  <2>2. QED
    BY <2>1, Zenon
<1>9. SameCase(v504(s), v504(w))
  <2>1. FullTwins([StandardPayload(s) EXCEPT !.sev = NoBlock],
                  [StandardPayload(w) EXCEPT !.sev = NoBlock])
    <3>1. FullTwins(pay(s, signed, NoBlock),
                    pay(w, signed, NoBlock))
      BY <1>2, <1>3
    <3>2. /\ [StandardPayload(s) EXCEPT !.sev = NoBlock] = pay(s, signed, NoBlock)
          /\ [StandardPayload(w) EXCEPT !.sev = NoBlock] = pay(w, signed, NoBlock)
      BY <1>4
    <3>3. QED
      BY <3>1, <3>2, Zenon
  <2>2. QED
    BY <2>1, FullVectorTwins
<1>11. ~IsV3(v)
  BY FullVectorsAre, V1IsNotV3
<1> HIDE DEF v500, v501, v502, v503, v504
<1>12. QED
  BY <1>5, <1>6, <1>7, <1>8, <1>9, <1>10, <1>11

-----------------------------------------------------------------------------
(* What a run of the suite records                                          *)

\* What an SDK can answer a vector with, and what the runner can record for it.
AnswersTo(v, s) ==
  IF Rejections(v, s.flaw) = {} THEN {Accepts(Facts(v, s.flaw))}
  ELSE {Rejects(r[1], r[2]) : r \in Rejections(v, s.flaw)}

PutTo(v, s) == IsV3(v) \/ Supported(FixtureOf(v), "base", Declares(v, s))

Judged(v, a) == IF IsV3(v) THEN LaneVerdict(v, a) ELSE Verdict(FixtureOf(v), a)

VerdictsOn(v, s) ==
  IF PutTo(v, s) THEN {Judged(v, a) : a \in AnswersTo(v, s)} ELSE {"skip"}

\* A vector put to an SDK is the suite's and the SDK one of the vector's; what
\* is recorded follows from the two.
CaseInv ==
  /\ verdict = "none" => answer = Idle
  /\ verdict # "none" => vector \in Suite /\ sdk \in SdksFor(vector)
  /\ verdict = "pending" =>
       PutTo(vector, sdk) /\ answer \in {Idle} \cup AnswersTo(vector, sdk)
  /\ verdict \in Statuses => verdict \in VerdictsOn(vector, sdk)

(* What an SDK can answer is an answer.                                   *)
LEMMA AnswersToAreAnswers == \A v, s : \A a \in AnswersTo(v, s) : Answers(a)
BY DEF AnswersTo, Answers

(* In no order of steps does an SDK answer other than that, or the runner *)
(* judge another vector than the one it put to it.                        *)
LEMMA CaseInvHolds == Spec => []CaseInv
<1>1. Init => CaseInv
  BY StatusesAreFinal DEF Init, CaseInv
<1>2. CaseInv /\ [Next]_vars => CaseInv'
  <2> SUFFICES ASSUME CaseInv, [Next]_vars PROVE CaseInv'
    OBVIOUS
  <2>1. CASE Present
    <3>1. PICK v \in Suite : \E s \in SdksFor(v) :
            /\ vector' = v /\ sdk' = s /\ answer' = answer
            /\ verdict' = IF PutTo(v, s) THEN "pending" ELSE "skip"
      BY <2>1, Zenon DEF Present, PutTo
    <3>2. PICK s \in SdksFor(v) :
            /\ vector' = v /\ sdk' = s /\ answer' = answer
            /\ verdict' = IF PutTo(v, s) THEN "pending" ELSE "skip"
      BY <3>1
    <3>3. answer = Idle
      BY <2>1 DEF Present, CaseInv
    <3>4. CASE PutTo(v, s)
      BY <3>2, <3>3, <3>4, StatusesAreFinal DEF CaseInv
    <3>5. CASE ~PutTo(v, s)
      BY <3>2, <3>5 DEF CaseInv, VerdictsOn
    <3>6. QED
      BY <3>4, <3>5
  <2>2. CASE AnswerReject
    <3>1. answer' \in AnswersTo(vector, sdk)
      BY <2>2 DEF AnswerReject, AnswersTo
    <3>2. QED
      BY <2>2, <3>1, StatusesAreFinal DEF AnswerReject, CaseInv
  <2>3. CASE AnswerAccept
    <3>1. answer' \in AnswersTo(vector, sdk)
      BY <2>3 DEF AnswerAccept, AnswersTo
    <3>2. QED
      BY <2>3, <3>1, StatusesAreFinal DEF AnswerAccept, CaseInv
  <2>4. CASE Judge
    <3>1. PutTo(vector, sdk) /\ answer \in AnswersTo(vector, sdk) /\ answer # Idle
      BY <2>4 DEF Judge, CaseInv
    <3>2. verdict' = Judged(vector, answer)
      BY <2>4 DEF Judge, Judged
    <3>3. verdict' \in VerdictsOn(vector, sdk)
      BY <3>1, <3>2 DEF VerdictsOn
    <3>4. verdict' \in Statuses
      BY <3>1, <3>2, AnswersToAreAnswers, LaneRecordsStatuses, NoAnswerRaises DEF Judged
    <3>5. QED
      BY <2>4, <3>3, <3>4, StatusesAreFinal DEF Judge, CaseInv
  <2>5. CASE Record
    BY <2>5, StatusesAreFinal DEF Record, CaseInv
  <2>6. CASE UNCHANGED vars
    BY <2>6 DEF vars, CaseInv
  <2>7. QED
    BY <2>1, <2>2, <2>3, <2>4, <2>5, <2>6 DEF Next
<1>3. QED
  BY <1>1, <1>2, PTL DEF Spec

(* Every verdict a run records is one that the vector and the SDK it was  *)
(* put to leave possible: nothing of an earlier vector reaches it.        *)
THEOREM VerdictsFollowFromTheVector ==
  Spec => [](verdict \in Statuses => /\ vector \in Suite /\ sdk \in SdksFor(vector)
                                     /\ verdict \in VerdictsOn(vector, sdk))
<1>1. CaseInv => (verdict \in Statuses => /\ vector \in Suite /\ sdk \in SdksFor(vector)
                                          /\ verdict \in VerdictsOn(vector, sdk))
  BY StatusesAreFinal DEF CaseInv
<1>2. QED
  BY <1>1, CaseInvHolds, PTL

\* The promises kept to v by whatever SDK and answer.
Spared(v) == \A s \in SdksFor(v) : \A x \in VerdictsOn(v, s) : SparesFaultless(v, s, x)
Told(v) == \A s \in SdksFor(v) : \A x \in VerdictsOn(v, s) : TellsItsFlaw(v, s, x)
Excused(v) == \A s \in SdksFor(v) : \A x \in VerdictsOn(v, s) : SparesHonestGaps(v, s, x)

(* Vectors that ask the same of every SDK keep the same promises.         *)
LEMMA SameCaseSamePromise ==
  ASSUME NEW v, NEW w, SameCase(v, w)
  PROVE  (Spared(v) => Spared(w)) /\ (Told(v) => Told(w)) /\ (Excused(v) => Excused(w))
<1>1. /\ v.family = w.family /\ v.stage = w.stage /\ v.id = w.id /\ v.exit = w.exit
      /\ v.codes = w.codes /\ v.caps = w.caps /\ v.outputs = w.outputs
      /\ v.catches = w.catches /\ ~IsV3(v)
      /\ v.family = "full" => v.rstage = w.rstage
  BY DEF SameCase
<1>2. \A flaw : Rejections(v, flaw) = Rejections(w, flaw) /\ Facts(v, flaw) = Facts(w, flaw)
  BY DEF SameCase
<1>3. ~IsV3(w)
  BY <1>1 DEF IsV3
<1>4. FixtureOf(v) = FixtureOf(w)
  BY <1>1 DEF FixtureOf
<1>5. \A s : Declares(v, s) = Declares(w, s)
  BY <1>1 DEF Declares
<1>6. SdksFor(v) = SdksFor(w)
  BY <1>1, <1>3 DEF SdksFor
<1>7. \A s : PutTo(v, s) <=> PutTo(w, s)
  BY <1>1, <1>3, <1>4, <1>5 DEF PutTo
<1>8. \A s : AnswersTo(v, s) = AnswersTo(w, s)
  <2> DEFINE all(rejections, facts) ==
               IF rejections = {} THEN {Accepts(facts)}
               ELSE {Rejects(r[1], r[2]) : r \in rejections}
  <2>1. \A x, s : AnswersTo(x, s) = all(Rejections(x, s.flaw), Facts(x, s.flaw))
    BY DEF AnswersTo
  <2> HIDE DEF all
  <2>2. QED
    BY <1>2, <2>1
<1>9. \A a : Judged(v, a) = Judged(w, a)
  BY <1>1, <1>3, <1>4 DEF Judged
<1>10. \A s : VerdictsOn(v, s) = VerdictsOn(w, s)
  BY <1>7, <1>8, <1>9 DEF VerdictsOn
<1>11. ASSUME NEW s, NEW x
       PROVE  /\ SparesFaultless(v, s, x) <=> SparesFaultless(w, s, x)
              /\ TellsItsFlaw(v, s, x) <=> TellsItsFlaw(w, s, x)
              /\ SparesHonestGaps(v, s, x) <=> SparesHonestGaps(w, s, x)
  BY <1>1, <1>2 DEF SparesFaultless, TellsItsFlaw, SparesHonestGaps
<1>12. Spared(v) => Spared(w)
  BY <1>6, <1>10, <1>11 DEF Spared
<1>13. Told(v) => Told(w)
  BY <1>6, <1>10, <1>11 DEF Told
<1>14. Excused(v) => Excused(w)
  BY <1>6, <1>10, <1>11 DEF Excused
<1>15. QED
  BY <1>12, <1>13, <1>14

\* The vectors made from the seed at place t of its log.
SeededAt(t) == SeedFamily(SeedInput(t)) \cup FullFamily(SeedInput(t))

(* The frozen bundle of 001 comes from production, where nothing says how *)
(* large the log is or where in it the entry sits.  No vector made of it  *)
(* depends on that: one made of an entry in any other place asks the same *)
(* of every SDK, whatever it checks or gets wrong.                        *)
THEOREM SeedTreeMakesNoDifference ==
  ASSUME NEW t, IsTree(t), NEW u, IsTree(u), NEW v \in SeededAt(t)
  PROVE  \E w \in SeededAt(u) : SameCase(v, w) \/ v = w
<1> DEFINE s == SeedInput(t)
           w == SeedInput(u)
<1>1. AlteredAlike(s, w) /\ IsBlock(s) /\ IsBlock(w)
  BY SeedsTwin, SeedInputIsBlock
<1> HIDE DEF s, w
<1>2. ASSUME v \in SeedFamily(s)
      PROVE  \E x \in SeedFamily(w) : SameCase(v, x)
  BY <1>1, <1>2, IdentityVectorsTwin, StatementRuleVectorsTwin, TrustRootVectorsTwin,
     BundleShapeVectorsTwin, BundleCryptoVectorsTwin, CoverageVectorsTwin, Zenon DEF SeedFamily
<1>3. ASSUME v \in FullFamily(s)
      PROVE  \E x \in FullFamily(w) : SameCase(v, x) \/ v = x
  BY <1>1, <1>3, FlowVectorsTwin
<1>4. QED
  BY <1>2, <1>3, Zenon DEF SeededAt, s, w

(* So the suite is, vector by vector, that of one place in one log.       *)
LEMMA SuiteIsOfOneTree ==
  ASSUME NEW t, IsTree(t), NEW v \in Suite
  PROVE  \E w \in FixedVectors \cup SeededAt(t) : SameCase(w, v) \/ w = v
<1>1. CASE v \in FixedVectors
  BY <1>1
<1>2. CASE v \notin FixedVectors
  <2>1. PICK u \in SeedTrees : v \in SeededAt(u)
    BY <1>2 DEF Suite, SeededAt
  <2>2. IsTree(u)
    BY SeedTreesAssumption DEF IsTree
  <2>3. PICK w \in SeededAt(t) : SameCase(v, w) \/ v = w
    BY <2>1, <2>2, SeedTreeMakesNoDifference
  <2>4. SameCase(v, w) => SameCase(w, v)
    BY Zenon DEF SameCase, IsV3
  <2>5. QED
    BY <2>3, <2>4
<1>3. QED
  BY <1>1, <1>2

(* What is recorded is about a vector of the suite.                       *)
LEMMA JudgedCases ==
  CaseInv /\ verdict \in Statuses =>
    vector \in Suite /\ sdk \in SdksFor(vector) /\ verdict \in VerdictsOn(vector, sdk)
BY StatusesAreFinal DEF CaseInv

(* If the vectors of one place in one log spare an SDK without a flaw, no *)
(* run of the suite fails one, wherever in its log the production entry   *)
(* sits: the one place is for TLC to go through.                          *)
THEOREM FaultlessPassesInEveryTree ==
  ASSUME NEW t, IsTree(t), \A v \in FixedVectors \cup SeededAt(t) : Spared(v)
  PROVE  Spec => []FaultlessPasses
<1>1. \A v \in Suite : Spared(v)
  BY SuiteIsOfOneTree, SameCaseSamePromise
<1>2. CaseInv => FaultlessPasses
  BY <1>1, JudgedCases DEF FaultlessPasses, Spared
<1>3. QED
  BY <1>2, CaseInvHolds, PTL

(* If the vectors of one place in one log tell the SDKs that make the     *)
(* mistakes they are about, every run of the suite does, wherever the     *)
(* entry sits.                                                            *)
THEOREM FlawsAreCaughtInEveryTree ==
  ASSUME NEW t, IsTree(t), \A v \in FixedVectors \cup SeededAt(t) : Told(v)
  PROVE  Spec => []CatchesItsFlaw
<1>1. \A v \in Suite : Told(v)
  BY SuiteIsOfOneTree, SameCaseSamePromise
<1>2. CaseInv => CatchesItsFlaw
  BY <1>1, JudgedCases DEF CatchesItsFlaw, Told
<1>3. QED
  BY <1>2, CaseInvHolds, PTL

(* If the vectors of one place in one log excuse the SDKs that declare a  *)
(* gap, every run of the suite does, wherever the entry sits.             *)
THEOREM HonestGapsNeverFailInAnyTree ==
  ASSUME NEW t, IsTree(t), \A v \in FixedVectors \cup SeededAt(t) : Excused(v)
  PROVE  Spec => []HonestGapsNeverFail
<1>1. \A v \in Suite : Excused(v)
  BY SuiteIsOfOneTree, SameCaseSamePromise
<1>2. CaseInv => HonestGapsNeverFail
  BY <1>1, JudgedCases DEF HonestGapsNeverFail, Excused
<1>3. QED
  BY <1>2, CaseInvHolds, PTL

=============================================================================
