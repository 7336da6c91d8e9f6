---------------------------- MODULE SigstoreStack ----------------------------
(***************************************************************************)
(* The synthetic Sigstore signing chain: fixturegen/lib (spec, fulcio, sct, *)
(* dsse, rekor, bundle, trust_root) and v3/sigstore_synth.py, which builds  *)
(* the same chain from fixed keys and an intermediate CA.                   *)
(*                                                                         *)
(* Signatures are [key, over].  A certificate is [tbs, sig]; tbs.exts maps  *)
(* an extension to its value and tbs.scts is the SCT list, << >> for none.  *)
(***************************************************************************)
EXTENDS MerkleTree

Sig(key, over) == [key |-> key, over |-> over]

-----------------------------------------------------------------------------
(* The leaf and its SCTs                                                    *)

\* Extensions the spec omits are not in the domain.
LeafExts(spec) ==
  LET value == [name \in {"v1", "repo", "ref", "v2", "signer uri"} |->
        CASE name = "v1" -> IF spec.v1Override = "" THEN spec.issuer
                            ELSE spec.v1Override
          [] name = "repo" -> spec.repo
          [] name = "ref" -> spec.ref
          [] name = "v2" -> spec.issuer
          [] OTHER -> spec.signerRef]
  IN  [name \in DOMAIN value \ spec.omit |-> value[name]]

Tbs(spec, issuerKey, serial, scts) ==
  [serial |-> serial, issuer |-> issuerKey, key |-> "leaf",
   from |-> spec.leafFrom, until |-> spec.leafUntil, exts |-> spec.exts,
   scts |-> scts]

WithoutScts(tbs) == [tbs EXCEPT !.scts = << >>]

\* The log signs the issuer key's hash and the TBS without its SCT list.
MakeSct(ctKey, issuerKey, preTbs, time) ==
  [log |-> ctKey, time |-> time,
   sig |-> Sig(ctKey, [issuer |-> issuerKey, tbs |-> preTbs, time |-> time])]

\* Slip: every build of the leaf draws a serial of its own.
FinalLeafOwnSerial(spec, issuerKey, serial, scts) ==
  LET tbs == Tbs(spec, issuerKey, serial + 1, scts)
  IN  [tbs |-> tbs, sig |-> Sig(issuerKey, tbs)]

\* Pre-SCT build and final build share the serial.
FinalLeaf(spec, issuerKey, serial, scts) ==
  LET tbs == Tbs(spec, issuerKey, serial, scts)
  IN  [tbs |-> tbs, sig |-> Sig(issuerKey, tbs)]

Leaf(spec, issuerKey) ==
  LET pre == Tbs(spec, issuerKey, 1, << >>)
  IN  FinalLeaf(spec, issuerKey, 1,
                [i \in 1..spec.numScts |->
                   MakeSct("ct", issuerKey, pre, spec.sctTime + spec.sctStep * (i - 1))])

-----------------------------------------------------------------------------
(* Envelope and log entry                                                   *)

Pae(payloadType, payload) == [type |-> payloadType, payload |-> payload]

SignEnvelope(key, payloadType, payload, copies) ==
  [type |-> payloadType, payload |-> payload,
   sigs |-> [i \in 1..copies |-> Sig(key, Pae(payloadType, payload))]]

\* The dsse entry commits to the envelope with one signature and to the cert.
DsseBody(envelope, cert) ==
  [payload |-> envelope.payload, sig |-> envelope.sigs[1], cert |-> cert]

Checkpoint(key, size, root) ==
  [size |-> size, root |-> root, sig |-> Sig(key, [size |-> size, root |-> root])]

SignedEntryTimestamp(key, body, time, index) ==
  Sig(key, [body |-> body, time |-> time, log |-> key, index |-> index])

\* An entry at `at` of a log of `size` leaves, the others being filler.
\* Slip: the signed timestamp is made for another log index.
RekorEntryWrongPromise(key, body, time, index, size, at) ==
  LET leaves == [i \in 1..size |->
                   IF i = at + 1 THEN LeafHash(body) ELSE LeafHash([filler |-> i])]
      root == MerkleRoot(leaves)
  IN  [log |-> key, index |-> index, time |-> time, body |-> body,
       promise |-> SignedEntryTimestamp(key, body, time, index + 1),
       proof |-> [index |-> at, size |-> size, root |-> root,
                  hashes |-> MerkleInclusionProof(leaves, at),
                  checkpoint |-> Checkpoint(key, size, root)]]

RekorEntry(key, body, time, index, size, at) ==
  LET leaves == [i \in 1..size |->
                   IF i = at + 1 THEN LeafHash(body) ELSE LeafHash([filler |-> i])]
      root == MerkleRoot(leaves)
  IN  [log |-> key, index |-> index, time |-> time, body |-> body,
       promise |-> SignedEntryTimestamp(key, body, time, index),
       proof |-> [index |-> at, size |-> size, root |-> root,
                  hashes |-> MerkleInclusionProof(leaves, at),
                  checkpoint |-> Checkpoint(key, size, root)]]

-----------------------------------------------------------------------------
(* The bundle and the trust root that endorses its keys                     *)

\* `layout` is where the leaf sits, v0.3 "certificate" or the legacy "chain";
\* envelope and material can be missing from a mutated bundle.
Bundle(cert, envelope, entries) ==
  [layout |-> "certificate", cert |-> cert, hasEnvelope |-> TRUE,
   hasMaterial |-> TRUE, envelope |-> envelope, tlogs |-> entries,
   tsa |-> {}]

TrustRoot(caKeys, caFrom, caUntil, ctFrom, rekorFrom) ==
  [parses |-> TRUE,
   cas |-> {[keys |-> caKeys, from |-> caFrom, until |-> caUntil]},
   ctlogs |-> {[log |-> "ct", key |-> "ct", from |-> ctFrom]},
   tlogs |-> {[log |-> "rekor", key |-> "rekor", from |-> rekorFrom]}]

\* build_bundle_and_trust_root of lib/spec.py: keys, root, leaf with its SCTs,
\* payload, envelope, log entries, bundle and trust root.
BuildBundle(spec) ==
  LET leaf == Leaf(spec, spec.caKeys[1])
      envelope == SignEnvelope(spec.dsseKey, spec.payloadType, spec.statement,
                               spec.numDsseSigs)
      body == DsseBody(envelope, leaf)
  IN  Bundle(leaf, envelope,
             [i \in 1..spec.numTlogs |->
                RekorEntry("rekor", body, spec.integrated + i - 1, i - 1,
                           spec.treeSize, spec.treeIndex)])

BuildTrustRoot(spec) ==
  TrustRoot(spec.caKeys, spec.rootFrom, spec.rootUntil, spec.ctFrom, spec.rekorFrom)

=============================================================================
