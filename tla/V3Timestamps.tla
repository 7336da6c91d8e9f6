----------------------------- MODULE V3Timestamps -----------------------------
(***************************************************************************)
(* The v3-verify-timestamp vectors of v3/gen_rfc3161.py: the RFC 3161       *)
(* responses and authorities of lib/tsa.py, and the rules of                *)
(* docs/CONFORMANCE_ADAPTER_SPEC.md, 2.1.                                   *)
(*                                                                         *)
(* A certificate is [tbs, sig]; `eku` is "critical", "plain" or "none".     *)
(***************************************************************************)
EXTENDS V3Provenance

\* 1 March 2025, noon; the appraisal is an hour later.
GenTime == BaseTime + 59 * Day + 12 * Hour
AppraisedAt == GenTime + Hour
TsaWindow == [from |-> BaseTime, until |-> BaseTime + 365 * Day]
TsaRootWindow == [from |-> BaseTime - 366 * Day, until |-> BaseTime + 3287 * Day]

SigstorePolicy == "57264.2"
Stamped == <<"timestamp input">>

-----------------------------------------------------------------------------
(* lib/tsa.py                                                               *)

\* Root and leaf of an authority, each with the key of its name; serials are
\* the same for every authority of that name.
Authority(name, window, eku) ==
  LET rootKey == <<name, "root">>
      rootTbs == [subject |-> name, issuer |-> name, serial |-> <<name, 1>>, key |-> rootKey,
                  window |-> TsaRootWindow, eku |-> "none"]
      leafTbs == [subject |-> <<name, "signer">>, issuer |-> name, serial |-> <<name, 2>>,
                  key |-> <<name, "leaf">>, window |-> window, eku |-> eku]
  IN  [leaf |-> [tbs |-> leafTbs, sig |-> Sig(rootKey, leafTbs)],
       root |-> [tbs |-> rootTbs, sig |-> Sig(rootKey, rootTbs)]]

P256Tsa == Authority("P-256", TsaWindow, "critical")
P384Tsa == Authority("P-384", TsaWindow, "critical")
OtherTsa == Authority("other", TsaWindow, "critical")

TstInfo(imprint, policy) == [imprint |-> imprint, policy |-> policy, time |-> GenTime]

\* The signed attributes hold the digest of the TSTInfo; the certificate rides
\* along.  `sized` says that nothing follows the response.
Response(tsa, info, status) ==
  LET attributes == [digest |-> info, certificate |-> tsa.leaf]
  IN  [status |-> status, sized |-> TRUE,
       token |-> <<[info |-> info, attributes |-> attributes,
                    sig |-> Sig(tsa.leaf.tbs.key, attributes),
                    signer |-> [issuer |-> tsa.leaf.tbs.issuer, serial |-> tsa.leaf.tbs.serial]]>>]

RejectedResponse == [status |-> "rejection", sized |-> TRUE, token |-> << >>]

\* The authorities of a trusted root, all with one window.
TsaRoot(authorities, window) ==
  {[leaf |-> a.leaf, root |-> a.root, window |-> window] : a \in authorities}

-----------------------------------------------------------------------------
(* The rules                                                                *)

\* Listed authorities whose signing certificate the token names.
SignersOf(root, token) ==
  {a \in root : /\ a.leaf.tbs.issuer = token.signer.issuer
                /\ a.leaf.tbs.serial = token.signer.serial}

TokenHolds(d, token) ==
  LET info == token.info
      signers == SignersOf(d.root, token)
      within(window) == window.from <= info.time /\ info.time <= window.until
  IN  "imprint" :> (info.imprint = d.input)
   @@ "policy" :> (info.policy = SigstorePolicy)
   @@ "digest" :> (token.attributes.digest = info)
   @@ "authority" :> (signers # {})
   @@ "signature" :> (\A a \in signers :
                        /\ token.sig = Sig(a.leaf.tbs.key, token.attributes)
                        /\ a.leaf.sig = Sig(a.root.tbs.key, a.leaf.tbs))
   @@ "timestamping" :> (\A a \in signers : a.leaf.tbs.eku # "none")
   @@ "critical" :> (\A a \in signers : a.leaf.tbs.eku # "plain")
   @@ "chain validity" :> (\A a \in signers : within(a.leaf.tbs.window)
                                              /\ within(a.root.tbs.window))
   @@ "authority from" :> (\A a \in signers : a.window.from <= info.time)
   @@ "authority until" :> (\A a \in signers : info.time <= a.window.until)
   @@ "appraisal window" :> within([from |-> d.time - MaxFreshnessAge,
                                    until |-> d.time + 5 * Minute])

TimestampBroken(d, flaw) ==
  LET r == d.response
      granted == \/ r.status = "granted"
                 \/ r.status = "granted with mods" /\ flaw = "modifications allowed"
      p256 == \E i \in DOMAIN r.token : r.token[i].signer.issuer = "P-256"
  IN  Broken("status" :> granted @@ "size" :> r.sized, flaw)
        \cup (IF r.token = << >> THEN {"no token"}
              ELSE Broken(TokenHolds(d, r.token[1]), flaw))
        \cup (IF flaw = "P-256 authorities only" /\ ~p256 THEN {flaw} ELSE {})

\* genTime, of a response that verifies.
TimestampFacts(d) == "timestamp" :> d.response.token[1].info.time

-----------------------------------------------------------------------------
(* The vectors                                                              *)

TimestampVector(id, response, root, code, catches) ==
  V3Vector("v3-timestamp", "v3-verify-timestamp", id,
           [response |-> response, input |-> Stamped, root |-> root, time |-> AppraisedAt],
           code, IF code = "none" THEN "timestamp" :> GenTime ELSE NoFacts, catches)

TimestampFamily ==
  LET info == TstInfo(Stamped, SigstorePolicy)
      granted(tsa) == Response(tsa, info, "granted")
      both(window) == TsaRoot({P256Tsa, P384Tsa}, window)
      trusted == both(TsaWindow)
      reject(id, response, root, rule) ==
        TimestampVector(id, response, root, "PROVENANCE_REJECTED", {rule})
      \* signed by an authority of the trusted root that is like this
      signedBy(id, tsa, rule) ==
        reject(id, granted(tsa), TsaRoot({tsa, P384Tsa}, TsaWindow), rule)
      ended == [from |-> BaseTime - 366 * Day, until |-> BaseTime + 31 * Day]
  IN
  {TimestampVector("granted-p256", granted(P256Tsa), trusted, "none", {}),
   TimestampVector("granted-p384-key-sha256-digest", granted(P384Tsa), trusted, "none",
                   {"P-256 authorities only"}),
   reject("granted-with-mods", Response(P256Tsa, info, "granted with mods"), trusted,
          "modifications allowed"),
   TimestampVector("status-rejected", RejectedResponse, trusted, "PROVENANCE_REJECTED", {}),
   reject("imprint-mismatch",
     Response(P256Tsa, TstInfo(Stamped \o <<"x">>, SigstorePolicy), "granted"), trusted,
     "imprint"),
   reject("wrong-policy", Response(P256Tsa, TstInfo(Stamped, "57264.3"), "granted"), trusted,
          "policy"),
   reject("unknown-authority", granted(OtherTsa), trusted, "authority"),
   reject("before-window", granted(P256Tsa),
          both([TsaWindow EXCEPT !.from = BaseTime + 151 * Day]), "authority from"),
   reject("after-window", granted(P256Tsa),
          both([TsaWindow EXCEPT !.until = BaseTime + 31 * Day]), "authority until"),
   signedBy("signer-expired", Authority("P-256", ended, "critical"), "chain validity"),
   signedBy("eku-not-critical", Authority("P-256", TsaWindow, "plain"), "critical"),
   signedBy("no-eku", Authority("P-256", TsaWindow, "none"), "timestamping"),
   reject("trailing-bytes", [granted(P256Tsa) EXCEPT !.sized = FALSE], trusted, "size"),
   reject("tampered-gentime", [granted(P256Tsa) EXCEPT !.token[1].info.time = AppraisedAt],
          trusted, "digest")}

=============================================================================
