-------------------------- MODULE Divergence_proofs --------------------------
(***************************************************************************)
(* Proofs about Divergence, for any vectors tree, any SDKs and every order  *)
(* in which the walk yields the manifests.                                  *)
(***************************************************************************)
EXTENDS Divergence, TLAPS

(* Before the walk nothing is loaded and nothing is in the table.           *)
LEMMA InitLookup == Init => LookupInv
BY DEF Init, LookupInv, Loaded, VectorTrees

(* A manifest read, missed or spared keeps the table in step.               *)
LEMMA NextLookup == LookupInv /\ [Next]_vars => LookupInv'
<1> SUFFICES ASSUME LookupInv, [Next]_vars PROVE LookupInv'
  OBVIOUS
<1>1. ASSUME NEW i \in DOMAIN vectors, ReadManifest(i) PROVE LookupInv'
  <2>1. /\ i \in unread /\ unread' = unread \ {i}
        /\ vectors' = vectors /\ lost' = lost
        /\ fixCodes' = [k \in DOMAIN fixCodes \cup KeysOf(vectors[i]) |->
                          IF k \in KeysOf(vectors[i]) THEN vectors[i].codes
                          ELSE fixCodes[k]]
    BY <1>1 DEF ReadManifest
  <2>2. /\ DOMAIN fixCodes' = DOMAIN fixCodes \cup KeysOf(vectors[i])
        /\ \A k \in KeysOf(vectors[i]) : fixCodes'[k] = vectors[i].codes
        /\ \A k \in DOMAIN fixCodes \ KeysOf(vectors[i]) :
             fixCodes'[k] = fixCodes[k]
    BY <2>1
  <2>3. Loaded' = Loaded \cup {i}
    BY <2>1 DEF LookupInv, Loaded
  <2>4. \A j : KeysOf(vectors[j])' = KeysOf(vectors[j])
    BY <2>1 DEF KeysOf, IdKey, PathKey
  <2>5. \A j \in Loaded' : KeysOf(vectors[j])' \subseteq DOMAIN fixCodes'
    BY <2>2, <2>3, <2>4 DEF LookupInv
  <2>6. \A k \in DOMAIN fixCodes' :
          \E j \in Loaded' : k \in KeysOf(vectors[j])
                              /\ fixCodes'[k] = vectors[j].codes
    BY <2>2, <2>3 DEF LookupInv
  <2>7. QED
    BY <2>1, <2>4, <2>5, <2>6 DEF LookupInv
<1>2. ASSUME NEW i \in DOMAIN vectors, MissManifest(i) PROVE LookupInv'
  <2>1. /\ i \in unread /\ unread' = unread \ {i} /\ lost' = lost \cup {i}
        /\ vectors' = vectors /\ fixCodes' = fixCodes
    BY <1>2 DEF MissManifest
  <2>2. Loaded' = Loaded
    BY <2>1 DEF LookupInv, Loaded
  <2>3. \A j : KeysOf(vectors[j])' = KeysOf(vectors[j])
    BY <2>1 DEF KeysOf, IdKey, PathKey
  <2>4. QED
    BY <2>1, <2>2, <2>3 DEF LookupInv
<1>3. CASE Analyze \/ AnalyzeRaises \/ UNCHANGED vars
  <2>1. UNCHANGED <<vectors, unread, lost, fixCodes>>
    BY <1>3 DEF Analyze, AnalyzeRaises, vars
  <2>2. Loaded' = Loaded /\ \A j : KeysOf(vectors[j])' = KeysOf(vectors[j])
    BY <2>1 DEF Loaded, KeysOf, IdKey, PathKey
  <2>3. QED
    BY <2>1, <2>2 DEF LookupInv
<1>4. QED
  BY <1>1, <1>2, <1>3 DEF Next

(* In every behaviour the table holds the codes of loaded manifests.        *)
THEOREM LookupCorrect == Spec => []LookupInv
<1>1. QED
  BY InitLookup, NextLookup, PTL DEF Spec

(* Once every manifest has been visited, a lookup in an unambiguous tree    *)
(* yields the fixture's own codes, or nothing if its manifest was lost.     *)
LEMMA LookupFinds ==
  ASSUME LookupInv, Unambiguous, unread = {}, NEW i \in DOMAIN vectors
  PROVE  AllowedFor(vectors[i]) = IF i \in lost THEN {} ELSE vectors[i].codes
<1> DEFINE path == PathKey(vectors[i])
           name == <<"", vectors[i].base>>
<1>1. ASSUME NEW k \in {path, name} \cap DOMAIN fixCodes
      PROVE  i \in Loaded /\ fixCodes[k] = vectors[i].codes
  <2>1. PICK j \in Loaded : k \in KeysOf(vectors[j])
                            /\ fixCodes[k] = vectors[j].codes
    BY <1>1 DEF LookupInv
  <2>2. k \in KeysOf(vectors[i]) \cup {name}
    BY <1>1 DEF KeysOf
  <2>3. j \in DOMAIN vectors
    BY DEF Loaded
  <2>4. j = i
    BY <2>1, <2>2, <2>3 DEF Unambiguous
  <2>5. QED
    BY <2>1, <2>4
<1>2. CASE i \in lost
  <2>1. i \notin Loaded
    BY <1>2 DEF Loaded
  <2>2. Found(path) = {} /\ Found(name) = {}
    BY <1>1, <2>1 DEF Found
  <2>3. QED
    BY <1>2, <2>2 DEF AllowedFor
<1>3. CASE i \notin lost
  <2>1. i \in Loaded
    BY <1>3 DEF Loaded
  <2>2. path \in DOMAIN fixCodes
    BY <2>1 DEF LookupInv, KeysOf
  <2>3. Found(path) = vectors[i].codes
    BY <1>1, <2>2 DEF Found
  <2>4. Found(name) \in {vectors[i].codes, {}}
    BY <1>1 DEF Found
  <2>5. QED
    BY <1>3, <2>3, <2>4 DEF AllowedFor
<1>4. QED
  BY <1>2, <1>3

-----------------------------------------------------------------------------
(* The report                                                               *)

\* Each result is one the runner gives, and the report, once made, stays true
\* of the results and the table it was made from.
TablesInv ==
  /\ \A i \in DOMAIN vectors, s \in Sdks :
       cells[i][s] \in ResultsOf(vectors[i], caps[s])
  /\ report.done => /\ unread = {}
                    /\ report.rejections = RejectionDivergences
                    /\ report.flags = CapabilityDivergences

(* The tables are functions of what the steps leave alone.                  *)
LEMMA TablesUnchanged ==
  ASSUME UNCHANGED <<vectors, caps, cells, fixCodes>>
  PROVE  /\ RejectionDivergences' = RejectionDivergences
         /\ CapabilityDivergences' = CapabilityDivergences
BY DEF RejectionDivergences, CapabilityDivergences, Emitted, AllowedFor,
       Found, PathKey, Flags, Sdks

(* Nothing is reported before the walk.                                     *)
LEMMA InitTables == Init => TablesInv
BY DEF Init, NoReport, TablesInv

(* The report is made of the tables as they are, and they stay.             *)
LEMMA NextTables == TablesInv /\ [Next]_vars => TablesInv'
<1> SUFFICES ASSUME TablesInv, [Next]_vars PROVE TablesInv'
  OBVIOUS
<1>1. UNCHANGED <<vectors, caps, cells>>
  BY DEF Next, ReadManifest, MissManifest, Analyze, AnalyzeRaises, vars
<1>2. \A i \in DOMAIN vectors', s \in Sdks' :
        cells'[i][s] \in ResultsOf(vectors'[i], caps'[s])
  BY <1>1 DEF TablesInv, Sdks
<1>3. CASE report' = report
  <2>1. report.done => unread' = {} /\ fixCodes' = fixCodes
    BY <1>3 DEF TablesInv, Next, ReadManifest, MissManifest, Analyze,
                AnalyzeRaises, NoReport, vars
  <2>2. QED
    BY <1>1, <1>2, <1>3, <2>1, TablesUnchanged DEF TablesInv
<1>4. CASE Analyze
  <2>1. /\ UNCHANGED <<unread, fixCodes>> /\ unread = {}
        /\ report'.rejections = RejectionDivergences
        /\ report'.flags = CapabilityDivergences
    BY <1>4 DEF Analyze
  <2>2. QED
    BY <1>1, <1>2, <2>1, TablesUnchanged DEF TablesInv
<1>5. CASE AnalyzeRaises
  BY <1>2, <1>5 DEF AnalyzeRaises, NoReport, TablesInv
<1>6. QED
  BY <1>3, <1>4, <1>5 DEF Next, ReadManifest, MissManifest, vars

(* In every behaviour the report is that of the tables.                     *)
THEOREM TablesCorrect == Spec => []TablesInv
<1>1. QED
  BY InitTables, NextTables, PTL DEF Spec

(* Every row of the report shows the codes of its own fixture's manifest,   *)
(* in whatever order the walk met the manifests, if names are unambiguous.  *)
THEOREM RowsAreTheirOwn == Spec => []RowsShowTheirOwnCodes
<1>1. LookupInv /\ TablesInv => RowsShowTheirOwnCodes
  <2> SUFFICES ASSUME LookupInv, TablesInv, Unambiguous, report.done,
                      NEW row \in report.rejections
               PROVE  row.allowed = IF row.fixture \in lost THEN {}
                                    ELSE vectors[row.fixture].codes
    BY DEF RowsShowTheirOwnCodes
  <2>1. PICK i \in DOMAIN vectors :
          row.fixture = i /\ row.allowed = AllowedFor(vectors[i])
    BY DEF TablesInv, RejectionDivergences
  <2>2. QED
    BY <2>1, LookupFinds DEF TablesInv
<1>2. QED
  BY <1>1, LookupCorrect, TablesCorrect, PTL

(* The runner gives a pass on a reject fixture with codes listed only to an *)
(* answer with one of them.                                                 *)
LEMMA PassedCode ==
  ASSUME NEW fx, NEW have, NEW c \in ResultsOf(fx, have),
         c.status = "pass", c.code # NoCode, fx.exit = Reject, fx.codes # {}
  PROVE  c.code \in fx.codes
<1>1. PICK a : /\ Verdict(fx, a) = "pass"
               /\ c.code = IF a.body = "object" THEN a.code ELSE NoCode
  BY DEF ResultsOf, FixtureResults
<1>2. a.exit = Reject /\ Passes(fx, a)
  BY <1>1 DEF Verdict
<1>3. CodeAccepted(fx, a)
  BY <1>2 DEF Passes, Reject, Accept
<1>4. QED
  BY <1>1, <1>3 DEF CodeAccepted

(* Where all SDKs that emitted a code passed a reject fixture, the split    *)
(* shown is between codes shown as allowed.                                 *)
THEOREM SplitsAreAllowed == Spec => []PassingSplitsAreAllowed
<1>1. TablesInv /\ RowsShowTheirOwnCodes => PassingSplitsAreAllowed
  <2> SUFFICES ASSUME TablesInv, RowsShowTheirOwnCodes, report.done,
                      Unambiguous, NEW row \in report.rejections,
                      row.allowed # {}, vectors[row.fixture].exit = Reject,
                      \A s \in DOMAIN row.emitted :
                        cells[row.fixture][s].status = "pass",
                      NEW s \in DOMAIN row.emitted
               PROVE  row.emitted[s] \in row.allowed
    BY DEF PassingSplitsAreAllowed
  <2>1. PICK i \in DOMAIN vectors : row.fixture = i /\ row.emitted = Emitted(i)
    BY DEF TablesInv, RejectionDivergences
  <2>2. /\ s \in Sdks /\ cells[i][s].code # NoCode
        /\ row.emitted[s] = cells[i][s].code
    BY <2>1 DEF Emitted
  <2>3. row.allowed = vectors[i].codes
    BY <2>1 DEF RowsShowTheirOwnCodes
  <2>4. cells[i][s] \in ResultsOf(vectors[i], caps[s])
    BY <2>2 DEF TablesInv
  <2>5. QED
    BY <2>1, <2>2, <2>3, <2>4, PassedCode
<1>2. QED
  BY <1>1, TablesCorrect, RowsAreTheirOwn, PTL

(* A skip over a capability's value and a run of the same fixture by an SDK *)
(* that declares the capability take two different values.                  *)
LEMMA SkipAndRunDiffer ==
  ASSUME NEW fx, NEW p, NEW q,
         NEW c \in ResultsOf(fx, p), c.reason.kind = "value",
         NEW d \in ResultsOf(fx, q), d.status # "skip"
  PROVE  /\ c.reason.what \in DOMAIN p.flags /\ c.reason.what \in DOMAIN q.flags
         /\ p.flags[c.reason.what] # q.flags[c.reason.what]
<1>1. ~Supported(fx, "base", p) /\ c.reason \in SkipReasons(fx, "base", p)
  BY DEF ResultsOf, FixtureResults, NoReason
<1>2. PICK flag \in DOMAIN fx.caps :
        /\ c.reason.what = flag
        /\ flag \in DOMAIN p.flags
        /\ fx.caps[flag] \cap p.flags[flag] = {}
  BY <1>1 DEF SkipReasons, RequiredCaps
<1>3. Supported(fx, "base", q)
  BY DEF ResultsOf, FixtureResults
<1>4. flag \in DOMAIN q.flags /\ fx.caps[flag] \cap q.flags[flag] # {}
  BY <1>3 DEF Supported, RequiredCapabilitiesSatisfied, RequiredCaps
<1>5. QED
  BY <1>2, <1>4

(* The report never shows an SDK skipping over the value of a capability    *)
(* that another SDK has and does not list the capability as divergent.      *)
THEOREM SkipsAreExplained == Spec => []UnequalSkipsAreExplained
<1>1. TablesInv => UnequalSkipsAreExplained
  <2> SUFFICES ASSUME TablesInv, report.done, NEW i \in DOMAIN vectors,
                      NEW s \in Sdks, NEW t \in Sdks,
                      cells[i][s].reason.kind = "value",
                      cells[i][t].status # "skip"
               PROVE  cells[i][s].reason.what \in report.flags
    BY DEF UnequalSkipsAreExplained
  <2> DEFINE flag == cells[i][s].reason.what
  <2>1. /\ cells[i][s] \in ResultsOf(vectors[i], caps[s])
        /\ cells[i][t] \in ResultsOf(vectors[i], caps[t])
    BY DEF TablesInv
  <2>2. /\ flag \in DOMAIN caps[s].flags /\ flag \in DOMAIN caps[t].flags
        /\ caps[s].flags[flag] # caps[t].flags[flag]
    BY <2>1, SkipAndRunDiffer
  <2>3. flag \in CapabilityDivergences
    BY <2>2 DEF CapabilityDivergences, Flags
  <2>4. QED
    BY <2>3 DEF TablesInv
<1>2. QED
  BY <1>1, TablesCorrect, PTL
=============================================================================
