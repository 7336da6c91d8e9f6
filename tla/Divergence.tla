----------------------------- MODULE Divergence -----------------------------
(***************************************************************************)
(* analyze of harness/tinfoil_conformance/divergence.py: what is said of    *)
(* the differences between SDKs, from a results.json the runner wrote and   *)
(* the manifests found beside it, read in whatever order the directory walk *)
(* yields them.                                                             *)
(*                                                                         *)
(* Data.  A fixture is a Runner fixture with three more fields: `top`, the  *)
(* directory it lies in, `base`, its own directory's name, and `id`, the    *)
(* manifest's id or NoId.  A lookup key is a pair <<directory, name>>: a    *)
(* path is <<top, base>> and a bare name is <<"", name>>.                   *)
(***************************************************************************)
EXTENDS Runner

CONSTANTS
  RecordedRuns,   \* the runs considered: [vectors, a sequence of fixtures;
                  \* sdks, the names of the SDKs in results.json;
                  \* declares, what each may have declared]
  Answers,        \* what an SDK may have answered
  NoId            \* the manifest has no id

VARIABLES
  vectors,   \* the tree the run was made on and the report reads
  caps,      \* SDK -> its declaration, as results.json holds it
  cells,     \* fixture -> SDK -> its result, as results.json holds it
  unread,    \* the manifests the walk has not come to
  lost,      \* history: those that were not there or did not load
  fixCodes,  \* key -> the codes of the manifest read last under that key
  report     \* NoReport, then what analyze returned

vars == <<vectors, caps, cells, unread, lost, fixCodes, report>>

NoReport == [done |-> FALSE, raised |-> FALSE]

VectorTrees == {run.vectors : run \in RecordedRuns}
Sdks == DOMAIN caps

-----------------------------------------------------------------------------
(* What the runner left in results.json                                     *)

ResultsOf(fx, have) == FixtureResults(fx, "base", have, Answers)

Cells == (DOMAIN vectors) \X Sdks

-----------------------------------------------------------------------------
(* Manifest lookup                                                          *)

PathKey(fx) == <<fx.top, fx.base>>
IdKey(fx)   == <<"", IF fx.id = NoId THEN fx.base ELSE fx.id>>

\* Slip: the path is not entered.
IdKeyOnly(fx) == {IdKey(fx)}

KeysOf(fx) == {IdKey(fx), PathKey(fx)}

\* fix_codes.get(base_fid) or fix_codes.get(basename)
Found(key) == IF key \in DOMAIN fixCodes THEN fixCodes[key] ELSE {}

AllowedFor(fx) ==
  IF Found(PathKey(fx)) # {} THEN Found(PathKey(fx))
  ELSE Found(<<"", fx.base>>)

-----------------------------------------------------------------------------
(* The tables                                                               *)

Emitted(i) ==
  [s \in {t \in Sdks : cells[i][t].code # NoCode} |-> cells[i][s].code]

RejectionDivergences ==
  {[fixture |-> i, allowed |-> AllowedFor(vectors[i]), emitted |-> Emitted(i)] :
     i \in {j \in DOMAIN vectors :
              \E s, t \in DOMAIN Emitted(j) : Emitted(j)[s] # Emitted(j)[t]}}

Flags == UNION {DOMAIN caps[s].flags : s \in Sdks}

\* Slip: two values are taken for the noise between libraries.
ThreeWaySplits ==
  {f \in Flags :
     \E r, s, t \in {u \in Sdks : f \in DOMAIN caps[u].flags} :
       /\ caps[r].flags[f] # caps[s].flags[f]
       /\ caps[s].flags[f] # caps[t].flags[f]
       /\ caps[r].flags[f] # caps[t].flags[f]}

\* Only the SDKs that declare the flag are compared.
CapabilityDivergences ==
  {f \in Flags :
     \E s, t \in {u \in Sdks : f \in DOMAIN caps[u].flags} :
       caps[s].flags[f] # caps[t].flags[f]}

\* The gate a reason is filed under: what stands between the first quotes of a
\* reason that begins with "capability '" or "stage '", and all of any other.
GateOf(reason) ==
  IF reason.kind = "undeclared" THEN reason
  ELSE [kind |-> IF reason.kind = "stage" THEN "stage" ELSE "capability",
        what |-> reason.what]

Skipped == {c \in Cells : cells[c[1]][c[2]].status = "skip"}

SkippedFor(s, gate) ==
  {c[1] : c \in {d \in Skipped :
                   d[2] = s /\ GateOf(cells[d[1]][d[2]].reason) = gate}}

SkipCauses ==
  {[gate |-> g, bySdk |-> [s \in Sdks |-> SkippedFor(s, g)]] :
     g \in {GateOf(cells[c[1]][c[2]].reason) : c \in Skipped}}

-----------------------------------------------------------------------------
Init ==
  /\ \E run \in RecordedRuns :
       /\ vectors = run.vectors
       /\ caps \in [run.sdks -> run.declares]
  /\ cells \in [DOMAIN vectors -> [Sdks ->
                  UNION {ResultsOf(vectors[c[1]], caps[c[2]]) : c \in Cells}]]
  /\ \A i \in DOMAIN vectors, s \in Sdks :
       cells[i][s] \in ResultsOf(vectors[i], caps[s])
  /\ unread = DOMAIN vectors
  /\ lost = {}
  /\ fixCodes = << >>
  /\ report = NoReport

\* _fixture_codes_from_manifests: a later manifest replaces an earlier one
\* under the same key.
ReadManifest(i) ==
  /\ i \in unread
  /\ unread' = unread \ {i}
  /\ fixCodes' = [k \in DOMAIN fixCodes \cup KeysOf(vectors[i]) |->
                    IF k \in KeysOf(vectors[i]) THEN vectors[i].codes
                    ELSE fixCodes[k]]
  /\ UNCHANGED <<vectors, caps, cells, lost, report>>

\* Slip: a manifest that does not load is entered without codes.
EnterNothing(i) ==
  /\ i \in unread
  /\ unread' = unread \ {i}
  /\ lost' = lost \cup {i}
  /\ fixCodes' = [k \in DOMAIN fixCodes \cup KeysOf(vectors[i]) |->
                    IF k \in KeysOf(vectors[i]) THEN {} ELSE fixCodes[k]]
  /\ UNCHANGED <<vectors, caps, cells, report>>

\* --vectors is best effort: the tree may have changed since the run, and a
\* manifest that does not load is passed over.
MissManifest(i) ==
  /\ i \in unread
  /\ unread' = unread \ {i}
  /\ lost' = lost \cup {i}
  /\ UNCHANGED <<vectors, caps, cells, fixCodes, report>>

Unreadable == \E c \in Cells : cells[c[1]][c[2]].body = "list"

Analyze ==
  /\ unread = {} /\ report = NoReport
  /\ ~Unreadable
  /\ report' = [done |-> TRUE, rejections |-> RejectionDivergences,
                flags |-> CapabilityDivergences, causes |-> SkipCauses]
  /\ UNCHANGED <<vectors, caps, cells, unread, lost, fixCodes>>

\* body.get on the body of a failed call that printed a JSON array.
AnalyzeRaises ==
  /\ unread = {} /\ report = NoReport
  /\ Unreadable
  /\ report' = [report EXCEPT !.raised = TRUE]
  /\ UNCHANGED <<vectors, caps, cells, unread, lost, fixCodes>>

Next ==
  \/ \E i \in DOMAIN vectors : ReadManifest(i) \/ MissManifest(i)
  \/ Analyze \/ AnalyzeRaises

Spec == Init /\ [][Next]_vars

-----------------------------------------------------------------------------
(* Properties                                                               *)

\* The manifests the walk came to and could load.
Loaded == (DOMAIN vectors) \ (unread \cup lost)

(* The lookup table holds, under the keys of the manifests loaded so far and *)
(* no others, the codes of one that has the key.                            *)
LookupInv ==
  /\ vectors \in VectorTrees
  /\ unread \subseteq DOMAIN vectors
  /\ lost \cap unread = {}
  /\ \A i \in Loaded : KeysOf(vectors[i]) \subseteq DOMAIN fixCodes
  /\ \A k \in DOMAIN fixCodes :
       \E i \in Loaded : k \in KeysOf(vectors[i])
                          /\ fixCodes[k] = vectors[i].codes

\* No fixture's id or path is another's id, path or directory name.
Unambiguous ==
  \A i, j \in DOMAIN vectors : i # j =>
    KeysOf(vectors[j]) \cap (KeysOf(vectors[i]) \cup {<<"", vectors[i].base>>})
      = {}

(* In whatever order the manifests are read, a row shows the codes of its   *)
(* own fixture's manifest, as long as the names in the tree are unambiguous. *)
RowsShowTheirOwnCodes ==
  report.done /\ Unambiguous =>
    \A row \in report.rejections :
      row.allowed = IF row.fixture \in lost THEN {}
                    ELSE vectors[row.fixture].codes

(* Where every SDK that emitted a code passed a reject fixture, each of the *)
(* codes is one the row shows as allowed: the split the report calls an     *)
(* ambiguity of the taxonomy and not a bug.                                 *)
PassingSplitsAreAllowed ==
  report.done /\ Unambiguous =>
    \A row \in report.rejections :
      /\ row.allowed # {}
      /\ vectors[row.fixture].exit = Reject
      /\ \A s \in DOMAIN row.emitted : cells[row.fixture][s].status = "pass"
      => \A s \in DOMAIN row.emitted : row.emitted[s] \in row.allowed

(* Where one SDK skipped a fixture over the value of a capability and       *)
(* another that declares the capability was run on it, the capability is    *)
(* among the divergences: the two halves of the report do not contradict    *)
(* each other.                                                              *)
UnequalSkipsAreExplained ==
  report.done =>
    \A i \in DOMAIN vectors : \A s, t \in Sdks :
      /\ cells[i][s].reason.kind = "value"
      /\ cells[i][t].status # "skip"
      => cells[i][s].reason.what \in report.flags

(* Every rejection-code divergence of a fixture with codes listed is between *)
(* codes that are each allowed.                                             *)
EachIndividuallyAllowed ==
  report.done =>
    \A row \in report.rejections : row.allowed # {} =>
      \A s \in DOMAIN row.emitted : row.emitted[s] \in row.allowed

(* Each capability that makes SDKs skip has one row among the skip causes.  *)
OneLinePerCapability ==
  report.done =>
    \A c, d \in report.causes :
      /\ c.gate.kind # "stage" /\ d.gate.kind # "stage"
      /\ c.gate.what = d.gate.what
      => c = d
=============================================================================
