--------------------------- MODULE MCFixtureSuite ---------------------------
(***************************************************************************)
(* Instance of FixtureSuite: every vector, in logs of sizes that are and    *)
(* are not powers of two, the production entry at either edge and between.  *)
(***************************************************************************)
EXTENDS FixtureSuite

MCSeedTrees == {[size |-> 2, at |-> 0], [size |-> 5, at |-> 4], [size |-> 6, at |-> 3]}

=============================================================================
