----------------------------- MODULE MerkleTree -----------------------------
(***************************************************************************)
(* The RFC 6962 tree of fixturegen/lib/rekor.py: root and audit path, and   *)
(* the check a verifier makes of a path (RFC 9162, 2.1.3.2).                *)
(*                                                                         *)
(* Hashes are tuples, so two of them are equal only when what was hashed is *)
(* equal: a leaf is <<"leaf", data>>, a node <<"node", left, right>>.       *)
(***************************************************************************)
EXTENDS Naturals, Sequences, FiniteSets

LeafHash(data) == <<"leaf", data>>
HashChildren(left, right) == <<"node", left, right>>

\* Slip: the leaves are split in the middle.
SplitInTheMiddle(n) == (n + 1) \div 2

\* k after i passes of `while k * 2 < n: k *= 2`, and how many passes there are.
Doubled[i \in Nat] == IF i = 0 THEN 1 ELSE 2 * Doubled[i - 1]
Doublings(n) ==
  CHOOSE i \in 0..n : /\ 2 * Doubled[i] >= n
                     /\ \A j \in 0..(i - 1) : 2 * Doubled[j] < n

LargestPowerOfTwoBelow(n) == Doubled[Doublings(n)]

\* The root of leaves[from .. from + n - 1]; n is at least 1 wherever it is used.
RootOf(leaves) ==
  LET tree[n \in 1..Len(leaves)] ==
        [from \in 1..(Len(leaves) - n + 1) |->
           IF n = 1 THEN leaves[from]
           ELSE LET k == LargestPowerOfTwoBelow(n)
                IN  HashChildren(tree[k][from], tree[n - k][from + k])]
  IN  tree

MerkleRoot(leaves) == RootOf(leaves)[Len(leaves)][1]

\* PathsOf(leaves)[n][from][i] is the audit path of leaf i, counted from 0, among
\* leaves[from .. from + n - 1]; it runs from the leaf to the root.
PathsOf(leaves) ==
  LET tree == RootOf(leaves)
      path[n \in 1..Len(leaves)] ==
        [from \in 1..(Len(leaves) - n + 1) |->
          [i \in 0..(n - 1) |->
            IF n = 1 THEN << >>
            ELSE LET k == LargestPowerOfTwoBelow(n)
                 IN  IF i < k
                     THEN Append(path[k][from][i], tree[n - k][from + k])
                     ELSE Append(path[n - k][from + k][i - k], tree[k][from])]]
  IN  path

MerkleInclusionProof(leaves, index) == PathsOf(leaves)[Len(leaves)][1][index]

-----------------------------------------------------------------------------
(* The verifier's side, which works on bits of the index and never builds   *)
(* the tree: fn and sn are shifted together until the right edge is left.   *)

OddOrZero(n) == n % 2 = 1 \/ n = 0

Shift(fn, sn) ==
  LET n == CHOOSE n \in 0..fn : /\ OddOrZero(fn \div Doubled[n])
                               /\ \A m \in 0..(n - 1) : ~OddOrZero(fn \div Doubled[m])
  IN  <<fn \div Doubled[n], sn \div Doubled[n]>>

\* Up one level past the sibling p; a path that goes on past the root is refused.
Ascend(at, p) ==
  LET right == at.fn % 2 = 1 \/ at.fn = at.sn
      edge  == IF right /\ at.fn % 2 = 0 THEN Shift(at.fn, at.sn) ELSE <<at.fn, at.sn>>
  IN  IF at.sn = 0 THEN [at EXCEPT !.within = FALSE]
      ELSE [fn |-> edge[1] \div 2, sn |-> edge[2] \div 2,
            hash |-> IF right THEN HashChildren(p, at.hash) ELSE HashChildren(at.hash, p),
            within |-> at.within]

\* Where the verifier stands after each hash of the path.
Climb(fn, sn, hash, path) ==
  LET at[j \in 0..Len(path)] ==
        IF j = 0 THEN [fn |-> fn, sn |-> sn, hash |-> hash, within |-> TRUE]
        ELSE Ascend(at[j - 1], path[j])
  IN  at

Includes(root, size, index, leaf, path) ==
  /\ index < size
  /\ LET top == Climb(index, size - 1, leaf, path)[Len(path)]
     IN  top.within /\ top.sn = 0 /\ top.hash = root

=============================================================================
