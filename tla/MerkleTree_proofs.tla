-------------------------- MODULE MerkleTree_proofs --------------------------
(***************************************************************************)
(* Proofs about MerkleTree, for logs of every size and every index: the     *)
(* verifier accepts the path the fixtures' log builds for a leaf, and no    *)
(* other path or leaf.                                                      *)
(*                                                                         *)
(* Induction is by least counterexample (LeastNat), and each recursive      *)
(* function is first shown to satisfy the equation that defines it.         *)
(***************************************************************************)
EXTENDS MerkleTree, LeastElement

-----------------------------------------------------------------------------
(* Powers of two                                                            *)

Doubling(g, n) ==
  /\ g \in [0..n -> Nat] /\ g[0] = 1
  /\ \A i \in 1..n : g[i] = 2 * g[i - 1]

(* The loop of _largest_power_of_two_below can be run any number of times.  *)
LEMMA DoublingExists == \A n \in Nat : \E g : Doubling(g, n)
<1> DEFINE Good == {n \in Nat : \E g : Doubling(g, n)}
<1>1. 0 \in Good
  <2>1. Doubling([i \in 0..0 |-> 1], 0)
    BY DEF Doubling
  <2>2. QED
    BY <2>1
<1>2. ASSUME NEW n \in Nat, n \in Good PROVE n + 1 \in Good
  <2>1. PICK g : Doubling(g, n)
    BY <1>2
  <2> DEFINE h == [i \in 0..(n + 1) |-> IF i = n + 1 THEN 2 * g[n] ELSE g[i]]
  <2>2. \A i \in 0..n : g[i] \in Nat
    BY <2>1 DEF Doubling
  <2>3. h \in [0..(n + 1) -> Nat] /\ h[0] = 1
    BY <2>1, <2>2 DEF Doubling
  <2>4. ASSUME NEW i \in 1..(n + 1) PROVE h[i] = 2 * h[i - 1]
    <3>1. h[i - 1] = g[i - 1]
      OBVIOUS
    <3>2. CASE i = n + 1
      BY <3>1, <3>2
    <3>3. CASE i # n + 1
      BY <2>1, <3>1, <3>3 DEF Doubling
    <3>4. QED
      BY <3>2, <3>3
  <2>5. Doubling(h, n + 1)
    BY <2>3, <2>4 DEF Doubling
  <2>6. QED
    BY <2>5
<1> HIDE DEF Good
<1>3. \A n \in Nat : n \in Good
  BY <1>1, <1>2, Induction
<1>4. QED
  BY <1>3 DEF Good

(* Two runs of it agree as far as both go.                                  *)
LEMMA DoublingUnique ==
  ASSUME NEW m \in Nat, NEW n \in Nat, NEW g, NEW h,
         Doubling(g, m), Doubling(h, n), NEW i \in Nat, i <= m, i <= n
  PROVE  g[i] = h[i]
<1> DEFINE Good == {j \in Nat : j <= m /\ j <= n => g[j] = h[j]}
<1>1. 0 \in Good
  BY DEF Doubling
<1>2. ASSUME NEW j \in Nat, j \in Good PROVE j + 1 \in Good
  <2>1. CASE j + 1 <= m /\ j + 1 <= n
    <3>1. g[j + 1] = 2 * g[j] /\ h[j + 1] = 2 * h[j]
      BY <2>1 DEF Doubling
    <3>2. QED
      BY <1>2, <2>1, <3>1
  <2>2. QED
    BY <2>1
<1> HIDE DEF Good
<1>3. i \in Good
  BY <1>1, <1>2, Induction
<1>4. QED
  BY <1>3 DEF Good

(* Doubled is what its definition says.                                     *)
LEMMA DoubledIs ==
  /\ Doubled[0] = 1
  /\ \A i \in Nat : Doubled[i] \in Nat /\ Doubled[i + 1] = 2 * Doubled[i]
<1> DEFINE G(n) == CHOOSE g : Doubling(g, n)
           f == [n \in Nat |-> G(n)[n]]
<1>1. \A n \in Nat : Doubling(G(n), n)
  BY DoublingExists
<1>2. \A n \in Nat : f[n] \in Nat
  BY <1>1 DEF Doubling
<1>3. f[0] = 1
  BY <1>1 DEF Doubling
<1>4. ASSUME NEW n \in Nat, n # 0 PROVE f[n] = 2 * f[n - 1]
  <2>1. n - 1 \in Nat /\ Doubling(G(n), n) /\ Doubling(G(n - 1), n - 1)
    BY <1>1, <1>4
  <2> HIDE DEF G
  <2>2. G(n)[n - 1] = G(n - 1)[n - 1]
    BY <2>1, DoublingUnique
  <2>3. G(n)[n] = 2 * G(n)[n - 1]
    BY <2>1, <1>4 DEF Doubling
  <2>4. QED
    BY <2>1, <2>2, <2>3
<1> HIDE DEF G
<1>5. f = [i \in Nat |-> IF i = 0 THEN 1 ELSE 2 * f[i - 1]]
  BY <1>3, <1>4
<1> HIDE DEF f
<1>6. Doubled = [i \in Nat |-> IF i = 0 THEN 1 ELSE 2 * Doubled[i - 1]]
  BY <1>5 DEF Doubled
<1>7. \A i \in Nat : Doubled[i] = IF i = 0 THEN 1 ELSE 2 * Doubled[i - 1]
  BY <1>6
<1>8. Doubled[0] = 1 /\ \A i \in Nat : Doubled[i + 1] = 2 * Doubled[i]
  BY <1>7
<1> DEFINE Good == {i \in Nat : Doubled[i] \in Nat}
<1>9. 0 \in Good /\ \A i \in Nat : i \in Good => i + 1 \in Good
  BY <1>8
<1> HIDE DEF Good
<1>10. \A i \in Nat : i \in Good
  BY <1>9, Induction
<1>11. QED
  BY <1>8, <1>10 DEF Good

(* A power of two exceeds its exponent.                                     *)
LEMMA DoubledGrows == \A i \in Nat : i < Doubled[i]
<1> DEFINE Good == {i \in Nat : i < Doubled[i]}
<1>1. 0 \in Good
  BY DoubledIs
<1>2. ASSUME NEW i \in Nat, i \in Good PROVE i + 1 \in Good
  <2>1. Doubled[i] \in Nat /\ Doubled[i + 1] = 2 * Doubled[i] /\ i < Doubled[i]
    BY <1>2, DoubledIs
  <2>2. QED
    BY <2>1
<1> HIDE DEF Good
<1>3. \A i \in Nat : i \in Good
  BY <1>1, <1>2, Induction
<1>4. QED
  BY <1>3 DEF Good

(* A power of two is any smaller one times a power of two.                  *)
LEMMA DoubledSplits ==
  ASSUME NEW j \in Nat
  PROVE  \A i \in Nat : Doubled[j + i] = Doubled[i] * Doubled[j]
<1> DEFINE Good == {i \in Nat : Doubled[j + i] = Doubled[i] * Doubled[j]}
<1>1. 0 \in Good
  BY DoubledIs
<1>2. ASSUME NEW i \in Nat, i \in Good PROVE i + 1 \in Good
  <2> DEFINE a == Doubled[i]
             b == Doubled[j]
  <2>1. /\ a \in Nat /\ b \in Nat /\ Doubled[j + i] = a * b
        /\ Doubled[i + 1] = 2 * a /\ Doubled[(j + i) + 1] = 2 * Doubled[j + i]
    BY <1>2, DoubledIs
  <2>2. j + (i + 1) = (j + i) + 1
    OBVIOUS
  <2> HIDE DEF a, b
  <2>3. 2 * (a * b) = (2 * a) * b
    BY <2>1
  <2>4. QED
    BY <2>1, <2>2, <2>3 DEF a, b
<1> HIDE DEF Good
<1>3. \A i \in Nat : i \in Good
  BY <1>1, <1>2, Induction
<1>4. QED
  BY <1>3 DEF Good

(* A larger exponent, a larger power.                                       *)
LEMMA DoubledRises ==
  ASSUME NEW i \in Nat, NEW j \in Nat, i <= j
  PROVE  Doubled[i] <= Doubled[j]
<1> DEFINE a == Doubled[j - i]
           b == Doubled[i]
<1>1. j - i \in Nat /\ j = i + (j - i)
  OBVIOUS
<1>2. Doubled[i + (j - i)] = a * b
  BY <1>1, DoubledSplits
<1>3. Doubled[j] = a * b /\ a \in Nat /\ b \in Nat /\ a >= 1
  BY <1>1, <1>2, DoubledIs, DoubledGrows
<1> HIDE DEF a, b
<1>4. a * b >= b
  BY <1>3
<1>5. QED
  BY <1>3, <1>4 DEF b

-----------------------------------------------------------------------------
(* Where a tree is split                                                    *)

\* A tree of n leaves has height h: it needs no fewer than h levels.
IsHeight(h, n) ==
  n <= Doubled[h] /\ (h = 0 \/ (h - 1 \in Nat /\ Doubled[h - 1] < n))

(* Every tree has a height, within that of any larger full tree.            *)
LEMMA HeightExists ==
  ASSUME NEW n \in Nat
  PROVE  \E h \in Nat : /\ IsHeight(h, n)
                        /\ \A e \in Nat : n <= Doubled[e] => h <= e
<1> DEFINE S == {e \in Nat : n <= Doubled[e]}
<1>1. n \in S
  <2>1. n < Doubled[n] /\ Doubled[n] \in Nat
    BY DoubledGrows, DoubledIs
  <2>2. QED
    BY <2>1
<1>2. S \subseteq Nat
  OBVIOUS
<1>3. PICK h \in S : \A e \in S : h <= e
  <2> HIDE DEF S
  <2>1. QED
    BY <1>1, <1>2, LeastNat
<1>4. ASSUME h # 0 PROVE h - 1 \in Nat /\ Doubled[h - 1] < n
  <2>1. h - 1 \in Nat /\ h - 1 \notin S
    BY <1>3, <1>4
  <2>2. Doubled[h - 1] \in Nat
    BY <2>1, DoubledIs
  <2>3. QED
    BY <2>1, <2>2
<1>5. QED
  BY <1>3, <1>4 DEF IsHeight

(* A tree is split at the size of the full tree one level below its root.   *)
LEMMA SplitIs ==
  ASSUME NEW n \in Nat, n >= 2, NEW h \in Nat, IsHeight(h, n)
  PROVE  /\ h - 1 \in Nat /\ LargestPowerOfTwoBelow(n) = Doubled[h - 1]
         /\ Doubled[h - 1] \in Nat /\ Doubled[h - 1] >= 1 /\ Doubled[h - 1] < n
         /\ n <= 2 * Doubled[h - 1] /\ Doubled[h] = 2 * Doubled[h - 1]
<1>1. h # 0
  BY DoubledIs DEF IsHeight
<1> DEFINE p == h - 1
<1>2. p \in Nat /\ h = p + 1
  BY <1>1
<1>3. /\ Doubled[p] \in Nat /\ Doubled[p] < n /\ n <= Doubled[h]
      /\ Doubled[h] = 2 * Doubled[p] /\ p < Doubled[p]
  BY <1>1, <1>2, DoubledIs, DoubledGrows DEF IsHeight
<1> HIDE DEF p
<1>4. \A j \in Nat : j < p => 2 * Doubled[j] < n
  <2> SUFFICES ASSUME NEW j \in Nat, j < p PROVE 2 * Doubled[j] < n
    OBVIOUS
  <2>1. Doubled[j + 1] <= Doubled[p] /\ Doubled[j + 1] = 2 * Doubled[j]
    BY <1>2, DoubledRises, DoubledIs
  <2>2. Doubled[j] \in Nat
    BY DoubledIs
  <2>3. QED
    BY <1>3, <2>1, <2>2
<1> DEFINE IsDoublings(i) == /\ 2 * Doubled[i] >= n
                          /\ \A j \in 0..(i - 1) : 2 * Doubled[j] < n
<1>5. p \in 0..n /\ IsDoublings(p)
  BY <1>2, <1>3, <1>4
<1>6. ASSUME NEW i \in 0..n, IsDoublings(i) PROVE i = p
  <2>1. i \in Nat /\ Doubled[i] \in Nat
    BY DoubledIs
  <2>2. ~(i < p)
    BY <1>4, <1>6, <2>1
  <2>3. ~(p < i)
    BY <1>2, <1>3, <1>6, <2>1
  <2>4. QED
    BY <1>2, <2>1, <2>2, <2>3
<1> HIDE DEF IsDoublings
<1>7. (CHOOSE i \in 0..n : IsDoublings(i)) = p
  BY <1>5, <1>6
<1>8. LargestPowerOfTwoBelow(n) = Doubled[p]
  BY <1>7 DEF LargestPowerOfTwoBelow, Doublings, IsDoublings
<1>9. QED
  BY <1>2, <1>3, <1>8 DEF p

(* Both sides of the split have leaves.                                     *)
LEMMA SplitBounds ==
  ASSUME NEW n \in Nat, n >= 2
  PROVE  /\ LargestPowerOfTwoBelow(n) \in 1..(n - 1)
         /\ n - LargestPowerOfTwoBelow(n) \in 1..(n - 1)
<1>1. PICK h \in Nat : IsHeight(h, n)
  BY HeightExists
<1>2. QED
  BY <1>1, SplitIs

-----------------------------------------------------------------------------
(* The tree and its paths are what their definitions say                    *)

TreeBody(leaves, tree, n) ==
  [from \in 1..(Len(leaves) - n + 1) |->
     IF n = 1 THEN leaves[from]
     ELSE LET k == LargestPowerOfTwoBelow(n)
          IN  HashChildren(tree[k][from], tree[n - k][from + k])]

(* A function can be built that gives each size its subtrees.               *)
LEMMA TreeExists ==
  ASSUME NEW leaves
  PROVE  \A m \in Nat : \E f : f = [n \in 1..m |-> TreeBody(leaves, f, n)]
<1> DEFINE Good == {m \in Nat : \E f : f = [n \in 1..m |-> TreeBody(leaves, f, n)]}
<1>1. 0 \in Good
  <2> DEFINE f == [n \in 1..0 |-> {}]
  <2>1. f = [n \in 1..0 |-> TreeBody(leaves, f, n)]
    OBVIOUS
  <2>2. QED
    BY <2>1
<1>2. ASSUME NEW m \in Nat, m \in Good PROVE m + 1 \in Good
  <2>1. PICK f : f = [n \in 1..m |-> TreeBody(leaves, f, n)]
    BY <1>2
  <2> DEFINE g == [n \in 1..(m + 1) |-> TreeBody(leaves, f, n)]
  <2>2. \A n \in 1..m : g[n] = f[n]
    BY <2>1
  <2> HIDE DEF g
  <2>3. ASSUME NEW n \in 1..(m + 1)
        PROVE  TreeBody(leaves, g, n) = TreeBody(leaves, f, n)
    <3>1. CASE n = 1
      BY <3>1 DEF TreeBody
    <3>2. CASE n # 1
      <4> DEFINE k == LargestPowerOfTwoBelow(n)
      <4>1. k \in 1..(n - 1) /\ n - k \in 1..(n - 1)
        BY <3>2, SplitBounds
      <4>2. k \in 1..m /\ n - k \in 1..m
        BY <4>1
      <4>3. g[k] = f[k] /\ g[n - k] = f[n - k]
        BY <2>2, <4>2
      <4>4. QED
        BY <4>3 DEF TreeBody
    <3>3. QED
      BY <3>1, <3>2
  <2>4. g = [n \in 1..(m + 1) |-> TreeBody(leaves, g, n)]
    BY <2>3 DEF g
  <2>5. QED
    BY <2>4
<1> HIDE DEF Good
<1>3. \A m \in Nat : m \in Good
  BY <1>1, <1>2, Induction
<1>4. QED
  BY <1>3 DEF Good

(* RootOf is defined by the recursion of merkle_root.                       *)
LEMMA TreeIs ==
  ASSUME NEW leaves, Len(leaves) \in Nat
  PROVE  RootOf(leaves) = [n \in 1..Len(leaves) |-> TreeBody(leaves, RootOf(leaves), n)]
<1> DEFINE Is(f) == f = [n \in 1..Len(leaves) |-> TreeBody(leaves, f, n)]
<1>1. \E f : Is(f)
  BY TreeExists
<1>2. RootOf(leaves) = CHOOSE f : Is(f)
  BY DEF RootOf, TreeBody
<1> HIDE DEF Is
<1>3. Is(RootOf(leaves))
  BY <1>1, <1>2
<1>4. QED
  BY <1>3 DEF Is

PathBody(leaves, path, n) ==
  [from \in 1..(Len(leaves) - n + 1) |->
    [i \in 0..(n - 1) |->
      IF n = 1 THEN << >>
      ELSE LET k == LargestPowerOfTwoBelow(n)
           IN  IF i < k
               THEN Append(path[k][from][i], RootOf(leaves)[n - k][from + k])
               ELSE Append(path[n - k][from + k][i - k], RootOf(leaves)[k][from])]]

(* A function can be built that gives each size its audit paths.            *)
LEMMA PathsExist ==
  ASSUME NEW leaves
  PROVE  \A m \in Nat : \E f : f = [n \in 1..m |-> PathBody(leaves, f, n)]
<1> DEFINE Good == {m \in Nat : \E f : f = [n \in 1..m |-> PathBody(leaves, f, n)]}
<1>1. 0 \in Good
  <2> DEFINE f == [n \in 1..0 |-> {}]
  <2>1. f = [n \in 1..0 |-> PathBody(leaves, f, n)]
    OBVIOUS
  <2>2. QED
    BY <2>1
<1>2. ASSUME NEW m \in Nat, m \in Good PROVE m + 1 \in Good
  <2>1. PICK f : f = [n \in 1..m |-> PathBody(leaves, f, n)]
    BY <1>2
  <2> DEFINE g == [n \in 1..(m + 1) |-> PathBody(leaves, f, n)]
  <2>2. \A n \in 1..m : g[n] = f[n]
    BY <2>1
  <2> HIDE DEF g
  <2>3. ASSUME NEW n \in 1..(m + 1)
        PROVE  PathBody(leaves, g, n) = PathBody(leaves, f, n)
    <3>1. CASE n = 1
      BY <3>1 DEF PathBody
    <3>2. CASE n # 1
      <4> DEFINE k == LargestPowerOfTwoBelow(n)
      <4>1. k \in 1..(n - 1) /\ n - k \in 1..(n - 1)
        BY <3>2, SplitBounds
      <4>2. k \in 1..m /\ n - k \in 1..m
        BY <4>1
      <4>3. g[k] = f[k] /\ g[n - k] = f[n - k]
        BY <2>2, <4>2
      <4>4. QED
        BY <4>3 DEF PathBody
    <3>3. QED
      BY <3>1, <3>2
  <2>4. g = [n \in 1..(m + 1) |-> PathBody(leaves, g, n)]
    BY <2>3 DEF g
  <2>5. QED
    BY <2>4
<1> HIDE DEF Good
<1>3. \A m \in Nat : m \in Good
  BY <1>1, <1>2, Induction
<1>4. QED
  BY <1>3 DEF Good

(* PathsOf is defined by the recursion of merkle_inclusion_proof.           *)
LEMMA PathsAre ==
  ASSUME NEW leaves, Len(leaves) \in Nat
  PROVE  PathsOf(leaves) = [n \in 1..Len(leaves) |-> PathBody(leaves, PathsOf(leaves), n)]
<1> DEFINE Is(f) == f = [n \in 1..Len(leaves) |-> PathBody(leaves, f, n)]
<1>1. \E f : Is(f)
  BY PathsExist
<1>2. PathsOf(leaves) = CHOOSE f : Is(f)
  BY DEF PathsOf, PathBody
<1> HIDE DEF Is
<1>3. Is(PathsOf(leaves))
  BY <1>1, <1>2
<1>4. QED
  BY <1>3 DEF Is

-----------------------------------------------------------------------------
(* The climb is what its definition says                                    *)

Start(fn, sn, hash) == [fn |-> fn, sn |-> sn, hash |-> hash, within |-> TRUE]

Climbs(at, fn, sn, hash, path, n) ==
  /\ at = [j \in 0..n |-> IF j = 0 THEN Start(fn, sn, hash)
                          ELSE Ascend(at[j - 1], path[j])]

(* A path of any length can be climbed.                                     *)
LEMMA ClimbExists ==
  ASSUME NEW fn, NEW sn, NEW hash, NEW path
  PROVE  \A n \in Nat : \E at : Climbs(at, fn, sn, hash, path, n)
<1> DEFINE Good == {n \in Nat : \E at : Climbs(at, fn, sn, hash, path, n)}
<1>1. 0 \in Good
  <2>1. Climbs([j \in 0..0 |-> Start(fn, sn, hash)], fn, sn, hash, path, 0)
    BY DEF Climbs
  <2>2. QED
    BY <2>1
<1>2. ASSUME NEW n \in Nat, n \in Good PROVE n + 1 \in Good
  <2>1. PICK at : Climbs(at, fn, sn, hash, path, n)
    BY <1>2
  <2> DEFINE step(f, j) == IF j = 0 THEN Start(fn, sn, hash) ELSE Ascend(f[j - 1], path[j])
             on == [j \in 0..(n + 1) |-> step(at, j)]
  <2>2. \A j \in 0..n : on[j] = at[j]
    BY <2>1 DEF Climbs
  <2> HIDE DEF on
  <2>3. \A j \in 0..(n + 1) : step(on, j) = step(at, j)
    <3> SUFFICES ASSUME NEW j \in 0..(n + 1) PROVE step(on, j) = step(at, j)
      OBVIOUS
    <3>1. j = 0 \/ on[j - 1] = at[j - 1]
      BY <2>2
    <3>2. QED
      BY <3>1
  <2> HIDE DEF step
  <2>4. on = [j \in 0..(n + 1) |-> step(on, j)]
    BY <2>3 DEF on
  <2>5. Climbs(on, fn, sn, hash, path, n + 1)
    BY <2>4 DEF Climbs, step
  <2>6. QED
    BY <2>5
<1> HIDE DEF Good
<1>3. \A n \in Nat : n \in Good
  BY <1>1, <1>2, Induction
<1>4. QED
  BY <1>3 DEF Good

(* Climb starts at the leaf and ascends once per hash.                      *)
LEMMA ClimbIs ==
  ASSUME NEW fn, NEW sn, NEW hash, NEW path, Len(path) \in Nat
  PROVE  /\ Climb(fn, sn, hash, path)[0] = Start(fn, sn, hash)
         /\ \A j \in 1..Len(path) :
              Climb(fn, sn, hash, path)[j] =
                Ascend(Climb(fn, sn, hash, path)[j - 1], path[j])
<1> DEFINE Is(f) == Climbs(f, fn, sn, hash, path, Len(path))
           c == Climb(fn, sn, hash, path)
<1>1. \E f : Is(f)
  BY ClimbExists
<1>2. c = CHOOSE f : Is(f)
  BY DEF Climb, Climbs, Start
<1> HIDE DEF Is, c
<1>3. Is(c)
  BY <1>1, <1>2
<1>4. c = [j \in 0..Len(path) |-> IF j = 0 THEN Start(fn, sn, hash)
                                  ELSE Ascend(c[j - 1], path[j])]
  BY <1>3 DEF Is, Climbs
<1>5. \A j \in 0..Len(path) : c[j] = IF j = 0 THEN Start(fn, sn, hash)
                                     ELSE Ascend(c[j - 1], path[j])
  BY <1>4
<1>6. QED
  BY <1>5 DEF c

\* A sequence, of whatever.
IsSeq(path) == \E S : path \in Seq(S)

(* A path one hash longer is climbed one step further.                      *)
LEMMA ClimbAppend ==
  ASSUME NEW fn, NEW sn, NEW hash, NEW path, IsSeq(path), NEW p
  PROVE  /\ IsSeq(Append(path, p)) /\ Len(path) \in Nat
         /\ Len(Append(path, p)) = Len(path) + 1
         /\ Climb(fn, sn, hash, Append(path, p))[Len(path) + 1] =
              Ascend(Climb(fn, sn, hash, path)[Len(path)], p)
<1> DEFINE n == Len(path)
           on == Append(path, p)
           c == Climb(fn, sn, hash, path)
           d == Climb(fn, sn, hash, on)
<1>1. PICK S : path \in Seq(S)
  BY DEF IsSeq
<1>2. path \in Seq(S \cup {p}) /\ p \in S \cup {p}
  BY <1>1
<1>3. on \in Seq(S \cup {p})
  BY <1>2
<1>4. /\ n \in Nat /\ Len(on) = n + 1 /\ on[n + 1] = p
      /\ \A j \in 1..n : on[j] = path[j]
  BY <1>2
<1> HIDE DEF on, c, d, n
<1>5. /\ c[0] = Start(fn, sn, hash) /\ d[0] = Start(fn, sn, hash)
      /\ \A j \in 1..n : c[j] = Ascend(c[j - 1], path[j])
      /\ \A j \in 1..(n + 1) : d[j] = Ascend(d[j - 1], on[j])
  BY <1>4, ClimbIs DEF c, d, n
<1> DEFINE Good == {j \in Nat : j <= n => c[j] = d[j]}
<1>6. 0 \in Good
  BY <1>5
<1>7. ASSUME NEW j \in Nat, j \in Good PROVE j + 1 \in Good
  <2>1. CASE j + 1 <= n
    <3>1. j + 1 \in 1..n /\ j + 1 \in 1..(n + 1) /\ (j + 1) - 1 = j /\ c[j] = d[j]
      BY <1>4, <1>7, <2>1
    <3>2. c[j + 1] = Ascend(c[j], path[j + 1]) /\ d[j + 1] = Ascend(d[j], on[j + 1])
      BY <1>5, <3>1
    <3>3. QED
      BY <1>4, <3>1, <3>2
  <2>2. QED
    BY <2>1
<1> HIDE DEF Good
<1>8. n \in Good
  BY <1>4, <1>6, <1>7, Induction
<1>9. c[n] = d[n]
  BY <1>4, <1>8 DEF Good
<1>10. n + 1 \in 1..(n + 1) /\ (n + 1) - 1 = n
  BY <1>4
<1>11. d[n + 1] = Ascend(c[n], p)
  BY <1>4, <1>5, <1>9, <1>10
<1>12. QED
  BY <1>3, <1>4, <1>11 DEF IsSeq, on, c, d, n

-----------------------------------------------------------------------------
(* One step of the climb                                                    *)

(* Multiplication is undone by division.                                    *)
LEMMA DivMul ==
  ASSUME NEW a \in Nat, NEW b \in Nat, b >= 1
  PROVE  (a * b) \div b = a
OBVIOUS

(* A number lies between two neighbouring multiples only.                   *)
LEMMA BlockUnique ==
  ASSUME NEW k \in Nat, NEW x \in Nat, NEW s \in Nat, NEW t \in Nat,
         s * k <= x, x < (s + 1) * k, t * k <= x, x < (t + 1) * k
  PROVE  s = t
<1>1. \A a, b \in Nat : a < b => (a + 1) * k <= b * k
  <2> SUFFICES ASSUME NEW a \in Nat, NEW b \in Nat, a < b
               PROVE  (a + 1) * k <= b * k
    OBVIOUS
  <2> DEFINE c == b - (a + 1)
  <2>1. c \in Nat /\ b = (a + 1) + c
    OBVIOUS
  <2> HIDE DEF c
  <2>2. b * k = (a + 1) * k + c * k /\ c * k \in Nat
    BY <2>1
  <2>3. QED
    BY <2>2
<1>2. QED
  BY <1>1

(* What a step past a sibling leaves, below the root.                       *)
LEMMA AscendIs ==
  ASSUME NEW fn \in Nat, NEW sn \in Nat, sn # 0, NEW hash, NEW p
  PROVE  LET up == Ascend(Start(fn, sn, hash), p)
         IN  /\ fn % 2 = 0 /\ fn # sn =>
                  up = Start(fn \div 2, sn \div 2, HashChildren(hash, p))
             /\ fn % 2 = 1 =>
                  up = Start(fn \div 2, sn \div 2, HashChildren(p, hash))
             /\ \A a \in Nat : fn % 2 = 0 /\ fn = sn /\ Shift(fn, sn) = <<a, a>> =>
                  up = Start(a \div 2, a \div 2, HashChildren(p, hash))
<1> DEFINE at == Start(fn, sn, hash)
           left(a, b) == [fn |-> a \div 2, sn |-> b \div 2,
                          hash |-> HashChildren(hash, p), within |-> TRUE]
           right(a, b) == [fn |-> a \div 2, sn |-> b \div 2,
                           hash |-> HashChildren(p, hash), within |-> TRUE]
<1>1. at.fn = fn /\ at.sn = sn /\ at.hash = hash /\ at.within = TRUE
  BY DEF Start
<1> HIDE DEF at
<1>2. \A a, b : <<a, b>>[1] = a /\ <<a, b>>[2] = b
  OBVIOUS
<1>3. ASSUME fn % 2 = 0, fn # sn PROVE Ascend(at, p) = left(fn, sn)
  <2>1. ~(fn % 2 = 1)
    BY <1>3
  <2>2. QED
    BY <1>1, <1>2, <1>3, <2>1, Zenon DEF Ascend
<1>4. ASSUME fn % 2 = 1 PROVE Ascend(at, p) = right(fn, sn)
  <2>1. ~(fn % 2 = 0)
    BY <1>4
  <2>2. QED
    BY <1>1, <1>2, <1>4, <2>1, Zenon DEF Ascend
<1>5. ASSUME NEW a \in Nat, fn % 2 = 0, fn = sn, Shift(fn, sn) = <<a, a>>
      PROVE  Ascend(at, p) = right(a, a)
  <2>1. <<a, a>>[1] = a /\ <<a, a>>[2] = a
    OBVIOUS
  <2>2. QED
    BY <1>1, <1>5, <2>1 DEF Ascend
<1>6. QED
  BY <1>3, <1>4, <1>5 DEF at, Start

(* A left child is hashed before its sibling.                               *)
LEMMA AscendLeft ==
  ASSUME NEW q \in Nat, NEW s \in Nat, s > 2 * q, NEW hash, NEW p
  PROVE  Ascend(Start(2 * q, s, hash), p) = Start(q, s \div 2, HashChildren(hash, p))
<1> DEFINE fn == 2 * q
<1>1. fn \in Nat /\ fn % 2 = 0 /\ fn \div 2 = q /\ fn # s /\ s # 0
  OBVIOUS
<1> HIDE DEF fn
<1>2. Ascend(Start(fn, s, hash), p) = Start(fn \div 2, s \div 2, HashChildren(hash, p))
  BY <1>1, AscendIs
<1>3. QED
  BY <1>1, <1>2 DEF fn

(* A right child is hashed after it.                                        *)
LEMMA AscendRight ==
  ASSUME NEW q \in Nat, NEW s \in Nat, s # 0, NEW hash, NEW p
  PROVE  Ascend(Start(2 * q + 1, s, hash), p)
           = Start(q, s \div 2, HashChildren(p, hash))
<1> DEFINE fn == 2 * q + 1
<1>1. fn \in Nat /\ fn % 2 = 1 /\ fn \div 2 = q
  OBVIOUS
<1> HIDE DEF fn
<1>2. Ascend(Start(fn, s, hash), p) = Start(fn \div 2, s \div 2, HashChildren(p, hash))
  BY <1>1, AscendIs
<1>3. QED
  BY <1>1, <1>2 DEF fn

(* A shift drops the levels at which the last subtree has no sibling.       *)
LEMMA ShiftIs ==
  ASSUME NEW q \in Nat, NEW j \in Nat, NEW f \in Nat,
         f = (2 * q + 1) * Doubled[j]
  PROVE  Shift(f, f) = <<2 * q + 1, 2 * q + 1>>
<1> DEFINE odd == 2 * q + 1
<1>1. odd \in Nat /\ odd % 2 = 1 /\ odd >= 1
  OBVIOUS
<1>2. \A m \in Nat : Doubled[m] \in Nat /\ Doubled[m] >= 1 /\ m < Doubled[m]
  BY DoubledIs, DoubledGrows
<1> HIDE DEF odd
<1>3. ASSUME NEW m \in 0..j PROVE f \div Doubled[m] = odd * Doubled[j - m]
  <2> DEFINE a == Doubled[j - m]
             b == Doubled[m]
  <2>1. j - m \in Nat /\ m \in Nat /\ j = m + (j - m)
    OBVIOUS
  <2>2. Doubled[m + (j - m)] = a * b
    BY <2>1, DoubledSplits
  <2>3. Doubled[j] = a * b /\ a \in Nat /\ b \in Nat /\ b >= 1
    BY <1>2, <2>1, <2>2
  <2> HIDE DEF a, b
  <2>4. f = odd * (a * b)
    BY <2>3 DEF odd
  <2>5. odd * (a * b) = (odd * a) * b /\ odd * a \in Nat
    BY <1>1, <2>3
  <2>6. ((odd * a) * b) \div b = odd * a
    BY <2>3, <2>5, DivMul
  <2>7. QED
    BY <2>4, <2>5, <2>6 DEF a, b
<1>4. f \div Doubled[j] = odd
  <2>1. f \div Doubled[j] = odd * Doubled[j - j] /\ j - j = 0
    BY <1>3
  <2>2. QED
    BY <1>1, <2>1, DoubledIs
<1>5. ASSUME NEW m \in 0..(j - 1) PROVE ~OddOrZero(f \div Doubled[m])
  <2> DEFINE e == (j - m) - 1
  <2>1. e \in Nat /\ j - m = e + 1 /\ m \in 0..j
    OBVIOUS
  <2> HIDE DEF e
  <2>2. /\ f \div Doubled[m] = odd * Doubled[j - m]
        /\ Doubled[j - m] = 2 * Doubled[e] /\ Doubled[e] \in Nat /\ Doubled[e] >= 1
    BY <1>2, <1>3, <2>1, DoubledIs
  <2> DEFINE d == odd * Doubled[e]
  <2>3. d \in Nat /\ d >= 1 /\ odd * (2 * Doubled[e]) = 2 * d
    BY <1>1, <2>2
  <2> HIDE DEF d
  <2>4. (2 * d) % 2 = 0 /\ 2 * d # 0
    BY <2>3
  <2>5. QED
    BY <2>2, <2>3, <2>4 DEF OddOrZero
<1> DEFINE Stops(n) == /\ OddOrZero(f \div Doubled[n])
                       /\ \A m \in 0..(n - 1) : ~OddOrZero(f \div Doubled[m])
<1>6. j \in 0..f
  <2> DEFINE b == Doubled[j]
  <2>1. b \in Nat /\ j < b /\ f = odd * b
    BY <1>2 DEF odd
  <2> HIDE DEF b
  <2>2. odd * b >= b
    BY <1>1, <2>1
  <2>3. QED
    BY <2>1, <2>2
<1>7. Stops(j)
  BY <1>1, <1>4, <1>5 DEF OddOrZero
<1>8. ASSUME NEW n \in 0..f, Stops(n) PROVE n = j
  <2>1. ~(n < j)
    BY <1>5, <1>8
  <2>2. ~(j < n)
    BY <1>7, <1>8
  <2>3. QED
    BY <2>1, <2>2
<1> HIDE DEF Stops
<1>9. (CHOOSE n \in 0..f : Stops(n)) = j
  BY <1>6, <1>7, <1>8
<1>10. QED
  BY <1>4, <1>9 DEF Shift, Stops, odd

(* At the right edge the climb goes on from the next level with a sibling.  *)
LEMMA AscendEdge ==
  ASSUME NEW q \in Nat, NEW j \in Nat, NEW f \in Nat,
         f = (2 * q + 1) * Doubled[j], NEW hash, NEW p
  PROVE  Ascend(Start(f, f, hash), p) = Start(q, q, HashChildren(p, hash))
<1> DEFINE odd == 2 * q + 1
<1>1. odd \in Nat /\ odd >= 1 /\ odd % 2 = 1 /\ odd \div 2 = q
  OBVIOUS
<1>2. Shift(f, f) = <<odd, odd>>
  BY ShiftIs
<1>3. Doubled[j] \in Nat /\ Doubled[j] >= 1
  BY DoubledIs, DoubledGrows
<1> HIDE DEF odd
<1>4. f # 0
  <2> DEFINE b == Doubled[j]
  <2>1. f = odd * b
    BY DEF odd
  <2> HIDE DEF b
  <2>2. odd * b >= odd
    BY <1>1, <1>3 DEF b
  <2>3. QED
    BY <1>1, <2>1, <2>2
<1>5. ASSUME f % 2 = 1 PROVE f = odd
  <2>1. CASE j = 0
    BY <1>1, <2>1, DoubledIs DEF odd
  <2>2. CASE j # 0
    <3> DEFINE b == Doubled[j - 1]
    <3>1. j - 1 \in Nat /\ (j - 1) + 1 = j
      BY <2>2
    <3>2. b \in Nat /\ Doubled[j] = 2 * b
      BY <3>1, DoubledIs
    <3> HIDE DEF b
    <3>3. f = odd * (2 * b) /\ odd * (2 * b) = 2 * (odd * b) /\ odd * b \in Nat
      BY <1>1, <3>2 DEF odd
    <3>4. f % 2 = 0
      BY <3>3
    <3>5. QED
      BY <1>5, <3>4
  <2>3. QED
    BY <2>1, <2>2
<1>6. f % 2 = 0 \/ f % 2 = 1
  OBVIOUS
<1>7. CASE f % 2 = 1
  BY <1>4, <1>5, <1>7, AscendRight DEF odd
<1>8. CASE f % 2 = 0
  <2>1. Ascend(Start(f, f, hash), p) = Start(odd \div 2, odd \div 2, HashChildren(p, hash))
    BY <1>1, <1>2, <1>4, <1>8, AscendIs
  <2>2. QED
    BY <1>1, <2>1
<1>9. QED
  BY <1>6, <1>7, <1>8

-----------------------------------------------------------------------------
(* The climb meets the tree                                                 *)

(* The tree, node by node.                                                  *)
LEMMA TreeNodes ==
  ASSUME NEW leaves, Len(leaves) \in Nat
  PROVE  /\ \A from \in 1..Len(leaves) : RootOf(leaves)[1][from] = leaves[from]
         /\ \A n \in 2..Len(leaves) : \A from \in 1..(Len(leaves) - n + 1) :
              RootOf(leaves)[n][from] =
                LET k == LargestPowerOfTwoBelow(n)
                IN  HashChildren(RootOf(leaves)[k][from],
                                 RootOf(leaves)[n - k][from + k])
<1> DEFINE T == RootOf(leaves)
<1>1. T = [n \in 1..Len(leaves) |-> TreeBody(leaves, T, n)]
  BY TreeIs
<1> HIDE DEF T
<1>2. \A n \in 1..Len(leaves) : T[n] = TreeBody(leaves, T, n)
  BY <1>1
<1>3. ASSUME NEW from \in 1..Len(leaves) PROVE T[1][from] = leaves[from]
  <2>1. 1 \in 1..Len(leaves) /\ from \in 1..(Len(leaves) - 1 + 1)
    OBVIOUS
  <2>2. T[1] = TreeBody(leaves, T, 1)
    BY <1>2, <2>1
  <2>3. QED
    BY <2>1, <2>2 DEF TreeBody
<1>4. ASSUME NEW n \in 2..Len(leaves), NEW from \in 1..(Len(leaves) - n + 1)
      PROVE  T[n][from] = LET k == LargestPowerOfTwoBelow(n)
                          IN  HashChildren(T[k][from], T[n - k][from + k])
  <2>1. n \in 1..Len(leaves) /\ n # 1
    OBVIOUS
  <2>2. T[n] = TreeBody(leaves, T, n)
    BY <1>2, <2>1
  <2>3. QED
    BY <2>1, <2>2 DEF TreeBody
<1>5. QED
  BY <1>3, <1>4 DEF T

(* The paths, hash by hash.                                                 *)
LEMMA PathNodes ==
  ASSUME NEW leaves, Len(leaves) \in Nat
  PROVE  /\ \A from \in 1..Len(leaves) : PathsOf(leaves)[1][from][0] = << >>
         /\ \A n \in 2..Len(leaves) : \A from \in 1..(Len(leaves) - n + 1) :
              \A i \in 0..(n - 1) :
                PathsOf(leaves)[n][from][i] =
                  LET k == LargestPowerOfTwoBelow(n)
                  IN  IF i < k
                      THEN Append(PathsOf(leaves)[k][from][i],
                                  RootOf(leaves)[n - k][from + k])
                      ELSE Append(PathsOf(leaves)[n - k][from + k][i - k],
                                  RootOf(leaves)[k][from])
<1> DEFINE P == PathsOf(leaves)
<1>1. P = [n \in 1..Len(leaves) |-> PathBody(leaves, P, n)]
  BY PathsAre
<1> HIDE DEF P
<1>2. \A n \in 1..Len(leaves) : P[n] = PathBody(leaves, P, n)
  BY <1>1
<1>3. ASSUME NEW from \in 1..Len(leaves) PROVE P[1][from][0] = << >>
  <2>1. 1 \in 1..Len(leaves) /\ from \in 1..(Len(leaves) - 1 + 1) /\ 0 \in 0..(1 - 1)
    OBVIOUS
  <2>2. P[1] = PathBody(leaves, P, 1)
    BY <1>2, <2>1
  <2>3. QED
    BY <2>1, <2>2 DEF PathBody
<1>4. ASSUME NEW n \in 2..Len(leaves), NEW from \in 1..(Len(leaves) - n + 1),
             NEW i \in 0..(n - 1)
      PROVE  P[n][from][i] =
               LET k == LargestPowerOfTwoBelow(n)
               IN  IF i < k
                   THEN Append(P[k][from][i], RootOf(leaves)[n - k][from + k])
                   ELSE Append(P[n - k][from + k][i - k], RootOf(leaves)[k][from])
  <2>1. n \in 1..Len(leaves) /\ n # 1
    OBVIOUS
  <2>2. P[n] = PathBody(leaves, P, n)
    BY <1>2, <2>1
  <2>3. QED
    BY <2>1, <2>2 DEF PathBody
<1>5. QED
  BY <1>3, <1>4 DEF P

\* Climbing out of a subtree of n leaves and height h, the q-th of its height
\* in a log whose last leaf is `last`: it is the last subtree, or it is full.
Leaves(leaves, n, h, from, i, q, last) ==
  LET p == PathsOf(leaves)[n][from][i]
      w == Doubled[h]
  IN  /\ IsSeq(p)
      /\ \E s \in Nat :
           /\ s * w <= last /\ last < (s + 1) * w
           /\ Climb(q * w + i, last, leaves[from + i], p)[Len(p)]
                = Start(q, s, RootOf(leaves)[n][from])

Situated(n, h, q, last) ==
  \/ last = q * Doubled[h] + n - 1
  \/ n = Doubled[h] /\ last >= q * Doubled[h] + n

AllLeave(leaves, n, h) ==
  \A from \in 1..(Len(leaves) - n + 1), i \in 0..(n - 1), q \in Nat, last \in Nat :
    Situated(n, h, q, last) => Leaves(leaves, n, h, from, i, q, last)

(* A leaf is where the climb starts.                                        *)
LEMMA LeafLeaves ==
  ASSUME NEW leaves, Len(leaves) \in Nat, Len(leaves) >= 1,
         NEW h \in Nat, IsHeight(h, 1)
  PROVE  AllLeave(leaves, 1, h)
<1>1. h = 0
  <2>1. h # 0 => /\ h - 1 \in Nat /\ Doubled[h - 1] \in Nat
                 /\ h - 1 < Doubled[h - 1] /\ Doubled[h - 1] < 1
    BY DoubledGrows, DoubledIs DEF IsHeight
  <2>2. QED
    BY <2>1
<1>2. Doubled[h] = 1
  BY <1>1, DoubledIs
<1> SUFFICES ASSUME NEW from \in 1..(Len(leaves) - 1 + 1), NEW i \in 0..(1 - 1),
                    NEW q \in Nat, NEW last \in Nat
             PROVE  Leaves(leaves, 1, h, from, i, q, last)
  BY DEF AllLeave
<1>3. i = 0 /\ from \in 1..Len(leaves) /\ from + i = from
  OBVIOUS
<1>4. PathsOf(leaves)[1][from][i] = << >> /\ RootOf(leaves)[1][from] = leaves[from]
  BY <1>3, PathNodes, TreeNodes
<1>5. << >> \in Seq({}) /\ Len(<< >>) = 0
  OBVIOUS
<1>6. Climb(q * 1 + i, last, leaves[from], << >>)[0] = Start(q * 1 + i, last, leaves[from])
  BY <1>5, ClimbIs
<1>7. q * 1 + i = q /\ last * 1 <= last /\ last < (last + 1) * 1
  BY <1>3
<1>8. IsSeq(<< >>)
  BY <1>5 DEF IsSeq
<1>9. QED
  BY <1>2, <1>3, <1>4, <1>5, <1>6, <1>7, <1>8 DEF Leaves

(* A block is half of one twice its size.                                   *)
LEMMA BlockHalved ==
  ASSUME NEW k \in Nat, NEW x \in Nat, NEW s \in Nat, s * k <= x, x < (s + 1) * k
  PROVE  /\ s \div 2 \in Nat /\ (s \div 2) * (2 * k) <= x
         /\ x < ((s \div 2) + 1) * (2 * k)
<1> DEFINE t == s \div 2
<1>1. t \in Nat /\ (s = 2 * t \/ s = 2 * t + 1)
  OBVIOUS
<1> HIDE DEF t
<1>2. CASE s = 2 * t
  <2>1. s * k = t * (2 * k) /\ (s + 1) * k = t * (2 * k) + k
        /\ (t + 1) * (2 * k) = t * (2 * k) + 2 * k
    BY <1>1, <1>2
  <2> DEFINE y == t * (2 * k)
  <2>2. y \in Nat
    BY <1>1
  <2> HIDE DEF y
  <2>3. y <= x /\ x < y + 2 * k
    BY <2>1, <2>2 DEF y
  <2>4. QED
    BY <1>1, <2>1, <2>3 DEF t, y
<1>3. CASE s = 2 * t + 1
  <2>1. s * k = t * (2 * k) + k /\ (s + 1) * k = t * (2 * k) + 2 * k
        /\ (t + 1) * (2 * k) = t * (2 * k) + 2 * k
    BY <1>1, <1>3
  <2> DEFINE y == t * (2 * k)
  <2>2. y \in Nat
    BY <1>1
  <2> HIDE DEF y
  <2>3. y <= x /\ x < y + 2 * k
    BY <2>1, <2>2 DEF y
  <2>4. QED
    BY <1>1, <2>1, <2>3 DEF t, y
<1>4. QED
  BY <1>1, <1>2, <1>3

(* A product grows with its factor.                                         *)
LEMMA MulMono ==
  ASSUME NEW a \in Nat, NEW b \in Nat, NEW k \in Nat, a <= b
  PROVE  a * k <= b * k
<1> DEFINE c == b - a
<1>1. c \in Nat /\ b = a + c
  OBVIOUS
<1> HIDE DEF c
<1>2. b * k = a * k + c * k /\ c * k \in Nat /\ a * k \in Nat
  BY <1>1
<1>3. QED
  BY <1>2

(* Climbing out of the left part of a subtree and over its root.            *)
LEMMA LeftLeaves ==
  ASSUME NEW leaves, Len(leaves) \in Nat, NEW n \in 2..Len(leaves),
         NEW h \in Nat, IsHeight(h, n),
         NEW from \in 1..(Len(leaves) - n + 1), NEW i \in 0..(n - 1),
         NEW q \in Nat, NEW last \in Nat, Situated(n, h, q, last),
         i < Doubled[h - 1], AllLeave(leaves, Doubled[h - 1], h - 1)
  PROVE  Leaves(leaves, n, h, from, i, q, last)
<1> DEFINE k == Doubled[h - 1]
           T == RootOf(leaves)
           P == PathsOf(leaves)
<1>1. /\ h - 1 \in Nat /\ LargestPowerOfTwoBelow(n) = k
      /\ k \in Nat /\ k >= 1 /\ k < n /\ n <= 2 * k /\ Doubled[h] = 2 * k
  BY SplitIs
<1> HIDE DEF k, T, P
<1>2. /\ T[n][from] = HashChildren(T[k][from], T[n - k][from + k])
      /\ P[n][from][i] = Append(P[k][from][i], T[n - k][from + k])
  <2>1. T[n][from] = LET b == LargestPowerOfTwoBelow(n)
                     IN  HashChildren(T[b][from], T[n - b][from + b])
    BY TreeNodes DEF T
  <2>2. P[n][from][i] = LET b == LargestPowerOfTwoBelow(n)
                        IN  IF i < b
                            THEN Append(P[b][from][i], T[n - b][from + b])
                            ELSE Append(P[n - b][from + b][i - b], T[b][from])
    BY PathNodes DEF P, T
  <2>3. i < k
    BY DEF k
  <2>4. QED
    BY <1>1, <2>1, <2>2, <2>3
<1> DEFINE c == (2 * q) * k
<1>3. /\ c \in Nat /\ q * (2 * k) = c /\ (2 * q + 1) * k = c + k
  BY <1>1
<1>4. last >= c + k
  <2>1. last = q * (2 * k) + n - 1 \/ last >= q * (2 * k) + n
    BY <1>1 DEF Situated
  <2> HIDE DEF c
  <2>2. QED
    BY <1>1, <1>3, <2>1
<1>5. Situated(k, h - 1, 2 * q, last)
  BY <1>4 DEF Situated, k
<1>6. from \in 1..(Len(leaves) - k + 1) /\ i \in 0..(k - 1) /\ 2 * q \in Nat
  BY <1>1 DEF k
<1>7. Leaves(leaves, k, h - 1, from, i, 2 * q, last)
  BY <1>5, <1>6 DEF AllLeave, k
<1> DEFINE p == P[k][from][i]
           x == T[n - k][from + k]
<1>8. PICK s \in Nat :
        /\ s * k <= last /\ last < (s + 1) * k
        /\ Climb(c + i, last, leaves[from + i], p)[Len(p)]
             = Start(2 * q, s, T[k][from])
  BY <1>7 DEF Leaves, k, T, P
<1>9. IsSeq(p)
  BY <1>7 DEF Leaves, P
<1>10. s > 2 * q
  <2>1. ASSUME s <= 2 * q PROVE FALSE
    <3>1. (s + 1) * k <= (2 * q + 1) * k
      BY <1>1, <2>1, MulMono
    <3> DEFINE y == (s + 1) * k
    <3>2. y \in Nat
      BY <1>1
    <3> HIDE DEF y, c
    <3>3. y <= c + k /\ last < y
      BY <1>3, <1>8, <3>1 DEF y
    <3>4. QED
      BY <1>1, <1>3, <1>4, <3>2, <3>3
  <2>2. QED
    BY <2>1
<1> HIDE DEF c, p, x
<1>11. /\ IsSeq(Append(p, x)) /\ Len(Append(p, x)) = Len(p) + 1
       /\ Climb(c + i, last, leaves[from + i], Append(p, x))[Len(p) + 1]
            = Ascend(Start(2 * q, s, T[k][from]), x)
  BY <1>8, <1>9, ClimbAppend
<1>12. Ascend(Start(2 * q, s, T[k][from]), x) = Start(q, s \div 2, T[n][from])
  <2>1. Ascend(Start(2 * q, s, T[k][from]), x)
          = Start(q, s \div 2, HashChildren(T[k][from], x))
    BY <1>10, AscendLeft
  <2>2. QED
    BY <1>2, <2>1 DEF x
<1>13. /\ s \div 2 \in Nat /\ (s \div 2) * (2 * k) <= last
       /\ last < ((s \div 2) + 1) * (2 * k)
  BY <1>1, <1>8, BlockHalved
<1>14. P[n][from][i] = Append(p, x)
  BY <1>2 DEF p, x
<1>15. QED
  BY <1>1, <1>3, <1>11, <1>12, <1>13, <1>14 DEF Leaves, P, T

(* Climbing out of the right part of a subtree and over its root: the step  *)
(* over the root makes up for the levels the smaller part does not have.    *)
LEMMA RightLeaves ==
  ASSUME NEW leaves, Len(leaves) \in Nat, NEW n \in 2..Len(leaves),
         NEW h \in Nat, IsHeight(h, n),
         NEW from \in 1..(Len(leaves) - n + 1), NEW i \in 0..(n - 1),
         NEW q \in Nat, NEW last \in Nat, Situated(n, h, q, last),
         i >= Doubled[h - 1], NEW e \in Nat, IsHeight(e, n - Doubled[h - 1]),
         e <= h - 1, AllLeave(leaves, n - Doubled[h - 1], e)
  PROVE  Leaves(leaves, n, h, from, i, q, last)
<1> DEFINE k == Doubled[h - 1]
           m == n - k
           w == Doubled[e]
           j == (h - 1) - e
           d == Doubled[j]
           odd == 2 * q + 1
           r == odd * d
           c == odd * k
           y == q * (2 * k)
           T == RootOf(leaves)
           P == PathsOf(leaves)
<1>1. /\ h - 1 \in Nat /\ LargestPowerOfTwoBelow(n) = k
      /\ k \in Nat /\ k >= 1 /\ k < n /\ n <= 2 * k /\ Doubled[h] = 2 * k
  BY SplitIs
<1>2. /\ m \in Nat /\ m >= 1 /\ m <= k /\ m <= w /\ w \in Nat /\ w >= 1
  <2>1. m <= w
    BY DEF IsHeight
  <2>2. w \in Nat /\ e < w
    BY DoubledIs, DoubledGrows
  <2> HIDE DEF k, w
  <2>3. m \in Nat /\ m >= 1 /\ m <= k
    BY <1>1
  <2>4. QED
    BY <2>1, <2>2, <2>3
<1>3. j \in Nat /\ h - 1 = e + j
  BY <1>1
<1>4. d \in Nat /\ d >= 1 /\ k = d * w
  <2>1. Doubled[e + j] = Doubled[j] * Doubled[e]
    BY <1>3, DoubledSplits
  <2>2. Doubled[j] \in Nat /\ j < Doubled[j]
    BY <1>3, DoubledIs, DoubledGrows
  <2>3. Doubled[e + j] = k
    BY <1>3
  <2> HIDE DEF k, w, j
  <2>4. QED
    BY <1>3, <2>1, <2>2, <2>3 DEF w
<1> HIDE DEF k, w, T, P, m, j, d
<1>5. odd \in Nat /\ odd >= 1 /\ r \in Nat /\ c \in Nat /\ r * w = c
  <2>1. odd \in Nat /\ odd >= 1
    OBVIOUS
  <2> HIDE DEF odd
  <2>2. (odd * d) * w = odd * (d * w)
    BY <1>2, <1>4, <2>1
  <2>3. odd * d \in Nat /\ odd * k \in Nat
    BY <1>1, <1>4, <2>1
  <2>4. QED
    BY <1>4, <2>1, <2>2, <2>3
<1>6. y + k = c /\ y \in Nat /\ (q + 1) * (2 * k) = y + 2 * k
  BY <1>1
<1> HIDE DEF r, c, odd, y
<1>7. /\ T[n][from] = HashChildren(T[k][from], T[m][from + k])
      /\ P[n][from][i] = Append(P[m][from + k][i - k], T[k][from])
  <2>1. T[n][from] = LET b == LargestPowerOfTwoBelow(n)
                     IN  HashChildren(T[b][from], T[n - b][from + b])
    BY TreeNodes DEF T
  <2>2. P[n][from][i] = LET b == LargestPowerOfTwoBelow(n)
                        IN  IF i < b
                            THEN Append(P[b][from][i], T[n - b][from + b])
                            ELSE Append(P[n - b][from + b][i - b], T[b][from])
    BY PathNodes DEF P, T
  <2>3. ~(i < k)
    BY <1>1 DEF k
  <2>4. QED
    BY <1>1, <2>1, <2>2, <2>3 DEF m
<1>8. last = c + m - 1 \/ (n = 2 * k /\ last >= c + m)
  <2>1. last = y + n - 1 \/ (n = 2 * k /\ last >= y + n)
    BY <1>1 DEF Situated, y
  <2>2. y + n = c + m
    BY <1>1, <1>5, <1>6 DEF m
  <2>3. QED
    BY <1>1, <1>2, <1>5, <1>6, <2>1, <2>2
<1>9. n = 2 * k => m = w
  <2>1. ASSUME n = 2 * k PROVE m = w
    <3>1. m = k
      BY <1>1, <2>1 DEF m
    <3>2. w <= k
      BY <1>1, <1>3, DoubledRises DEF w, k
    <3>3. QED
      BY <1>1, <1>2, <3>1, <3>2
  <2>2. QED
    BY <2>1
<1>10. Situated(m, e, r, last)
  BY <1>5, <1>8, <1>9 DEF Situated, w
<1>11. /\ from + k \in 1..(Len(leaves) - m + 1) /\ i - k \in 0..(m - 1)
       /\ (from + k) + (i - k) = from + i /\ c + (i - k) = y + i
  <2>1. i >= k
    BY DEF k
  <2>2. QED
    BY <1>1, <1>5, <1>6, <2>1 DEF m
<1>12. Leaves(leaves, m, e, from + k, i - k, r, last)
  BY <1>5, <1>10, <1>11 DEF AllLeave, m, k
<1> DEFINE p == P[m][from + k][i - k]
           x == T[k][from]
<1>13. PICK s \in Nat :
         /\ s * w <= last /\ last < (s + 1) * w
         /\ Climb(c + (i - k), last, leaves[(from + k) + (i - k)], p)[Len(p)]
              = Start(r, s, T[m][from + k])
  BY <1>5, <1>12 DEF Leaves, w, P, T
<1>14. IsSeq(p)
  BY <1>12 DEF Leaves, P
<1>15. Climb(y + i, last, leaves[from + i], p)[Len(p)]
         = Start(r, s, T[m][from + k])
  BY <1>11, <1>13
<1> HIDE DEF p, x
<1>16. /\ IsSeq(Append(p, x)) /\ Len(Append(p, x)) = Len(p) + 1
       /\ Climb(y + i, last, leaves[from + i], Append(p, x))[Len(p) + 1]
            = Ascend(Start(r, s, T[m][from + k]), x)
  BY <1>14, <1>15, ClimbAppend
<1>17. \E t \in Nat :
         /\ t * (2 * k) <= last /\ last < (t + 1) * (2 * k)
         /\ Ascend(Start(r, s, T[m][from + k]), x) = Start(q, t, T[n][from])
  <2>1. CASE j = 0
    <3>1. d = 1 /\ r = odd /\ w = k
      BY <1>2, <1>4, <1>5, <2>1, DoubledIs DEF r, d
    <3>2. s # 0
      <4>1. ASSUME s = 0 PROVE FALSE
        <5>1. last < k
          BY <1>1, <1>13, <3>1, <4>1
        <5>2. c >= k
          BY <1>1, <1>5, MulMono DEF c
        <5>3. QED
          BY <1>1, <1>2, <1>5, <1>8, <5>1, <5>2
      <4>2. QED
        BY <4>1
    <3>3. Ascend(Start(2 * q + 1, s, T[m][from + k]), x)
            = Start(q, s \div 2, HashChildren(x, T[m][from + k]))
      BY <3>2, AscendRight
    <3>4. /\ s \div 2 \in Nat /\ (s \div 2) * (2 * k) <= last
          /\ last < ((s \div 2) + 1) * (2 * k)
      BY <1>1, <1>13, <3>1, BlockHalved
    <3>5. QED
      BY <1>7, <3>1, <3>3, <3>4 DEF x, odd
  <2>2. CASE j # 0
    <3>1. w < k
      <4>1. j >= 1 /\ j < d
        BY <1>3, <2>2, DoubledGrows DEF d
      <4>2. d >= 2
        BY <1>3, <1>4, <4>1
      <4>3. 2 * w <= d * w
        BY <1>2, <1>4, <4>2, MulMono
      <4>4. QED
        BY <1>2, <1>4, <4>3
    <3>2. last = c + m - 1
      BY <1>1, <1>2, <1>8, <1>9, <3>1 DEF m
    <3>3. r * w <= last /\ last < (r + 1) * w
      <4>1. (r + 1) * w = c + w
        BY <1>2, <1>5
      <4>2. QED
        BY <1>2, <1>5, <3>2, <4>1
    <3>4. s = r
      BY <1>2, <1>5, <1>13, <3>3, BlockUnique
    <3>5. Ascend(Start(r, r, T[m][from + k]), x)
            = Start(q, q, HashChildren(x, T[m][from + k]))
      <4>1. r = (2 * q + 1) * Doubled[j]
        BY DEF r, d, odd
      <4> DEFINE hash == T[m][from + k]
      <4> HIDE DEF hash
      <4>2. Ascend(Start(r, r, hash), x) = Start(q, q, HashChildren(x, hash))
        BY <1>3, <1>5, <4>1, AscendEdge
      <4>3. QED
        BY <4>2 DEF hash
    <3>6. q * (2 * k) <= last /\ last < (q + 1) * (2 * k)
      <4>1. y <= last /\ last < y + 2 * k
        BY <1>1, <1>2, <1>6, <3>2
      <4>2. QED
        BY <1>6, <4>1 DEF y
    <3>7. QED
      BY <1>7, <3>4, <3>5, <3>6 DEF x
  <2>3. QED
    BY <2>1, <2>2
<1>18. P[n][from][i] = Append(p, x)
  BY <1>7 DEF p, x
<1>19. QED
  BY <1>1, <1>16, <1>17, <1>18 DEF Leaves, P, T, y

(* Climbing out of any subtree meets its root.                              *)
LEMMA SubtreeLeaves ==
  ASSUME NEW leaves, Len(leaves) \in Nat
  PROVE  \A n \in 1..Len(leaves), h \in Nat : IsHeight(h, n) => AllLeave(leaves, n, h)
<1> DEFINE Good == {n \in Nat : n \in 1..Len(leaves) =>
                      \A h \in Nat : IsHeight(h, n) => AllLeave(leaves, n, h)}
<1>1. ASSUME NEW n \in Nat, \A m \in 0..(n - 1) : m \in Good PROVE n \in Good
  <2> SUFFICES ASSUME n \in 1..Len(leaves), NEW h \in Nat, IsHeight(h, n)
               PROVE  AllLeave(leaves, n, h)
    OBVIOUS
  <2>1. \A m \in 1..(n - 1), e \in Nat : IsHeight(e, m) => AllLeave(leaves, m, e)
    <3> SUFFICES ASSUME NEW m \in 1..(n - 1), NEW e \in Nat, IsHeight(e, m)
                 PROVE  AllLeave(leaves, m, e)
      OBVIOUS
    <3>1. m \in 0..(n - 1) /\ m \in 1..Len(leaves)
      OBVIOUS
    <3>2. QED
      BY <1>1, <3>1
  <2> HIDE DEF Good
  <2>2. CASE n = 1
    BY <2>2, LeafLeaves
  <2>3. CASE n # 1
    <3> DEFINE k == Doubled[h - 1]
    <3>1. n \in 2..Len(leaves)
      BY <2>3
    <3>2. /\ h - 1 \in Nat /\ k \in Nat /\ k >= 1 /\ k < n /\ n <= 2 * k
      BY <3>1, SplitIs
    <3>3. IsHeight(h - 1, k)
      <4>1. ASSUME h - 1 # 0
            PROVE  (h - 1) - 1 \in Nat /\ Doubled[(h - 1) - 1] < k
        <5> DEFINE g == (h - 1) - 1
        <5>1. g \in Nat /\ g + 1 = h - 1
          BY <3>2, <4>1
        <5>2. Doubled[g] \in Nat /\ k = 2 * Doubled[g] /\ g < Doubled[g]
          BY <5>1, DoubledIs, DoubledGrows
        <5> HIDE DEF k, g
        <5>3. Doubled[g] < k
          BY <5>1, <5>2
        <5>4. QED
          BY <5>1, <5>3 DEF g
      <4>2. QED
        BY <3>2, <4>1 DEF IsHeight
    <3>4. AllLeave(leaves, k, h - 1)
      BY <2>1, <3>2, <3>3
    <3>5. PICK e \in Nat : /\ IsHeight(e, n - k)
                           /\ \A d \in Nat : n - k <= Doubled[d] => e <= d
      <4>1. n - k \in Nat
        BY <3>2
      <4>2. QED
        BY <4>1, HeightExists
    <3>6. e <= h - 1 /\ AllLeave(leaves, n - k, e)
      <4>1. n - k <= k /\ n - k \in 1..(n - 1)
        BY <3>2
      <4>2. QED
        BY <2>1, <3>2, <3>5, <4>1
    <3>7. ASSUME NEW from \in 1..(Len(leaves) - n + 1), NEW i \in 0..(n - 1),
                 NEW q \in Nat, NEW last \in Nat, Situated(n, h, q, last)
          PROVE  Leaves(leaves, n, h, from, i, q, last)
      <4>1. CASE i < k
        BY <3>1, <3>4, <3>7, <4>1, LeftLeaves
      <4>2. CASE i >= k
        BY <3>1, <3>5, <3>6, <3>7, <4>2, RightLeaves
      <4>3. QED
        BY <3>2, <4>1, <4>2
    <3>8. QED
      BY <3>7 DEF AllLeave
  <2>4. QED
    BY <2>2, <2>3
<1> HIDE DEF Good
<1>2. \A n \in Nat : n \in Good
  BY <1>1, StrongInduction
<1>3. ASSUME NEW n \in 1..Len(leaves), NEW h \in Nat, IsHeight(h, n)
      PROVE  AllLeave(leaves, n, h)
  <2>1. n \in Good
    BY <1>2
  <2>2. QED
    BY <1>3, <2>1 DEF Good
<1>4. QED
  BY <1>3

(* The whole log is the subtree that is climbed out of last.                *)
LEMMA HonestClimb ==
  ASSUME NEW leaves, Len(leaves) \in Nat, NEW index \in 0..(Len(leaves) - 1)
  PROVE  LET p == MerkleInclusionProof(leaves, index)
         IN  /\ IsSeq(p)
             /\ Climb(index, Len(leaves) - 1, leaves[index + 1], p)[Len(p)]
                  = Start(0, 0, MerkleRoot(leaves))
<1> DEFINE n == Len(leaves)
           last == n - 1
<1>1. n \in Nat /\ n \in 1..n /\ last \in Nat /\ index \in 0..(n - 1)
      /\ 1 + index = index + 1
  OBVIOUS
<1>2. PICK h \in Nat : IsHeight(h, n)
  BY <1>1, HeightExists
<1> DEFINE w == Doubled[h]
<1>3. w \in Nat /\ n <= w
  BY <1>2, DoubledIs DEF IsHeight
<1>4. AllLeave(leaves, n, h)
  BY <1>1, <1>2, SubtreeLeaves
<1> HIDE DEF n, last, w
<1>5. 0 * w = 0 /\ 1 * w = w /\ 0 * w + n - 1 = last /\ 0 * w + index = index
  BY <1>1, <1>3 DEF last
<1>6. Situated(n, h, 0, last)
  BY <1>5 DEF Situated, w
<1>7. Leaves(leaves, n, h, 1, index, 0, last)
  <2>1. 0 \in Nat /\ 1 \in 1..(Len(leaves) - n + 1)
    BY <1>1 DEF n
  <2>2. QED
    BY <1>1, <1>4, <1>6, <2>1 DEF AllLeave
<1> DEFINE p == PathsOf(leaves)[n][1][index]
<1>8. IsSeq(p)
  BY <1>7 DEF Leaves
<1>9. PICK s \in Nat :
        /\ s * w <= last /\ last < (s + 1) * w
        /\ Climb(index, last, leaves[index + 1], p)[Len(p)]
             = Start(0, s, RootOf(leaves)[n][1])
  BY <1>1, <1>5, <1>7 DEF Leaves, w
<1>10. s = 0
  <2>1. 0 * w <= last /\ last < (0 + 1) * w
    BY <1>1, <1>3, <1>5 DEF last
  <2>2. QED
    BY <1>1, <1>3, <1>9, <2>1, BlockUnique
<1>11. QED
  BY <1>8, <1>9, <1>10 DEF MerkleInclusionProof, MerkleRoot, n, last

(* A log of any size: the path that merkle_inclusion_proof builds for a     *)
(* leaf is accepted by the check an SDK makes, against the root that        *)
(* merkle_root computes.                                                    *)
THEOREM AuditPathVerifies ==
  ASSUME NEW S, NEW leaves \in Seq(S), NEW index \in 0..(Len(leaves) - 1)
  PROVE  Includes(MerkleRoot(leaves), Len(leaves), index,
                  leaves[index + 1], MerkleInclusionProof(leaves, index))
<1> DEFINE p == MerkleInclusionProof(leaves, index)
           top == Climb(index, Len(leaves) - 1, leaves[index + 1], p)[Len(p)]
<1>1. Len(leaves) \in Nat
  OBVIOUS
<1>2. top = Start(0, 0, MerkleRoot(leaves))
  BY <1>1, HonestClimb
<1> HIDE DEF p, top
<1>3. top.within = TRUE /\ top.sn = 0 /\ top.hash = MerkleRoot(leaves)
  BY <1>2 DEF Start
<1>4. index < Len(leaves)
  BY <1>1
<1>5. QED
  BY <1>3, <1>4 DEF Includes, p, top

-----------------------------------------------------------------------------
(* Two climbs that both end at the root                                     *)

\* Where a verifier can stand: a record of its four fields.
IsStand(at) ==
  /\ at = [fn |-> at.fn, sn |-> at.sn, hash |-> at.hash, within |-> at.within]
  /\ at.within \in BOOLEAN

\* Whether the sibling is hashed first, and where the step then goes up from.
Right(at) == at.fn % 2 = 1 \/ at.fn = at.sn
Edge(at) ==
  IF Right(at) /\ at.fn % 2 = 0 THEN Shift(at.fn, at.sn) ELSE <<at.fn, at.sn>>
Over(at, p) ==
  IF Right(at) THEN HashChildren(p, at.hash) ELSE HashChildren(at.hash, p)

(* A step below the root: which way it goes depends on the position alone,  *)
(* and the hash it leaves holds both hashes it was made from.               *)
LEMMA AscendBelowRoot ==
  ASSUME NEW at, NEW p, at.sn # 0, at.within \in BOOLEAN
  PROVE  LET up == Ascend(at, p)
         IN  /\ IsStand(up) /\ up.within = at.within /\ up.hash = Over(at, p)
             /\ up.fn = Edge(at)[1] \div 2 /\ up.sn = Edge(at)[2] \div 2
<1>1. Ascend(at, p) = [fn |-> Edge(at)[1] \div 2, sn |-> Edge(at)[2] \div 2,
                       hash |-> Over(at, p), within |-> at.within]
  BY Zenon DEF Ascend, Edge, Over, Right
<1>2. QED
  BY <1>1 DEF IsStand

(* A step past the root is refused, and nothing mends a refusal.            *)
LEMMA AscendRefused ==
  ASSUME NEW at, NEW p, IsStand(at), at.sn = 0 \/ at.within = FALSE
  PROVE  IsStand(Ascend(at, p)) /\ Ascend(at, p).within = FALSE
<1>1. CASE at.sn = 0
  <2> DEFINE a == at.fn
             b == at.sn
             c == at.hash
             d == at.within
  <2>1. Ascend(at, p) = [at EXCEPT !.within = FALSE]
    BY <1>1, Zenon DEF Ascend
  <2>2. at = [fn |-> a, sn |-> b, hash |-> c, within |-> d]
    BY DEF IsStand
  <2> HIDE DEF a, b, c, d
  <2>3. \A e : [[fn |-> a, sn |-> b, hash |-> c, within |-> d] EXCEPT !.within = e]
               = [fn |-> a, sn |-> b, hash |-> c, within |-> e]
    OBVIOUS
  <2>4. Ascend(at, p) = [fn |-> a, sn |-> b, hash |-> c, within |-> FALSE]
    BY <2>1, <2>2, <2>3, Zenon
  <2>5. QED
    BY <2>4 DEF IsStand
<1>2. CASE at.sn # 0
  BY <1>2, AscendBelowRoot DEF IsStand
<1>3. QED
  BY <1>1, <1>2

(* A climb that is within the path at its end was below the root before.    *)
LEMMA AcceptedClimb ==
  ASSUME NEW fn, NEW sn, NEW hash, NEW path, Len(path) \in Nat,
         Climb(fn, sn, hash, path)[Len(path)].within
  PROVE  LET c == Climb(fn, sn, hash, path)
         IN  /\ \A j \in 0..Len(path) : IsStand(c[j])
             /\ \A j \in 0..(Len(path) - 1) : c[j].sn # 0
<1> DEFINE n == Len(path)
           c == Climb(fn, sn, hash, path)
<1>1. /\ n \in Nat /\ c[n].within /\ c[0] = Start(fn, sn, hash)
      /\ \A j \in 1..n : c[j] = Ascend(c[j - 1], path[j])
  BY ClimbIs
<1> HIDE DEF n, c
<1>2. \A at : IsStand(at) => \A p : IsStand(Ascend(at, p))
  BY AscendBelowRoot, AscendRefused DEF IsStand
<1> DEFINE Good == {j \in Nat : j <= n => IsStand(c[j])}
<1>3. 0 \in Good
  <2>1. IsStand(Start(fn, sn, hash))
    BY DEF Start, IsStand
  <2>2. QED
    BY <1>1, <2>1
<1>4. ASSUME NEW j \in Nat, j \in Good PROVE j + 1 \in Good
  <2> SUFFICES ASSUME j + 1 <= n PROVE IsStand(c[j + 1])
    OBVIOUS
  <2>1. j + 1 \in 1..n /\ (j + 1) - 1 = j /\ IsStand(c[j])
    BY <1>1, <1>4
  <2>2. c[j + 1] = Ascend(c[j], path[j + 1])
    BY <1>1, <2>1
  <2>3. QED
    BY <1>2, <2>1, <2>2
<1> HIDE DEF Good
<1>5. \A j \in Nat : j \in Good
  BY <1>3, <1>4, Induction
<1>6. \A j \in 0..n : IsStand(c[j])
  BY <1>1, <1>5 DEF Good
<1>7. ASSUME NEW j \in 0..(n - 1), c[j].sn = 0 PROVE FALSE
  <2> DEFINE Refused(a) == c[a].within = FALSE
             Past == {a \in Nat : j < a /\ a <= n => Refused(a)}
  <2> HIDE DEF Refused
  <2>1. 0 \in Past
    OBVIOUS
  <2>2. ASSUME NEW a \in Nat, a \in Past PROVE a + 1 \in Past
    <3> SUFFICES ASSUME j < a + 1, a + 1 <= n PROVE Refused(a + 1)
      OBVIOUS
    <3>1. a \in 0..n /\ a + 1 \in 1..n /\ (a + 1) - 1 = a
      BY <1>1
    <3>2. a = j \/ Refused(a)
      BY <1>1, <2>2
    <3> HIDE DEF Past
    <3>3. c[a + 1] = Ascend(c[a], path[a + 1]) /\ IsStand(c[a])
      BY <1>1, <1>6, <3>1
    <3>4. QED
      BY <1>7, <3>2, <3>3, AscendRefused DEF Refused
  <2> HIDE DEF Past
  <2>3. n \in Past
    BY <1>1, <2>1, <2>2, Induction
  <2>4. Refused(n)
    BY <1>1, <2>3 DEF Past
  <2>5. QED
    BY <1>1, <2>4 DEF Refused
<1>8. QED
  BY <1>6, <1>7 DEF n, c

(* Two paths accepted for one place in logs of one size and one root are    *)
(* the same path, for the same leaf.                                        *)
LEMMA ClimbUnique ==
  ASSUME NEW fn, NEW sn, NEW x, NEW y,
         NEW p, Len(p) \in Nat, NEW r, Len(r) \in Nat, NEW root,
         Climb(fn, sn, x, p)[Len(p)] = Start(0, 0, root),
         Climb(fn, sn, y, r)[Len(r)].within, Climb(fn, sn, y, r)[Len(r)].sn = 0,
         Climb(fn, sn, y, r)[Len(r)].hash = root
  PROVE  Len(p) = Len(r) /\ x = y /\ \A j \in 1..Len(p) : p[j] = r[j]
<1> DEFINE m == Len(p)
           n == Len(r)
           c == Climb(fn, sn, x, p)
           d == Climb(fn, sn, y, r)
<1>1. /\ m \in Nat /\ n \in Nat
      /\ c[0] = Start(fn, sn, x) /\ d[0] = Start(fn, sn, y)
      /\ \A j \in 1..m : c[j] = Ascend(c[j - 1], p[j])
      /\ \A j \in 1..n : d[j] = Ascend(d[j - 1], r[j])
  BY ClimbIs
<1>2. /\ c[m].within = TRUE /\ c[m].sn = 0 /\ c[m].hash = root
      /\ d[n].within /\ d[n].sn = 0 /\ d[n].hash = root
  BY DEF Start
<1>3. /\ \A j \in 0..m : IsStand(c[j])
      /\ \A j \in 0..(m - 1) : c[j].sn # 0
  BY <1>1, <1>2, AcceptedClimb
<1>4. /\ \A j \in 0..n : IsStand(d[j])
      /\ \A j \in 0..(n - 1) : d[j].sn # 0
  BY <1>1, <1>2, AcceptedClimb
<1> HIDE DEF m, n, c, d
<1>5. ASSUME NEW j \in 1..m, j \in 1..n,
             c[j - 1].fn = d[j - 1].fn, c[j - 1].sn = d[j - 1].sn
      PROVE  /\ c[j].fn = d[j].fn /\ c[j].sn = d[j].sn
             /\ c[j].hash = d[j].hash => p[j] = r[j] /\ c[j - 1].hash = d[j - 1].hash
  <2> DEFINE at == c[j - 1]
             bt == d[j - 1]
  <2>1. j - 1 \in 0..m /\ j - 1 \in 0..(m - 1) /\ j - 1 \in 0..n /\ j - 1 \in 0..(n - 1)
    BY <1>1, <1>5
  <2>2. /\ IsStand(at) /\ at.sn # 0 /\ IsStand(bt) /\ bt.sn # 0
        /\ c[j] = Ascend(at, p[j]) /\ d[j] = Ascend(bt, r[j])
        /\ bt.fn = at.fn /\ bt.sn = at.sn
    BY <1>1, <1>3, <1>4, <1>5, <2>1
  <2> HIDE DEF at, bt
  <2>3. /\ c[j].fn = Edge(at)[1] \div 2 /\ c[j].sn = Edge(at)[2] \div 2
        /\ c[j].hash = Over(at, p[j])
    BY <2>2, AscendBelowRoot DEF IsStand
  <2>4. /\ d[j].fn = Edge(bt)[1] \div 2 /\ d[j].sn = Edge(bt)[2] \div 2
        /\ d[j].hash = Over(bt, r[j])
    BY <2>2, AscendBelowRoot DEF IsStand
  <2>5. \A a, b, e, f : HashChildren(a, b) = HashChildren(e, f) => a = e /\ b = f
    BY DEF HashChildren
  <2>6. Edge(bt) = Edge(at) /\ Right(bt) = Right(at)
    BY <2>2, Zenon DEF Edge, Right
  <2>7. ASSUME Over(at, p[j]) = Over(bt, r[j]) PROVE p[j] = r[j] /\ at.hash = bt.hash
    <3>1. CASE Right(at)
      BY <2>5, <2>6, <2>7, <3>1 DEF Over
    <3>2. CASE ~Right(at)
      BY <2>5, <2>6, <2>7, <3>2 DEF Over
    <3>3. QED
      BY <3>1, <3>2
  <2>8. QED
    BY <2>3, <2>4, <2>6, <2>7 DEF at, bt
<1> DEFINE Level == {j \in Nat : j <= m /\ j <= n =>
                       c[j].fn = d[j].fn /\ c[j].sn = d[j].sn}
<1>6. 0 \in Level
  BY <1>1 DEF Start
<1>7. ASSUME NEW j \in Nat, j \in Level PROVE j + 1 \in Level
  <2> SUFFICES ASSUME j + 1 <= m, j + 1 <= n
               PROVE  c[j + 1].fn = d[j + 1].fn /\ c[j + 1].sn = d[j + 1].sn
    OBVIOUS
  <2>1. /\ j + 1 \in 1..m /\ j + 1 \in 1..n /\ (j + 1) - 1 = j
        /\ c[j].fn = d[j].fn /\ c[j].sn = d[j].sn
    BY <1>1, <1>7
  <2> HIDE DEF Level
  <2>2. QED
    BY <1>5, <2>1
<1> HIDE DEF Level
<1>8. \A j \in Nat : j \in Level
  BY <1>6, <1>7, Induction
<1>9. \A j \in Nat : j <= m /\ j <= n => c[j].fn = d[j].fn /\ c[j].sn = d[j].sn
  BY <1>8 DEF Level
<1>10. m = n
  <2>1. ~(m < n)
    <3>1. m < n => m \in 0..(n - 1) /\ d[m].sn = 0
      BY <1>1, <1>2, <1>9
    <3>2. QED
      BY <1>4, <3>1
  <2>2. ~(n < m)
    <3>1. n < m => n \in 0..(m - 1) /\ c[n].sn = 0
      BY <1>1, <1>2, <1>9
    <3>2. QED
      BY <1>3, <3>1
  <2>3. QED
    BY <1>1, <2>1, <2>2
<1> DEFINE Back == {i \in Nat : i <= m =>
                      /\ c[m - i].hash = d[m - i].hash
                      /\ \A j \in (m - i + 1)..m : p[j] = r[j]}
<1>11. 0 \in Back
  <2>1. m - 0 = m /\ (m - 0 + 1)..m = {}
    BY <1>1
  <2>2. QED
    BY <1>2, <1>10, <2>1
<1>12. ASSUME NEW i \in Nat, i \in Back PROVE i + 1 \in Back
  <2> SUFFICES ASSUME i + 1 <= m
               PROVE  /\ c[m - (i + 1)].hash = d[m - (i + 1)].hash
                      /\ \A j \in (m - (i + 1) + 1)..m : p[j] = r[j]
    OBVIOUS
  <2> DEFINE a == m - i
  <2>1. /\ a \in 1..m /\ a \in 1..n /\ m - (i + 1) = a - 1 /\ a - 1 \in Nat
        /\ a - 1 <= m /\ a - 1 <= n /\ m - (i + 1) + 1 = a
    BY <1>1, <1>10
  <2>2. c[a].hash = d[a].hash /\ \A j \in (a + 1)..m : p[j] = r[j]
    BY <1>1, <1>12
  <2> HIDE DEF Back, a
  <2>3. p[a] = r[a] /\ c[a - 1].hash = d[a - 1].hash
    BY <1>5, <1>9, <2>1, <2>2
  <2>4. \A j \in a..m : j = a \/ j \in (a + 1)..m
    BY <1>1, <2>1
  <2>5. QED
    BY <2>1, <2>2, <2>3, <2>4
<1> HIDE DEF Back
<1>13. m \in Back
  BY <1>1, <1>11, <1>12, Induction
<1>14. /\ c[0].hash = d[0].hash
       /\ \A j \in 1..m : p[j] = r[j]
  <2>1. m - m = 0 /\ m - m + 1 = 1
    BY <1>1
  <2>2. QED
    BY <1>1, <1>13, <2>1 DEF Back
<1>15. x = y
  BY <1>1, <1>14 DEF Start
<1>16. QED
  BY <1>10, <1>14, <1>15 DEF m, n

(* What the check accepts agrees hash by hash with what the log builds.     *)
LEMMA AcceptedAgrees ==
  ASSUME NEW leaves, Len(leaves) \in Nat, NEW index \in 0..(Len(leaves) - 1),
         NEW path, Len(path) \in Nat, NEW leaf, NEW p, Len(p) \in Nat,
         p = MerkleInclusionProof(leaves, index),
         Includes(MerkleRoot(leaves), Len(leaves), index, leaf, path)
  PROVE  /\ Len(p) = Len(path) /\ leaves[index + 1] = leaf
         /\ \A j \in 1..Len(p) : p[j] = path[j]
<1> DEFINE last == Len(leaves) - 1
<1>1. Climb(index, last, leaves[index + 1], p)[Len(p)] = Start(0, 0, MerkleRoot(leaves))
  BY HonestClimb
<1>2. /\ Climb(index, last, leaf, path)[Len(path)].within
      /\ Climb(index, last, leaf, path)[Len(path)].sn = 0
      /\ Climb(index, last, leaf, path)[Len(path)].hash = MerkleRoot(leaves)
  BY DEF Includes
<1> HIDE DEF last
<1>3. QED
  BY <1>1, <1>2, ClimbUnique

(* A log of any size: whatever path and leaf the check accepts for a place  *)
(* in it are the leaf at that place and the path the log builds for it.  A  *)
(* fixture that alters either is therefore refused by a conforming SDK.     *)
THEOREM OnlyTheAuditPathVerifies ==
  ASSUME NEW S, NEW leaves \in Seq(S), NEW index \in 0..(Len(leaves) - 1),
         NEW R, NEW path \in Seq(R), NEW leaf,
         Includes(MerkleRoot(leaves), Len(leaves), index, leaf, path)
  PROVE  leaf = leaves[index + 1] /\ path = MerkleInclusionProof(leaves, index)
<1> PICK p : p = MerkleInclusionProof(leaves, index)
  OBVIOUS
<1>1. Len(leaves) \in Nat /\ Len(path) \in Nat
  OBVIOUS
<1>2. IsSeq(p)
  BY <1>1, HonestClimb
<1>3. PICK Q : p \in Seq(Q)
  BY <1>2 DEF IsSeq
<1>4. Len(p) \in Nat
  BY <1>3
<1>5. /\ Len(p) = Len(path) /\ leaves[index + 1] = leaf
      /\ \A j \in 1..Len(p) : p[j] = path[j]
  BY <1>1, <1>4, AcceptedAgrees
<1>6. p = path
  <2>1. p \in Seq(Q \cup R) /\ path \in Seq(Q \cup R)
    BY <1>3
  <2>2. QED
    BY <1>5, <2>1
<1>7. QED
  BY <1>5, <1>6

-----------------------------------------------------------------------------
(* What is hashed                                                           *)

\* A leaf of a log or a node above two.
IsHash(x) == x[1] \in {"leaf", "node"}

(* Whatever the log holds, a node of its tree is one or the other.          *)
LEMMA TreeHoldsHashes ==
  ASSUME NEW leaves, Len(leaves) \in Nat, \A i \in 1..Len(leaves) : IsHash(leaves[i])
  PROVE  \A n \in 1..Len(leaves) : \A from \in 1..(Len(leaves) - n + 1) :
           IsHash(RootOf(leaves)[n][from])
<1> SUFFICES ASSUME NEW n \in 1..Len(leaves), NEW from \in 1..(Len(leaves) - n + 1)
             PROVE  IsHash(RootOf(leaves)[n][from])
  OBVIOUS
<1>1. CASE n = 1
  <2>1. from \in 1..Len(leaves)
    BY <1>1
  <2>2. RootOf(leaves)[n][from] = leaves[from]
    BY <1>1, <2>1, TreeNodes
  <2>3. QED
    BY <2>1, <2>2
<1>2. CASE n # 1
  <2>1. n \in 2..Len(leaves)
    BY <1>2
  <2> DEFINE k == LargestPowerOfTwoBelow(n)
             x == RootOf(leaves)[k][from]
             y == RootOf(leaves)[n - k][from + k]
  <2>2. RootOf(leaves)[n][from] = HashChildren(x, y)
    BY <2>1, TreeNodes
  <2> HIDE DEF x, y
  <2>3. QED
    BY <2>2 DEF HashChildren, IsHash
<1>3. QED
  BY <1>1, <1>2

(* So are the hashes of an audit path, which is empty only for a lone leaf. *)
LEMMA PathsHoldHashes ==
  ASSUME NEW leaves, Len(leaves) \in Nat, \A i \in 1..Len(leaves) : IsHash(leaves[i])
  PROVE  \A n \in 1..Len(leaves) : \A from \in 1..(Len(leaves) - n + 1) :
           \A i \in 0..(n - 1) :
             LET p == PathsOf(leaves)[n][from][i]
             IN  /\ IsSeq(p)
                 /\ n >= 2 => Len(p) >= 1
                 /\ \A j \in 1..Len(p) : IsHash(p[j])
<1> DEFINE Holds(p) == IsSeq(p) /\ \A j \in 1..Len(p) : IsHash(p[j])
           N == Len(leaves)
           P == PathsOf(leaves)
           T == RootOf(leaves)
           AllHold(n) == \A from \in 1..(N - n + 1) : \A i \in 0..(n - 1) :
                           Holds(P[n][from][i]) /\ (n >= 2 => Len(P[n][from][i]) >= 1)
           Good == {n \in Nat : n \in 1..N => AllHold(n)}
<1>1. N \in Nat /\ \A n \in 1..N : \A from \in 1..(N - n + 1) : IsHash(T[n][from])
  BY TreeHoldsHashes
<1>2. \A from \in 1..N : P[1][from][0] = << >>
  BY PathNodes
<1>3. \A n \in 2..N : \A from \in 1..(N - n + 1) : \A i \in 0..(n - 1) :
        P[n][from][i] =
          LET k == LargestPowerOfTwoBelow(n)
          IN  IF i < k THEN Append(P[k][from][i], T[n - k][from + k])
              ELSE Append(P[n - k][from + k][i - k], T[k][from])
  BY PathNodes
<1>4. Holds(<< >>)
  <2>1. << >> \in Seq({}) /\ Len(<< >>) = 0
    OBVIOUS
  <2>2. QED
    BY <2>1 DEF IsSeq
<1>5. ASSUME NEW p, Holds(p), NEW x, IsHash(x)
      PROVE  Holds(Append(p, x)) /\ Len(Append(p, x)) >= 1
  <2>1. PICK S : p \in Seq(S)
    BY <1>5 DEF IsSeq
  <2>2. p \in Seq(S \cup {x}) /\ Len(p) \in Nat
    BY <2>1
  <2>3. /\ Append(p, x) \in Seq(S \cup {x}) /\ Len(Append(p, x)) = Len(p) + 1
        /\ Append(p, x)[Len(p) + 1] = x
        /\ \A j \in 1..Len(p) : Append(p, x)[j] = p[j]
    BY <2>2
  <2>4. \A j \in 1..(Len(p) + 1) : j \in 1..Len(p) \/ j = Len(p) + 1
    BY <2>2
  <2>5. IsSeq(Append(p, x))
    BY <2>3 DEF IsSeq
  <2>6. \A j \in 1..Len(Append(p, x)) : IsHash(Append(p, x)[j])
    BY <1>5, <2>3, <2>4
  <2>7. QED
    BY <2>2, <2>3, <2>5, <2>6
<1> HIDE DEF N, P, T, Holds
<1>6. ASSUME NEW n \in Nat, \A m \in 0..(n - 1) : m \in Good PROVE n \in Good
  <2> SUFFICES ASSUME n \in 1..N, NEW from \in 1..(N - n + 1), NEW i \in 0..(n - 1)
               PROVE  Holds(P[n][from][i]) /\ (n >= 2 => Len(P[n][from][i]) >= 1)
    OBVIOUS
  <2>1. CASE n = 1
    <3>1. from \in 1..N /\ i = 0 /\ ~(n >= 2)
      BY <1>1, <2>1
    <3>2. QED
      BY <1>2, <1>4, <2>1, <3>1
  <2>2. CASE n # 1
    <3> DEFINE k == LargestPowerOfTwoBelow(n)
    <3>1. n \in 2..N /\ k \in 1..(n - 1) /\ n - k \in 1..(n - 1)
      BY <1>1, <2>2, SplitBounds
    <3> HIDE DEF k
    <3>2. ASSUME NEW m \in 1..(n - 1), NEW at \in 1..(N - m + 1), NEW j \in 0..(m - 1)
          PROVE  Holds(P[m][at][j]) /\ IsHash(T[m][at])
      <4>1. m \in 0..(n - 1) /\ m \in 1..N
        BY <1>1, <3>1
      <4>2. AllHold(m)
        BY <1>6, <4>1
      <4>3. QED
        BY <1>1, <4>1, <4>2
    <3>3. CASE i < k
      <4>1. /\ from \in 1..(N - k + 1) /\ i \in 0..(k - 1)
            /\ from + k \in 1..(N - (n - k) + 1) /\ 0 \in 0..((n - k) - 1)
        BY <1>1, <3>1, <3>3
      <4>2. P[n][from][i] = Append(P[k][from][i], T[n - k][from + k])
        BY <1>3, <3>1, <3>3 DEF k
      <4>3. Holds(P[k][from][i]) /\ IsHash(T[n - k][from + k])
        BY <3>1, <3>2, <4>1
      <4>4. QED
        BY <1>5, <4>2, <4>3
    <3>4. CASE ~(i < k)
      <4>1. /\ from \in 1..(N - k + 1) /\ i - k \in 0..((n - k) - 1)
            /\ from + k \in 1..(N - (n - k) + 1) /\ 0 \in 0..(k - 1)
        BY <1>1, <3>1, <3>4
      <4>2. P[n][from][i] = Append(P[n - k][from + k][i - k], T[k][from])
        BY <1>3, <3>1, <3>4 DEF k
      <4>3. Holds(P[n - k][from + k][i - k]) /\ IsHash(T[k][from])
        BY <3>1, <3>2, <4>1
      <4>4. QED
        BY <1>5, <4>2, <4>3
    <3>5. QED
      BY <3>3, <3>4
  <2>3. QED
    BY <2>1, <2>2
<1> HIDE DEF Good
<1>7. \A n \in Nat : n \in Good
  BY <1>6, StrongInduction
<1>8. ASSUME NEW n \in 1..N PROVE AllHold(n)
  <2> HIDE DEF AllHold
  <2>1. n \in Good
    BY <1>1, <1>7
  <2>2. QED
    BY <2>1 DEF Good
<1>9. QED
  BY <1>8 DEF N, P, Holds

(* The root of a log of two leaves or more and the first hash of an audit   *)
(* path in it.                                                              *)
LEMMA RootAndPathAreHashes ==
  ASSUME NEW leaves, Len(leaves) \in Nat, Len(leaves) >= 2,
         \A i \in 1..Len(leaves) : IsHash(leaves[i]), NEW index \in 0..(Len(leaves) - 1)
  PROVE  LET p == MerkleInclusionProof(leaves, index)
         IN  /\ IsHash(MerkleRoot(leaves))
             /\ IsSeq(p) /\ Len(p) >= 1 /\ IsHash(p[1])
<1> DEFINE n == Len(leaves)
           p == PathsOf(leaves)[n][1][index]
<1>1. n \in 1..n /\ 1 \in 1..(n - n + 1) /\ n >= 2
  OBVIOUS
<1>2. IsHash(RootOf(leaves)[n][1])
  BY <1>1, TreeHoldsHashes
<1>3. IsSeq(p) /\ Len(p) >= 1 /\ \A j \in 1..Len(p) : IsHash(p[j])
  <2>1. index \in 0..(n - 1)
    OBVIOUS
  <2>2. \A m \in 1..n : \A from \in 1..(n - m + 1) : \A i \in 0..(m - 1) :
          LET r == PathsOf(leaves)[m][from][i]
          IN  /\ IsSeq(r)
              /\ m >= 2 => Len(r) >= 1
              /\ \A j \in 1..Len(r) : IsHash(r[j])
    BY PathsHoldHashes
  <2> HIDE DEF n
  <2>3. QED
    BY <1>1, <2>1, <2>2
<1>4. Len(p) \in Nat
  BY <1>3 DEF IsSeq
<1> HIDE DEF p
<1>5. IsHash(p[1])
  BY <1>3, <1>4
<1>6. QED
  BY <1>2, <1>3, <1>5 DEF MerkleRoot, MerkleInclusionProof, p

(* What is flipped is no longer the hash it was.                            *)
LEMMA FlippedDiffers == \A x : IsHash(x) => <<"flipped", x>> # x
<1> SUFFICES ASSUME NEW x, IsHash(x), <<"flipped", x>> = x PROVE FALSE
  OBVIOUS
<1>1. x[1] = "flipped"
  <2>1. <<"flipped", x>>[1] = "flipped"
    OBVIOUS
  <2>2. QED
    BY <2>1
<1>2. QED
  BY <1>1 DEF IsHash

=============================================================================
