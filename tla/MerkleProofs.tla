----------------------------- MODULE MerkleProofs -----------------------------
(***************************************************************************)
(* A root is as good as the array of its leaves: for a tree of any depth,  *)
(* any number of workers, and proofs put together from any number of       *)
(* different trees.                                                        *)
(*                                                                         *)
(* The definitions recurse on the levels of the tree, so every fact about  *)
(* them is proved by induction on the levels: first that the recursion has *)
(* a solution, then what each solution satisfies.                          *)
(***************************************************************************)
EXTENDS MerklePath, SumProofs

-----------------------------------------------------------------------------
(* Indices.                                                                *)

\* A function of V can be iterated up to n times.
HasIterates(n, V, a, step) ==
    \E g \in [0 .. n -> V] : g[0] = a /\ \A k \in 1 .. n : g[k] = step[g[k - 1]]

\* An iteration of any length exists.
LEMMA IterationsExist ==
    ASSUME NEW n \in Nat, NEW V, NEW a \in V, NEW step \in [V -> V]
    PROVE  HasIterates(n, V, a, step)
<1> DEFINE Iterates(g, m) ==
               g \in [0 .. m -> V] /\ g[0] = a /\ \A k \in 1 .. m : g[k] = step[g[k - 1]]
           S == {m \in 0 .. n : \E g : Iterates(g, m)}
<1>1. 0 \in S
  <2>1. Iterates([k \in 0 .. 0 |-> a], 0)
    OBVIOUS
  <2> HIDE DEF Iterates
  <2> QED BY <2>1
<1>2. ASSUME NEW m \in 0 .. n - 1, m \in S PROVE m + 1 \in S
  <2>1. PICK g : Iterates(g, m)
    BY <1>2
  <2> DEFINE h == [k \in 0 .. m + 1 |-> IF k = m + 1 THEN step[g[m]] ELSE g[k]]
  <2>2. h \in [0 .. m + 1 -> V]
    BY <2>1
  <2>3. h[0] = a /\ \A k \in 1 .. m + 1 : h[k] = step[h[k - 1]]
    BY <2>1
  <2>4. Iterates(h, m + 1)
    BY <2>2, <2>3
  <2> HIDE DEF Iterates
  <2> QED BY <2>4
<1> HIDE DEF S
<1>3. n \in S
  BY <1>1, <1>2, InductionUpTo
<1> QED BY <1>3 DEF S, HasIterates

\* user_id >> level drops one bit per level.
LEMMA ShiftedHalves ==
    ASSUME NEW u \in Nat
    PROVE  /\ shifted(u, 0) = u
           /\ \A k \in 0 .. TREE_DEPTH : shifted(u, k) \in Nat
           /\ \A k \in 1 .. TREE_DEPTH : shifted(u, k) = shifted(u, k - 1) \div 2
<1> DEFINE Eq(h) == h = [k \in 0 .. TREE_DEPTH |-> IF k = 0 THEN u ELSE h[k - 1] \div 2]
           s == CHOOSE h : Eq(h)
           half == [v \in Nat |-> v \div 2]
<1>0. TREE_DEPTH \in Nat
  BY DepthAssumption
<1>1. half \in [Nat -> Nat]
  OBVIOUS
<1>2. PICK g \in [0 .. TREE_DEPTH -> Nat] :
          g[0] = u /\ \A k \in 1 .. TREE_DEPTH : g[k] = half[g[k - 1]]
  <2>1. HasIterates(TREE_DEPTH, Nat, u, half)
    <3> HIDE DEF half
    <3> QED BY <1>0, <1>1, IterationsExist
  <2> HIDE DEF half
  <2> QED BY <2>1 DEF HasIterates
<1>3. \A k \in 0 .. TREE_DEPTH : k # 0 => k \in 1 .. TREE_DEPTH /\ k - 1 \in 0 .. TREE_DEPTH
  BY <1>0
<1>4. Eq(g)
  BY <1>0, <1>2, <1>3
<1>5. Eq(s)
  BY <1>4
<1> HIDE DEF s
<1> DEFINE S == {k \in 0 .. TREE_DEPTH : s[k] \in Nat}
<1>6. s[0] = u /\ \A k \in 1 .. TREE_DEPTH : s[k] = s[k - 1] \div 2
  <2>1. s[0] = u
    BY <1>0, <1>5
  <2>2. ASSUME NEW k \in 1 .. TREE_DEPTH PROVE s[k] = s[k - 1] \div 2
    <3>1. k \in 0 .. TREE_DEPTH /\ k # 0
      BY <1>0
    <3> QED BY <1>5, <3>1
  <2> QED BY <2>1, <2>2
<1>7. 0 .. TREE_DEPTH \subseteq S
  <2>1. 0 \in S
    BY <1>0, <1>6
  <2>2. ASSUME NEW k \in 0 .. TREE_DEPTH - 1, k \in S PROVE k + 1 \in S
    <3>1. k + 1 \in 1 .. TREE_DEPTH /\ (k + 1) - 1 = k
      BY <1>0
    <3>2. s[k + 1] = s[k] \div 2
      BY <1>6, <3>1
    <3>3. \A v \in Nat : v \div 2 \in Nat
      OBVIOUS
    <3>4. s[k] \div 2 \in Nat
      BY <2>2, <3>3
    <3> QED BY <3>1, <3>2, <3>4
  <2> HIDE DEF S
  <2> QED BY <1>0, <2>1, <2>2, InductionUpTo
<1>8. \A k : shifted(u, k) = s[k]
  BY DEF shifted, s
<1> QED BY <1>6, <1>7, <1>8

\* 1 << level doubles per level.
LEMMA WidthDoubles ==
    /\ width(0) = 1
    /\ \A k \in 0 .. TREE_DEPTH : width(k) \in Nat \ {0}
    /\ \A k \in 1 .. TREE_DEPTH : width(k) = 2 * width(k - 1)
<1> DEFINE Eq(h) == h = [k \in 0 .. TREE_DEPTH |-> IF k = 0 THEN 1 ELSE 2 * h[k - 1]]
           s == CHOOSE h : Eq(h)
           twice == [v \in Nat \ {0} |-> 2 * v]
<1>0. TREE_DEPTH \in Nat
  BY DepthAssumption
<1>1. twice \in [Nat \ {0} -> Nat \ {0}]
  OBVIOUS
<1>2. PICK g \in [0 .. TREE_DEPTH -> Nat \ {0}] :
          g[0] = 1 /\ \A k \in 1 .. TREE_DEPTH : g[k] = twice[g[k - 1]]
  <2>1. 1 \in Nat \ {0}
    OBVIOUS
  <2> HIDE DEF twice
  <2>2. HasIterates(TREE_DEPTH, Nat \ {0}, 1, twice)
    BY <1>0, <1>1, <2>1, IterationsExist
  <2> QED BY <2>2 DEF HasIterates
<1>3. \A k \in 0 .. TREE_DEPTH : k # 0 => k \in 1 .. TREE_DEPTH /\ k - 1 \in 0 .. TREE_DEPTH
  BY <1>0
<1>4. Eq(g)
  BY <1>0, <1>2, <1>3
<1>5. Eq(s)
  BY <1>4
<1> HIDE DEF s
<1>6. s[0] = 1 /\ \A k \in 1 .. TREE_DEPTH : s[k] = 2 * s[k - 1]
  <2>1. s[0] = 1
    BY <1>0, <1>5
  <2>2. ASSUME NEW k \in 1 .. TREE_DEPTH PROVE s[k] = 2 * s[k - 1]
    <3>1. k \in 0 .. TREE_DEPTH /\ k # 0
      BY <1>0
    <3> QED BY <1>5, <3>1
  <2> QED BY <2>1, <2>2
<1> DEFINE S == {k \in 0 .. TREE_DEPTH : s[k] \in Nat \ {0}}
<1>7. 0 .. TREE_DEPTH \subseteq S
  <2>1. 0 \in S
    BY <1>0, <1>6
  <2>2. ASSUME NEW k \in 0 .. TREE_DEPTH - 1, k \in S PROVE k + 1 \in S
    <3>1. k + 1 \in 1 .. TREE_DEPTH /\ (k + 1) - 1 = k
      BY <1>0
    <3>2. s[k + 1] = 2 * s[k]
      BY <1>6, <3>1
    <3>3. s[k] \in Nat \ {0}
      BY <2>2
    <3>4. 2 * s[k] \in Nat \ {0}
      BY <3>3
    <3> QED BY <3>1, <3>2, <3>4
  <2> HIDE DEF S
  <2> QED BY <1>0, <2>1, <2>2, InductionUpTo
<1>8. \A k : width(k) = s[k]
  BY DEF width, s
<1> QED BY <1>6, <1>7, <1>8

\* The nodes of a level.
Indices(level) == 0 .. width(TREE_DEPTH - level) - 1

\* Level by level: the leaves are the users', the root is alone, and every node
\* has two children and, but for the root, a parent.
LEMMA IndicesFit ==
    /\ Indices(0) = UserIds
    /\ Indices(TREE_DEPTH) = {0}
    /\ \A level \in Levels :
          /\ \A i \in Indices(level + 1) : 2 * i \in Indices(level) /\ 2 * i + 1 \in Indices(level)
          /\ \A i \in Indices(level) : i \div 2 \in Indices(level + 1)
<1>0. TREE_DEPTH \in Nat
  BY DepthAssumption
<1>1. Indices(0) = UserIds /\ Indices(TREE_DEPTH) = {0}
  <2>1. TREE_DEPTH - 0 = TREE_DEPTH /\ TREE_DEPTH - TREE_DEPTH = 0
    BY <1>0
  <2> QED BY <2>1, WidthDoubles DEF Indices, UserIds
<1>2. ASSUME NEW level \in Levels
      PROVE  /\ \A i \in Indices(level + 1) :
                   2 * i \in Indices(level) /\ 2 * i + 1 \in Indices(level)
             /\ \A i \in Indices(level) : i \div 2 \in Indices(level + 1)
  <2>1. PICK k : k = TREE_DEPTH - level
    OBVIOUS
  <2>2. k \in 1 .. TREE_DEPTH /\ k - 1 \in 0 .. TREE_DEPTH /\ TREE_DEPTH - (level + 1) = k - 1
    BY <1>0, <2>1 DEF Levels
  <2>3. PICK m \in Nat \ {0} : m = width(k - 1)
    BY <2>2, WidthDoubles
  <2>4. width(k) = 2 * m
    BY <2>2, <2>3, WidthDoubles
  <2>5. Indices(level) = 0 .. 2 * m - 1 /\ Indices(level + 1) = 0 .. m - 1
    BY <2>1, <2>2, <2>3, <2>4 DEF Indices
  <2>6. \A i \in 0 .. m - 1 : 2 * i \in 0 .. 2 * m - 1 /\ 2 * i + 1 \in 0 .. 2 * m - 1
    OBVIOUS
  <2>7. \A i \in 0 .. 2 * m - 1 : i \div 2 \in 0 .. m - 1
    OBVIOUS
  <2> QED BY <2>5, <2>6, <2>7
<1> QED BY <1>1, <1>2

\* The path of a user goes through one node of every level, and ends at the root.
LEMMA PathIndices ==
    ASSUME NEW u \in UserIds
    PROVE  /\ shifted(u, 0) = u
           /\ \A level \in 0 .. TREE_DEPTH : shifted(u, level) \in Indices(level)
           /\ \A level \in Levels : shifted(u, level + 1) = shifted(u, level) \div 2
           /\ shifted(u, TREE_DEPTH) = 0
<1>0. TREE_DEPTH \in Nat
  BY DepthAssumption
<1>1. u \in Nat
  BY DEF UserIds
<1>2. \A level \in Levels : shifted(u, level + 1) = shifted(u, level) \div 2
  <2> TAKE level \in Levels
  <2>1. level + 1 \in 1 .. TREE_DEPTH /\ (level + 1) - 1 = level
    BY <1>0 DEF Levels
  <2> QED BY <1>1, <2>1, ShiftedHalves
<1> DEFINE S == {k \in 0 .. TREE_DEPTH : shifted(u, k) \in Indices(k)}
<1>3. 0 \in S
  BY <1>0, <1>1, ShiftedHalves, IndicesFit
<1>4. ASSUME NEW k \in 0 .. TREE_DEPTH - 1, k \in S PROVE k + 1 \in S
  <2>1. k \in Levels /\ k + 1 \in 0 .. TREE_DEPTH
    BY <1>0 DEF Levels
  <2> QED BY <1>2, <1>4, <2>1, IndicesFit
<1> HIDE DEF S
<1>5. 0 .. TREE_DEPTH \subseteq S
  BY <1>0, <1>3, <1>4, InductionUpTo
<1>6. \A level \in 0 .. TREE_DEPTH : shifted(u, level) \in Indices(level)
  BY <1>5 DEF S
<1>7. TREE_DEPTH \in 0 .. TREE_DEPTH
  BY <1>0
<1> QED BY <1>1, <1>2, <1>6, <1>7, ShiftedHalves, IndicesFit

-----------------------------------------------------------------------------
(* Trees.                                                                  *)

\* The nodes of a tree: every leaf is some value's, every other node is the hash
\* of its children.
IsTree(node) ==
    /\ node = [level \in 0 .. TREE_DEPTH |-> [index \in Indices(level) |-> node[level][index]]]
    /\ \A u \in UserIds : \E value \in Values : node[0][u] = Leaf(value)
    /\ \A level \in Levels : \A i \in Indices(level + 1) :
          node[level + 1][i] = two_to_one(node[level][2 * i], node[level][2 * i + 1])

\* The same, from the child's side.
Sibling(i) == IF i % 2 = 0 THEN i + 1 ELSE i - 1

\* A node has a sibling, and their parent is the hash of the two in index order.
LEMMA ParentOfNode ==
    ASSUME NEW node, IsTree(node), NEW level \in Levels, NEW i \in Indices(level)
    PROVE  /\ Sibling(i) \in Indices(level)
           /\ node[level + 1][i \div 2] =
                 IF i % 2 = 0 THEN two_to_one(node[level][i], node[level][Sibling(i)])
                              ELSE two_to_one(node[level][Sibling(i)], node[level][i])
<1>1. PICK half : half = i \div 2
  OBVIOUS
<1>2. half \in Indices(level + 1)
  BY <1>1, IndicesFit
<1>3. i \in Nat /\ half \in Nat
  BY <1>1 DEF Indices
<1>4. /\ i % 2 = 0 => i = 2 * half /\ Sibling(i) = 2 * half + 1
      /\ i % 2 # 0 => i = 2 * half + 1 /\ Sibling(i) = 2 * half
  BY <1>1, <1>3 DEF Sibling
<1>5. 2 * half \in Indices(level) /\ 2 * half + 1 \in Indices(level)
  BY <1>2, IndicesFit
<1>6. node[level + 1][half] = two_to_one(node[level][2 * half], node[level][2 * half + 1])
  BY <1>2 DEF IsTree
<1>7. CASE i % 2 = 0
  BY <1>1, <1>4, <1>5, <1>6, <1>7
<1>8. CASE i % 2 # 0
  BY <1>1, <1>4, <1>5, <1>6, <1>8
<1> QED BY <1>7, <1>8

\* A root determines the tree above which it stands: whatever the store is asked
\* for is a node of it.
LEMMA NodesOfTree ==
    ASSUME NEW node, IsTree(node)
    PROVE  NodesOf(node[TREE_DEPTH][0]) = node
<1> DEFINE root == node[TREE_DEPTH][0]
           Row(h, level) ==
               [index \in 0 .. width(TREE_DEPTH - level) - 1 |->
                   IF level = TREE_DEPTH THEN root
                   ELSE IF index % 2 = 0 THEN h[level + 1][index \div 2].left
                                         ELSE h[level + 1][index \div 2].right]
           Eq(h) == h = [level \in 0 .. TREE_DEPTH |-> Row(h, level)]
           s == CHOOSE h : Eq(h)
<1>0. TREE_DEPTH \in Nat
  BY DepthAssumption
<1>1. NodesOf(root) = s
  BY DEF NodesOf
<1>2. ASSUME NEW level \in 0 .. TREE_DEPTH, NEW h,
             level # TREE_DEPTH => h[level + 1] = node[level + 1]
      PROVE  Row(h, level) = node[level]
  <2>1. node[level] = [index \in Indices(level) |-> node[level][index]]
    BY DEF IsTree
  <2>2. CASE level = TREE_DEPTH
    <3>1. \A index \in Indices(level) : index = 0
      BY <2>2, IndicesFit
    <3> QED BY <2>1, <2>2, <3>1 DEF Indices
  <2>3. CASE level # TREE_DEPTH
    <3>1. level \in Levels
      BY <1>0, <2>3 DEF Levels
    <3>2. ASSUME NEW i \in Indices(level)
          PROVE  (IF i % 2 = 0 THEN h[level + 1][i \div 2].left
                               ELSE h[level + 1][i \div 2].right) = node[level][i]
      <4>1. PICK child, sibling :
                /\ child = node[level][i]
                /\ node[level + 1][i \div 2] = IF i % 2 = 0 THEN two_to_one(child, sibling)
                                                            ELSE two_to_one(sibling, child)
        BY <3>1, ParentOfNode
      <4>2. h[level + 1][i \div 2] = IF i % 2 = 0 THEN two_to_one(child, sibling)
                                                  ELSE two_to_one(sibling, child)
        BY <1>2, <2>3, <4>1
      <4>3. two_to_one(child, sibling).left = child /\ two_to_one(sibling, child).right = child
        BY DEF two_to_one
      <4> QED BY <4>1, <4>2, <4>3
    <3> QED BY <2>1, <2>3, <3>2 DEF Indices
  <2> QED BY <2>2, <2>3
<1>3. node = [level \in 0 .. TREE_DEPTH |-> node[level]]
  BY DEF IsTree
<1>4. Eq(node)
  <2>1. \A level \in 0 .. TREE_DEPTH : Row(node, level) = node[level]
    <3> HIDE DEF Row
    <3> QED BY <1>2
  <2> HIDE DEF Row
  <2> QED BY <1>3, <2>1
<1>5. ASSUME NEW h, Eq(h) PROVE h = node
  <2> DEFINE S == {k \in 0 .. TREE_DEPTH : h[TREE_DEPTH - k] = node[TREE_DEPTH - k]}
  <2> HIDE DEF Row
  <2>1. DOMAIN h = 0 .. TREE_DEPTH /\ \A level \in 0 .. TREE_DEPTH : h[level] = Row(h, level)
    BY <1>5
  <2>2. 0 \in S
    <3>1. TREE_DEPTH - 0 = TREE_DEPTH /\ TREE_DEPTH \in 0 .. TREE_DEPTH
      BY <1>0
    <3> QED BY <1>0, <1>2, <2>1, <3>1
  <2>3. ASSUME NEW k \in 0 .. TREE_DEPTH - 1, k \in S PROVE k + 1 \in S
    <3>1. PICK level : level = TREE_DEPTH - (k + 1)
      OBVIOUS
    <3>2. /\ level \in 0 .. TREE_DEPTH /\ level + 1 = TREE_DEPTH - k
          /\ k + 1 \in 0 .. TREE_DEPTH
      BY <1>0, <3>1
    <3>3. h[level + 1] = node[level + 1]
      BY <2>3, <3>2
    <3>4. h[level] = node[level]
      BY <1>2, <2>1, <3>2, <3>3
    <3> QED BY <3>1, <3>2, <3>4
  <2> HIDE DEF S, Eq
  <2>4. 0 .. TREE_DEPTH \subseteq S
    BY <1>0, <2>2, <2>3, InductionUpTo
  <2>5. ASSUME NEW level \in 0 .. TREE_DEPTH PROVE h[level] = node[level]
    <3>1. TREE_DEPTH - level \in 0 .. TREE_DEPTH /\ TREE_DEPTH - (TREE_DEPTH - level) = level
      BY <1>0
    <3>2. TREE_DEPTH - level \in S
      BY <2>4, <3>1
    <3> QED BY <3>1, <3>2 DEF S
  <2>6. h = [level \in 0 .. TREE_DEPTH |-> h[level]]
    BY <1>5 DEF Eq
  <2> QED BY <1>3, <2>5, <2>6
<1> HIDE DEF Eq, root
<1>6. s = node
  BY <1>4, <1>5
<1> QED BY <1>1, <1>6 DEF root

-----------------------------------------------------------------------------
(* Lifting a leaf.                                                         *)

\* current is the path from the leaf up.
IsLift(current, leaf, siblings, user_id) ==
    /\ current[0] = leaf
    /\ \A level \in Levels :
          current[level + 1] = IF path_bit(user_id, level) = 1
                               THEN two_to_one(siblings[level], current[level])
                               ELSE two_to_one(current[level], siblings[level])

\* Every leaf can be lifted, along any siblings; root_from_leaf is where it ends.
LEMMA LiftExists ==
    ASSUME NEW leaf, NEW siblings, NEW u
    PROVE  \E current : /\ IsLift(current, leaf, siblings, u)
                        /\ root_from_leaf(leaf, siblings, u) = current[TREE_DEPTH]
<1> DEFINE Up(h, k) == IF path_bit(u, k - 1) = 1
                       THEN two_to_one(siblings[k - 1], h[k - 1])
                       ELSE two_to_one(h[k - 1], siblings[k - 1])
           Eq(h) == h = [k \in 0 .. TREE_DEPTH |-> IF k = 0 THEN leaf ELSE Up(h, k)]
           s == CHOOSE h : Eq(h)
           S == {m \in 0 .. TREE_DEPTH :
                    \E h : h = [k \in 0 .. m |-> IF k = 0 THEN leaf ELSE Up(h, k)]}
<1>0. TREE_DEPTH \in Nat
  BY DepthAssumption
<1>1. root_from_leaf(leaf, siblings, u) = s[TREE_DEPTH]
  BY DEF root_from_leaf
<1>2. \A g, h, k : g[k - 1] = h[k - 1] => Up(g, k) = Up(h, k)
  OBVIOUS
<1> HIDE DEF Up
<1>3. 0 \in S
  <2>1. PICK h : h = [k \in 0 .. 0 |-> leaf]
    OBVIOUS
  <2>2. \A k \in 0 .. 0 : k = 0
    OBVIOUS
  <2>3. h = [k \in 0 .. 0 |-> IF k = 0 THEN leaf ELSE Up(h, k)]
    BY <2>1, <2>2
  <2> QED BY <1>0, <2>3
<1>4. ASSUME NEW m \in 0 .. TREE_DEPTH - 1, m \in S PROVE m + 1 \in S
  <2>1. PICK g : g = [k \in 0 .. m |-> IF k = 0 THEN leaf ELSE Up(g, k)]
    BY <1>4
  <2>2. PICK h : h = [k \in 0 .. m + 1 |-> IF k = m + 1 THEN Up(g, k) ELSE g[k]]
    OBVIOUS
  <2>3. ASSUME NEW k \in 0 .. m + 1 PROVE h[k] = IF k = 0 THEN leaf ELSE Up(h, k)
    <3>1. CASE k = 0
      BY <1>0, <2>1, <2>2, <3>1
    <3>2. CASE k # 0
      <4>1. k - 1 \in 0 .. m /\ k - 1 \in 0 .. m + 1 /\ k - 1 # m + 1
        BY <1>0, <3>2
      <4>2. h[k - 1] = g[k - 1]
        BY <2>2, <4>1
      <4>3. Up(g, k) = Up(h, k)
        BY <1>2, <4>2
      <4>4. h[k] = Up(g, k)
        BY <2>1, <2>2, <3>2
      <4> QED BY <3>2, <4>3, <4>4
    <3> QED BY <3>1, <3>2
  <2>4. h = [k \in 0 .. m + 1 |-> h[k]]
    BY <2>2
  <2>5. h = [k \in 0 .. m + 1 |-> IF k = 0 THEN leaf ELSE Up(h, k)]
    BY <2>3, <2>4
  <2>6. m + 1 \in 0 .. TREE_DEPTH
    BY <1>0
  <2> QED BY <2>5, <2>6
<1>5. TREE_DEPTH \in S
  <2> HIDE DEF S
  <2> QED BY <1>0, <1>3, <1>4, InductionUpTo
<1>6. Eq(s)
  <2>1. \E h : Eq(h)
    BY <1>5
  <2> HIDE DEF Eq
  <2> QED BY <2>1
<1> HIDE DEF s
<1>7. s[0] = leaf
  BY <1>0, <1>6
<1>8. ASSUME NEW level \in Levels
      PROVE  s[level + 1] = IF path_bit(u, level) = 1
                            THEN two_to_one(siblings[level], s[level])
                            ELSE two_to_one(s[level], siblings[level])
  <2>1. level + 1 \in 0 .. TREE_DEPTH /\ level + 1 # 0 /\ (level + 1) - 1 = level
    BY <1>0 DEF Levels
  <2>2. s[level + 1] = Up(s, level + 1)
    BY <1>6, <2>1
  <2> QED BY <2>1, <2>2 DEF Up
<1> QED BY <1>1, <1>7, <1>8 DEF IsLift

\* A lift that ends at the root of a tree is the tree's, and so are its siblings:
\* no two trees, and no two paths, hash to the same root.
LEMMA LiftToTheRoot ==
    ASSUME NEW node, IsTree(node), NEW u \in UserIds,
           NEW leaf, NEW siblings, NEW current, IsLift(current, leaf, siblings, u),
           current[TREE_DEPTH] = node[TREE_DEPTH][0]
    PROVE  /\ leaf = node[0][u]
           /\ \A level \in Levels : siblings[level] = node[level][Sibling(shifted(u, level))]
<1>0. TREE_DEPTH \in Nat
  BY DepthAssumption
<1>1. ASSUME NEW level \in Levels, current[level + 1] = node[level + 1][shifted(u, level + 1)]
      PROVE  /\ current[level] = node[level][shifted(u, level)]
             /\ siblings[level] = node[level][Sibling(shifted(u, level))]
  <2>1. level \in 0 .. TREE_DEPTH
    BY <1>0 DEF Levels
  <2>2. PICK i \in Indices(level) : i = shifted(u, level) /\ shifted(u, level + 1) = i \div 2
    BY <2>1, PathIndices
  <2>3. current[level + 1] = IF i % 2 = 0
                             THEN two_to_one(node[level][i], node[level][Sibling(i)])
                             ELSE two_to_one(node[level][Sibling(i)], node[level][i])
    BY <1>1, <2>2, ParentOfNode
  <2>4. current[level + 1] = IF i % 2 = 1
                             THEN two_to_one(siblings[level], current[level])
                             ELSE two_to_one(current[level], siblings[level])
    BY <2>2 DEF IsLift, path_bit
  <2>5. i % 2 = 0 \/ i % 2 = 1
    BY DEF Indices
  <2>6. \A a, b, c, d : two_to_one(a, b) = two_to_one(c, d) => a = c /\ b = d
    BY DEF two_to_one
  <2> QED BY <2>2, <2>3, <2>4, <2>5, <2>6
<1> DEFINE S == {k \in 0 .. TREE_DEPTH :
                    current[TREE_DEPTH - k] = node[TREE_DEPTH - k][shifted(u, TREE_DEPTH - k)]}
<1>2. 0 \in S
  <2>1. TREE_DEPTH - 0 = TREE_DEPTH
    BY <1>0
  <2> QED BY <1>0, <2>1, PathIndices
<1>3. ASSUME NEW k \in 0 .. TREE_DEPTH - 1, k \in S PROVE k + 1 \in S
  <2>1. PICK level : level = TREE_DEPTH - (k + 1)
    OBVIOUS
  <2>2. level \in Levels /\ level + 1 = TREE_DEPTH - k /\ k + 1 \in 0 .. TREE_DEPTH
    BY <1>0, <2>1 DEF Levels
  <2>3. current[level + 1] = node[level + 1][shifted(u, level + 1)]
    BY <1>3, <2>2
  <2> QED BY <1>1, <2>1, <2>2, <2>3
<1> HIDE DEF S
<1>4. 0 .. TREE_DEPTH \subseteq S
  BY <1>0, <1>2, <1>3, InductionUpTo
<1>5. ASSUME NEW level \in 0 .. TREE_DEPTH
      PROVE  current[level] = node[level][shifted(u, level)]
  <2>1. TREE_DEPTH - level \in 0 .. TREE_DEPTH /\ TREE_DEPTH - (TREE_DEPTH - level) = level
    BY <1>0
  <2>2. TREE_DEPTH - level \in S
    BY <1>4, <2>1
  <2> QED BY <2>1, <2>2 DEF S
<1>6. leaf = node[0][u]
  <2>1. 0 \in 0 .. TREE_DEPTH
    BY <1>0
  <2> QED BY <1>5, <2>1, PathIndices DEF IsLift
<1>7. \A level \in Levels : siblings[level] = node[level][Sibling(shifted(u, level))]
  <2> TAKE level \in Levels
  <2>1. level + 1 \in 0 .. TREE_DEPTH
    BY <1>0 DEF Levels
  <2> QED BY <1>1, <1>5, <2>1
<1> QED BY <1>6, <1>7

\* The tree with another value at one position: the lifted path replaces the
\* nodes it goes through and no other.
WithPath(node, u, current) ==
    [level \in 0 .. TREE_DEPTH |-> [index \in Indices(level) |->
        IF index = shifted(u, level) THEN current[level] ELSE node[level][index]]]

\* A leaf lifted along the siblings of a tree gives a tree that differs from it on
\* the path of that leaf only.
LEMMA LiftMakesTree ==
    ASSUME NEW node, IsTree(node), NEW u \in UserIds, NEW value \in Values,
           NEW siblings, NEW current, IsLift(current, Leaf(value), siblings, u),
           \A level \in Levels : siblings[level] = node[level][Sibling(shifted(u, level))]
    PROVE  /\ IsTree(WithPath(node, u, current))
           /\ WithPath(node, u, current)[TREE_DEPTH][0] = current[TREE_DEPTH]
           /\ \A v \in UserIds : WithPath(node, u, current)[0][v] =
                                     IF v = u THEN Leaf(value) ELSE node[0][v]
<1>0. TREE_DEPTH \in Nat
  BY DepthAssumption
<1>1. PICK tree : tree = WithPath(node, u, current)
  OBVIOUS
<1>2. \A level \in 0 .. TREE_DEPTH : \A i \in Indices(level) :
          tree[level][i] = IF i = shifted(u, level) THEN current[level] ELSE node[level][i]
  BY <1>1 DEF WithPath
<1>3. tree = [level \in 0 .. TREE_DEPTH |-> [index \in Indices(level) |-> tree[level][index]]]
  <2>1. tree = [level \in 0 .. TREE_DEPTH |-> tree[level]]
    BY <1>1 DEF WithPath
  <2>2. ASSUME NEW level \in 0 .. TREE_DEPTH
        PROVE  tree[level] = [index \in Indices(level) |-> tree[level][index]]
    <3>1. tree[level] = [index \in Indices(level) |->
              IF index = shifted(u, level) THEN current[level] ELSE node[level][index]]
      BY <1>1 DEF WithPath
    <3> QED BY <3>1
  <2> QED BY <2>1, <2>2
<1>4. \A v \in UserIds : tree[0][v] = IF v = u THEN Leaf(value) ELSE node[0][v]
  <2>1. 0 \in 0 .. TREE_DEPTH /\ current[0] = Leaf(value)
    BY <1>0 DEF IsLift
  <2> QED BY <1>2, <2>1, IndicesFit, PathIndices
<1>5. \A v \in UserIds : \E val \in Values : tree[0][v] = Leaf(val)
  BY <1>4 DEF IsTree
<1>6. ASSUME NEW level \in Levels, NEW i \in Indices(level + 1)
      PROVE  tree[level + 1][i] = two_to_one(tree[level][2 * i], tree[level][2 * i + 1])
  <2>1. level \in 0 .. TREE_DEPTH /\ level + 1 \in 0 .. TREE_DEPTH
    BY <1>0 DEF Levels
  <2>2. PICK p \in Indices(level) : p = shifted(u, level) /\ shifted(u, level + 1) = p \div 2
    BY <2>1, PathIndices
  <2>3. 2 * i \in Indices(level) /\ 2 * i + 1 \in Indices(level) /\ i \in Nat /\ p \in Nat
    BY IndicesFit DEF Indices
  <2>4. node[level + 1][i] = two_to_one(node[level][2 * i], node[level][2 * i + 1])
    BY DEF IsTree
  <2>5. CASE i = p \div 2
    <3>1. tree[level + 1][i] = current[level + 1]
      BY <1>2, <2>1, <2>2, <2>5
    <3>2. current[level + 1] = IF p % 2 = 1
                               THEN two_to_one(siblings[level], current[level])
                               ELSE two_to_one(current[level], siblings[level])
      BY <2>2 DEF IsLift, path_bit
    <3>3. siblings[level] = node[level][Sibling(p)]
      BY <2>2
    <3>4. CASE p % 2 = 0
      <4>1. p = 2 * i /\ Sibling(p) = 2 * i + 1 /\ 2 * i + 1 # p /\ p % 2 # 1
        BY <2>3, <2>5, <3>4 DEF Sibling
      <4>2. tree[level][2 * i] = current[level]
        BY <1>2, <2>1, <2>2, <2>3, <4>1
      <4>3. tree[level][2 * i + 1] = node[level][2 * i + 1]
        BY <1>2, <2>1, <2>2, <2>3, <4>1
      <4> QED BY <3>1, <3>2, <3>3, <4>1, <4>2, <4>3
    <3>5. CASE p % 2 = 1
      <4>1. p = 2 * i + 1 /\ Sibling(p) = 2 * i /\ 2 * i # p
        BY <2>3, <2>5, <3>5 DEF Sibling
      <4>2. tree[level][2 * i + 1] = current[level]
        BY <1>2, <2>1, <2>2, <2>3, <4>1
      <4>3. tree[level][2 * i] = node[level][2 * i]
        BY <1>2, <2>1, <2>2, <2>3, <4>1
      <4> QED BY <3>1, <3>2, <3>3, <3>5, <4>1, <4>2, <4>3
    <3> QED BY <2>3, <3>4, <3>5
  <2>6. CASE i # p \div 2
    <3>1. 2 * i # p /\ 2 * i + 1 # p
      BY <2>3, <2>6
    <3>2. tree[level + 1][i] = node[level + 1][i]
      BY <1>2, <2>1, <2>2, <2>6
    <3>3. tree[level][2 * i] = node[level][2 * i] /\ tree[level][2 * i + 1] = node[level][2 * i + 1]
      BY <1>2, <2>1, <2>2, <2>3, <3>1
    <3> QED BY <2>4, <3>2, <3>3
  <2> QED BY <2>5, <2>6
<1>7. tree[TREE_DEPTH][0] = current[TREE_DEPTH]
  <2>1. TREE_DEPTH \in 0 .. TREE_DEPTH
    BY <1>0
  <2> QED BY <1>2, <2>1, IndicesFit, PathIndices
<1> QED BY <1>1, <1>3, <1>4, <1>5, <1>6, <1>7 DEF IsTree

\* The tree in which no leaf is used: all nodes of a level are the same.
LEMMA EmptyTree ==
    \E node : /\ IsTree(node) /\ node[TREE_DEPTH][0] = EmptyRoot
              /\ \A u \in UserIds : node[0][u] = Leaf(Default)
<1> DEFINE Up(h, k) == two_to_one(h[k - 1], h[k - 1])
           Eq(h) == h = [k \in 0 .. TREE_DEPTH |-> IF k = 0 THEN Leaf(Default) ELSE Up(h, k)]
           s == CHOOSE h : Eq(h)
           S == {m \in 0 .. TREE_DEPTH :
                    \E h : h = [k \in 0 .. m |-> IF k = 0 THEN Leaf(Default) ELSE Up(h, k)]}
<1>0. TREE_DEPTH \in Nat
  BY DepthAssumption
<1>1. EmptyRoot = s[TREE_DEPTH]
  BY DEF EmptyRoot
<1>2. \A g, h, k : g[k - 1] = h[k - 1] => Up(g, k) = Up(h, k)
  OBVIOUS
<1> HIDE DEF Up
<1>3. 0 \in S
  <2>1. PICK h : h = [k \in 0 .. 0 |-> Leaf(Default)]
    OBVIOUS
  <2>2. \A k \in 0 .. 0 : k = 0
    OBVIOUS
  <2>3. h = [k \in 0 .. 0 |-> IF k = 0 THEN Leaf(Default) ELSE Up(h, k)]
    BY <2>1, <2>2
  <2> QED BY <1>0, <2>3
<1>4. ASSUME NEW m \in 0 .. TREE_DEPTH - 1, m \in S PROVE m + 1 \in S
  <2>1. PICK g : g = [k \in 0 .. m |-> IF k = 0 THEN Leaf(Default) ELSE Up(g, k)]
    BY <1>4
  <2>2. PICK h : h = [k \in 0 .. m + 1 |-> IF k = m + 1 THEN Up(g, k) ELSE g[k]]
    OBVIOUS
  <2>3. ASSUME NEW k \in 0 .. m + 1 PROVE h[k] = IF k = 0 THEN Leaf(Default) ELSE Up(h, k)
    <3>1. CASE k = 0
      BY <1>0, <2>1, <2>2, <3>1
    <3>2. CASE k # 0
      <4>1. k - 1 \in 0 .. m /\ k - 1 \in 0 .. m + 1 /\ k - 1 # m + 1
        BY <1>0, <3>2
      <4>2. h[k - 1] = g[k - 1]
        BY <2>2, <4>1
      <4>3. Up(g, k) = Up(h, k)
        BY <1>2, <4>2
      <4>4. h[k] = Up(g, k)
        BY <2>1, <2>2, <3>2
      <4> QED BY <3>2, <4>3, <4>4
    <3> QED BY <3>1, <3>2
  <2>4. h = [k \in 0 .. m + 1 |-> h[k]]
    BY <2>2
  <2>5. h = [k \in 0 .. m + 1 |-> IF k = 0 THEN Leaf(Default) ELSE Up(h, k)]
    BY <2>3, <2>4
  <2>6. m + 1 \in 0 .. TREE_DEPTH
    BY <1>0
  <2> QED BY <2>5, <2>6
<1>5. TREE_DEPTH \in S
  <2> HIDE DEF S
  <2> QED BY <1>0, <1>3, <1>4, InductionUpTo
<1>6. Eq(s)
  <2>1. \E h : Eq(h)
    BY <1>5
  <2> HIDE DEF Eq
  <2> QED BY <2>1
<1> HIDE DEF s
<1>7. PICK node : node = [level \in 0 .. TREE_DEPTH |-> [index \in Indices(level) |-> s[level]]]
  OBVIOUS
<1>8. \A level \in 0 .. TREE_DEPTH : \A i \in Indices(level) : node[level][i] = s[level]
  BY <1>7
<1>9. \A u \in UserIds : node[0][u] = Leaf(Default)
  BY <1>0, <1>6, <1>8, IndicesFit
<1>10. ASSUME NEW level \in Levels, NEW i \in Indices(level + 1)
       PROVE  node[level + 1][i] = two_to_one(node[level][2 * i], node[level][2 * i + 1])
  <2>1. /\ level \in 0 .. TREE_DEPTH /\ level + 1 \in 0 .. TREE_DEPTH
        /\ level + 1 # 0 /\ (level + 1) - 1 = level
    BY <1>0 DEF Levels
  <2>2. s[level + 1] = two_to_one(s[level], s[level])
    BY <1>6, <2>1 DEF Up
  <2>3. 2 * i \in Indices(level) /\ 2 * i + 1 \in Indices(level)
    BY IndicesFit
  <2> QED BY <1>8, <2>1, <2>2, <2>3
<1>11. node = [level \in 0 .. TREE_DEPTH |-> [index \in Indices(level) |-> node[level][index]]]
  BY <1>7, <1>8
<1>12. IsTree(node)
  BY <1>9, <1>10, <1>11, DefaultIsAValue DEF IsTree
<1>13. node[TREE_DEPTH][0] = s[TREE_DEPTH]
  <2>1. TREE_DEPTH \in 0 .. TREE_DEPTH /\ 0 \in Indices(TREE_DEPTH)
    BY <1>0, IndicesFit
  <2> QED BY <1>8, <2>1
<1> QED BY <1>1, <1>9, <1>12, <1>13

-----------------------------------------------------------------------------
(* The invariant.                                                          *)

PathsTypeOK ==
    /\ paths = [w \in Workers |-> paths[w]]
    /\ \A w \in Workers :
          /\ DOMAIN paths[w] = {"user_id", "leaf", "siblings", "unread"}
          /\ paths[w].user_id \in UserIds

\* The validator's value is the root of a tree with one leaf per user.
RootOfATree ==
    /\ IsTree(NodesOf(current_root))
    /\ NodesOf(current_root)[TREE_DEPTH][0] = current_root

MerkleInv == PathsTypeOK /\ RootOfATree

\* Any tree's root will do.
LEMMA TreeHasRoot ==
    ASSUME NEW node, IsTree(node), current_root = node[TREE_DEPTH][0]
    PROVE  RootOfATree /\ NodesOf(current_root) = node
BY NodesOfTree DEF RootOfATree

\* The empty root is that of the tree of unused leaves.
LEMMA MerkleInitInv ==
    ASSUME MerkleInit
    PROVE  MerkleInv /\ \A u \in UserIds : LeafOf(current_root, u) = Leaf(Default)
<1>1. PICK node : /\ IsTree(node) /\ node[TREE_DEPTH][0] = EmptyRoot
                  /\ \A u \in UserIds : node[0][u] = Leaf(Default)
  BY EmptyTree
<1>2. RootOfATree /\ NodesOf(current_root) = node
  BY <1>1, TreeHasRoot DEF MerkleInit
<1>3. PathsTypeOK
  BY DEF MerkleInit, PathsTypeOK, NoPath
<1> QED BY <1>1, <1>2, <1>3 DEF MerkleInv, LeafOf

\* A path that verifies agrees with the present tree, leaf and siblings.
LEMMA VerifiedIsCurrent ==
    ASSUME MerkleInv, NEW w \in Workers, verify_current_root(paths[w])
    PROVE  /\ paths[w].leaf = LeafOf(current_root, paths[w].user_id)
           /\ \A level \in Levels :
                 paths[w].siblings[level] = SiblingOf(current_root, paths[w].user_id, level)
<1>1. PICK node : /\ node = NodesOf(current_root) /\ IsTree(node)
                  /\ node[TREE_DEPTH][0] = current_root
  BY DEF MerkleInv, RootOfATree
<1>2. PICK u \in UserIds : u = paths[w].user_id
  BY DEF MerkleInv, PathsTypeOK
<1>3. PICK current : /\ IsLift(current, paths[w].leaf, paths[w].siblings, u)
                     /\ current[TREE_DEPTH] = root_from_leaf(paths[w].leaf, paths[w].siblings, u)
  BY LiftExists
<1>4. current[TREE_DEPTH] = node[TREE_DEPTH][0]
  BY <1>1, <1>2, <1>3 DEF verify_current_root
<1>5. /\ paths[w].leaf = node[0][u]
      /\ \A level \in Levels :
            paths[w].siblings[level] = node[level][Sibling(shifted(u, level))]
  BY <1>1, <1>3, <1>4, LiftToTheRoot
<1> QED BY <1>1, <1>2, <1>5 DEF LeafOf, SiblingOf, Sibling

\* What each of the reads does to the path it is for.
LEMMA ReadLeafReads ==
    ASSUME PathsTypeOK, NEW w \in Workers, ReadLeaf(w)
    PROVE  /\ PathsTypeOK'
           /\ \A v \in Workers : paths'[v].user_id = paths[v].user_id
           /\ \A v \in Workers \ {w} : paths'[v] = paths[v]
           /\ paths'[w].leaf = LeafOf(current_root, paths[w].user_id)
           /\ paths'[w].unread = paths[w].unread \ {TREE_DEPTH}
<1>1. PICK leaf : leaf = LeafOf(current_root, paths[w].user_id)
  OBVIOUS
<1>2. paths' = [paths EXCEPT ![w].leaf = leaf, ![w].unread = @ \ {TREE_DEPTH}]
  BY <1>1 DEF ReadLeaf
<1>3. /\ \A v \in Workers \ {w} : paths'[v] = paths[v]
      /\ paths' = [v \in Workers |-> paths'[v]]
  BY <1>2 DEF PathsTypeOK
<1>4. paths'[w] = [paths[w] EXCEPT !.leaf = leaf, !.unread = @ \ {TREE_DEPTH}]
  BY <1>2 DEF PathsTypeOK
<1>5. /\ DOMAIN paths'[w] = {"user_id", "leaf", "siblings", "unread"}
      /\ paths'[w].user_id = paths[w].user_id /\ paths'[w].leaf = leaf
      /\ paths'[w].unread = paths[w].unread \ {TREE_DEPTH}
  BY <1>4 DEF PathsTypeOK
<1> QED BY <1>1, <1>3, <1>5 DEF PathsTypeOK

\* Reading a sibling changes that sibling of one path and nothing else.
LEMMA ReadSiblingReads ==
    ASSUME PathsTypeOK, NEW w \in Workers, ReadSibling(w)
    PROVE  /\ PathsTypeOK'
           /\ \A v \in Workers : paths'[v].user_id = paths[v].user_id
           /\ \A v \in Workers \ {w} : paths'[v] = paths[v]
           /\ paths'[w].leaf = paths[w].leaf
           /\ \E level \in Levels : paths'[w].unread = paths[w].unread \ {level}
<1>1. PICK level \in Levels : \E sibling :
          paths' = [paths EXCEPT ![w].siblings[level] = sibling, ![w].unread = @ \ {level}]
  BY DEF ReadSibling
<1>2. PICK sibling :
          paths' = [paths EXCEPT ![w].siblings[level] = sibling, ![w].unread = @ \ {level}]
  BY <1>1
<1>3. /\ \A v \in Workers \ {w} : paths'[v] = paths[v]
      /\ paths' = [v \in Workers |-> paths'[v]]
  BY <1>2 DEF PathsTypeOK
<1>4. paths'[w] = [paths[w] EXCEPT !.siblings = [@ EXCEPT ![level] = sibling],
                                   !.unread = @ \ {level}]
  BY <1>2 DEF PathsTypeOK
<1>5. /\ DOMAIN paths'[w] = {"user_id", "leaf", "siblings", "unread"}
      /\ paths'[w].user_id = paths[w].user_id /\ paths'[w].leaf = paths[w].leaf
      /\ paths'[w].unread = paths[w].unread \ {level}
  BY <1>4 DEF PathsTypeOK
<1> QED BY <1>3, <1>5 DEF PathsTypeOK

\* A path that is started over has nothing read.
LEMMA ForgetKeepsType ==
    ASSUME PathsTypeOK, NEW w \in Workers,
           paths' = [paths EXCEPT ![w] = NoPath(paths[w].user_id)]
    PROVE  /\ PathsTypeOK'
           /\ \A v \in Workers : paths'[v].user_id = paths[v].user_id
           /\ \A v \in Workers \ {w} : paths'[v] = paths[v]
           /\ TREE_DEPTH \in paths'[w].unread
<1>1. /\ \A v \in Workers \ {w} : paths'[v] = paths[v]
      /\ paths' = [v \in Workers |-> paths'[v]]
      /\ paths'[w] = NoPath(paths[w].user_id)
  BY DEF PathsTypeOK
<1>2. /\ DOMAIN paths'[w] = {"user_id", "leaf", "siblings", "unread"}
      /\ paths'[w].user_id = paths[w].user_id
      /\ TREE_DEPTH \in paths'[w].unread
  BY <1>1 DEF NoPath
<1> QED BY <1>1, <1>2 DEF PathsTypeOK

\* A read keeps the invariant: it leaves the root alone.
LEMMA ReadKeepsInv ==
    ASSUME MerkleInv, NEW w \in Workers, Begin(w) \/ ReadLeaf(w) \/ ReadSibling(w)
    PROVE  MerkleInv'
<1>1. UNCHANGED current_root
  BY DEF Begin, ReadLeaf, ReadSibling
<1>2. RootOfATree'
  BY <1>1 DEF MerkleInv, RootOfATree
<1>3. PathsTypeOK'
  BY ForgetKeepsType, ReadLeafReads, ReadSiblingReads DEF MerkleInv, Begin
<1> QED BY <1>2, <1>3 DEF MerkleInv

\* An accepted slot writes one leaf and leaves a tree.
LEMMA WriteKeepsInv ==
    ASSUME MerkleInv, NEW w \in Workers, Write(w)
    PROVE  /\ MerkleInv'
           /\ paths' = [paths EXCEPT ![w] = NoPath(paths[w].user_id)]
           /\ paths[w].unread = {}
           /\ paths[w].leaf = LeafOf(current_root, paths[w].user_id)
           /\ \E value \in Values : \A u \in UserIds :
                 LeafOf(current_root', u) =
                     IF u = paths[w].user_id THEN Leaf(value) ELSE LeafOf(current_root, u)
<1>1. PICK value \in Values :
          /\ paths[w].unread = {}
          /\ verify_current_root(paths[w])
          /\ current_root' = root_from_leaf(Leaf(value), paths[w].siblings, paths[w].user_id)
          /\ paths' = [paths EXCEPT ![w] = NoPath(paths[w].user_id)]
  BY DEF Write
<1>2. PICK node : /\ node = NodesOf(current_root) /\ IsTree(node)
                  /\ node[TREE_DEPTH][0] = current_root
  BY DEF MerkleInv, RootOfATree
<1>3. PICK u \in UserIds : u = paths[w].user_id
  BY DEF MerkleInv, PathsTypeOK
<1>4. PICK siblings : siblings = paths[w].siblings
  OBVIOUS
<1>5. \A level \in Levels : siblings[level] = node[level][Sibling(shifted(u, level))]
  BY <1>1, <1>2, <1>3, <1>4, VerifiedIsCurrent DEF SiblingOf, Sibling
<1>6. PICK current : /\ IsLift(current, Leaf(value), siblings, u)
                     /\ root_from_leaf(Leaf(value), siblings, u) = current[TREE_DEPTH]
  BY LiftExists
<1>7. PICK tree : tree = WithPath(node, u, current)
  OBVIOUS
<1>8. /\ IsTree(tree) /\ tree[TREE_DEPTH][0] = current[TREE_DEPTH]
      /\ \A v \in UserIds : tree[0][v] = IF v = u THEN Leaf(value) ELSE node[0][v]
  BY <1>2, <1>5, <1>6, <1>7, LiftMakesTree
<1>9. current_root' = tree[TREE_DEPTH][0]
  BY <1>1, <1>3, <1>4, <1>6, <1>8
<1>10. NodesOf(current_root') = tree
  BY <1>8, <1>9, NodesOfTree
<1>11. RootOfATree'
  BY <1>8, <1>9, <1>10 DEF RootOfATree
<1>12. PathsTypeOK'
  BY <1>1, ForgetKeepsType DEF MerkleInv
<1>13. \A v \in UserIds : LeafOf(current_root', v) =
                              IF v = u THEN Leaf(value) ELSE LeafOf(current_root, v)
  BY <1>2, <1>8, <1>10 DEF LeafOf
<1>14. paths[w].leaf = LeafOf(current_root, paths[w].user_id)
  BY <1>1, VerifiedIsCurrent
<1> QED BY <1>1, <1>3, <1>11, <1>12, <1>13, <1>14 DEF MerkleInv

\* Every state the validator and the readers reach has a tree under its root.
THEOREM MerkleInvariant == MerkleSpec => []MerkleInv
<1>1. MerkleInit => MerkleInv
  BY MerkleInitInv
<1>2. MerkleInv /\ [MerkleNext]_merkle_vars => MerkleInv'
  <2> SUFFICES ASSUME MerkleInv, [MerkleNext]_merkle_vars PROVE MerkleInv'
    OBVIOUS
  <2>1. CASE MerkleNext
    <3>1. PICK w \in Workers : Begin(w) \/ ReadLeaf(w) \/ ReadSibling(w) \/ Write(w)
      BY <2>1 DEF MerkleNext
    <3> QED BY <3>1, ReadKeepsInv, WriteKeepsInv
  <2>2. CASE UNCHANGED merkle_vars
    BY <2>2 DEF MerkleInv, PathsTypeOK, RootOfATree, merkle_vars
  <2> QED BY <2>1, <2>2
<1> QED BY <1>1, <1>2, PTL DEF MerkleSpec

\* A path put together from several trees verifies only if, by now, each of its
\* parts is that of the present tree (merkle.rs, root_from_leaf).
THEOREM VerifiedPathCorrect == MerkleSpec => []VerifiedPathIsCurrent
<1>1. MerkleInv => VerifiedPathIsCurrent
  BY VerifiedIsCurrent DEF VerifiedPathIsCurrent
<1> QED BY <1>1, MerkleInvariant, PTL

-----------------------------------------------------------------------------
(* The validator and its readers implement a memory with one cell per user. *)

\* A write is a compare-and-swap, a read of a leaf a load, and what reads siblings
\* goes unnoticed.
LEMMA MerkleStepIsMemoryStep ==
    ASSUME MerkleInv, MerkleNext
    PROVE  [Memory!MemoryNext]_(Memory!memory_vars)
<1> DEFINE memory == [u \in UserIds |-> LeafOf(current_root, u)]
           position == [w \in Workers |-> paths[w].user_id]
           loaded == [w \in Workers |->
                         IF TREE_DEPTH \in paths[w].unread THEN Nothing ELSE paths[w].leaf]
<1>1. PICK w \in Workers : Begin(w) \/ ReadLeaf(w) \/ ReadSibling(w) \/ Write(w)
  BY DEF MerkleNext
<1>2. paths[w].user_id \in UserIds
  BY DEF MerkleInv, PathsTypeOK
<1>3. CASE Begin(w)
  <2>1. UNCHANGED <<memory, position>>
    BY <1>3, ForgetKeepsType DEF Begin, MerkleInv
  <2>2. loaded' = [loaded EXCEPT ![w] = Nothing]
    <3>1. /\ TREE_DEPTH \in paths'[w].unread
          /\ \A v \in Workers \ {w} : paths'[v] = paths[v]
      BY <1>3, ForgetKeepsType DEF Begin, MerkleInv
    <3> QED BY <3>1
  <2> QED BY <2>1, <2>2 DEF Memory!MemoryNext, Memory!Forget
<1>4. CASE ReadLeaf(w)
  <2>1. UNCHANGED <<memory, position>>
    BY <1>4, ReadLeafReads DEF ReadLeaf, MerkleInv
  <2>2. loaded' = [loaded EXCEPT ![w] = memory[position[w]]]
    BY <1>2, <1>4, ReadLeafReads DEF MerkleInv
  <2> QED BY <2>1, <2>2 DEF Memory!MemoryNext, Memory!Load
<1>5. CASE ReadSibling(w)
  <2>1. UNCHANGED <<memory, position>>
    BY <1>5, ReadSiblingReads DEF ReadSibling, MerkleInv
  <2>2. TREE_DEPTH \notin Levels
    BY DepthAssumption DEF Levels
  <2>3. UNCHANGED loaded
    BY <1>5, <2>2, ReadSiblingReads DEF MerkleInv
  <2> QED BY <2>1, <2>3 DEF Memory!memory_vars
<1>6. CASE Write(w)
  <2>1. PICK value \in Values : \A u \in UserIds :
            LeafOf(current_root', u) =
                IF u = paths[w].user_id THEN Leaf(value) ELSE LeafOf(current_root, u)
    BY <1>6, WriteKeepsInv
  <2>2. memory' = [memory EXCEPT ![position[w]] = Leaf(value)]
    BY <1>2, <2>1
  <2>3. loaded[w] = memory[position[w]]
    BY <1>2, <1>6, WriteKeepsInv
  <2>4. UNCHANGED position
    BY <1>6, WriteKeepsInv, ForgetKeepsType DEF MerkleInv
  <2>5. loaded' = [loaded EXCEPT ![w] = Nothing]
    <3>1. /\ TREE_DEPTH \in paths'[w].unread
          /\ \A v \in Workers \ {w} : paths'[v] = paths[v]
      BY <1>6, WriteKeepsInv, ForgetKeepsType DEF MerkleInv
    <3> QED BY <3>1
  <2>6. Memory!Store(w, Leaf(value))
    BY <2>2, <2>3, <2>4, <2>5 DEF Memory!Store
  <2> QED BY <2>6 DEF Memory!MemoryNext
<1> QED BY <1>1, <1>3, <1>4, <1>5, <1>6

\* The root alone stands for an array of leaves: an accepted slot puts its new
\* leaf where its user's was, which still is what its worker read, and changes no
\* other, whatever the siblings were read from.
THEOREM MerkleImplementsMemory == MerkleSpec => ImplementsLeafMemory
<1>1. MerkleInit => Memory!MemoryInit
  <2> SUFFICES ASSUME MerkleInit PROVE Memory!MemoryInit
    OBVIOUS
  <2>1. \A u \in UserIds : LeafOf(current_root, u) = Leaf(Default)
    BY MerkleInitInv
  <2>2. \A w \in Workers : paths[w].user_id \in UserIds /\ TREE_DEPTH \in paths[w].unread
    BY DEF MerkleInit, NoPath
  <2> QED BY <2>1, <2>2 DEF Memory!MemoryInit
<1>2. MerkleInv /\ [MerkleNext]_merkle_vars => [Memory!MemoryNext]_(Memory!memory_vars)
  <2>1. UNCHANGED merkle_vars => UNCHANGED Memory!memory_vars
    BY DEF merkle_vars, Memory!memory_vars
  <2>2. MerkleInv /\ MerkleNext => [Memory!MemoryNext]_(Memory!memory_vars)
    BY MerkleStepIsMemoryStep
  <2> QED BY <2>1, <2>2
<1> QED BY <1>1, <1>2, MerkleInvariant, PTL DEF MerkleSpec, ImplementsLeafMemory, Memory!MemorySpec

-----------------------------------------------------------------------------
(* What Hash takes for granted: roots are arrays of leaves, a proof is the *)
(* array but for one leaf, and lifting a leaf puts it in that place.       *)

\* The root of some tree.
IsRoot(root) == \E node : IsTree(node) /\ node[TREE_DEPTH][0] = root

\* The nodes below the root of a tree are that tree.
LEMMA RootIsOfItsTree ==
    ASSUME NEW root, IsRoot(root)
    PROVE  IsTree(NodesOf(root)) /\ NodesOf(root)[TREE_DEPTH][0] = root
BY NodesOfTree DEF IsRoot

\* Two trees have the same root exactly when they have the same leaves.
THEOREM RootIsItsLeaves ==
    ASSUME NEW r, NEW s, IsRoot(r), IsRoot(s)
    PROVE  r = s <=> \A u \in UserIds : LeafOf(r, u) = LeafOf(s, u)
<1>0. TREE_DEPTH \in Nat
  BY DepthAssumption
<1>1. PICK a, b : /\ a = NodesOf(r) /\ IsTree(a) /\ a[TREE_DEPTH][0] = r
                  /\ b = NodesOf(s) /\ IsTree(b) /\ b[TREE_DEPTH][0] = s
  BY RootIsOfItsTree
<1>2. ASSUME \A u \in UserIds : LeafOf(r, u) = LeafOf(s, u) PROVE r = s
  <2> DEFINE S == {level \in 0 .. TREE_DEPTH : \A i \in Indices(level) : a[level][i] = b[level][i]}
  <2>1. 0 \in S
    BY <1>0, <1>1, <1>2, IndicesFit DEF LeafOf
  <2>2. ASSUME NEW k \in 0 .. TREE_DEPTH - 1, k \in S PROVE k + 1 \in S
    <3>1. k \in Levels /\ k + 1 \in 0 .. TREE_DEPTH
      BY <1>0 DEF Levels
    <3>2. ASSUME NEW i \in Indices(k + 1) PROVE a[k + 1][i] = b[k + 1][i]
      <4>1. 2 * i \in Indices(k) /\ 2 * i + 1 \in Indices(k)
        BY <3>1, IndicesFit
      <4>2. /\ a[k + 1][i] = two_to_one(a[k][2 * i], a[k][2 * i + 1])
            /\ b[k + 1][i] = two_to_one(b[k][2 * i], b[k][2 * i + 1])
        BY <1>1, <3>1 DEF IsTree
      <4> QED BY <2>2, <4>1, <4>2
    <3> QED BY <3>1, <3>2
  <2>3. TREE_DEPTH \in S
    <3> HIDE DEF S
    <3> QED BY <1>0, <2>1, <2>2, InductionUpTo
  <2> QED BY <1>1, <2>3, IndicesFit
<1> QED BY <1>2

\* A leaf and siblings that lift to a root are the leaf and the siblings of that
\* tree: a proof cannot be had for any other leaf.
THEOREM ProofIsOfItsTree ==
    ASSUME NEW root, IsRoot(root), NEW u \in UserIds, NEW leaf, NEW siblings,
           root_from_leaf(leaf, siblings, u) = root
    PROVE  /\ leaf = LeafOf(root, u)
           /\ \A level \in Levels : siblings[level] = SiblingOf(root, u, level)
<1>1. PICK node : node = NodesOf(root) /\ IsTree(node) /\ node[TREE_DEPTH][0] = root
  BY RootIsOfItsTree
<1>2. PICK current : /\ IsLift(current, leaf, siblings, u)
                     /\ root_from_leaf(leaf, siblings, u) = current[TREE_DEPTH]
  BY LiftExists
<1>3. /\ leaf = node[0][u]
      /\ \A level \in Levels : siblings[level] = node[level][Sibling(shifted(u, level))]
  BY <1>1, <1>2, LiftToTheRoot
<1> QED BY <1>1, <1>3 DEF LeafOf, SiblingOf, Sibling

\* Lifting a leaf along the siblings of a tree gives the root of the tree with
\* that leaf in the user's place and every other leaf as it was; with the leaf
\* that is there, it gives the root back (an honest proof verifies).
THEOREM LiftReplacesOneLeaf ==
    ASSUME NEW root, IsRoot(root), NEW u \in UserIds, NEW value \in Values, NEW siblings,
           \A level \in Levels : siblings[level] = SiblingOf(root, u, level)
    PROVE  LET lifted == root_from_leaf(Leaf(value), siblings, u) IN
           /\ IsRoot(lifted)
           /\ \A v \in UserIds :
                 LeafOf(lifted, v) = IF v = u THEN Leaf(value) ELSE LeafOf(root, v)
           /\ Leaf(value) = LeafOf(root, u) => lifted = root
<1>1. PICK node : node = NodesOf(root) /\ IsTree(node) /\ node[TREE_DEPTH][0] = root
  BY RootIsOfItsTree
<1>2. \A level \in Levels : siblings[level] = node[level][Sibling(shifted(u, level))]
  BY <1>1 DEF SiblingOf, Sibling
<1>3. PICK lifted : lifted = root_from_leaf(Leaf(value), siblings, u)
  OBVIOUS
<1>4. PICK current : IsLift(current, Leaf(value), siblings, u) /\ lifted = current[TREE_DEPTH]
  BY <1>3, LiftExists
<1>5. PICK tree : tree = WithPath(node, u, current)
  OBVIOUS
<1>6. /\ IsTree(tree) /\ tree[TREE_DEPTH][0] = lifted
      /\ \A v \in UserIds : tree[0][v] = IF v = u THEN Leaf(value) ELSE node[0][v]
  BY <1>1, <1>2, <1>4, <1>5, LiftMakesTree
<1>7. IsRoot(lifted)
  BY <1>6 DEF IsRoot
<1>8. NodesOf(lifted) = tree
  BY <1>6, NodesOfTree
<1>9. \A v \in UserIds : LeafOf(lifted, v) = IF v = u THEN Leaf(value) ELSE LeafOf(root, v)
  BY <1>1, <1>6, <1>8 DEF LeafOf
<1>10. Leaf(value) = LeafOf(root, u) => lifted = root
  BY <1>7, <1>9, RootIsItsLeaves
<1> QED BY <1>3, <1>7, <1>9, <1>10
=============================================================================
