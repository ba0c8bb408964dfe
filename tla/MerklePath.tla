----------------------------- MODULE MerklePath -----------------------------
(***************************************************************************)
(* The state tree, level by level (merkle.rs).                             *)
(*                                                                         *)
(* The validator holds one value, the root.  A worker reads a leaf and the *)
(* siblings of its path from the tree store, one read at a time and with   *)
(* other slots landing in between; the validator lifts the leaf along the  *)
(* siblings, compares, and lifts the new leaf along the same siblings to   *)
(* get the next root.  Hash takes all this for granted when it says that a *)
(* root commits to every leaf and a proof fixes every leaf but one.        *)
(*                                                                         *)
(* Hashing is symbolic: the hash of two nodes is the record of the two.    *)
(***************************************************************************)
EXTENDS Integers

CONSTANTS
    TREE_DEPTH, \* 28 in the code
    Values,     \* what the leaves commit to
    Default,    \* and what an unused leaf commits to
    Workers,
    Nothing     \* no leaf read

ASSUME DepthAssumption == TREE_DEPTH \in Nat \ {0}
ASSUME DefaultIsAValue == Default \in Values

VARIABLES
    current_root,
    paths       \* [Workers -> the proof the worker is reading]

merkle_vars == <<current_root, paths>>

Levels == 0 .. TREE_DEPTH - 1

\* user_id >> level
shifted(user_id, level) ==
    LET shr[k \in 0 .. TREE_DEPTH] == IF k = 0 THEN user_id ELSE shr[k - 1] \div 2
    IN shr[level]

path_bit(user_id, level) == shifted(user_id, level) % 2

\* 1 << level: the nodes that many levels below the root.
width(level) ==
    LET shl[k \in 0 .. TREE_DEPTH] == IF k = 0 THEN 1 ELSE 2 * shl[k - 1]
    IN shl[level]

UserIds == 0 .. width(TREE_DEPTH) - 1

Leaf(value) == [value |-> value]

two_to_one(left, right) == [left |-> left, right |-> right]

-----------------------------------------------------------------------------
\* Mutant: the bits of the index are consumed from the most significant one.
root_msb_first(leaf, siblings, user_id) ==
    LET current[level \in 0 .. TREE_DEPTH] ==
            IF level = 0 THEN leaf
            ELSE IF path_bit(user_id, TREE_DEPTH - level) = 1
                 THEN two_to_one(siblings[level - 1], current[level - 1])
                 ELSE two_to_one(current[level - 1], siblings[level - 1])
    IN current[TREE_DEPTH]

\* Lift a leaf: LSB first, the sibling on the left where the bit is set.
root_from_leaf(leaf, siblings, user_id) ==
    LET current[level \in 0 .. TREE_DEPTH] ==
            IF level = 0 THEN leaf
            ELSE IF path_bit(user_id, level - 1) = 1
                 THEN two_to_one(siblings[level - 1], current[level - 1])
                 ELSE two_to_one(current[level - 1], siblings[level - 1])
    IN current[TREE_DEPTH]

\* The store's tree, level by level from the root down: NodesOf(root)[level][index].
NodesOf(root) ==
    LET node[level \in 0 .. TREE_DEPTH] ==
            [index \in 0 .. width(TREE_DEPTH - level) - 1 |->
                IF level = TREE_DEPTH THEN root
                ELSE IF index % 2 = 0 THEN node[level + 1][index \div 2].left
                                      ELSE node[level + 1][index \div 2].right]
    IN node

LeafOf(root, user_id) == NodesOf(root)[0][user_id]

\* The other child of the parent of the node on the path.
SiblingOf(root, user_id, level) ==
    LET index == shifted(user_id, level)
    IN NodesOf(root)[level][IF index % 2 = 0 THEN index + 1 ELSE index - 1]

EmptyRoot ==
    LET node[level \in 0 .. TREE_DEPTH] ==
            IF level = 0 THEN Leaf(Default) ELSE two_to_one(node[level - 1], node[level - 1])
    IN node[TREE_DEPTH]

-----------------------------------------------------------------------------
\* Nothing read yet, for this user.
NoPath(user_id) ==
    [user_id |-> user_id, leaf |-> Leaf(Default),
     siblings |-> [level \in Levels |-> Leaf(Default)], unread |-> Levels \cup {TREE_DEPTH}]

MerkleInit ==
    /\ current_root = EmptyRoot
    /\ paths \in [Workers -> {NoPath(u) : u \in UserIds}]

Begin(w) ==
    /\ paths[w].unread # Levels \cup {TREE_DEPTH}
    /\ paths' = [paths EXCEPT ![w] = NoPath(paths[w].user_id)]
    /\ UNCHANGED current_root

\* The leaf is read apart from the siblings.
ReadLeaf(w) ==
    /\ TREE_DEPTH \in paths[w].unread
    /\ paths' = [paths EXCEPT ![w].leaf = LeafOf(current_root, paths[w].user_id),
                              ![w].unread = @ \ {TREE_DEPTH}]
    /\ UNCHANGED current_root

ReadSibling(w) ==
    \E level \in paths[w].unread \cap Levels :
        /\ paths' = [paths EXCEPT
              ![w].siblings[level] = SiblingOf(current_root, paths[w].user_id, level),
              ![w].unread = @ \ {level}]
        /\ UNCHANGED current_root

\* Mutant: the leaf is compared with the store's, the path is not lifted.
verify_leaf(path) == LeafOf(current_root, path.user_id) = path.leaf

\* C16
verify_current_root(path) ==
    root_from_leaf(path.leaf, path.siblings, path.user_id) = current_root

\* The slot is accepted, and the new leaf lifted along the same siblings.
Write(w) ==
    \E value \in Values :
        /\ paths[w].unread = {}
        /\ verify_current_root(paths[w])
        /\ current_root' = root_from_leaf(Leaf(value), paths[w].siblings, paths[w].user_id)
        /\ paths' = [paths EXCEPT ![w] = NoPath(paths[w].user_id)]

MerkleNext ==
    \E w \in Workers : Begin(w) \/ ReadLeaf(w) \/ ReadSibling(w) \/ Write(w)

MerkleSpec == MerkleInit /\ [][MerkleNext]_merkle_vars

-----------------------------------------------------------------------------
\* A path put together from several trees verifies only if, by now, each of its
\* parts is that of the present tree (merkle.rs, root_from_leaf): this is what
\* makes it sound to lift the new leaf along siblings read long ago.
VerifiedPathIsCurrent ==
    \A w \in Workers :
        LET path == paths[w] IN
        path.unread = {} /\ verify_current_root(path) =>
            /\ path.leaf = LeafOf(current_root, path.user_id)
            /\ \A level \in Levels :
                  path.siblings[level] = SiblingOf(current_root, path.user_id, level)

Memory == INSTANCE LeafMemory
    WITH Positions <- UserIds, LeafValues <- {Leaf(v) : v \in Values},
         Unused <- Leaf(Default), Clients <- Workers,
         memory <- [u \in UserIds |-> LeafOf(current_root, u)],
         position <- [w \in Workers |-> paths[w].user_id],
         loaded <- [w \in Workers |->
                       IF TREE_DEPTH \in paths[w].unread THEN Nothing ELSE paths[w].leaf]

\* The root alone stands for an array of leaves: an accepted slot puts its new
\* leaf where its user's was, which still is what its worker read, and changes no
\* other, whatever the siblings were read from.
ImplementsLeafMemory == Memory!MemorySpec
=============================================================================
