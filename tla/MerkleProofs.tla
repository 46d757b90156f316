---------------------------- MODULE MerkleProofs ----------------------------
(* The Merkle trees of packages/credential-v2: a level with an odd number of *)
(* nodes pairs its last node with itself, and a proof is verified from its   *)
(* leaf, its index and its siblings alone.  SHA-256 is an injective          *)
(* constructor: equal digests are equal terms.                               *)
EXTENDS Naturals, Sequences

ZeroDigest == <<"zero">>

HashMerkleBranch(left, right) == <<"branch", left, right>>

HashCredentialLeaf(commitment) == <<"credential", commitment>>

HashRevocationLeaf(leaf) == <<"revocation", leaf.commitment, leaf.revoked>>

Half(n) == n \div 2

\* The level above a level of two or more nodes.
ParentLevel(level) ==
    [i \in 1..Half(Len(level) + 1) |->
        HashMerkleBranch(level[2 * i - 1],
                         IF 2 * i <= Len(level) THEN level[2 * i]
                                                ELSE level[2 * i - 1])]

\* levels[k] of buildMerkleTree, the leaves being level 0; above the root the
\* level stays what it is.
Levels(leaves) ==
    LET level[k \in 0..Len(leaves)] ==
            IF k = 0 THEN leaves
            ELSE IF Len(level[k - 1]) > 1 THEN ParentLevel(level[k - 1])
            ELSE level[k - 1]
    IN  level

\* The first level with a single node is the root's.
RootLevel(levels) ==
    CHOOSE k \in DOMAIN levels :
        /\ Len(levels[k]) = 1
        /\ \A j \in 0..(k - 1) : Len(levels[j]) > 1

MerkleRoot(leaves) ==
    LET levels == Levels(leaves)
    IN  IF leaves = <<>> THEN ZeroDigest ELSE levels[RootLevel(levels)][1]

\* Where the node over a leaf is, in each level and counted from 0.
Indices(leafIndex, height) ==
    LET index[k \in 0..height] ==
            IF k = 0 THEN leafIndex ELSE Half(index[k - 1])
    IN  index

SiblingIndex(i) == IF i % 2 = 0 THEN i + 1 ELSE i - 1

Sibling(level, i) ==
    IF SiblingIndex(i) < Len(level) THEN level[SiblingIndex(i) + 1]
                                    ELSE level[i + 1]

\* Bug: a last node without a partner is given no sibling.
Siblings_NoSelfPair(levels, leafIndex) ==
    LET index == Indices(leafIndex, RootLevel(levels))
    IN  SelectSeq([k \in 1..RootLevel(levels) |->
                      IF SiblingIndex(index[k - 1]) < Len(levels[k - 1])
                      THEN Sibling(levels[k - 1], index[k - 1])
                      ELSE ZeroDigest],
                  LAMBDA s : s # ZeroDigest)

Siblings(levels, leafIndex) ==
    LET index == Indices(leafIndex, RootLevel(levels))
    IN  [k \in 1..RootLevel(levels) |-> Sibling(levels[k - 1], index[k - 1])]

CreateMerkleProof(leaves, leafIndex) ==
    [leafHash  |-> leaves[leafIndex + 1],
     leafIndex |-> leafIndex,
     siblings  |-> Siblings(Levels(leaves), leafIndex),
     root      |-> MerkleRoot(leaves)]

\* The hashes from the leaf of a proof upwards.
Climb(proof) ==
    LET index == Indices(proof.leafIndex, Len(proof.siblings))
        hash[k \in 0..Len(proof.siblings)] ==
            IF k = 0 THEN proof.leafHash
            ELSE IF index[k - 1] % 2 = 0
                 THEN HashMerkleBranch(hash[k - 1], proof.siblings[k])
                 ELSE HashMerkleBranch(proof.siblings[k], hash[k - 1])
    IN  hash

VerifyMerkleProof(proof) == Climb(proof)[Len(proof.siblings)] = proof.root
=============================================================================
