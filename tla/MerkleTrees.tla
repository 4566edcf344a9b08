----------------------------- MODULE MerkleTrees -----------------------------
(***************************************************************************)
(* The two Merkle trees of the protocol, as functions.                     *)
(*                                                                         *)
(* The commitment tree (sdk/merkle-tree) is a sparse tree of fixed depth:  *)
(* only nodes above inserted leaves are stored, and an absent node is the  *)
(* hash of an empty subtree.  Its paths go to the circuits                 *)
(* (zk/circuits/lib).  The aggregation tree is zkVerify's: its leaves have *)
(* any number, and the last node of an odd level is carried up unhashed;   *)
(* zk-verifier folds a path of it.  Hashing is injective: a hash is the    *)
(* pair it hashes.                                                         *)
(***************************************************************************)
EXTENDS Integers, Sequences, SequencesExt

CONSTANTS Depth,         \* TREE_DEPTH (20 in the code)
          EmptyLeaf,     \* the 32 zero bytes of an unfilled slot
          MaxPathLength  \* levels of an aggregation tree (32 in the code)

ASSUME DepthAssumption == Depth \in Nat \ {0} /\ MaxPathLength \in Nat

\* Arithmetic, for the proofs: the provers know no power of two.
ASSUME PowersOfTwo ==
  2 ^ 0 = 1 /\ \A l \in 1..(Depth + MaxPathLength) : 2 ^ l = 2 * 2 ^ (l - 1)

MaxLeaves == 2 ^ Depth
Hash(left, right) == <<left, right>>

\* The hash of an empty subtree at each level.
Zeros[level \in 0..Depth] ==
  IF level = 0 THEN EmptyLeaf ELSE Hash(Zeros[level - 1], Zeros[level - 1])

\* nodes maps <<level, index>> to what is stored there.
Get(nodes, level, index) ==
  IF <<level, index>> \in DOMAIN nodes THEN nodes[<<level, index>>] ELSE Zeros[level]

Root(nodes) == Get(nodes, Depth, 0)
IsRight(index) == index % 2 = 1
SiblingOf(index) == IF IsRight(index) THEN index - 1 ELSE index + 1
Above(index, level) == index \div 2 ^ level

\* Mutant: the order of the pair ignores the side.
Parent_Unordered(nodes, level, index) ==
  Hash(Get(nodes, level, index), Get(nodes, level, SiblingOf(index)))

Parent(nodes, level, index) ==
  LET node == Get(nodes, level, index)
      sibling == Get(nodes, level, SiblingOf(index))
  IN  IF IsRight(index) THEN Hash(sibling, node) ELSE Hash(node, sibling)

Put(nodes, level, index, value) ==
  [at \in DOMAIN nodes \union {<<level, index>>} |->
     IF at = <<level, index>> THEN value ELSE nodes[at]]

\* Store a leaf and rehash the nodes above it, bottom-up.
SetLeaf(nodes, index, value) ==
  LET upTo[level \in 0..Depth] ==
        IF level = 0 THEN Put(nodes, 0, index, value)
        ELSE LET below == upTo[level - 1]
             IN  Put(below, level, Above(index, level),
                     Parent(below, level - 1, Above(index, level - 1)))
  IN  upTo[Depth]

\* The authentication path of a slot: the side and the sibling at each level.
PathOf(nodes, index) ==
  [l \in 1..Depth |-> [right |-> IsRight(Above(index, l - 1)),
                       sibling |-> Get(nodes, l - 1, SiblingOf(Above(index, l - 1)))]]

\* The circuits' compute_merkle_root, and the SDK's own mirrors of it.
ComputeMerkleRoot(leaf, path) ==
  LET node[l \in 0..Depth] ==
        IF l = 0 THEN leaf
        ELSE IF path[l].right THEN Hash(path[l].sibling, node[l - 1])
             ELSE Hash(node[l - 1], path[l].sibling)
  IN  node[Depth]

\* The witness of an append at the next free slot.
InsertionWitness(nodes, count, commitment) ==
  LET path == PathOf(nodes, count)
  IN  [index |-> count, path |-> path,
       oldRoot |-> ComputeMerkleRoot(EmptyLeaf, path),
       newRoot |-> ComputeMerkleRoot(commitment, path)]

\* assert_index_bits: the sides of a path spell the index.
IndexBitsMatch(index, path) ==
  LET value[l \in 0..Depth] ==
        IF l = 0 THEN 0 ELSE value[l - 1] + (IF path[l].right THEN 2 ^ (l - 1) ELSE 0)
  IN  value[Depth] = index

\* What the circuits assert of a membership proof and of an insertion.
MembershipHolds(leaf, path, root) == ComputeMerkleRoot(leaf, path) = root
InsertionHolds(leaf, index, path, oldRoot, newRoot) ==
  /\ IndexBitsMatch(index, path)
  /\ ComputeMerkleRoot(EmptyLeaf, path) = oldRoot
  /\ ComputeMerkleRoot(leaf, path) = newRoot

-----------------------------------------------------------------------------
(* zkVerify's aggregation tree (external), and the contract's fold.        *)

HashedLeaf(statement) == <<statement>>

Combined(level) ==
  [i \in 1..(Len(level) + 1) \div 2 |->
     IF 2 * i <= Len(level) THEN Hash(level[2 * i - 1], level[2 * i]) ELSE level[Len(level)]]

\* The levels of the tree, from the hashed statements up to the root alone.
AggregationLevels(statements) ==
  LET level[l \in 0..MaxPathLength] ==
        IF l = 0 THEN [i \in DOMAIN statements |-> HashedLeaf(statements[i])]
        ELSE Combined(level[l - 1])
  IN  level

AggregationRoot(statements) == AggregationLevels(statements)[MaxPathLength][1]

\* The siblings from a leaf up; a carried node has none at its level.
InclusionPath(statements, index) ==
  LET levels == AggregationLevels(statements)
      path[l \in 0..MaxPathLength] ==
        IF l = 0 THEN <<>>
        ELSE LET s == SiblingOf(Above(index, l - 1))
             IN  path[l - 1] \o (IF s < Len(levels[l - 1]) THEN <<levels[l - 1][s + 1]>> ELSE <<>>)
  IN  path[MaxPathLength]

\* Mutant: only the parity of the position orders the pair.
MerkleStep_Parity(acc, sibling) ==
  [hash |-> IF IsRight(acc.position) THEN Hash(sibling, acc.hash) ELSE Hash(acc.hash, sibling),
   position |-> acc.position \div 2,
   width |-> (acc.width - 1) \div 2 + 1]

\* One level: the node is on the right when its position is odd or the last.
MerkleStep(acc, sibling) ==
  [hash |-> IF IsRight(acc.position) \/ acc.position + 1 = acc.width
            THEN Hash(sibling, acc.hash) ELSE Hash(acc.hash, sibling),
   position |-> acc.position \div 2,
   width |-> (acc.width - 1) \div 2 + 1]

\* zk-verifier's compute-merkle-root.
ComputeAggregationRoot(statement, path, leafIndex, leafCount) ==
  FoldLeft(MerkleStep,
           [hash |-> HashedLeaf(statement), position |-> leafIndex, width |-> leafCount],
           path).hash
=============================================================================
