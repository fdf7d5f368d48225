----------------------------- MODULE MerkleTree -----------------------------
(***************************************************************************)
(* The Merkle trees of rewards: built, updated and proved from by the      *)
(* clients (clients/dephy-rewards/js/src), checked against by the program  *)
(* (recompute_root).  Hashes are symbolic: the hash of two nodes is the    *)
(* pair, that of a claim is the claim, so that distinct inputs never       *)
(* collide.  Nodes of a tree have ids, as in the client, and are combined  *)
(* level by level from a queue.                                            *)
(***************************************************************************)
EXTENDS Integers, Sequences, FiniteSets

CONSTANTS
    Owners, Totals,     \* what claims are made of
    MaxClaims,          \* bound: claims in a tree
    MaxIssued,          \* bound: proofs in circulation
    MaxProved,          \* bound: leaves of a tree that proofs are handed out of,
                        \* or made up for
    MaxIndex            \* the largest index that a claim can name: u32::MAX

ASSUME MerkleAssumption ==
    MaxClaims \in Nat \ {0} /\ MaxIssued \in Nat /\ MaxProved \in Nat /\ MaxIndex \in Nat

VARIABLES
    heap,       \* the nodes by id: ids are given out in order
    queue,      \* ids of the nodes still to be combined
    leafCount,  \* the leaves have the ids below
    root,       \* MerkleTree.root
    issued,     \* proofs that were handed out
    contents    \* history: what the leaves stand for, in order

vars == <<heap, queue, leafCount, root, issued, contents>>

-----------------------------------------------------------------------------
(* Hashes and nodes *)

NoId == -1
Zero == [zeros |-> 32]                                  \* Buffer.alloc(32)

\* Mistake: the total is not hashed.
HashesOwnerOnly(claim) == [owner |-> claim[1], total |-> 0]

hashNode(claim) == [owner |-> claim[1], total |-> claim[2]]
hash(left, right) == [left |-> left, right |-> right]

Claims == Owners \X Totals
Empty == <<>>                                           \* what an empty leaf stands for
LeafOf(claim) == IF claim = Empty THEN Zero ELSE hashNode(claim)

\* The root of a tree of empty leaves of height level.
emptyNode[level \in Nat] == IF level = 0 THEN Zero ELSE hash(emptyNode[level - 1], emptyNode[level - 1])

\* A node under construction has no parent.
TreeNode(level, node, left, right) ==
    [level |-> level, node |-> node, left |-> left, right |-> right, parent |-> NoId]

\* 2 ** n, and index >> n.
pow2[n \in Nat] == IF n = 0 THEN 1 ELSE 2 * pow2[n - 1]

Shifted(index) ==
    LET shifted[n \in Nat] == IF n = 0 THEN index ELSE shifted[n - 1] \div 2
    IN  shifted

\* The depth that buildRewardsTree gives a tree for n claims: ceil(log2(n)).
Depth(n) == CHOOSE d \in 0..n : pow2[d] >= n /\ \A e \in 0..(d - 1) : pow2[e] < n

\* The leaves, and how sparseMerkleTreeFromLeaves fills them up with empty ones.
LeavesOf(claims) == [i \in 1..Len(claims) |-> LeafOf(claims[i])]
Padded(seq, depth, filler) == [i \in 1..pow2[depth] |-> IF i <= Len(seq) THEN seq[i] ELSE filler]

\* buildLeaves, and the state in which the constructor enters its loop.
Init ==
    \E n \in 1..MaxClaims : \E claims \in [1..n -> Claims] :
        /\ contents \in {claims, Padded(claims, Depth(n), Empty)}
        /\ leafCount = Len(contents)
        /\ heap = [id \in 0..(leafCount - 1) |-> TreeNode(0, LeafOf(contents[id + 1]), NoId, NoId)]
        /\ queue = [i \in 1..leafCount |-> i - 1]
        /\ root = IF leafCount = 1 THEN LeafOf(contents[1]) ELSE Zero
        /\ issued = {}

-----------------------------------------------------------------------------
(* Mistakes; nothing uses these operators.                                 *)

\* The next node in the queue is taken for the right one, whatever its level.
PairsAcrossLevels ==
    /\ Len(queue) > 1
    /\ LET left == heap[queue[1]]
           right == heap[queue[2]]
           parent == TreeNode(left.level + 1, hash(left.node, right.node), queue[1], queue[2])
           id == Cardinality(DOMAIN heap)
       IN  /\ heap' = [i \in 0..id |-> CASE i = id -> parent
                                         [] i \in {queue[1], queue[2]} -> [heap[i] EXCEPT !.parent = id]
                                         [] OTHER -> heap[i]]
           /\ queue' = Append(Tail(Tail(queue)), id)
           /\ root' = IF Len(queue') = 1 THEN parent.node ELSE root
    /\ UNCHANGED <<leafCount, issued, contents>>

\* The path above the leaf is not hashed again.
UpdatesLeafOnly(i, claim) ==
    /\ Len(queue) = 1
    /\ heap' = [heap EXCEPT ![i].node = LeafOf(claim)]
    /\ contents' = [contents EXCEPT ![i + 1] = claim]
    /\ UNCHANGED <<queue, leafCount, root, issued>>

\* Bits of the index are read from the other end.
BitsReversed(leaf, proof, index) ==
    LET node[i \in 0..Len(proof)] ==
            IF i = 0 THEN leaf
            ELSE IF Shifted(index)[Len(proof) - i] % 2 = 0 THEN hash(node[i - 1], proof[i])
                                                           ELSE hash(proof[i], node[i - 1])
    IN  node[Len(proof)]

-----------------------------------------------------------------------------
(* The constructor *)

NextId == Cardinality(DOMAIN heap)

\* One round of the loop: two nodes of a level, or the last one of a level and an
\* empty one, get a parent.
Combine ==
    /\ Len(queue) > 1
    /\ LET left == heap[queue[1]]
           alone == left.level # heap[queue[2]].level
           empty == TreeNode(left.level, emptyNode[left.level], NoId, NoId)
           rightId == IF alone THEN NextId ELSE queue[2]
           right == IF alone THEN empty ELSE heap[rightId]
           id == IF alone THEN NextId + 1 ELSE NextId
           parent == TreeNode(left.level + 1, hash(left.node, right.node), queue[1], rightId)
       IN  /\ heap' = [i \in 0..id |-> CASE i = id -> parent
                                         [] i = rightId -> [right EXCEPT !.parent = id]
                                         [] i = queue[1] -> [left EXCEPT !.parent = id]
                                         [] OTHER -> heap[i]]
           /\ queue' = Append(IF alone THEN Tail(queue) ELSE Tail(Tail(queue)), id)
           /\ root' = IF Len(queue') = 1 THEN parent.node ELSE root
    /\ UNCHANGED <<leafCount, issued, contents>>

Built == Len(queue) = 1

-----------------------------------------------------------------------------
(* The finished tree *)

Top == queue[1]
Height == heap[Top].level

\* The nodes from leaf i to the root.
Path(i) ==
    LET node[k \in 0..Height] == IF k = 0 THEN i ELSE heap[node[k - 1]].parent
    IN  node

\* The siblings of the nodes on the path.
getProof(i) ==
    LET path == Path(i)
    IN  [k \in 1..Height |->
            LET parent == heap[path[k]]
            IN  heap[IF parent.left = path[k - 1] THEN parent.right ELSE parent.left].node]

\* The nodes on the path hashed again above a new leaf.
Rehashed(i, leaf) ==
    LET path == Path(i)
        node[k \in 0..Height] ==
            IF k = 0 THEN leaf
            ELSE LET parent == heap[path[k]]
                 IN  IF parent.left = path[k - 1] THEN hash(node[k - 1], heap[parent.right].node)
                                                  ELSE hash(heap[parent.left].node, node[k - 1])
    IN  node

\* A leaf is replaced and the path above it hashed again.
updateLeaf(i, claim) ==
    /\ Built
    /\ LET path == Path(i)
           node == Rehashed(i, LeafOf(claim))
       IN  /\ heap' = [id \in DOMAIN heap |->
                         IF \E k \in 0..Height : path[k] = id
                         THEN [heap[id] EXCEPT !.node = node[CHOOSE k \in 0..Height : path[k] = id]]
                         ELSE heap[id]]
           /\ root' = node[Height]
    /\ contents' = [contents EXCEPT ![i + 1] = claim]
    /\ UNCHANGED <<queue, leafCount, issued>>

\* A proof is handed out; of is a history of the leaves it was made for.
Issue(i) ==
    /\ Built
    /\ Cardinality(issued) < MaxIssued
    /\ Len(contents) <= MaxProved
    /\ issued' = issued \cup
          {[leaf |-> heap[i].node, leafIndex |-> i, proof |-> getProof(i), root |-> root, of |-> contents]}
    /\ UNCHANGED <<heap, queue, leafCount, root, contents>>

\* The root that the program computes from a leaf, as the client does in hashProof.
Recomputed(leaf, proof, index) ==
    LET node[i \in 0..Len(proof)] ==
            IF i = 0 THEN leaf
            ELSE IF Shifted(index)[i - 1] % 2 = 0 THEN hash(node[i - 1], proof[i])
                                                  ELSE hash(proof[i], node[i - 1])
    IN  node

recompute_root(leaf, proof, index) == Recomputed(leaf, proof, index)[Len(proof)]

verify(against, issuedProof) ==
    recompute_root(issuedProof.leaf, issuedProof.proof, issuedProof.leafIndex) = against

Next ==
    \/ Combine
    \/ \E i \in 0..(leafCount - 1), claim \in Claims \cup {Empty} : updateLeaf(i, claim)
    \/ \E i \in 0..(leafCount - 1) : Issue(i)

Spec == Init /\ [][Next]_vars

-----------------------------------------------------------------------------
(* Properties *)

\* The tree of the leaves, defined from above: level by level, filled up with empty
\* leaves without end.
ReferenceNodes(leaves, depth) ==
    LET node[level \in 0..depth] ==
            IF level = 0 THEN [k \in Nat |-> IF k < Len(leaves) THEN leaves[k + 1] ELSE Zero]
                         ELSE [k \in Nat |-> hash(node[level - 1][2 * k], node[level - 1][2 * k + 1])]
    IN  node

\* Its root is that of a power of two of leaves.
ReferenceRoot(leaves) == ReferenceNodes(leaves, Depth(Len(leaves)))[Depth(Len(leaves))][0]

\* Whatever the number of leaves, filled up or not, and after any updates, the
\* root is that of the complete tree of the leaves (merkle-tree.ts:27-81, 132-150).
RootIsThatOfTheLeaves == Built => root = ReferenceRoot(LeavesOf(contents))

\* The program accepts the proof of every leaf of a tree (merkle-tree.ts:87-130,
\* dephy-rewards lib.rs:252-263).
LeavesVerify ==
    Built => \A i \in 0..(leafCount - 1) : recompute_root(LeafOf(contents[i + 1]), getProof(i), i) = root

\* What a claimer can put into a proof: every hash of the tree, and of proofs that
\* were handed out before it changed.
KnownHashes ==
    {heap[id].node : id \in DOMAIN heap}
        \cup UNION {{p.proof[k] : k \in 1..Len(p.proof)} : p \in issued}

\* The program accepts nothing else: a proof made of any known hashes, of any length up
\* to that of the tree, and with any index is only accepted for a claim that is in the
\* tree.  Its place there is what the index leaves modulo the width of the tree: the
\* bits above the height are never read, so that one leaf has several indices
\* (lib.rs:50-72, 199, 252-263).
OnlyLeavesVerify ==
    Built /\ Len(contents) <= MaxProved => \A claim \in Claims, length \in 0..Height :
        \A proof \in [1..length -> KnownHashes], index \in 0..MaxIndex :
            recompute_root(hashNode(claim), proof, index) = root =>
                LET place == index % pow2[Height]
                IN  place < leafCount /\ contents[place + 1] = claim

\* A proof that was handed out is good for exactly as long as no leaf of the tree
\* differs from when it was made: every new root needs new proofs
\* (merkle-tree.ts:87-186).
ProofsGoStale ==
    Built => \A p \in issued : /\ verify(p.root, p)
                              /\ verify(root, p) <=> p.of = contents

=============================================================================
