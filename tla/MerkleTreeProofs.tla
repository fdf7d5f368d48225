-------------------------- MODULE MerkleTreeProofs --------------------------
(***************************************************************************)
(* Proofs about MerkleTree: for any number of claims, any updates and any  *)
(* number of proofs in circulation.                                        *)
(*                                                                         *)
(* The tree that the client builds is compared with the complete binary    *)
(* tree of its leaves (ReferenceNodes).  The invariant gives every node of *)
(* the heap a place in that tree: a level and a position at.  Leaves are   *)
(* at their index; a node with children is at half the position of these;  *)
(* the fillers, which the loop puts beside the last node of a level of odd *)
(* width, are at positions beyond the leaves, where the complete tree has  *)
(* empty subtrees.  Without places nothing would say that the pairs of the *)
(* queue are siblings.  The queue holds what is left of one level, then    *)
(* the parents that were made of it; when one node is left in it, every    *)
(* node has the hash that the complete tree has at its place, and walking  *)
(* to the top from leaf i is shifting i.                                   *)
(*                                                                         *)
(* The facts about numbers and trees are shown by induction.  The theorems *)
(* of the library about induction are about an operator; here it is on a   *)
(* set of numbers T, of which Induction shows that it has them all.        *)
(***************************************************************************)
EXTENDS MerkleTree, SequenceTheorems, FiniteSetTheorems, WellFoundedInduction, TLAPS

-----------------------------------------------------------------------------
(* Induction and recursion *)

\* A set of numbers has a least one, if it has any.
LEMMA Least ==
    ASSUME NEW T, T \subseteq Nat, T # {}
    PROVE  \E n \in T : \A m \in T : n <= m
<1> DEFINE R == OpToRel(<, Nat)
<1>1. IsWellFoundedOn(R, Nat)
  BY NatLessThanWellFounded
<1>2. R = {ss \in Nat \X Nat : ss[1] < ss[2]}
  BY DEF OpToRel
<1> HIDE DEF R
<1>3. PICK n \in T : \A m \in T : ~(<<m, n>> \in R)
  BY <1>1, WFMin
<1>4. ASSUME NEW m \in T PROVE n <= m
  <2>1. m \in Nat /\ n \in Nat
    OBVIOUS
  <2>2. ~(m < n)
    BY <1>3, <1>2, <2>1
  <2> QED
    BY <2>1, <2>2
<1> QED
  BY <1>4

\* A set that has 0, and with every number the next one, has them all.
LEMMA Induction ==
    ASSUME NEW T, 0 \in T, \A n \in Nat : n \in T => n + 1 \in T
    PROVE  \A n \in Nat : n \in T
<1> DEFINE Missing == {n \in Nat : n \notin T}
<1>1. SUFFICES ASSUME Missing # {} PROVE FALSE
  OBVIOUS
<1>2. Missing \subseteq Nat
  OBVIOUS
<1>3. \A n : n \in Missing <=> n \in Nat /\ n \notin T
  OBVIOUS
<1> HIDE DEF Missing
<1>4. PICK n \in Missing : \A m \in Missing : n <= m
  BY <1>1, <1>2, Least
<1>5. n \in Nat /\ n # 0 /\ n \notin T
  BY <1>3, <1>4
<1>6. n - 1 \in Nat /\ n - 1 \notin Missing /\ (n - 1) + 1 = n
  BY <1>4, <1>5, <1>2
<1> QED
  BY <1>3, <1>5, <1>6

\* Each recursive function is what its definition says: there is one that satisfies it
\* up to any number, by induction, and where the domain is all of Nat these agree, so
\* that together they are one.  First the powers of two.
LEMMA PowerIs ==
    pow2 = [i \in Nat |-> IF i = 0 THEN 1 ELSE 2 * pow2[i - 1]]
<1> DEFINE first == 1
           step(prev, i) == 2 * prev
<1> DEFINE Is(f, n) == f = [i \in 0..n |-> IF i = 0 THEN first ELSE step(f[i - 1], i)]
           T == {n \in Nat : \E f : Is(f, n)}
<1> HIDE DEF first, step
<1>1. 0 \in T
  <2>1. Is([i \in 0..0 |-> first], 0)
    OBVIOUS
  <2> QED
    BY <2>1
<1>2. ASSUME NEW n \in Nat, n \in T PROVE n + 1 \in T
  <2>1. PICK f : Is(f, n)
    BY <1>2
  <2> DEFINE g == [i \in 0..(n + 1) |-> IF i = n + 1 THEN step(f[n], n + 1) ELSE f[i]]
  <2>2. Is(g, n + 1)
    BY <2>1
  <2> HIDE DEF g
  <2> QED
    BY <2>2
<1>3. \A n \in Nat : n \in T
  <2> HIDE DEF T
  <2> QED
    BY <1>1, <1>2, Induction
<1>4. ASSUME NEW f, NEW n \in Nat, Is(f, n), NEW g, NEW m \in Nat, Is(g, m)
      PROVE  \A i \in Nat : i <= n /\ i <= m => f[i] = g[i]
  <2> DEFINE Same == {i \in Nat : i <= n /\ i <= m => f[i] = g[i]}
  <2>1. 0 \in Same /\ \A i \in Nat : i \in Same => i + 1 \in Same
    BY <1>4
  <2> HIDE DEF Same
  <2>2. \A i \in Nat : i \in Same
    BY <2>1, Induction
  <2> QED
    BY <2>2 DEF Same
<1> DEFINE part(n) == CHOOSE f : Is(f, n)
           all == [n \in Nat |-> part(n)[n]]
           Whole(f) == f = [i \in Nat |-> IF i = 0 THEN first ELSE step(f[i - 1], i)]
<1>5. \A n \in Nat : Is(part(n), n)
  <2> HIDE DEF Is
  <2> QED
    BY <1>3
<1> HIDE DEF part
<1>6. \A n \in Nat : n # 0 => part(n)[n - 1] = part(n - 1)[n - 1]
  <2> SUFFICES ASSUME NEW n \in Nat, n # 0 PROVE part(n)[n - 1] = part(n - 1)[n - 1]
    OBVIOUS
  <2>1. n - 1 \in Nat /\ n - 1 <= n /\ n - 1 <= n - 1
    OBVIOUS
  <2>2. Is(part(n), n) /\ Is(part(n - 1), n - 1)
    BY <1>5, <2>1
  <2> HIDE DEF Is
  <2> QED
    BY <1>4, <2>1, <2>2
<1>7. \A n \in Nat : all[n] = IF n = 0 THEN first ELSE step(all[n - 1], n)
  BY <1>5, <1>6
<1>8. Whole(all)
  BY <1>7
<1>9. pow2 = CHOOSE f : Whole(f)
  BY DEF pow2, first, step
<1> HIDE DEF Whole, all
<1>10. Whole(pow2)
  BY <1>8, <1>9
<1> QED
  BY <1>10 DEF Whole, first, step

\* The shifts of an index.
LEMMA ShiftedIs ==
    ASSUME NEW index
    PROVE  Shifted(index) = [i \in Nat |-> IF i = 0 THEN index ELSE Shifted(index)[i - 1] \div 2]
<1> DEFINE first == index
           step(prev, i) == prev \div 2
<1> DEFINE Is(f, n) == f = [i \in 0..n |-> IF i = 0 THEN first ELSE step(f[i - 1], i)]
           T == {n \in Nat : \E f : Is(f, n)}
<1> HIDE DEF first, step
<1>1. 0 \in T
  <2>1. Is([i \in 0..0 |-> first], 0)
    OBVIOUS
  <2> QED
    BY <2>1
<1>2. ASSUME NEW n \in Nat, n \in T PROVE n + 1 \in T
  <2>1. PICK f : Is(f, n)
    BY <1>2
  <2> DEFINE g == [i \in 0..(n + 1) |-> IF i = n + 1 THEN step(f[n], n + 1) ELSE f[i]]
  <2>2. Is(g, n + 1)
    BY <2>1
  <2> HIDE DEF g
  <2> QED
    BY <2>2
<1>3. \A n \in Nat : n \in T
  <2> HIDE DEF T
  <2> QED
    BY <1>1, <1>2, Induction
<1>4. ASSUME NEW f, NEW n \in Nat, Is(f, n), NEW g, NEW m \in Nat, Is(g, m)
      PROVE  \A i \in Nat : i <= n /\ i <= m => f[i] = g[i]
  <2> DEFINE Same == {i \in Nat : i <= n /\ i <= m => f[i] = g[i]}
  <2>1. 0 \in Same /\ \A i \in Nat : i \in Same => i + 1 \in Same
    BY <1>4
  <2> HIDE DEF Same
  <2>2. \A i \in Nat : i \in Same
    BY <2>1, Induction
  <2> QED
    BY <2>2 DEF Same
<1> DEFINE part(n) == CHOOSE f : Is(f, n)
           all == [n \in Nat |-> part(n)[n]]
           Whole(f) == f = [i \in Nat |-> IF i = 0 THEN first ELSE step(f[i - 1], i)]
<1>5. \A n \in Nat : Is(part(n), n)
  <2> HIDE DEF Is
  <2> QED
    BY <1>3
<1> HIDE DEF part
<1>6. \A n \in Nat : n # 0 => part(n)[n - 1] = part(n - 1)[n - 1]
  <2> SUFFICES ASSUME NEW n \in Nat, n # 0 PROVE part(n)[n - 1] = part(n - 1)[n - 1]
    OBVIOUS
  <2>1. n - 1 \in Nat /\ n - 1 <= n /\ n - 1 <= n - 1
    OBVIOUS
  <2>2. Is(part(n), n) /\ Is(part(n - 1), n - 1)
    BY <1>5, <2>1
  <2> HIDE DEF Is
  <2> QED
    BY <1>4, <2>1, <2>2
<1>7. \A n \in Nat : all[n] = IF n = 0 THEN first ELSE step(all[n - 1], n)
  BY <1>5, <1>6
<1>8. Whole(all)
  BY <1>7
<1>9. Shifted(index) = CHOOSE f : Whole(f)
  BY DEF Shifted, first, step
<1> HIDE DEF Whole, all
<1>10. Whole(Shifted(index))
  BY <1>8, <1>9
<1> QED
  BY <1>10 DEF Whole, first, step

\* The trees of empty leaves.
LEMMA EmptyIs ==
    emptyNode = [i \in Nat |-> IF i = 0 THEN Zero ELSE hash(emptyNode[i - 1], emptyNode[i - 1])]
<1> DEFINE first == Zero
           step(prev, i) == hash(prev, prev)
<1> DEFINE Is(f, n) == f = [i \in 0..n |-> IF i = 0 THEN first ELSE step(f[i - 1], i)]
           T == {n \in Nat : \E f : Is(f, n)}
<1> HIDE DEF first, step
<1>1. 0 \in T
  <2>1. Is([i \in 0..0 |-> first], 0)
    OBVIOUS
  <2> QED
    BY <2>1
<1>2. ASSUME NEW n \in Nat, n \in T PROVE n + 1 \in T
  <2>1. PICK f : Is(f, n)
    BY <1>2
  <2> DEFINE g == [i \in 0..(n + 1) |-> IF i = n + 1 THEN step(f[n], n + 1) ELSE f[i]]
  <2>2. Is(g, n + 1)
    BY <2>1
  <2> HIDE DEF g
  <2> QED
    BY <2>2
<1>3. \A n \in Nat : n \in T
  <2> HIDE DEF T
  <2> QED
    BY <1>1, <1>2, Induction
<1>4. ASSUME NEW f, NEW n \in Nat, Is(f, n), NEW g, NEW m \in Nat, Is(g, m)
      PROVE  \A i \in Nat : i <= n /\ i <= m => f[i] = g[i]
  <2> DEFINE Same == {i \in Nat : i <= n /\ i <= m => f[i] = g[i]}
  <2>1. 0 \in Same /\ \A i \in Nat : i \in Same => i + 1 \in Same
    BY <1>4
  <2> HIDE DEF Same
  <2>2. \A i \in Nat : i \in Same
    BY <2>1, Induction
  <2> QED
    BY <2>2 DEF Same
<1> DEFINE part(n) == CHOOSE f : Is(f, n)
           all == [n \in Nat |-> part(n)[n]]
           Whole(f) == f = [i \in Nat |-> IF i = 0 THEN first ELSE step(f[i - 1], i)]
<1>5. \A n \in Nat : Is(part(n), n)
  <2> HIDE DEF Is
  <2> QED
    BY <1>3
<1> HIDE DEF part
<1>6. \A n \in Nat : n # 0 => part(n)[n - 1] = part(n - 1)[n - 1]
  <2> SUFFICES ASSUME NEW n \in Nat, n # 0 PROVE part(n)[n - 1] = part(n - 1)[n - 1]
    OBVIOUS
  <2>1. n - 1 \in Nat /\ n - 1 <= n /\ n - 1 <= n - 1
    OBVIOUS
  <2>2. Is(part(n), n) /\ Is(part(n - 1), n - 1)
    BY <1>5, <2>1
  <2> HIDE DEF Is
  <2> QED
    BY <1>4, <2>1, <2>2
<1>7. \A n \in Nat : all[n] = IF n = 0 THEN first ELSE step(all[n - 1], n)
  BY <1>5, <1>6
<1>8. Whole(all)
  BY <1>7
<1>9. emptyNode = CHOOSE f : Whole(f)
  BY DEF emptyNode, first, step
<1> HIDE DEF Whole, all
<1>10. Whole(emptyNode)
  BY <1>8, <1>9
<1> QED
  BY <1>10 DEF Whole, first, step

\* How many nodes of each level have a leaf below them, when there are n leaves.
Widths(n) ==
    LET width[level \in Nat] == IF level = 0 THEN n ELSE (width[level - 1] + 1) \div 2
    IN  width

\* The widths of the levels.
LEMMA WidthsIs ==
    ASSUME NEW count
    PROVE  Widths(count) = [i \in Nat |-> IF i = 0 THEN count ELSE (Widths(count)[i - 1] + 1) \div 2]
<1> DEFINE first == count
           step(prev, i) == (prev + 1) \div 2
<1> DEFINE Is(f, n) == f = [i \in 0..n |-> IF i = 0 THEN first ELSE step(f[i - 1], i)]
           T == {n \in Nat : \E f : Is(f, n)}
<1> HIDE DEF first, step
<1>1. 0 \in T
  <2>1. Is([i \in 0..0 |-> first], 0)
    OBVIOUS
  <2> QED
    BY <2>1
<1>2. ASSUME NEW n \in Nat, n \in T PROVE n + 1 \in T
  <2>1. PICK f : Is(f, n)
    BY <1>2
  <2> DEFINE g == [i \in 0..(n + 1) |-> IF i = n + 1 THEN step(f[n], n + 1) ELSE f[i]]
  <2>2. Is(g, n + 1)
    BY <2>1
  <2> HIDE DEF g
  <2> QED
    BY <2>2
<1>3. \A n \in Nat : n \in T
  <2> HIDE DEF T
  <2> QED
    BY <1>1, <1>2, Induction
<1>4. ASSUME NEW f, NEW n \in Nat, Is(f, n), NEW g, NEW m \in Nat, Is(g, m)
      PROVE  \A i \in Nat : i <= n /\ i <= m => f[i] = g[i]
  <2> DEFINE Same == {i \in Nat : i <= n /\ i <= m => f[i] = g[i]}
  <2>1. 0 \in Same /\ \A i \in Nat : i \in Same => i + 1 \in Same
    BY <1>4
  <2> HIDE DEF Same
  <2>2. \A i \in Nat : i \in Same
    BY <2>1, Induction
  <2> QED
    BY <2>2 DEF Same
<1> DEFINE part(n) == CHOOSE f : Is(f, n)
           all == [n \in Nat |-> part(n)[n]]
           Whole(f) == f = [i \in Nat |-> IF i = 0 THEN first ELSE step(f[i - 1], i)]
<1>5. \A n \in Nat : Is(part(n), n)
  <2> HIDE DEF Is
  <2> QED
    BY <1>3
<1> HIDE DEF part
<1>6. \A n \in Nat : n # 0 => part(n)[n - 1] = part(n - 1)[n - 1]
  <2> SUFFICES ASSUME NEW n \in Nat, n # 0 PROVE part(n)[n - 1] = part(n - 1)[n - 1]
    OBVIOUS
  <2>1. n - 1 \in Nat /\ n - 1 <= n /\ n - 1 <= n - 1
    OBVIOUS
  <2>2. Is(part(n), n) /\ Is(part(n - 1), n - 1)
    BY <1>5, <2>1
  <2> HIDE DEF Is
  <2> QED
    BY <1>4, <2>1, <2>2
<1>7. \A n \in Nat : all[n] = IF n = 0 THEN first ELSE step(all[n - 1], n)
  BY <1>5, <1>6
<1>8. Whole(all)
  BY <1>7
<1>9. Widths(count) = CHOOSE f : Whole(f)
  BY DEF Widths, first, step
<1> HIDE DEF Whole, all
<1>10. Whole(Widths(count))
  BY <1>8, <1>9
<1> QED
  BY <1>10 DEF Whole, first, step

\* The nodes that the program computes from a leaf and a proof.
LEMMA RecomputedIs ==
    ASSUME NEW leaf, NEW proof, NEW index, Len(proof) \in Nat
    PROVE  Recomputed(leaf, proof, index) = [i \in 0..Len(proof) |->
              IF i = 0 THEN leaf
              ELSE IF Shifted(index)[i - 1] % 2 = 0 THEN hash(Recomputed(leaf, proof, index)[i - 1], proof[i])
                                                    ELSE hash(proof[i], Recomputed(leaf, proof, index)[i - 1])]
<1> DEFINE first == leaf
           step(prev, i) == IF Shifted(index)[i - 1] % 2 = 0 THEN hash(prev, proof[i]) ELSE hash(proof[i], prev)
<1> DEFINE Is(f, n) == f = [i \in 0..n |-> IF i = 0 THEN first ELSE step(f[i - 1], i)]
           T == {n \in Nat : \E f : Is(f, n)}
<1> HIDE DEF first, step
<1>1. 0 \in T
  <2>1. Is([i \in 0..0 |-> first], 0)
    OBVIOUS
  <2> QED
    BY <2>1
<1>2. ASSUME NEW n \in Nat, n \in T PROVE n + 1 \in T
  <2>1. PICK f : Is(f, n)
    BY <1>2
  <2> DEFINE g == [i \in 0..(n + 1) |-> IF i = n + 1 THEN step(f[n], n + 1) ELSE f[i]]
  <2>2. Is(g, n + 1)
    BY <2>1
  <2> HIDE DEF g
  <2> QED
    BY <2>2
<1>3. \A n \in Nat : n \in T
  <2> HIDE DEF T
  <2> QED
    BY <1>1, <1>2, Induction
<1>4. Recomputed(leaf, proof, index) = CHOOSE f : Is(f, Len(proof))
  BY DEF Recomputed, first, step
<1> HIDE DEF Is
<1>5. Is(Recomputed(leaf, proof, index), Len(proof))
  BY <1>3, <1>4
<1> QED
  BY <1>5 DEF Is, first, step

\* The levels of the complete tree.
LEMMA ReferenceIs ==
    ASSUME NEW leaves, NEW depth \in Nat
    PROVE  ReferenceNodes(leaves, depth) = [i \in 0..depth |->
              IF i = 0 THEN [k \in Nat |-> IF k < Len(leaves) THEN leaves[k + 1] ELSE Zero]
                       ELSE [k \in Nat |-> hash(ReferenceNodes(leaves, depth)[i - 1][2 * k],
                                                ReferenceNodes(leaves, depth)[i - 1][2 * k + 1])]]
<1> DEFINE first == [k \in Nat |-> IF k < Len(leaves) THEN leaves[k + 1] ELSE Zero]
           step(prev, i) == [k \in Nat |-> hash(prev[2 * k], prev[2 * k + 1])]
<1> DEFINE Is(f, n) == f = [i \in 0..n |-> IF i = 0 THEN first ELSE step(f[i - 1], i)]
           T == {n \in Nat : \E f : Is(f, n)}
<1> HIDE DEF first, step
<1>1. 0 \in T
  <2>1. Is([i \in 0..0 |-> first], 0)
    OBVIOUS
  <2> QED
    BY <2>1
<1>2. ASSUME NEW n \in Nat, n \in T PROVE n + 1 \in T
  <2>1. PICK f : Is(f, n)
    BY <1>2
  <2> DEFINE g == [i \in 0..(n + 1) |-> IF i = n + 1 THEN step(f[n], n + 1) ELSE f[i]]
  <2>2. Is(g, n + 1)
    BY <2>1
  <2> HIDE DEF g
  <2> QED
    BY <2>2
<1>3. \A n \in Nat : n \in T
  <2> HIDE DEF T
  <2> QED
    BY <1>1, <1>2, Induction
<1>4. ReferenceNodes(leaves, depth) = CHOOSE f : Is(f, depth)
  BY DEF ReferenceNodes, first, step
<1> HIDE DEF Is
<1>5. Is(ReferenceNodes(leaves, depth), depth)
  BY <1>3, <1>4
<1> QED
  BY <1>5 DEF Is, first, step

\* The ancestors of a node.
LEMMA PathIs ==
    ASSUME Height \in Nat, NEW id
    PROVE  Path(id) = [i \in 0..Height |->
              IF i = 0 THEN id ELSE heap[Path(id)[i - 1]].parent]
<1> DEFINE first == id
           step(prev, i) == heap[prev].parent
<1> DEFINE Is(f, n) == f = [i \in 0..n |-> IF i = 0 THEN first ELSE step(f[i - 1], i)]
           T == {n \in Nat : \E f : Is(f, n)}
<1> HIDE DEF first, step
<1>1. 0 \in T
  <2>1. Is([i \in 0..0 |-> first], 0)
    OBVIOUS
  <2> QED
    BY <2>1
<1>2. ASSUME NEW n \in Nat, n \in T PROVE n + 1 \in T
  <2>1. PICK f : Is(f, n)
    BY <1>2
  <2> DEFINE g == [i \in 0..(n + 1) |-> IF i = n + 1 THEN step(f[n], n + 1) ELSE f[i]]
  <2>2. Is(g, n + 1)
    BY <2>1
  <2> HIDE DEF g
  <2> QED
    BY <2>2
<1>3. \A n \in Nat : n \in T
  <2> HIDE DEF T
  <2> QED
    BY <1>1, <1>2, Induction
<1>4. Path(id) = CHOOSE f : Is(f, Height)
  BY DEF Path, first, step
<1> HIDE DEF Is
<1>5. Is(Path(id), Height)
  BY <1>3, <1>4
<1> QED
  BY <1>5 DEF Is, first, step

\* The new hashes of the nodes on a path.
LEMMA RehashedIs ==
    ASSUME Height \in Nat, NEW id, NEW leaf
    PROVE  Rehashed(id, leaf) = [i \in 0..Height |->
              IF i = 0 THEN leaf
              ELSE IF heap[Path(id)[i]].left = Path(id)[i - 1]
                      THEN hash(Rehashed(id, leaf)[i - 1], heap[heap[Path(id)[i]].right].node)
                      ELSE hash(heap[heap[Path(id)[i]].left].node, Rehashed(id, leaf)[i - 1])]
<1> DEFINE first == leaf
           step(prev, i) == IF heap[Path(id)[i]].left = Path(id)[i - 1]
                               THEN hash(prev, heap[heap[Path(id)[i]].right].node)
                               ELSE hash(heap[heap[Path(id)[i]].left].node, prev)
<1> DEFINE Is(f, n) == f = [i \in 0..n |-> IF i = 0 THEN first ELSE step(f[i - 1], i)]
           T == {n \in Nat : \E f : Is(f, n)}
<1> HIDE DEF first, step
<1>1. 0 \in T
  <2>1. Is([i \in 0..0 |-> first], 0)
    OBVIOUS
  <2> QED
    BY <2>1
<1>2. ASSUME NEW n \in Nat, n \in T PROVE n + 1 \in T
  <2>1. PICK f : Is(f, n)
    BY <1>2
  <2> DEFINE g == [i \in 0..(n + 1) |-> IF i = n + 1 THEN step(f[n], n + 1) ELSE f[i]]
  <2>2. Is(g, n + 1)
    BY <2>1
  <2> HIDE DEF g
  <2> QED
    BY <2>2
<1>3. \A n \in Nat : n \in T
  <2> HIDE DEF T
  <2> QED
    BY <1>1, <1>2, Induction
<1>4. Rehashed(id, leaf) = CHOOSE f : Is(f, Height)
  BY DEF Rehashed, first, step
<1> HIDE DEF Is
<1>5. Is(Rehashed(id, leaf), Height)
  BY <1>3, <1>4
<1> QED
  BY <1>5 DEF Is, first, step

-----------------------------------------------------------------------------
(* Numbers *)

\* Powers of two are above their exponents.
LEMMA PowerFacts ==
    /\ pow2[0] = 1
    /\ \A n \in Nat : pow2[n] \in Nat /\ pow2[n + 1] = 2 * pow2[n] /\ pow2[n] > n
<1>1. pow2[0] = 1
  BY PowerIs
<1>2. ASSUME NEW n \in Nat PROVE pow2[n + 1] = 2 * pow2[n]
  <2>1. n + 1 \in Nat /\ n + 1 # 0 /\ (n + 1) - 1 = n
    OBVIOUS
  <2> QED
    BY <2>1, PowerIs
<1> DEFINE T == {n \in Nat : pow2[n] \in Nat /\ pow2[n] > n}
<1>3. 0 \in T /\ \A n \in Nat : n \in T => n + 1 \in T
  BY <1>1, <1>2
<1> HIDE DEF T
<1>4. \A n \in Nat : n \in T
  BY <1>3, Induction
<1> QED
  BY <1>1, <1>2, <1>4 DEF T

\* Each shift of an index halves it.
LEMMA ShiftedFacts ==
    ASSUME NEW index \in Nat
    PROVE  /\ Shifted(index)[0] = index
           /\ \A n \in Nat : /\ Shifted(index)[n] \in Nat
                             /\ Shifted(index)[n + 1] = Shifted(index)[n] \div 2
<1>1. Shifted(index)[0] = index
  BY ShiftedIs
<1>2. ASSUME NEW n \in Nat PROVE Shifted(index)[n + 1] = Shifted(index)[n] \div 2
  <2>1. n + 1 \in Nat /\ n + 1 # 0 /\ (n + 1) - 1 = n
    OBVIOUS
  <2> QED
    BY <2>1, ShiftedIs
<1> DEFINE T == {n \in Nat : Shifted(index)[n] \in Nat}
<1>3. 0 \in T /\ \A n \in Nat : n \in T => n + 1 \in T
  BY <1>1, <1>2
<1> HIDE DEF T
<1>4. \A n \in Nat : n \in T
  BY <1>3, Induction
<1> QED
  BY <1>1, <1>2, <1>4 DEF T

\* Nothing is left of an index once all its bits are shifted out.
LEMMA ShiftedOut ==
    ASSUME NEW index \in Nat, NEW n \in Nat, index < pow2[n]
    PROVE  Shifted(index)[n] = 0
<1> DEFINE T == {k \in Nat : \A m \in Nat : index < m * pow2[k] => Shifted(index)[k] < m}
<1>1. 0 \in T
  BY PowerFacts, ShiftedFacts
<1>2. ASSUME NEW k \in Nat, k \in T PROVE k + 1 \in T
  <2> SUFFICES ASSUME NEW m \in Nat, index < m * pow2[k + 1] PROVE Shifted(index)[k + 1] < m
    OBVIOUS
  <2>1. pow2[k] \in Nat /\ pow2[k + 1] = 2 * pow2[k]
    BY PowerFacts
  <2>2. m * pow2[k + 1] = (2 * m) * pow2[k]
    BY <2>1
  <2>3. Shifted(index)[k] < 2 * m
    BY <1>2, <2>2
  <2> QED
    BY <2>3, ShiftedFacts
<1> HIDE DEF T
<1>3. n \in T
  BY <1>1, <1>2, Induction
<1>4. index < 1 * pow2[n]
  BY PowerFacts
<1>5. Shifted(index)[n] < 1
  BY <1>3, <1>4 DEF T
<1> QED
  BY <1>5, ShiftedFacts

\* The lower bits of an index are those of what it leaves modulo a power of two.
LEMMA ShiftedLow ==
    ASSUME NEW index \in Nat, NEW n \in Nat
    PROVE  /\ index % pow2[n] \in Nat /\ index % pow2[n] < pow2[n]
           /\ \A k \in 0..(n - 1) : Shifted(index % pow2[n])[k] % 2 = Shifted(index)[k] % 2
<1> DEFINE place == index % pow2[n]
           top == index \div pow2[n]
<1>1. pow2[n] \in Nat /\ pow2[n] > 0
  BY PowerFacts
<1>2. place \in Nat /\ place < pow2[n] /\ top \in Nat /\ index = place + pow2[n] * top
  <2>1. \A i, q \in Nat : q > 0 =>
           i % q \in Nat /\ i % q < q /\ i \div q \in Nat /\ i = (i % q) + q * (i \div q)
    OBVIOUS
  <2> QED
    BY <1>1, <2>1
<1> HIDE DEF place, top
<1> DEFINE T == {k \in Nat : k <= n => Shifted(index)[k] = Shifted(place)[k] + pow2[n - k] * top}
<1>3. 0 \in T
  BY <1>2, ShiftedFacts
<1>4. ASSUME NEW k \in Nat, k < n
      PROVE  \E z \in Nat : z = pow2[n - (k + 1)] * top /\ pow2[n - k] * top = 2 * z
  <2>1. n - (k + 1) \in Nat /\ n - k = (n - (k + 1)) + 1
    BY <1>4
  <2>2. pow2[n - (k + 1)] \in Nat /\ pow2[n - k] = 2 * pow2[n - (k + 1)]
    BY <2>1, PowerFacts
  <2> QED
    BY <1>2, <2>2
<1>5. ASSUME NEW k \in Nat, k \in T PROVE k + 1 \in T
  <2> SUFFICES ASSUME k + 1 <= n
               PROVE  Shifted(index)[k + 1] = Shifted(place)[k + 1] + pow2[n - (k + 1)] * top
    OBVIOUS
  <2>1. PICK z \in Nat : z = pow2[n - (k + 1)] * top /\ pow2[n - k] * top = 2 * z
    BY <1>4
  <2>2. Shifted(index)[k] = Shifted(place)[k] + 2 * z
    BY <1>5, <2>1
  <2>3. /\ Shifted(place)[k] \in Nat /\ Shifted(place)[k + 1] = Shifted(place)[k] \div 2
        /\ Shifted(index)[k + 1] = Shifted(index)[k] \div 2
    BY <1>2, ShiftedFacts
  <2>4. Shifted(index)[k + 1] = Shifted(place)[k + 1] + z
    BY <2>2, <2>3
  <2> QED
    BY <2>1, <2>4
<1> HIDE DEF T
<1>6. \A k \in Nat : k \in T
  BY <1>3, <1>5, Induction
<1>7. ASSUME NEW k \in 0..(n - 1) PROVE Shifted(place)[k] % 2 = Shifted(index)[k] % 2
  <2>1. k \in Nat /\ k < n
    OBVIOUS
  <2>2. PICK z \in Nat : pow2[n - k] * top = 2 * z
    BY <1>4, <2>1
  <2>3. Shifted(index)[k] = Shifted(place)[k] + 2 * z /\ Shifted(place)[k] \in Nat
    BY <1>2, <1>6, <2>1, <2>2, ShiftedFacts DEF T
  <2> QED
    BY <2>3
<1> QED
  BY <1>2, <1>7 DEF place

\* Each level of a tree is half as wide as the one below it, rounded up.
LEMMA WidthsFacts ==
    ASSUME NEW count \in Nat
    PROVE  /\ Widths(count)[0] = count
           /\ \A n \in Nat : /\ Widths(count)[n] \in Nat
                             /\ Widths(count)[n + 1] = (Widths(count)[n] + 1) \div 2
<1>1. Widths(count)[0] = count
  BY WidthsIs
<1>2. ASSUME NEW n \in Nat PROVE Widths(count)[n + 1] = (Widths(count)[n] + 1) \div 2
  <2>1. n + 1 \in Nat /\ n + 1 # 0 /\ (n + 1) - 1 = n
    OBVIOUS
  <2> QED
    BY <2>1, WidthsIs
<1> DEFINE T == {n \in Nat : Widths(count)[n] \in Nat}
<1>3. 0 \in T /\ \A n \in Nat : n \in T => n + 1 \in T
  BY <1>1, <1>2
<1> HIDE DEF T
<1>4. \A n \in Nat : n \in T
  BY <1>3, Induction
<1> QED
  BY <1>1, <1>2, <1>4 DEF T

\* A level has one node when the leaves fit under it.
LEMMA WidthsFit ==
    ASSUME NEW count \in Nat, NEW n \in Nat
    PROVE  Widths(count)[n] <= 1 <=> count <= pow2[n]
<1> DEFINE T == {k \in Nat : \A m \in Nat : Widths(count)[k] <= m <=> count <= m * pow2[k]}
<1>1. 0 \in T
  BY PowerFacts, WidthsFacts
<1>2. ASSUME NEW k \in Nat, k \in T PROVE k + 1 \in T
  <2> SUFFICES ASSUME NEW m \in Nat PROVE Widths(count)[k + 1] <= m <=> count <= m * pow2[k + 1]
    OBVIOUS
  <2>1. pow2[k] \in Nat /\ pow2[k + 1] = 2 * pow2[k]
    BY PowerFacts
  <2>2. m * pow2[k + 1] = (2 * m) * pow2[k]
    BY <2>1
  <2>3. Widths(count)[k] <= 2 * m <=> count <= (2 * m) * pow2[k]
    BY <1>2
  <2>4. Widths(count)[k + 1] <= m <=> Widths(count)[k] <= 2 * m
    <3>1. Widths(count)[k] \in Nat /\ Widths(count)[k + 1] = (Widths(count)[k] + 1) \div 2
      BY WidthsFacts
    <3>2. \A w \in Nat : (w + 1) \div 2 <= m <=> w <= 2 * m
      OBVIOUS
    <3> QED
      BY <3>1, <3>2
  <2> QED
    BY <2>2, <2>3, <2>4
<1> HIDE DEF T
<1>3. n \in T
  BY <1>1, <1>2, Induction
<1>4. 1 * pow2[n] = pow2[n]
  BY PowerFacts
<1> QED
  BY <1>3, <1>4 DEF T

\* The depth of a tree is the first level that has one node.
LEMMA DepthIs ==
    ASSUME NEW count \in Nat, NEW height \in Nat, Widths(count)[height] <= 1,
           \A level \in Nat : level < height => Widths(count)[level] > 1
    PROVE  Depth(count) = height
<1> DEFINE Is(d) == d \in 0..count /\ pow2[d] >= count /\ \A e \in 0..(d - 1) : pow2[e] < count
<1>1. \A n \in Nat : pow2[n] \in Nat
  BY PowerFacts
<1>2. Is(height)
  <2>1. pow2[height] >= count
    BY <1>1, WidthsFit
  <2>2. \A e \in 0..(height - 1) : pow2[e] < count
    <3> TAKE e \in 0..(height - 1)
    <3>1. e \in Nat /\ e < height /\ Widths(count)[e] > 1
      OBVIOUS
    <3>2. Widths(count)[e] \in Nat /\ pow2[e] \in Nat
      BY <3>1, <1>1, WidthsFacts
    <3> QED
      BY <3>1, <3>2, WidthsFit
  <2>3. height <= count
    <3> SUFFICES ASSUME count < height PROVE FALSE
      OBVIOUS
    <3>1. pow2[count] < count
      BY <2>2
    <3> QED
      BY <3>1, PowerFacts
  <2> QED
    BY <2>1, <2>2, <2>3
<1>3. ASSUME NEW d, Is(d) PROVE d = height
  <2>1. ~(d < height)
    BY <1>1, <1>2, <1>3
  <2>2. ~(height < d)
    BY <1>1, <1>2, <1>3
  <2> QED
    BY <1>3, <2>1, <2>2
<1>4. Depth(count) = CHOOSE d \in 0..count : pow2[d] >= count /\ \A e \in 0..(d - 1) : pow2[e] < count
  BY DEF Depth
<1>5. Is(Depth(count))
  BY <1>2, <1>4
<1> HIDE DEF Is
<1> QED
  BY <1>3, <1>5

-----------------------------------------------------------------------------
(* Hashes *)

\* Hashes of different things differ.
LEMMA HashInjects ==
    ASSUME NEW l1, NEW r1, NEW l2, NEW r2, hash(l1, r1) = hash(l2, r2)
    PROVE  l1 = l2 /\ r1 = r2
<1>1. /\ hash(l1, r1).left = l1 /\ hash(l2, r2).left = l2
      /\ hash(l1, r1).right = r1 /\ hash(l2, r2).right = r2
  BY DEF hash
<1> QED
  BY <1>1

\* The hash of two nodes, that of a claim and the zero hash are never the same, and those
\* of different claims differ.
LEMMA HashesDiffer ==
    /\ \A a, b, claim : hash(a, b) # hashNode(claim)
    /\ \A claim : hashNode(claim) # Zero
    /\ \A claim \in Claims : claim # Empty /\ LeafOf(claim) = hashNode(claim)
    /\ LeafOf(Empty) = Zero
    /\ \A a, b \in Claims \cup {Empty} : LeafOf(a) = LeafOf(b) => a = b
<1>2. \A a, b, claim : hash(a, b) # hashNode(claim)
  <2> TAKE a, b, claim
  <2>1. "left" \in DOMAIN hash(a, b) /\ "left" \notin DOMAIN hashNode(claim)
    BY DEF hash, hashNode
  <2> QED
    BY <2>1
<1>3. \A claim : hashNode(claim) # Zero
  <2> TAKE claim
  <2>1. "owner" \in DOMAIN hashNode(claim) /\ "owner" \notin DOMAIN Zero
    BY DEF Zero, hashNode
  <2> QED
    BY <2>1
<1>4. \A claim \in Claims : claim # Empty /\ claim = <<claim[1], claim[2]>>
  <2> TAKE claim \in Claims
  <2>1. claim = <<claim[1], claim[2]>>
    BY DEF Claims
  <2>2. Len(<<claim[1], claim[2]>>) = 2 /\ Len(Empty) = 0
    BY DEF Empty
  <2> QED
    BY <2>1, <2>2
<1>5. \A a, b : hashNode(a) = hashNode(b) => a[1] = b[1] /\ a[2] = b[2]
  <2> TAKE a, b
  <2>1. /\ hashNode(a).owner = a[1] /\ hashNode(b).owner = b[1]
        /\ hashNode(a).total = a[2] /\ hashNode(b).total = b[2]
    BY DEF hashNode
  <2> QED
    BY <2>1
<1>6. \A a, b \in Claims \cup {Empty} : LeafOf(a) = LeafOf(b) => a = b
  BY <1>3, <1>4, <1>5 DEF LeafOf
<1> QED
  BY <1>2, <1>3, <1>4, <1>6 DEF LeafOf

\* The tree of empty leaves, one level at a time.
LEMMA EmptyFacts ==
    emptyNode[0] = Zero /\ \A n \in Nat : emptyNode[n + 1] = hash(emptyNode[n], emptyNode[n])
<1>1. emptyNode[0] = Zero
  BY EmptyIs
<1>2. ASSUME NEW n \in Nat PROVE emptyNode[n + 1] = hash(emptyNode[n], emptyNode[n])
  <2>1. n + 1 \in Nat /\ n + 1 # 0 /\ (n + 1) - 1 = n
    OBVIOUS
  <2> QED
    BY <2>1, EmptyIs
<1> QED
  BY <1>1, <1>2

\* The nodes of the complete tree, level by level.
LEMMA ReferenceLeaves ==
    ASSUME NEW leaves, NEW depth \in Nat, NEW k \in Nat
    PROVE  ReferenceNodes(leaves, depth)[0][k] = IF k < Len(leaves) THEN leaves[k + 1] ELSE Zero
<1> DEFINE tree == ReferenceNodes(leaves, depth)
<1>1. tree = [i \in 0..depth |->
                IF i = 0 THEN [j \in Nat |-> IF j < Len(leaves) THEN leaves[j + 1] ELSE Zero]
                         ELSE [j \in Nat |-> hash(tree[i - 1][2 * j], tree[i - 1][2 * j + 1])]]
  BY ReferenceIs
<1> HIDE DEF tree
<1>2. tree[0] = [j \in Nat |-> IF j < Len(leaves) THEN leaves[j + 1] ELSE Zero]
  BY <1>1
<1> QED
  BY <1>2 DEF tree

\* Above the leaves every node is the hash of the two below it.
Hashed(tree, depth) ==
    \A level \in 1..depth, k \in Nat :
       tree[level][k] = hash(tree[level - 1][2 * k], tree[level - 1][2 * k + 1])

LEMMA ReferenceStep ==
    ASSUME NEW leaves, NEW depth \in Nat
    PROVE  Hashed(ReferenceNodes(leaves, depth), depth)
<1> DEFINE tree == ReferenceNodes(leaves, depth)
<1>1. tree = [i \in 0..depth |->
                IF i = 0 THEN [j \in Nat |-> IF j < Len(leaves) THEN leaves[j + 1] ELSE Zero]
                         ELSE [j \in Nat |-> hash(tree[i - 1][2 * j], tree[i - 1][2 * j + 1])]]
  BY ReferenceIs
<1> HIDE DEF tree
<1>2. ASSUME NEW level \in 1..depth, NEW k \in Nat
      PROVE  tree[level][k] = hash(tree[level - 1][2 * k], tree[level - 1][2 * k + 1])
  <2>1. level \in 0..depth /\ level # 0
    OBVIOUS
  <2>2. tree[level] = [j \in Nat |-> hash(tree[level - 1][2 * j], tree[level - 1][2 * j + 1])]
    BY <1>1, <2>1
  <2> QED
    BY <2>2
<1> QED
  BY <1>2 DEF Hashed, tree

\* Beyond the leaves everything is empty.
LEMMA ReferenceEmpty ==
    ASSUME NEW leaves, Len(leaves) \in Nat, NEW depth \in Nat, NEW level \in 0..depth,
           NEW k \in Nat, k >= Widths(Len(leaves))[level]
    PROVE  ReferenceNodes(leaves, depth)[level][k] = emptyNode[level]
<1> DEFINE tree == ReferenceNodes(leaves, depth)
           width == Widths(Len(leaves))
           T == {l \in Nat : l <= depth => \A j \in Nat : j >= width[l] => tree[l][j] = emptyNode[l]}
<1>1. Hashed(tree, depth)
  BY ReferenceStep
<1>2. 0 \in T
  <2>1. width[0] = Len(leaves) /\ emptyNode[0] = Zero
    BY WidthsFacts, EmptyFacts
  <2>2. \A j \in Nat : tree[0][j] = IF j < Len(leaves) THEN leaves[j + 1] ELSE Zero
    BY ReferenceLeaves
  <2> HIDE DEF tree, width
  <2> QED
    BY <2>1, <2>2
<1>3. ASSUME NEW l \in Nat, l \in T PROVE l + 1 \in T
  <2> SUFFICES ASSUME l + 1 <= depth, NEW j \in Nat, j >= width[l + 1] PROVE tree[l + 1][j] = emptyNode[l + 1]
    OBVIOUS
  <2>1. l + 1 \in 1..depth /\ (l + 1) - 1 = l
    OBVIOUS
  <2>2. tree[l + 1][j] = hash(tree[l][2 * j], tree[l][2 * j + 1])
    <3> HIDE DEF tree
    <3> QED
      BY <1>1, <2>1 DEF Hashed
  <2>3. width[l + 1] = (width[l] + 1) \div 2 /\ width[l] \in Nat
    BY WidthsFacts
  <2>4. emptyNode[l + 1] = hash(emptyNode[l], emptyNode[l])
    BY EmptyFacts
  <2> HIDE DEF width, tree
  <2>5. 2 * j >= width[l] /\ 2 * j + 1 >= width[l]
    BY <2>3
  <2> QED
    BY <1>3, <2>2, <2>4, <2>5
<1> HIDE DEF T
<1>4. level \in T
  BY <1>2, <1>3, Induction
<1> QED
  BY <1>4 DEF T

\* The index of the sibling of a node of a level.
Sibling(k) == IF k % 2 = 0 THEN k + 1 ELSE k - 1

\* The siblings of the nodes above an index of the complete tree, lowest first.
AreSiblings(proof, leaves, depth, index) ==
    \A k \in 1..Len(proof) :
       proof[k] = ReferenceNodes(leaves, depth)[k - 1][Sibling(Shifted(index)[k - 1])]

\* They lead from the leaf to its ancestors.
LEMMA ReferenceProof ==
    ASSUME NEW leaves, NEW depth \in Nat, NEW index \in Nat, NEW proof, Len(proof) \in Nat, Len(proof) <= depth,
           AreSiblings(proof, leaves, depth, index)
    PROVE  Recomputed(ReferenceNodes(leaves, depth)[0][index], proof, index)[Len(proof)] =
              ReferenceNodes(leaves, depth)[Len(proof)][Shifted(index)[Len(proof)]]
<1> DEFINE tree == ReferenceNodes(leaves, depth)
           node == Recomputed(tree[0][index], proof, index)
           T == {l \in Nat : l <= Len(proof) => node[l] = tree[l][Shifted(index)[l]]}
<1>1. Hashed(tree, depth)
  BY ReferenceStep
<1>2. 0 \in T
  <2>1. 0 \in 0..Len(proof) /\ 0 \in Nat
    OBVIOUS
  <2>2. node[0] = tree[0][index]
    BY <2>1, RecomputedIs
  <2>3. Shifted(index)[0] = index
    BY ShiftedFacts
  <2> HIDE DEF node, tree
  <2> QED
    BY <2>2, <2>3
<1>3. ASSUME NEW l \in Nat, l \in T PROVE l + 1 \in T
  <2> SUFFICES ASSUME l + 1 <= Len(proof) PROVE node[l + 1] = tree[l + 1][Shifted(index)[l + 1]]
    OBVIOUS
  <2>1. l + 1 \in 0..Len(proof) /\ l + 1 # 0 /\ (l + 1) - 1 = l /\ l < depth /\ l + 1 \in 1..Len(proof)
    OBVIOUS
  <2>2. node[l + 1] = IF Shifted(index)[l] % 2 = 0 THEN hash(node[l], proof[l + 1])
                                                   ELSE hash(proof[l + 1], node[l])
    BY <2>1, RecomputedIs
  <2>3. /\ Shifted(index)[l] \in Nat /\ Shifted(index)[l + 1] \in Nat
        /\ Shifted(index)[l + 1] = Shifted(index)[l] \div 2
    <3>1. l \in Nat /\ l + 1 \in Nat
      OBVIOUS
    <3> QED
      BY <3>1, ShiftedFacts
  <2>4. \A j \in Nat : tree[l + 1][j] = hash(tree[l][2 * j], tree[l][2 * j + 1])
    <3>1. l + 1 \in 1..depth /\ (l + 1) - 1 = l
      BY <2>1
    <3> HIDE DEF tree
    <3> QED
      BY <1>1, <3>1 DEF Hashed
  <2>5. proof[l + 1] = tree[l][Sibling(Shifted(index)[l])]
    BY <2>1 DEF AreSiblings
  <2> HIDE DEF node, tree
  <2>6. node[l] = tree[l][Shifted(index)[l]]
    BY <1>3
  <2>7. CASE Shifted(index)[l] % 2 = 0
    <3>1. /\ 2 * Shifted(index)[l + 1] = Shifted(index)[l]
          /\ 2 * Shifted(index)[l + 1] + 1 = Sibling(Shifted(index)[l])
      BY <2>3, <2>7, SMTT(30) DEF Sibling
    <3> QED
      BY <2>2, <2>3, <2>4, <2>5, <2>6, <2>7, <3>1
  <2>8. CASE Shifted(index)[l] % 2 # 0
    <3>1. /\ 2 * Shifted(index)[l + 1] = Shifted(index)[l] - 1
          /\ 2 * Shifted(index)[l + 1] + 1 = Shifted(index)[l]
      <4>1. \A k \in Nat : k % 2 # 0 => 2 * (k \div 2) = k - 1 /\ 2 * (k \div 2) + 1 = k
        OBVIOUS
      <4> QED
        BY <2>3, <2>8, <4>1
    <3>2. Sibling(Shifted(index)[l]) = Shifted(index)[l] - 1
      BY <2>8 DEF Sibling
    <3> QED
      BY <2>2, <2>3, <2>4, <2>5, <2>6, <2>8, <3>1, <3>2
  <2> QED
    BY <2>7, <2>8
<1> HIDE DEF T
<1>4. Len(proof) \in T
  BY <1>2, <1>3, Induction
<1> QED
  BY <1>4 DEF T

\* What leads to the root of the complete tree is a node of it: the one at the index,
\* on the level from which the proof leads to the root.
LEMMA OnlyNodesLead ==
    ASSUME NEW leaves, NEW depth \in Nat, NEW index \in Nat, NEW leaf, NEW proof,
           Len(proof) \in Nat, Len(proof) <= depth, index < pow2[Len(proof)],
           Recomputed(leaf, proof, index)[Len(proof)] = ReferenceNodes(leaves, depth)[depth][0]
    PROVE  leaf = ReferenceNodes(leaves, depth)[depth - Len(proof)][index]
<1> DEFINE tree == ReferenceNodes(leaves, depth)
<1> DEFINE node == Recomputed(leaf, proof, index)
           N == Len(proof)
           T == {m \in Nat : m <= N => node[N - m] = tree[depth - m][Shifted(index)[N - m]]}
<1>1. Hashed(tree, depth)
  BY ReferenceStep
<1>2. 0 \in T
  BY ShiftedOut
<1>3. ASSUME NEW m \in Nat, m \in T PROVE m + 1 \in T
  <2> DEFINE l == N - (m + 1)
             d == depth - (m + 1)
  <2> SUFFICES ASSUME m + 1 <= N PROVE node[l] = tree[d][Shifted(index)[l]]
    OBVIOUS
  <2>1. /\ l \in Nat /\ l + 1 \in 0..N /\ l + 1 # 0 /\ (l + 1) - 1 = l /\ N - m = l + 1
        /\ d < depth /\ depth - m = d + 1
    OBVIOUS
  <2>0. d \in Nat
    OBVIOUS
  <2> HIDE DEF l, d
  <2>2. node[l + 1] = IF Shifted(index)[l] % 2 = 0 THEN hash(node[l], proof[l + 1])
                                                   ELSE hash(proof[l + 1], node[l])
    BY <2>1, RecomputedIs, SMTT(30)
  <2>3. /\ Shifted(index)[l] \in Nat /\ Shifted(index)[l + 1] \in Nat
        /\ Shifted(index)[l + 1] = Shifted(index)[l] \div 2
    <3>1. l \in Nat /\ l + 1 \in Nat
      BY <2>1
    <3> QED
      BY <3>1, ShiftedFacts
  <2>4. \A j \in Nat : tree[d + 1][j] = hash(tree[d][2 * j], tree[d][2 * j + 1])
    <3>1. d + 1 \in 1..depth /\ (d + 1) - 1 = d
      BY <2>0, <2>1
    <3> HIDE DEF tree
    <3> QED
      BY <1>1, <3>1 DEF Hashed
  <2> HIDE DEF node, tree
  <2>5. node[l + 1] = tree[d + 1][Shifted(index)[l + 1]]
    BY <1>3, <2>1
  <2>6. node[l + 1] = hash(tree[d][2 * Shifted(index)[l + 1]], tree[d][2 * Shifted(index)[l + 1] + 1])
    BY <2>3, <2>4, <2>5
  <2>7. CASE Shifted(index)[l] % 2 = 0
    <3>1. 2 * Shifted(index)[l + 1] = Shifted(index)[l]
      BY <2>3, <2>7
    <3> QED
      BY <2>2, <2>6, <2>7, <3>1, HashInjects
  <2>8. CASE Shifted(index)[l] % 2 # 0
    <3>1. 2 * Shifted(index)[l + 1] + 1 = Shifted(index)[l]
      BY <2>3, <2>8
    <3> QED
      BY <2>2, <2>6, <2>8, <3>1, HashInjects
  <2> QED
    BY <2>7, <2>8
<1> HIDE DEF T
<1>4. N \in T
  BY <1>2, <1>3, Induction
<1>5. node[0] = tree[depth - N][Shifted(index)[0]]
  BY <1>4 DEF T
<1>6. node[0] = leaf
  <2>1. 0 \in 0..Len(proof)
    OBVIOUS
  <2> QED
    BY <2>1, RecomputedIs
<1>7. Shifted(index)[0] = index
  BY ShiftedFacts
<1> QED
  BY <1>5, <1>6, <1>7

\* A proof of n hashes reads n bits of the index.
LEMMA RecomputedLow ==
    ASSUME NEW leaf, NEW proof, Len(proof) \in Nat, NEW index \in Nat
    PROVE  Recomputed(leaf, proof, index % pow2[Len(proof)])[Len(proof)] =
              Recomputed(leaf, proof, index)[Len(proof)]
<1> DEFINE place == index % pow2[Len(proof)]
           low == Recomputed(leaf, proof, place)
           node == Recomputed(leaf, proof, index)
           T == {k \in Nat : k <= Len(proof) => low[k] = node[k]}
<1>1. \A k \in 0..(Len(proof) - 1) : Shifted(place)[k] % 2 = Shifted(index)[k] % 2
  BY ShiftedLow
<1> HIDE DEF place
<1>2. low[0] = leaf /\ node[0] = leaf
  <2>1. 0 \in 0..Len(proof)
    OBVIOUS
  <2> QED
    BY <2>1, RecomputedIs
<1>3. 0 \in T
  BY <1>2
<1>4. ASSUME NEW k \in Nat, k \in T PROVE k + 1 \in T
  <2> SUFFICES ASSUME k + 1 <= Len(proof) PROVE low[k + 1] = node[k + 1]
    OBVIOUS
  <2>1. k + 1 \in 0..Len(proof) /\ k + 1 # 0 /\ (k + 1) - 1 = k /\ k \in 0..(Len(proof) - 1)
    OBVIOUS
  <2>2. low[k + 1] = IF Shifted(place)[k] % 2 = 0 THEN hash(low[k], proof[k + 1]) ELSE hash(proof[k + 1], low[k])
    BY <2>1, RecomputedIs, SMTT(30)
  <2>3. node[k + 1] = IF Shifted(index)[k] % 2 = 0 THEN hash(node[k], proof[k + 1])
                                                   ELSE hash(proof[k + 1], node[k])
    BY <2>1, RecomputedIs, SMTT(30)
  <2>4. Shifted(place)[k] % 2 = Shifted(index)[k] % 2
    BY <1>1, <2>1
  <2>5. low[k] = node[k]
    BY <1>4
  <2> HIDE DEF low, node
  <2> QED
    BY <2>2, <2>3, <2>4, <2>5
<1> HIDE DEF T
<1>5. Len(proof) \in T
  BY <1>3, <1>4, Induction
<1> QED
  BY <1>5 DEF T, place

\* Complete trees with the same root have the same leaves.
LEMMA SameRoot ==
    ASSUME NEW one, NEW other, NEW depth \in Nat,
           ReferenceNodes(one, depth)[depth][0] = ReferenceNodes(other, depth)[depth][0],
           NEW index \in Nat, index < pow2[depth]
    PROVE  ReferenceNodes(one, depth)[0][index] = ReferenceNodes(other, depth)[0][index]
<1> DEFINE a == ReferenceNodes(one, depth)
           b == ReferenceNodes(other, depth)
           T == {m \in Nat :
                    m <= depth => a[depth - m][Shifted(index)[depth - m]] =
                                     b[depth - m][Shifted(index)[depth - m]]}
<1>1. Hashed(a, depth) /\ Hashed(b, depth)
  BY ReferenceStep
<1>2. 0 \in T
  BY ShiftedOut
<1>3. ASSUME NEW m \in Nat, m \in T PROVE m + 1 \in T
  <2> DEFINE d == depth - (m + 1)
  <2> SUFFICES ASSUME m + 1 <= depth PROVE a[d][Shifted(index)[d]] = b[d][Shifted(index)[d]]
    OBVIOUS
  <2>1. d \in Nat /\ d < depth /\ depth - m = d + 1
    OBVIOUS
  <2> HIDE DEF d
  <2>2. /\ Shifted(index)[d] \in Nat /\ Shifted(index)[d + 1] \in Nat
        /\ Shifted(index)[d + 1] = Shifted(index)[d] \div 2
    BY <2>1, ShiftedFacts
  <2>3. \A j \in Nat : /\ a[d + 1][j] = hash(a[d][2 * j], a[d][2 * j + 1])
                       /\ b[d + 1][j] = hash(b[d][2 * j], b[d][2 * j + 1])
    <3>1. d + 1 \in 1..depth /\ (d + 1) - 1 = d
      BY <2>1
    <3> HIDE DEF a, b
    <3> QED
      BY <1>1, <3>1, ZenonT(30) DEF Hashed
  <2> HIDE DEF a, b
  <2>4. a[d + 1][Shifted(index)[d + 1]] = b[d + 1][Shifted(index)[d + 1]]
    BY <1>3, <2>1
  <2>5. \/ Shifted(index)[d] = 2 * Shifted(index)[d + 1]
        \/ Shifted(index)[d] = 2 * Shifted(index)[d + 1] + 1
    BY <2>2
  <2>6. /\ a[d][2 * Shifted(index)[d + 1]] = b[d][2 * Shifted(index)[d + 1]]
        /\ a[d][2 * Shifted(index)[d + 1] + 1] = b[d][2 * Shifted(index)[d + 1] + 1]
    <3>1. /\ a[d + 1][Shifted(index)[d + 1]] =
                hash(a[d][2 * Shifted(index)[d + 1]], a[d][2 * Shifted(index)[d + 1] + 1])
          /\ b[d + 1][Shifted(index)[d + 1]] =
                hash(b[d][2 * Shifted(index)[d + 1]], b[d][2 * Shifted(index)[d + 1] + 1])
      BY <2>2, <2>3
    <3> QED
      <4>1. hash(a[d][2 * Shifted(index)[d + 1]], a[d][2 * Shifted(index)[d + 1] + 1]) =
               hash(b[d][2 * Shifted(index)[d + 1]], b[d][2 * Shifted(index)[d + 1] + 1])
        BY <2>4, <3>1
      <4> QED
        BY <4>1, HashInjects
  <2> QED
    BY <2>5, <2>6
<1> HIDE DEF T
<1>4. depth \in T
  BY <1>2, <1>3, Induction
<1>5. a[0][Shifted(index)[0]] = b[0][Shifted(index)[0]]
  BY <1>4 DEF T
<1> QED
  BY <1>5, ShiftedFacts

-----------------------------------------------------------------------------
(* The inductive invariant                                                 *)

\* What a TreeNode has.
Fields == {"level", "node", "left", "right", "parent"}

\* How many nodes of each level the tree has, those that fill it up aside.
width == Widths(leafCount)

\* The leaves stand for the contents; ids are given out in order.
Counted ==
    /\ contents \in Seq(Claims \cup {Empty}) /\ leafCount = Len(contents) /\ leafCount > 0
    /\ NextId \in Nat /\ NextId >= leafCount /\ DOMAIN heap = 0..(NextId - 1)

\* A leaf of the tree.
IsLeaf(at, id) ==
    /\ heap[id].level = 0 /\ at[id] = id /\ heap[id].left = NoId
    /\ heap[id].node = LeafOf(contents[id + 1])

\* An empty node, put beside the last one of a level.
IsFiller(at, id) ==
    /\ heap[id].left = NoId /\ at[id] >= width[heap[id].level]
    /\ heap[id].node = emptyNode[heap[id].level]

\* A node with two children.
IsJoined(at, id) ==
    LET left == heap[id].left
        right == heap[id].right
    IN  /\ {left, right} \subseteq DOMAIN heap
        /\ heap[id].level > 0
        /\ heap[left].level = heap[id].level - 1 /\ at[left] = 2 * at[id] /\ heap[left].parent = id
        /\ heap[right].level = heap[id].level - 1 /\ at[right] = 2 * at[id] + 1 /\ heap[right].parent = id
        /\ heap[id].node = hash(heap[left].node, heap[right].node)

\* Its parent has it as a child.
HasParent(id) ==
    LET parent == heap[id].parent
    IN  /\ parent \in DOMAIN heap /\ heap[parent].left # NoId
        /\ id \in {heap[parent].left, heap[parent].right}

\* Every node is at its place, and is what it must be there.
Placed(at) ==
    /\ at \in [DOMAIN heap -> Nat]
    /\ \A id \in DOMAIN heap :
          /\ DOMAIN heap[id] = Fields /\ heap[id].level \in Nat
          /\ IF id < leafCount THEN IsLeaf(at, id) ELSE IsFiller(at, id) \/ IsJoined(at, id)
          /\ heap[id].parent = NoId \/ HasParent(id)

\* The queue when level is being combined: its nodes from the first one on, and after
\* them the parents of those before it.
Queued(at, level, first) ==
    /\ level \in Nat /\ first \in Nat /\ first % 2 = 0 /\ first < width[level]
    /\ \A below \in Nat : below < level => width[below] > 1
    /\ queue \in Seq(Nat) /\ Len(queue) = (width[level] - first) + (first \div 2)
    /\ \A i \in 1..Len(queue) :
          /\ queue[i] \in DOMAIN heap /\ heap[queue[i]].parent = NoId
          /\ IF i <= width[level] - first
                THEN heap[queue[i]].level = level /\ at[queue[i]] = first + (i - 1)
                ELSE heap[queue[i]].level = level + 1 /\ at[queue[i]] = (i - 1) - (width[level] - first)
    /\ \A id \in DOMAIN heap :
          /\ heap[id].parent = NoId => \E i \in 1..Len(queue) : queue[i] = id
          /\ heap[id].level > level => heap[id].parent = NoId

\* A proof is the siblings above a leaf of the tree it was made for.
IsProof(p) ==
    LET tree == ReferenceNodes(LeavesOf(p.of), Height)
    IN  /\ p.of \in Seq(Claims \cup {Empty}) /\ Len(p.of) = leafCount
        /\ p.leafIndex \in 0..(leafCount - 1) /\ p.leaf = LeafOf(p.of[p.leafIndex + 1])
        /\ p.root = tree[Height][0]
        /\ Len(p.proof) = Height /\ AreSiblings(p.proof, LeavesOf(p.of), Height, p.leafIndex)

\* Proofs are only handed out of finished trees.
Issued == \A p \in issued : Built /\ IsProof(p)

\* Places can be given, the root is that of the top, and proofs are what they should be.
MerkleInv ==
    /\ Counted
    /\ \E at, level, first : Placed(at) /\ Queued(at, level, first)
    /\ Built => root = heap[Top].node
    /\ Issued

-----------------------------------------------------------------------------
(* Sequences, records and leaves *)

\* A function on 1..n is a sequence of that length.
LEMMA FunctionIsSequence ==
    ASSUME NEW S, NEW n \in Nat, NEW f \in [1..n -> S]
    PROVE  f \in Seq(S) /\ Len(f) = n
<1>1. f \in Seq(S)
  BY SeqDef
<1>2. Len(f) \in Nat /\ DOMAIN f = 1..Len(f)
  BY <1>1, LenProperties
<1>3. 1..Len(f) = 1..n
  BY <1>2
<1>4. Len(f) = n
  <2>1. ~(Len(f) < n)
    <3> SUFFICES ASSUME Len(f) < n PROVE FALSE
      OBVIOUS
    <3>1. n \in 1..n /\ n \notin 1..Len(f)
      BY <1>2
    <3> QED
      BY <3>1, <1>3
  <2>2. ~(n < Len(f))
    <3> SUFFICES ASSUME n < Len(f) PROVE FALSE
      OBVIOUS
    <3>1. Len(f) \in 1..Len(f) /\ Len(f) \notin 1..n
      BY <1>2
    <3> QED
      BY <3>1, <1>3
  <2> QED
    BY <1>2, <2>1, <2>2
<1> QED
  BY <1>1, <1>4

\* A sequence that has a length has elements.
LEMMA NotEmpty ==
    ASSUME NEW seq, Len(seq) > 0
    PROVE  seq # <<>>
<1>1. Len(<<>>) = 0
  BY EmptySeq
<1> SUFFICES ASSUME seq = <<>> PROVE FALSE
  OBVIOUS
<1>2. Len(seq) = 0
  BY <1>1
<1> QED
  BY <1>2

\* The leaves are as many as what they stand for.
LEMMA LeavesFacts ==
    ASSUME NEW claims \in Seq(Claims \cup {Empty})
    PROVE  /\ Len(claims) \in Nat
           /\ Len(LeavesOf(claims)) = Len(claims)
           /\ \A i \in 1..Len(claims) : /\ claims[i] \in Claims \cup {Empty}
                                         /\ LeavesOf(claims)[i] = LeafOf(claims[i])
<1> DEFINE S == {LeafOf(c) : c \in Claims \cup {Empty}}
<1>1. Len(claims) \in Nat /\ \A i \in 1..Len(claims) : claims[i] \in Claims \cup {Empty}
  BY LenProperties
<1>2. LeavesOf(claims) \in [1..Len(claims) -> S]
  BY <1>1 DEF LeavesOf
<1>3. Len(LeavesOf(claims)) = Len(claims)
  <2> HIDE DEF S
  <2> QED
    BY <1>1, <1>2, FunctionIsSequence
<1> QED
  BY <1>1, <1>3 DEF LeavesOf

\* The fields of a node that is made,
LEMMA NewNode ==
    ASSUME NEW level, NEW node, NEW left, NEW right
    PROVE  LET new == TreeNode(level, node, left, right)
           IN  /\ DOMAIN new = Fields
               /\ new.level = level /\ new.node = node /\ new.left = left
               /\ new.right = right /\ new.parent = NoId
  BY DEF TreeNode, Fields

\* of one that gets a parent,
LEMMA NewParent ==
    ASSUME NEW node, DOMAIN node = Fields, NEW id
    PROVE  LET new == [node EXCEPT !.parent = id]
           IN  /\ DOMAIN new = Fields
               /\ new.level = node.level /\ new.node = node.node
               /\ new.left = node.left /\ new.right = node.right
               /\ new.parent = id
  BY DEF Fields

\* and of one that gets another hash.
LEMMA NewHash ==
    ASSUME NEW node, DOMAIN node = Fields, NEW value
    PROVE  LET new == [node EXCEPT !.node = value]
           IN  /\ DOMAIN new = Fields
               /\ new.level = node.level /\ new.left = node.left
               /\ new.right = node.right /\ new.parent = node.parent
               /\ new.node = value
  BY DEF Fields

\* Some power of two is enough for any number of leaves, and the first one is not far.
LEMMA DepthFacts ==
    ASSUME NEW count \in Nat
    PROVE  Depth(count) \in 0..count /\ pow2[Depth(count)] \in Nat /\ pow2[Depth(count)] >= count
<1> DEFINE T == {d \in Nat : pow2[d] >= count}
<1>1. count \in T /\ T \subseteq Nat
  BY PowerFacts
<1>2. PICK d \in T : \A e \in T : d <= e
  <2> HIDE DEF T
  <2> QED
    BY <1>1, Least
<1>3. d \in 0..count
  BY <1>1, <1>2
<1>4. pow2[d] >= count /\ \A e \in 0..(d - 1) : pow2[e] < count
  <2>1. \A e \in 0..(d - 1) : e \in Nat /\ e < d /\ pow2[e] \in Nat
    BY <1>3, PowerFacts
  <2>2. \A e \in 0..(d - 1) : ~(pow2[e] >= count)
    BY <1>2, <1>3, <2>1
  <2> QED
    BY <1>2, <2>1, <2>2
<1>5. Depth(count) \in 0..count /\ pow2[Depth(count)] >= count
  BY <1>3, <1>4 DEF Depth
<1> QED
  BY <1>5, PowerFacts

\* The widths of the levels of the tree.
LEMMA WidthIs ==
    ASSUME Counted
    PROVE  /\ leafCount \in Nat /\ width[0] = leafCount
           /\ \A level \in Nat : width[level] \in Nat /\ width[level + 1] = (width[level] + 1) \div 2
<1>1. leafCount \in Nat
  BY LenProperties DEF Counted
<1> QED
  BY <1>1, WidthsFacts DEF width

\* What is in the queue.
LEMMA QueuedIs ==
    ASSUME NEW at, NEW level, NEW first, Queued(at, level, first), NEW i \in 1..Len(queue)
    PROVE  /\ queue[i] \in DOMAIN heap /\ heap[queue[i]].parent = NoId
           /\ i <= width[level] - first => heap[queue[i]].level = level /\ at[queue[i]] = first + (i - 1)
           /\ ~(i <= width[level] - first) =>
                 heap[queue[i]].level = level + 1 /\ at[queue[i]] = (i - 1) - (width[level] - first)
  BY DEF Queued

-----------------------------------------------------------------------------
(* The tree when it is begun *)

\* The leaves are at their ids, and all of them in the queue.
LEMMA MerkleInit ==
    Init => MerkleInv
<1> SUFFICES ASSUME Init PROVE MerkleInv
  OBVIOUS
<1>1. PICK n \in 1..MaxClaims : \E claims \in [1..n -> Claims] :
                                    contents \in {claims, Padded(claims, Depth(n), Empty)}
  BY DEF Init
<1>2. PICK claims \in [1..n -> Claims] : contents \in {claims, Padded(claims, Depth(n), Empty)}
  BY <1>1
<1>3. /\ leafCount = Len(contents)
      /\ heap = [id \in 0..(leafCount - 1) |-> TreeNode(0, LeafOf(contents[id + 1]), NoId, NoId)]
      /\ queue = [i \in 1..leafCount |-> i - 1]
      /\ root = IF leafCount = 1 THEN LeafOf(contents[1]) ELSE Zero
      /\ issued = {}
  BY DEF Init
<1>4. n \in Nat /\ n > 0
  BY MerkleAssumption
<1>5. contents \in Seq(Claims \cup {Empty}) /\ Len(contents) \in Nat /\ Len(contents) > 0
  <2>1. claims \in Seq(Claims) /\ Len(claims) = n
    BY <1>4, FunctionIsSequence
  <2>2. CASE contents = claims
    <3>1. claims \in [1..n -> Claims \cup {Empty}]
      OBVIOUS
    <3> QED
      BY <1>4, <2>2, <3>1, FunctionIsSequence
  <2>3. CASE contents = Padded(claims, Depth(n), Empty)
    <3>1. pow2[Depth(n)] \in Nat /\ pow2[Depth(n)] >= n
      BY <1>4, DepthFacts
    <3>2. Padded(claims, Depth(n), Empty) \in [1..pow2[Depth(n)] -> Claims \cup {Empty}]
      BY <1>4, <2>1, <3>1 DEF Padded
    <3> QED
      BY <1>4, <2>3, <3>1, <3>2, FunctionIsSequence
  <2> QED
    BY <1>2, <2>2, <2>3
<1>6. Counted
  <2>1. NextId = leafCount
    BY <1>3, <1>5, FS_Interval DEF NextId
  <2> QED
    BY <1>3, <1>5, <2>1 DEF Counted
<1> DEFINE at == [id \in DOMAIN heap |-> id]
<1>7. at \in [DOMAIN heap -> Nat] /\ \A id \in DOMAIN heap : id \in Nat /\ id < leafCount /\ at[id] = id
  BY <1>3, <1>5
<1>8. \A id \in DOMAIN heap : /\ DOMAIN heap[id] = Fields /\ heap[id].level = 0
                              /\ heap[id].node = LeafOf(contents[id + 1])
                              /\ heap[id].left = NoId /\ heap[id].right = NoId /\ heap[id].parent = NoId
  <2> TAKE id \in DOMAIN heap
  <2>1. heap[id] = TreeNode(0, LeafOf(contents[id + 1]), NoId, NoId)
    BY <1>3
  <2> QED
    BY <2>1, NewNode
<1>9. Placed(at)
  BY <1>7, <1>8 DEF Placed, IsLeaf
<1>10. Queued(at, 0, 0)
  <2>1. width[0] = leafCount
    BY <1>3, <1>5, WidthsFacts DEF width
  <2>2. queue \in Seq(Nat) /\ Len(queue) = leafCount
    <3>1. queue \in [1..leafCount -> Nat]
      BY <1>3, <1>5
    <3> QED
      BY <1>3, <1>5, <3>1, FunctionIsSequence
  <2>3. \A i \in 1..Len(queue) : queue[i] = i - 1 /\ queue[i] \in DOMAIN heap /\ i <= width[0] - 0
    BY <1>3, <1>5, <2>1, <2>2
  <2>4. \A id \in DOMAIN heap : id + 1 \in 1..Len(queue) /\ queue[id + 1] = id
    BY <1>3, <1>5, <2>2
  <2>5. 0 < width[0] /\ Len(queue) = (width[0] - 0) + (0 \div 2)
    BY <1>3, <1>5, <2>1, <2>2
  <2> HIDE DEF at
  <2>6. \A i \in 1..Len(queue) : /\ heap[queue[i]].parent = NoId /\ heap[queue[i]].level = 0
                                 /\ at[queue[i]] = 0 + (i - 1)
    BY <1>7, <1>8, <2>3
  <2>7. \A id \in DOMAIN heap : /\ \E i \in 1..Len(queue) : queue[i] = id
                                /\ heap[id].parent = NoId
    BY <1>8, <2>4
  <2> QED
    BY <2>2, <2>3, <2>5, <2>6, <2>7, SMTT(30) DEF Queued
<1>11. Built => root = heap[Top].node
  <2> SUFFICES ASSUME Built PROVE root = heap[Top].node
    OBVIOUS
  <2>1. leafCount = 1
    <3>1. queue \in [1..leafCount -> Nat]
      BY <1>3, <1>5
    <3> QED
      BY <1>3, <1>5, <3>1, FunctionIsSequence DEF Built
  <2>2. Top = 0 /\ 0 \in DOMAIN heap
    BY <1>3, <2>1 DEF Top
  <2> QED
    BY <1>3, <1>8, <2>1, <2>2
<1>12. Issued
  BY <1>3 DEF Issued
<1> HIDE DEF at
<1> QED
  BY <1>6, <1>7, <1>9, <1>10, <1>11, <1>12 DEF MerkleInv

-----------------------------------------------------------------------------
(* A round of the constructor's loop *)

\* left, the first of the queue, and right get a parent: right is the next one of the
\* queue (skip is 2), or a new filler when left is the last of its level.
Joins(at, level, first, right, new, skip) ==
    LET left == queue[1]
    IN  /\ right \in Nat /\ new \in Nat /\ skip \in {1, 2} /\ Len(queue) > 1
        /\ DOMAIN heap' = 0..new /\ NextId' = new + 1
        /\ right # left /\ right < new /\ new \notin DOMAIN heap /\ 0..(new - 1) = DOMAIN heap \cup {right}
        /\ \A id \in DOMAIN heap : id # left /\ id # right => heap'[id] = heap[id]
        /\ DOMAIN heap'[left] = Fields /\ heap'[left].level = level /\ heap'[left].node = heap[left].node
        /\ heap'[left].left = heap[left].left
        /\ heap'[left].right = heap[left].right /\ heap'[left].parent = new
        /\ DOMAIN heap'[right] = Fields /\ heap'[right].level = level /\ heap'[right].parent = new
        /\ IF skip = 2
              THEN /\ right = queue[2] /\ heap'[right].node = heap[right].node
                   /\ heap'[right].left = heap[right].left /\ heap'[right].right = heap[right].right
                   /\ width[level] - first >= 2
              ELSE /\ right \notin DOMAIN heap
                   /\ heap'[right].node = emptyNode[level] /\ heap'[right].left = NoId
                   /\ width[level] - first = 1
        /\ DOMAIN heap'[new] = Fields /\ heap'[new].level = level + 1
        /\ heap'[new].node = hash(heap'[left].node, heap'[right].node)
        /\ heap'[new].left = left /\ heap'[new].right = right /\ heap'[new].parent = NoId
        /\ queue' \in Seq(Nat) /\ Len(queue') = Len(queue) - skip + 1 /\ queue'[Len(queue')] = new
        /\ \A i \in 1..(Len(queue) - skip) : queue'[i] = queue[i + skip]
        /\ root' = IF Len(queue') = 1 THEN heap'[new].node ELSE root
        /\ leafCount' = leafCount /\ contents' = contents /\ issued' = issued

\* That is what a round does.
LEMMA CombineJoins ==
    ASSUME Counted, NEW at, NEW level, NEW first, Placed(at), Queued(at, level, first), Combine
    PROVE  \E right, new, skip : Joins(at, level, first, right, new, skip)
<1>types. at \in [DOMAIN heap -> Nat] /\ level \in Nat /\ first \in Nat
  BY DEF Placed, Queued
<1> USE <1>types
<1> DEFINE left == queue[1]
           last == heap[left].level # heap[queue[2]].level
           empty == TreeNode(heap[left].level, emptyNode[heap[left].level], NoId, NoId)
           right == IF last THEN NextId ELSE queue[2]
           node == IF last THEN empty ELSE heap[right]
           new == IF last THEN NextId + 1 ELSE NextId
           parent == TreeNode(heap[left].level + 1, hash(heap[left].node, node.node), left, right)
           skip == IF last THEN 1 ELSE 2
           cell(i) == CASE i = new -> parent
                        [] i = right -> [node EXCEPT !.parent = new]
                        [] i = left -> [heap[left] EXCEPT !.parent = new]
                        [] OTHER -> heap[i]
<1>0. Len(queue) > 1
  BY DEF Combine
<1>1. /\ heap' = [i \in 0..new |-> cell(i)]
      /\ queue' = Append(IF last THEN Tail(queue) ELSE Tail(Tail(queue)), new)
      /\ root' = IF Len(queue') = 1 THEN parent.node ELSE root
      /\ leafCount' = leafCount /\ contents' = contents /\ issued' = issued
  BY DEF Combine
<1>2. /\ NextId \in Nat /\ DOMAIN heap = 0..(NextId - 1)
      /\ queue \in Seq(Nat) /\ Len(queue) \in Nat /\ 1 \in 1..Len(queue) /\ 2 \in 1..Len(queue)
      /\ width[level] \in Nat /\ first < width[level] /\ Len(queue) = (width[level] - first) + (first \div 2)
  <2>1. queue \in Seq(Nat) /\ Len(queue) \in Nat
    BY LenProperties DEF Queued
  <2>2. 1 \in 1..Len(queue) /\ 2 \in 1..Len(queue)
    BY <1>0, <2>1
  <2>3. first < width[level] /\ Len(queue) = (width[level] - first) + (first \div 2)
    BY DEF Queued
  <2>4. width[level] \in Nat
    BY WidthIs
  <2>5. NextId \in Nat /\ DOMAIN heap = 0..(NextId - 1)
    BY DEF Counted
  <2> QED
    BY <2>1, <2>2, <2>3, <2>4, <2>5
<1>3. /\ left \in DOMAIN heap /\ left \in Nat /\ heap[left].level = level /\ at[left] = first
      /\ queue[2] \in DOMAIN heap /\ queue[2] \in Nat
  <2>1. 1 <= width[level] - first /\ first + (1 - 1) = first
    BY <1>2
  <2>2. left \in DOMAIN heap /\ heap[left].level = level /\ at[left] = first
    BY <1>2, <2>1, QueuedIs, SMTT(30)
  <2>3. queue[2] \in DOMAIN heap
    BY <1>2, QueuedIs
  <2> QED
    BY <1>2, <2>2, <2>3
<1>20. /\ 2 <= width[level] - first => heap[queue[2]].level = level /\ at[queue[2]] = first + 1
       /\ ~(2 <= width[level] - first) => heap[queue[2]].level = level + 1
  <2>1. 2 \in 1..Len(queue)
    BY <1>2
  <2>2. /\ 2 <= width[level] - first => heap[queue[2]].level = level /\ at[queue[2]] = first + (2 - 1)
        /\ ~(2 <= width[level] - first) => heap[queue[2]].level = level + 1
    BY <2>1, QueuedIs
  <2>3. first + (2 - 1) = first + 1
    OBVIOUS
  <2> QED
    BY <2>2, <2>3
<1>4. DOMAIN heap[left] = Fields /\ DOMAIN heap[queue[2]] = Fields
  BY <1>3 DEF Placed
<1>5. /\ DOMAIN empty = Fields /\ empty.level = level /\ empty.node = emptyNode[level] /\ empty.left = NoId
  BY <1>3, NewNode
<1>6. /\ right \in Nat /\ new \in Nat /\ skip \in {1, 2}
      /\ right # left /\ right < new /\ new \notin DOMAIN heap /\ 0..(new - 1) = DOMAIN heap \cup {right}
      /\ DOMAIN node = Fields /\ node.level = level
      /\ IF skip = 2
            THEN /\ right = queue[2] /\ right \in DOMAIN heap /\ node = heap[right] /\ width[level] - first >= 2
            ELSE /\ right \notin DOMAIN heap /\ node.node = emptyNode[level] /\ node.left = NoId
                 /\ width[level] - first = 1
  <2>1. CASE last
    <3>1. right = NextId /\ new = NextId + 1 /\ skip = 1 /\ node = empty
      BY <2>1
    <3>2. width[level] - first = 1
      <4> SUFFICES ASSUME 2 <= width[level] - first PROVE FALSE
        BY <1>2
      <4> QED
        BY <1>3, <1>20, <2>1
    <3> HIDE DEF right, new, skip, node, empty, left
    <3>3. 0..(new - 1) = DOMAIN heap \cup {right} /\ right \notin DOMAIN heap /\ new \notin DOMAIN heap
      BY <1>2, <3>1, SMTT(30)
    <3>4. right # left
      BY <1>3, <3>3
    <3>5. right < new /\ right \in Nat /\ new \in Nat
      BY <1>2, <3>1
    <3> QED
      BY <1>5, <3>1, <3>2, <3>3, <3>4, <3>5
  <2>2. CASE ~last
    <3>1. right = queue[2] /\ new = NextId /\ skip = 2 /\ node = heap[queue[2]]
      BY <2>2
    <3>2. heap[queue[2]].level = level
      BY <1>3, <2>2
    <3>3. width[level] - first >= 2 /\ at[queue[2]] = first + 1
      BY <1>2, <1>20, <3>2
    <3>4. queue[2] # left
      <4>1. first + 1 # first
        OBVIOUS
      <4> QED
        BY <1>3, <3>3, <4>1
    <3> HIDE DEF right, new, skip, node, left
    <3>5. 0..(new - 1) = DOMAIN heap \cup {right} /\ right < new /\ new \notin DOMAIN heap
      <4>1. DOMAIN heap = 0..(NextId - 1) /\ NextId \in Nat /\ queue[2] \in DOMAIN heap
        BY <1>2, <1>3
      <4>2. queue[2] < NextId /\ NextId \notin DOMAIN heap
        BY <4>1
      <4> QED
        BY <3>1, <4>1, <4>2
    <3> QED
      BY <1>2, <1>3, <1>4, <3>1, <3>2, <3>3, <3>4, <3>5
  <2> QED
    BY <2>1, <2>2
<1>7. /\ queue' \in Seq(Nat) /\ Len(queue') = Len(queue) - skip + 1 /\ queue'[Len(queue')] = new
      /\ \A i \in 1..(Len(queue) - skip) : queue'[i] = queue[i + skip]
  <2> DEFINE rest == IF last THEN Tail(queue) ELSE Tail(Tail(queue))
  <2>1. rest \in Seq(Nat) /\ Len(rest) = Len(queue) - skip /\ \A i \in 1..Len(rest) : rest[i] = queue[i + skip]
    <3>1. /\ Tail(queue) \in Seq(Nat) /\ Len(Tail(queue)) = Len(queue) - 1
          /\ \A i \in 1..Len(Tail(queue)) : Tail(queue)[i] = queue[i + 1]
      <4>1. queue # <<>>
        <5>1. Len(queue) > 0
          BY <1>0, <1>2
        <5> QED
          BY <5>1, NotEmpty
      <4> QED
        BY <1>2, <4>1, HeadTailProperties
    <3>2. /\ Tail(Tail(queue)) \in Seq(Nat) /\ Len(Tail(Tail(queue))) = Len(queue) - 2
          /\ \A i \in 1..Len(Tail(Tail(queue))) : Tail(Tail(queue))[i] = queue[i + 2]
      <4>1. Tail(queue) # <<>>
        <5>1. Len(Tail(queue)) > 0
          BY <1>0, <1>2, <3>1
        <5> QED
          BY <5>1, NotEmpty
      <4>2. /\ Tail(Tail(queue)) \in Seq(Nat) /\ Len(Tail(Tail(queue))) = Len(Tail(queue)) - 1
            /\ \A i \in 1..Len(Tail(Tail(queue))) : Tail(Tail(queue))[i] = Tail(queue)[i + 1]
        BY <3>1, <4>1, HeadTailProperties
      <4>3. \A i \in 1..Len(Tail(Tail(queue))) : i + 1 \in 1..Len(Tail(queue)) /\ (i + 1) + 1 = i + 2
        <5> DEFINE m == Len(Tail(queue))
        <5>1. Len(Tail(Tail(queue))) = m - 1 /\ m \in Nat
          BY <3>1, <4>2, LenProperties
        <5> HIDE DEF m
        <5>2. \A i \in 1..(m - 1) : i + 1 \in 1..m /\ (i + 1) + 1 = i + 2
          BY <5>1
        <5> QED
          BY <5>1, <5>2 DEF m
      <4>4. ASSUME NEW i \in 1..Len(Tail(Tail(queue))) PROVE Tail(Tail(queue))[i] = queue[i + 2]
        <5>1. Tail(Tail(queue))[i] = Tail(queue)[i + 1]
          BY <4>2
        <5>2. Tail(queue)[i + 1] = queue[(i + 1) + 1]
          BY <3>1, <4>3
        <5> QED
          BY <4>3, <5>1, <5>2
      <4>5. Len(Tail(Tail(queue))) = Len(queue) - 2
        BY <1>2, <3>1, <4>2
      <4> QED
        BY <4>2, <4>4, <4>5
    <3> QED
      BY <3>1, <3>2
  <2>2. queue' = Append(rest, new)
    BY <1>1
  <2> HIDE DEF rest, new, skip
  <2>3. Len(rest) \in Nat
    BY <2>1, LenProperties
  <2>4. /\ queue' \in Seq(Nat) /\ Len(queue') = Len(rest) + 1 /\ queue'[Len(rest) + 1] = new
        /\ \A i \in 1..Len(rest) : queue'[i] = rest[i]
    BY <1>6, <2>1, <2>2, AppendProperties
  <2> QED
    BY <2>1, <2>3, <2>4
<1> HIDE DEF right, new, skip, node, empty, last
<1>8. /\ heap'[new] = parent /\ heap'[right] = [node EXCEPT !.parent = new]
      /\ heap'[left] = [heap[left] EXCEPT !.parent = new]
      /\ \A id \in DOMAIN heap : id # left /\ id # right => heap'[id] = heap[id]
      /\ DOMAIN heap' = 0..new
  <2>1. \A id \in DOMAIN heap \cup {right} : id \in 0..new /\ id # new
    BY <1>6
  <2>2. new \in 0..new
    BY <1>6
  <2>3. /\ cell(new) = parent
        /\ cell(right) = [node EXCEPT !.parent = new]
        /\ cell(left) = [heap[left] EXCEPT !.parent = new]
        /\ \A id \in DOMAIN heap : id # left /\ id # right => cell(id) = heap[id]
    BY <1>3, <1>6, <2>1
  <2>4. heap' = [i \in 0..new |-> cell(i)]
    BY <1>1
  <2> HIDE DEF cell, left
  <2> QED
    BY <1>3, <2>1, <2>2, <2>3, <2>4
<1>9. /\ DOMAIN heap'[left] = Fields /\ heap'[left].level = level /\ heap'[left].node = heap[left].node
      /\ heap'[left].left = heap[left].left /\ heap'[left].right = heap[left].right /\ heap'[left].parent = new
  <2> HIDE DEF left
  <2> QED
    BY <1>3, <1>4, <1>8, NewParent
<1>10. /\ DOMAIN heap'[right] = Fields /\ heap'[right].level = level /\ heap'[right].node = node.node
       /\ heap'[right].left = node.left /\ heap'[right].right = node.right /\ heap'[right].parent = new
  BY <1>6, <1>8, NewParent
<1>11. /\ DOMAIN heap'[new] = Fields /\ heap'[new].level = level + 1
       /\ heap'[new].node = hash(heap[left].node, node.node) /\ heap'[new].node = parent.node
       /\ heap'[new].left = left /\ heap'[new].right = right /\ heap'[new].parent = NoId
  <2> HIDE DEF left
  <2> QED
    BY <1>3, <1>8, NewNode
<1>12. NextId' = new + 1
  <2>1. new \in Int /\ ~(0 > new) /\ new - 0 + 1 = new + 1
    BY <1>6
  <2>2. Cardinality(0..new) = new + 1
    BY <2>1, FS_Interval
  <2> QED
    BY <1>8, <2>2 DEF NextId
<1>13. /\ root' = IF Len(queue') = 1 THEN heap'[new].node ELSE root
       /\ leafCount' = leafCount /\ contents' = contents /\ issued' = issued
  BY <1>1, <1>11
<1>14. IF skip = 2
          THEN /\ right = queue[2] /\ heap'[right].node = heap[right].node
               /\ heap'[right].left = heap[right].left /\ heap'[right].right = heap[right].right
               /\ width[level] - first >= 2
          ELSE /\ right \notin DOMAIN heap /\ heap'[right].node = emptyNode[level] /\ heap'[right].left = NoId
               /\ width[level] - first = 1
  BY <1>6, <1>10
<1> HIDE DEF parent
<1>15. Joins(at, level, first, right, new, skip)
  BY <1>0, <1>6, <1>7, <1>8, <1>9, <1>10, <1>11, <1>12, <1>13, <1>14 DEF Joins
<1> QED
  BY <1>6, <1>15

\* The places of the nodes after it.
PlacesAfter(at, first, right, new) ==
    [id \in 0..new |-> IF id = new THEN first \div 2 ELSE IF id = right THEN first + 1 ELSE at[id]]

\* The nodes that get a parent are where the queue has them.
LEMMA JoinsTakes ==
    ASSUME Counted, NEW at, NEW level, NEW first, Placed(at), Queued(at, level, first),
           NEW right, NEW new, NEW skip, Joins(at, level, first, right, new, skip)
    PROVE  /\ queue[1] \in DOMAIN heap /\ heap[queue[1]].parent = NoId
           /\ at[queue[1]] = first /\ heap[queue[1]].level = level
           /\ skip = 2 => right \in DOMAIN heap /\ heap[right].parent = NoId
                             /\ at[right] = first + 1 /\ heap[right].level = level
<1>types. /\ at \in [DOMAIN heap -> Nat] /\ level \in Nat /\ first \in Nat
          /\ right \in Nat /\ new \in Nat /\ skip \in {1, 2}
  BY DEF Placed, Queued, Joins
<1> USE <1>types
<1> DEFINE left == queue[1]
<1>1. /\ right # left /\ right < new /\ new \notin DOMAIN heap /\ 0..(new - 1) = DOMAIN heap \cup {right}
      /\ DOMAIN heap' = 0..new /\ Len(queue) > 1
  BY DEF Joins
<1>2. /\ Len(queue) \in Nat /\ 1 \in 1..Len(queue) /\ 2 \in 1..Len(queue)
      /\ first < width[level] /\ width[level] \in Nat
  <2>1. Len(queue) \in Nat /\ first < width[level]
    BY LenProperties DEF Queued
  <2>2. width[level] \in Nat
    BY WidthIs
  <2> QED
    BY <1>1, <2>1, <2>2
<1>3. left \in DOMAIN heap /\ heap[left].parent = NoId /\ at[left] = first /\ heap[left].level = level
  <2>1. /\ left \in DOMAIN heap /\ heap[left].parent = NoId
        /\ 1 <= width[level] - first => heap[left].level = level /\ at[left] = first + (1 - 1)
    BY <1>2, QueuedIs
  <2>2. 1 <= width[level] - first /\ first + (1 - 1) = first
    BY <1>2
  <2> QED
    BY <2>1, <2>2
<1>4. ASSUME skip = 2
      PROVE  /\ right \in DOMAIN heap /\ heap[right].parent = NoId
             /\ at[right] = first + 1 /\ heap[right].level = level
  <2>1. right = queue[2] /\ 2 <= width[level] - first
    BY <1>2, <1>4 DEF Joins
  <2>2. /\ queue[2] \in DOMAIN heap /\ heap[queue[2]].parent = NoId
        /\ 2 <= width[level] - first => heap[queue[2]].level = level /\ at[queue[2]] = first + (2 - 1)
    BY <1>2, QueuedIs
  <2>3. first + (2 - 1) = first + 1
    OBVIOUS
  <2> QED
    BY <2>1, <2>2, <2>3
<1> QED
  BY <1>3, <1>4

\* All nodes stay what they are, and those two get their parent.
LEMMA JoinsKeeps ==
    ASSUME Counted, NEW at, NEW level, NEW first, Placed(at), Queued(at, level, first),
           NEW right, NEW new, NEW skip, Joins(at, level, first, right, new, skip)
    PROVE  \A id \in DOMAIN heap :
              /\ id \in Nat /\ id \in DOMAIN heap' /\ DOMAIN heap'[id] = Fields
              /\ heap'[id].level = heap[id].level /\ heap'[id].node = heap[id].node
              /\ heap'[id].left = heap[id].left /\ heap'[id].right = heap[id].right
              /\ PlacesAfter(at, first, right, new)[id] = at[id]
              /\ heap[id].parent # NoId => heap'[id].parent = heap[id].parent
              /\ heap'[id].parent = heap[id].parent \/ (heap'[id].parent = new /\ id \in {queue[1], right})
<1>types. /\ at \in [DOMAIN heap -> Nat] /\ level \in Nat /\ first \in Nat
          /\ right \in Nat /\ new \in Nat /\ skip \in {1, 2}
  BY DEF Placed, Queued, Joins
<1> USE <1>types
<1> DEFINE left == queue[1]
           next == PlacesAfter(at, first, right, new)
<1>1. /\ right # left /\ right < new /\ new \notin DOMAIN heap /\ 0..(new - 1) = DOMAIN heap \cup {right}
      /\ DOMAIN heap' = 0..new
  BY DEF Joins
<1>3. left \in DOMAIN heap /\ heap[left].parent = NoId /\ at[left] = first /\ heap[left].level = level
  BY JoinsTakes
<1>4. ASSUME skip = 2
      PROVE  /\ right \in DOMAIN heap /\ heap[right].parent = NoId
             /\ at[right] = first + 1 /\ heap[right].level = level
  BY <1>4, JoinsTakes
<1>5. \A id \in DOMAIN heap : id \in 0..(new - 1) /\ id \in 0..new /\ id # new /\ id \in Nat
  BY <1>1
<1>6. \A id \in DOMAIN heap : next[id] = at[id]
  <2> TAKE id \in DOMAIN heap
  <2>1. next[id] = IF id = right THEN first + 1 ELSE at[id]
    BY <1>5 DEF PlacesAfter
  <2>2. id = right => skip = 2
    BY DEF Joins
  <2> HIDE DEF next
  <2> QED
    BY <1>4, <2>1, <2>2
<1>8. ASSUME NEW id \in DOMAIN heap
      PROVE  /\ DOMAIN heap'[id] = Fields
             /\ heap'[id].level = heap[id].level /\ heap'[id].node = heap[id].node
             /\ heap'[id].left = heap[id].left /\ heap'[id].right = heap[id].right
             /\ heap[id].parent # NoId => heap'[id].parent = heap[id].parent
             /\ heap'[id].parent = heap[id].parent \/ (heap'[id].parent = new /\ id \in {left, right})
  <2>1. CASE id = left
    <3> HIDE DEF left
    <3>1. /\ DOMAIN heap'[left] = Fields /\ heap'[left].level = level /\ heap'[left].node = heap[left].node
          /\ heap'[left].left = heap[left].left
          /\ heap'[left].right = heap[left].right /\ heap'[left].parent = new
      BY DEF Joins, left
    <3> QED
      BY <1>3, <2>1, <3>1
  <2>2. CASE id = right
    <3>1. skip = 2
      BY <2>2 DEF Joins
    <3>2. /\ DOMAIN heap'[right] = Fields /\ heap'[right].level = level /\ heap'[right].node = heap[right].node
          /\ heap'[right].left = heap[right].left
          /\ heap'[right].right = heap[right].right /\ heap'[right].parent = new
      BY <3>1 DEF Joins
    <3> QED
      BY <1>4, <2>2, <3>1, <3>2
  <2>3. CASE id # left /\ id # right
    <3>1. heap'[id] = heap[id]
      BY <2>3 DEF Joins
    <3>2. DOMAIN heap[id] = Fields
      BY DEF Placed
    <3> DEFINE now == heap'[id]
               then == heap[id]
    <3> HIDE DEF now, then, left
    <3>3. now = then /\ DOMAIN then = Fields
      BY <3>1, <3>2 DEF now, then
    <3>4. /\ DOMAIN now = Fields /\ now.level = then.level /\ now.node = then.node
          /\ now.left = then.left /\ now.right = then.right /\ now.parent = then.parent
      BY <3>3
    <3> QED
      BY <3>4 DEF now, then
  <2> QED
    BY <2>1, <2>2, <2>3
<1>9. \A id \in DOMAIN heap : id \in DOMAIN heap'
  BY <1>1, <1>5
<1> HIDE DEF next
<1> QED
  BY <1>5, <1>6, <1>8, <1>9 DEF next

\* They are places of the nodes that there are then,
LEMMA PlacesAre ==
    ASSUME NEW at, NEW level, NEW first, Placed(at), Queued(at, level, first),
           NEW right, NEW new, NEW skip, Joins(at, level, first, right, new, skip)
    PROVE  PlacesAfter(at, first, right, new) \in [DOMAIN heap' -> Nat]
<1>types. /\ at \in [DOMAIN heap -> Nat] /\ level \in Nat /\ first \in Nat
          /\ right \in Nat /\ new \in Nat /\ skip \in {1, 2}
  BY DEF Placed, Queued, Joins
<1> USE <1>types
<1>1. 0..(new - 1) = DOMAIN heap \cup {right} /\ DOMAIN heap' = 0..new
  BY DEF Joins
<1>2. \A id \in 0..new : id # new /\ id # right => id \in DOMAIN heap
  <2> TAKE id \in 0..new
  <2>1. id # new => id \in 0..(new - 1)
    OBVIOUS
  <2> QED
    BY <1>1, <2>1
<1>3. first \div 2 \in Nat /\ first + 1 \in Nat
  OBVIOUS
<1> QED
  BY <1>1, <1>2, <1>3 DEF PlacesAfter

\* where the nodes are what Placed says.
LEMMA CombinePlaced ==
    ASSUME Counted, NEW at, NEW level, NEW first, Placed(at), Queued(at, level, first),
           NEW right, NEW new, NEW skip, Joins(at, level, first, right, new, skip)
    PROVE  Placed(PlacesAfter(at, first, right, new))'
<1>types. /\ at \in [DOMAIN heap -> Nat] /\ level \in Nat /\ first \in Nat
          /\ right \in Nat /\ new \in Nat /\ skip \in {1, 2}
  BY DEF Placed, Queued, Joins
<1> USE <1>types
<1> DEFINE left == queue[1]
           next == PlacesAfter(at, first, right, new)
<1>1. /\ left \in DOMAIN heap /\ heap[left].parent = NoId /\ at[left] = first /\ heap[left].level = level
      /\ skip = 2 => right \in DOMAIN heap
  BY JoinsTakes
<1>2. \A id \in DOMAIN heap :
         /\ id \in Nat /\ id \in DOMAIN heap' /\ DOMAIN heap'[id] = Fields
         /\ heap'[id].level = heap[id].level /\ heap'[id].node = heap[id].node
         /\ heap'[id].left = heap[id].left /\ heap'[id].right = heap[id].right
         /\ next[id] = at[id]
         /\ heap[id].parent # NoId => heap'[id].parent = heap[id].parent
         /\ heap'[id].parent = heap[id].parent \/ (heap'[id].parent = new /\ id \in {left, right})
  BY JoinsKeeps
<1>3. /\ right # left /\ right < new /\ new \notin DOMAIN heap /\ 0..(new - 1) = DOMAIN heap \cup {right}
      /\ DOMAIN heap' = 0..new /\ leafCount' = leafCount /\ contents' = contents
      /\ heap'[left].parent = new /\ heap'[left].level = level
      /\ DOMAIN heap'[right] = Fields /\ heap'[right].level = level /\ heap'[right].parent = new
      /\ DOMAIN heap'[new] = Fields /\ heap'[new].level = level + 1
      /\ heap'[new].node = hash(heap'[left].node, heap'[right].node)
      /\ heap'[new].left = left /\ heap'[new].right = right /\ heap'[new].parent = NoId
  BY DEF Joins
<1>4. skip # 2 => /\ right \notin DOMAIN heap /\ heap'[right].node = emptyNode[level]
                  /\ heap'[right].left = NoId
                  /\ width[level] - first = 1
  BY DEF Joins
<1>5. width' = width /\ width[level] \in Nat
  BY <1>3, WidthIs DEF width
<1>6. leafCount \in Nat /\ \A id \in Nat : id \notin DOMAIN heap => ~(id < leafCount)
  <2>1. leafCount \in Nat
    BY WidthIs
  <2>2. NextId \in Nat /\ NextId >= leafCount /\ DOMAIN heap = 0..(NextId - 1)
    BY DEF Counted
  <2> QED
    BY <2>1, <2>2
<1>7. /\ left \in Nat /\ left # NoId /\ right \in DOMAIN heap'
      /\ new \in DOMAIN heap' /\ left \in DOMAIN heap' /\ left # new
  BY <1>1, <1>2, <1>3 DEF NoId
<1>8. next[new] = first \div 2 /\ next[right] = first + 1 /\ next[left] = first
  <2>1. new \in 0..new /\ right \in 0..new /\ right # new
    BY <1>3
  <2>2. next[new] = first \div 2 /\ next[right] = first + 1
    BY <2>1 DEF PlacesAfter
  <2> HIDE DEF next
  <2> QED
    BY <1>1, <1>2, <2>2
<1> DEFINE Good(id) ==
              /\ DOMAIN heap'[id] = Fields /\ heap'[id].level \in Nat
              /\ IF id < leafCount THEN IsLeaf(next, id)' ELSE IsFiller(next, id)' \/ IsJoined(next, id)'
              /\ heap'[id].parent = NoId \/ HasParent(id)'
<1> HIDE DEF next, left
<1>9. Good(new)
  <2>1. 2 * (first \div 2) = first
    BY SMTT(30) DEF Queued
  <2>2. (level + 1) - 1 = level /\ level + 1 > 0
    OBVIOUS
  <2>3. IsJoined(next, new)'
    BY <1>3, <1>7, <1>8, <2>1, <2>2 DEF IsJoined
  <2> QED
    BY <1>3, <1>6, <2>3
<1>10. ASSUME NEW id, id \in {left, right} PROVE HasParent(id)'
  BY <1>3, <1>7, <1>10 DEF HasParent
<1>11. ASSUME skip # 2 PROVE Good(right)
  <2>1. ~(right < leafCount)
    BY <1>4, <1>6, <1>11
  <2>2. IsFiller(next, right)'
    <3>1. next[right] >= width[level]
      BY <1>4, <1>5, <1>8, <1>11
    <3> QED
      BY <1>3, <1>4, <1>5, <1>11, <3>1 DEF IsFiller
  <2> QED
    BY <1>3, <1>10, <2>1, <2>2
<1>12. ASSUME NEW id \in DOMAIN heap PROVE Good(id)
  <2>1. /\ DOMAIN heap[id] = Fields /\ heap[id].level \in Nat
        /\ IF id < leafCount THEN IsLeaf(at, id) ELSE IsFiller(at, id) \/ IsJoined(at, id)
        /\ heap[id].parent = NoId \/ HasParent(id)
    BY DEF Placed
  <2>2. ASSUME IsLeaf(at, id) PROVE IsLeaf(next, id)'
    BY <1>2, <1>3, <2>2 DEF IsLeaf
  <2>3. ASSUME IsFiller(at, id) PROVE IsFiller(next, id)'
    BY <1>2, <1>5, <2>3 DEF IsFiller
  <2>4. ASSUME IsJoined(at, id) PROVE IsJoined(next, id)'
    <3>1. id # NoId
      BY <1>2 DEF NoId
    <3>2. /\ heap[id].left \in DOMAIN heap /\ heap[heap[id].left].parent = id
          /\ heap[id].right \in DOMAIN heap /\ heap[heap[id].right].parent = id
      BY <2>4 DEF IsJoined
    <3>3. heap'[heap[id].left].parent = id /\ heap'[heap[id].right].parent = id
      BY <1>2, <3>1, <3>2
    <3> QED
      BY <1>2, <2>4, <3>2, <3>3 DEF IsJoined
  <2>5. heap'[id].parent = NoId \/ HasParent(id)'
    <3>1. CASE heap'[id].parent = heap[id].parent
      <4>1. ASSUME HasParent(id) PROVE HasParent(id)'
        BY <1>2, <3>1, <4>1 DEF HasParent
      <4> QED
        BY <2>1, <3>1, <4>1
    <3>2. CASE id \in {left, right}
      BY <1>10, <3>2
    <3> QED
      BY <1>2, <3>1, <3>2
  <2> QED
    BY <1>2, <2>1, <2>2, <2>3, <2>4, <2>5
<1>13. ASSUME NEW id \in DOMAIN heap' PROVE Good(id)
  <2>1. id = new \/ id = right \/ id \in DOMAIN heap
    <3>1. id = new \/ id \in 0..(new - 1)
      BY <1>3
    <3> QED
      BY <1>3, <3>1
  <2> QED
    BY <1>1, <1>9, <1>11, <1>12, <2>1
<1> QED
  BY <1>3, <1>13, PlacesAre DEF Placed, next

\* Combining goes on along the level, or from the first node of the next one.
LEMMA CombineQueued ==
    ASSUME Counted, NEW at, NEW level, NEW first, Placed(at), Queued(at, level, first),
           NEW right, NEW new, NEW skip, Joins(at, level, first, right, new, skip)
    PROVE  \E l, f : Queued(PlacesAfter(at, first, right, new), l, f)'
<1>types. /\ at \in [DOMAIN heap -> Nat] /\ level \in Nat /\ first \in Nat
          /\ right \in Nat /\ new \in Nat /\ skip \in {1, 2}
  BY DEF Placed, Queued, Joins
<1> USE <1>types
<1> DEFINE left == queue[1]
           next == PlacesAfter(at, first, right, new)
           W == width[level] - first
           n == Len(queue)
<1>1. /\ left \in DOMAIN heap /\ heap[left].parent = NoId /\ at[left] = first /\ heap[left].level = level
      /\ skip = 2 => right \in DOMAIN heap /\ at[right] = first + 1 /\ heap[right].level = level
  BY JoinsTakes
<1>2. \A id \in DOMAIN heap :
         /\ id \in DOMAIN heap' /\ heap'[id].level = heap[id].level /\ next[id] = at[id]
         /\ heap[id].parent # NoId => heap'[id].parent = heap[id].parent
         /\ heap'[id].parent = heap[id].parent \/ (heap'[id].parent = new /\ id \in {left, right})
  BY JoinsKeeps
<1>3. /\ right # left /\ right < new /\ new \notin DOMAIN heap /\ 0..(new - 1) = DOMAIN heap \cup {right}
      /\ DOMAIN heap' = 0..new /\ leafCount' = leafCount
      /\ heap'[left].parent = new /\ heap'[left].level = level
      /\ heap'[right].level = level /\ heap'[right].parent = new
      /\ heap'[new].level = level + 1 /\ heap'[new].parent = NoId
      /\ skip # 2 => right \notin DOMAIN heap
      /\ skip = 2 => right = queue[2]
  BY DEF Joins
<1>4. /\ queue' \in Seq(Nat) /\ Len(queue') = n - skip + 1 /\ queue'[Len(queue')] = new
      /\ \A i \in 1..(n - skip) : queue'[i] = queue[i + skip]
      /\ n > 1 /\ (skip = 2 => W >= 2) /\ (skip = 1 => W = 1)
  BY DEF Joins
<1>5. /\ width' = width /\ width[level] \in Nat /\ width[level + 1] = (width[level] + 1) \div 2
      /\ first < width[level] /\ first % 2 = 0 /\ n = W + (first \div 2) /\ n \in Nat /\ W \in Nat /\ W > 0
      /\ \A below \in Nat : below < level => width[below] > 1
  <2>1. width' = width
    BY <1>3 DEF width
  <2>2. width[level] \in Nat /\ width[level + 1] = (width[level] + 1) \div 2
    BY WidthIs
  <2>3. /\ first \in Nat /\ first < width[level] /\ first % 2 = 0
        /\ n = W + (first \div 2) /\ n \in Nat
    BY LenProperties DEF Queued
  <2>4. \A below \in Nat : below < level => width[below] > 1
    BY DEF Queued
  <2>5. W \in Nat /\ W > 0
    BY <2>2, <2>3, SMTT(30)
  <2> QED
    BY <2>1, <2>2, <2>3, <2>4, <2>5
<1>6. next[new] = first \div 2
  <2>1. new \in 0..new
    OBVIOUS
  <2> QED
    BY <2>1 DEF PlacesAfter
<1>7. \A i \in 1..n : /\ queue[i] \in DOMAIN heap /\ heap[queue[i]].parent = NoId
                      /\ i <= W => heap[queue[i]].level = level /\ at[queue[i]] = first + (i - 1)
                      /\ ~(i <= W) => heap[queue[i]].level = level + 1 /\ at[queue[i]] = (i - 1) - W
  BY QueuedIs
<1> HIDE DEF W, n, next, left
\* Those left in the queue stay what they are.
<1>8. ASSUME NEW i \in 1..(n - skip)
      PROVE  /\ queue'[i] = queue[i + skip] /\ queue'[i] \in DOMAIN heap' /\ heap'[queue'[i]].parent = NoId
             /\ i + skip <= W => heap'[queue'[i]].level = level /\ next[queue'[i]] = first + (i + skip - 1)
             /\ ~(i + skip <= W) => heap'[queue'[i]].level = level + 1 /\ next[queue'[i]] = (i + skip - 1) - W
  <2>1. i + skip \in 1..n /\ i + skip > skip /\ i + skip \in Nat
    BY <1>5
  <2>2. queue'[i] = queue[i + skip]
    BY <1>4
  <2> DEFINE id == queue[i + skip]
  <2>3. /\ id \in DOMAIN heap /\ heap[id].parent = NoId
        /\ i + skip <= W => heap[id].level = level /\ at[id] = first + (i + skip - 1)
        /\ ~(i + skip <= W) => heap[id].level = level + 1 /\ at[id] = (i + skip - 1) - W
    BY <1>7, <2>1
  <2> HIDE DEF id
  <2>4. id # left /\ id # right
    <3>1. /\ level + 1 # level /\ first + (i + skip - 1) # first
          /\ skip = 2 => first + (i + skip - 1) # first + 1
      BY <2>1
    <3>2. id # left
      BY <1>1, <2>3, <3>1
    <3>3. CASE skip = 2
      BY <1>1, <2>3, <3>1, <3>2, <3>3
    <3>4. CASE skip # 2
      BY <1>3, <2>3, <3>2, <3>4
    <3> QED
      BY <3>3, <3>4
  <2>5. /\ id \in DOMAIN heap' /\ heap'[id].parent = NoId
        /\ heap'[id].level = heap[id].level /\ next[id] = at[id]
    BY <1>2, <2>3, <2>4
  <2>6. queue'[i] = id
    BY <2>2 DEF id
  <2> QED
    BY <2>2, <2>3, <2>5, <2>6
<1>9. ASSUME NEW id \in DOMAIN heap', heap'[id].parent = NoId
      PROVE  \E i \in 1..Len(queue') : queue'[i] = id
  <2>1. CASE id = new
    <3>1. Len(queue') \in 1..Len(queue')
      BY <1>4, <1>5
    <3> QED
      BY <1>4, <2>1, <3>1
  <2>2. CASE id # new
    <3>1. new # NoId
      BY DEF NoId
    <3>2. id \in DOMAIN heap /\ id # left /\ id # right
      <4>1. id \in 0..(new - 1)
        BY <1>3, <2>2
      <4> QED
        BY <1>3, <1>9, <3>1, <4>1
    <3>3. heap[id].parent = NoId
      BY <1>2, <1>9, <3>1, <3>2
    <3>4. PICK i \in 1..n : queue[i] = id
      BY <3>2, <3>3 DEF Queued, n
    <3>5. i # 1 /\ (skip = 2 => i # 2)
      BY <1>3, <3>2, <3>4 DEF left
    <3>6. i - skip \in 1..(n - skip) /\ (i - skip) + skip = i /\ i - skip \in 1..Len(queue')
      BY <1>4, <1>5, <3>5
    <3> QED
      BY <1>4, <3>4, <3>6
  <2> QED
    BY <2>1, <2>2
<1>10. ASSUME NEW id \in DOMAIN heap', heap'[id].level > level PROVE heap'[id].parent = NoId
  <2>1. CASE id = new
    BY <1>3, <2>1
  <2>2. CASE id # new
    <3>1. id # left /\ id # right
      BY <1>3, <1>10
    <3>2. id \in DOMAIN heap
      <4>1. id \in 0..(new - 1)
        BY <1>3, <2>2
      <4> QED
        BY <1>3, <3>1, <4>1
    <3>3. heap[id].parent = NoId
      BY <1>2, <1>10, <3>2 DEF Queued
    <3> QED
      BY <1>2, <3>1, <3>2, <3>3
  <2> QED
    BY <2>1, <2>2
<1>11. new \in DOMAIN heap' /\ Len(queue') \in 1..Len(queue') /\ Len(queue') \in Nat
  BY <1>3, <1>4, <1>5
<1>12. \A i \in 1..Len(queue') : i = Len(queue') \/ i \in 1..(n - skip)
  BY <1>4, <1>5
<1>13. CASE W > 2
  <2>1. skip = 2
    BY <1>4, <1>13
  <2>2. /\ first + 2 \in Nat /\ (first + 2) % 2 = 0
        /\ first + 2 < width[level] /\ (first + 2) \div 2 = (first \div 2) + 1
    BY <1>5, <1>13 DEF W
  <2>3. Len(queue') = (width[level] - (first + 2)) + ((first + 2) \div 2) /\ width[level] - (first + 2) = W - 2
    <3> DEFINE half == first \div 2
    <3>1. half \in Nat /\ n = W + half
      BY <1>5
    <3>6. (first + 2) \div 2 = half + 1
      BY <2>2
    <3>2. W = width[level] - first
      BY DEF W
    <3>3. width[level] \in Nat /\ W \in Nat
      BY <1>5
    <3> DEFINE m == Len(queue')
    <3>4. m = n - 2 + 1
      BY <1>4, <2>1
    <3> HIDE DEF half, m
    <3>5. m = (width[level] - (first + 2)) + (half + 1) /\ width[level] - (first + 2) = W - 2
      BY <3>1, <3>2, <3>3, <3>4
    <3> QED
      BY <3>5, <3>6 DEF m
  <2>4. ASSUME NEW i \in 1..Len(queue')
        PROVE  /\ queue'[i] \in DOMAIN heap' /\ heap'[queue'[i]].parent = NoId
               /\ IF i <= W - 2
                     THEN heap'[queue'[i]].level = level /\ next[queue'[i]] = (first + 2) + (i - 1)
                     ELSE heap'[queue'[i]].level = level + 1 /\ next[queue'[i]] = (i - 1) - (W - 2)
    <3>1. CASE i = Len(queue')
      <4>1. ~(i <= W - 2) /\ (i - 1) - (W - 2) = first \div 2
        BY <1>4, <1>5, <2>1, <3>1
      <4> QED
        BY <1>3, <1>4, <1>6, <1>11, <3>1, <4>1
    <3>2. CASE i \in 1..(n - skip)
      <4>1. /\ i + skip <= W <=> i <= W - 2
            /\ first + (i + skip - 1) = (first + 2) + (i - 1)
            /\ (i + skip - 1) - W = (i - 1) - (W - 2)
        BY <1>5, <2>1, <3>2
      <4> QED
        BY <1>8, <3>2, <4>1
    <3> QED
      BY <1>12, <3>1, <3>2
  <2>5. Queued(next, level, first + 2)'
    BY <1>4, <1>5, <1>9, <1>10, <2>2, <2>3, <2>4 DEF Queued
  <2> QED
    BY <2>2, <2>5 DEF next
<1>14. CASE ~(W > 2)
  <2>1. W = skip
    BY <1>4, <1>5, <1>14, SMTT(30)
  <2>2. width[level + 1] = (first \div 2) + 1 /\ width[level + 1] - 0 = width[level + 1]
    BY <1>5, <2>1 DEF W
  <2>3. Len(queue') = width[level + 1] /\ 0 \div 2 = 0 /\ 0 % 2 = 0 /\ 0 < width[level + 1]
    BY <1>4, <1>5, <2>1, <2>2
  <2>4. ASSUME NEW below \in Nat, below < level + 1 PROVE width[below] > 1
    <3>1. width[level] > 1
      <4>1. width[level] = first + W
        BY <1>5 DEF W
      <4>2. CASE W = 2
        BY <4>1, <4>2
      <4>3. CASE W = 1
        <5>1. first \div 2 > 0
          BY <1>4, <1>5, <4>3
        <5>2. first > 0
          BY <5>1
        <5> QED
          BY <4>1, <4>3, <5>2
      <4> QED
        BY <2>1, <4>2, <4>3
    <3> QED
      BY <1>5, <2>4, <3>1
  <2>5. ASSUME NEW i \in 1..Len(queue')
        PROVE  /\ queue'[i] \in DOMAIN heap' /\ heap'[queue'[i]].parent = NoId
               /\ i <= width[level + 1] /\ heap'[queue'[i]].level = level + 1 /\ next[queue'[i]] = 0 + (i - 1)
    <3>1. CASE i = Len(queue')
      <4>1. 0 + (i - 1) = first \div 2 /\ i <= width[level + 1]
        BY <1>5, <2>2, <2>3, <3>1
      <4> QED
        BY <1>3, <1>4, <1>6, <1>11, <3>1, <4>1
    <3>2. CASE i \in 1..(n - skip)
      <4>1. /\ ~(i + skip <= W) /\ i <= width[level + 1]
            /\ (i + skip - 1) - W = 0 + (i - 1)
        BY <1>4, <1>5, <2>1, <2>3, <3>2
      <4> QED
        BY <1>8, <3>2, <4>1
    <3> QED
      BY <1>12, <3>1, <3>2
  <2>6. ASSUME NEW id \in DOMAIN heap', heap'[id].level > level + 1 PROVE heap'[id].parent = NoId
    <3>1. \A l \in Nat : l > level + 1 => l > level
      OBVIOUS
    <3>2. heap'[id].level \in Nat
      BY CombinePlaced DEF Placed
    <3> QED
      BY <1>10, <2>6, <3>1, <3>2
  <2>7. Queued(next, level + 1, 0)'
    <3>1. level + 1 \in Nat /\ 0 \in Nat /\ 0 % 2 = 0 /\ 0 < width[level + 1]
      BY <2>3
    <3>2. queue' \in Seq(Nat) /\ Len(queue') = (width[level + 1] - 0) + (0 \div 2)
      BY <1>4, <1>5, <2>2, <2>3, SMTT(30)
    <3>3. \A i \in 1..Len(queue') :
             /\ queue'[i] \in DOMAIN heap' /\ heap'[queue'[i]].parent = NoId
             /\ IF i <= width[level + 1] - 0
                   THEN heap'[queue'[i]].level = level + 1 /\ next[queue'[i]] = 0 + (i - 1)
                   ELSE /\ heap'[queue'[i]].level = (level + 1) + 1
                        /\ next[queue'[i]] = (i - 1) - (width[level + 1] - 0)
      BY <2>2, <2>5
    <3>4. \A id \in DOMAIN heap' :
             /\ heap'[id].parent = NoId => \E i \in 1..Len(queue') : queue'[i] = id
             /\ heap'[id].level > level + 1 => heap'[id].parent = NoId
      BY <1>9, <2>6
    <3> HIDE DEF next
    <3> QED
      BY <1>5, <2>4, <3>1, <3>2, <3>3, <3>4 DEF Queued
  <2> QED
    BY <2>7 DEF next
<1> QED
  BY <1>13, <1>14

\* The invariant holds after it.
LEMMA CombineInv ==
    MerkleInv /\ Combine => MerkleInv'
<1> SUFFICES ASSUME MerkleInv, Combine PROVE MerkleInv'
  OBVIOUS
<1>1. Counted
  BY DEF MerkleInv
<1>3. PICK at, level, first : Placed(at) /\ Queued(at, level, first)
  BY DEF MerkleInv
<1>4. PICK right, new, skip : Joins(at, level, first, right, new, skip)
  BY <1>1, <1>3, CombineJoins
<1> DEFINE next == PlacesAfter(at, first, right, new)
<1>6. Placed(next)'
  BY <1>1, <1>3, <1>4, CombinePlaced
<1>7. \E l, f : Queued(next, l, f)'
  BY <1>1, <1>3, <1>4, CombineQueued
<1> HIDE DEF next
<1>8. Counted'
  <2>1. /\ leafCount' = leafCount /\ contents' = contents /\ NextId' = new + 1 /\ DOMAIN heap' = 0..new
        /\ new \notin DOMAIN heap /\ new \in Nat
    BY <1>4 DEF Joins
  <2>2. /\ contents \in Seq(Claims \cup {Empty}) /\ leafCount = Len(contents) /\ leafCount > 0
        /\ NextId \in Nat /\ NextId >= leafCount /\ DOMAIN heap = 0..(NextId - 1)
    BY <1>1 DEF Counted
  <2>3. new >= NextId /\ leafCount \in Nat /\ (new + 1) - 1 = new
    BY <1>1, <2>1, <2>2, WidthIs
  <2> QED
    BY <2>1, <2>2, <2>3 DEF Counted
<1>9. Built' => root' = heap'[Top'].node
  BY <1>4 DEF Joins, Built, Top
<1>10. issued = {} /\ issued' = {}
  <2>0. Len(queue) > 1
    BY <1>4 DEF Joins
  <2>1. issued' = issued
    BY <1>4 DEF Joins
  <2>2. ~Built
    <3> DEFINE n == Len(queue)
    <3>1. n \in Nat /\ n > 1
      BY <1>3, <2>0, LenProperties DEF Queued
    <3> HIDE DEF n
    <3>2. n # 1
      BY <3>1
    <3> QED
      BY <3>2 DEF Built, n
  <2>3. \A p \in issued : Built
    BY DEF MerkleInv, Issued
  <2> QED
    BY <2>1, <2>2, <2>3
<1>11. Issued'
  BY <1>10 DEF Issued
<1> QED
  BY <1>6, <1>7, <1>8, <1>9, <1>11 DEF MerkleInv

-----------------------------------------------------------------------------
(* The finished tree *)

\* The node that is left in the queue is the only one without a parent, and alone on
\* its level, the first such level.
LEMMA BuiltFacts ==
    ASSUME Counted, NEW at, NEW level, NEW first, Placed(at), Queued(at, level, first), Built
    PROVE  /\ Height \in Nat /\ Height = Depth(leafCount) /\ leafCount <= pow2[Height]
           /\ Top \in DOMAIN heap /\ at[Top] = 0
           /\ \A id \in DOMAIN heap : /\ heap[id].parent = NoId => id = Top
                                      /\ heap[id].level > Height => heap[id].parent = NoId
<1> DEFINE n == Len(queue)
           w == width[level]
           half == first \div 2
<1>1. /\ level \in Nat /\ first \in Nat /\ first % 2 = 0 /\ first < w /\ n = (w - first) + half /\ n = 1
      /\ \A below \in Nat : below < level => width[below] > 1
  BY DEF Queued, Built
<1>2. w \in Nat /\ leafCount \in Nat /\ width = Widths(leafCount)
  BY <1>1, WidthIs DEF width
<1>3. half \in Nat /\ first = 2 * half
  BY <1>1
<1> HIDE DEF n, w, half
<1>4. first = 0 /\ half = 0 /\ w = 1
  <2>1. w - first >= 1 /\ half = 1 - (w - first)
    BY <1>1, <1>2, <1>3
  <2>2. half = 0
    BY <1>1, <1>2, <1>3, <2>1
  <2> QED
    BY <1>1, <1>2, <1>3, <2>1, <2>2
<1>5. Top \in DOMAIN heap /\ heap[Top].level = level /\ at[Top] = 0
  <2>1. 1 \in 1..Len(queue) /\ 1 <= width[level] - first /\ first + (1 - 1) = 0
    BY <1>1, <1>4 DEF n, w
  <2> QED
    BY <2>1, QueuedIs DEF Top
<1>6. Height = level
  BY <1>5 DEF Height
<1>7. Widths(leafCount)[Height] <= 1
  BY <1>2, <1>4, <1>6 DEF w
<1>8. Height = Depth(leafCount)
  BY <1>1, <1>2, <1>6, <1>7, DepthIs
<1>9. leafCount <= pow2[Height]
  BY <1>1, <1>2, <1>6, <1>7, WidthsFit
<1>10. ASSUME NEW id \in DOMAIN heap, heap[id].parent = NoId PROVE id = Top
  <2>1. PICK i \in 1..n : queue[i] = id
    BY <1>10 DEF Queued, n
  <2>2. i = 1
    BY <1>1
  <2> QED
    BY <2>1, <2>2 DEF Top
<1>11. \A id \in DOMAIN heap : heap[id].level > Height => heap[id].parent = NoId
  BY <1>6 DEF Queued
<1> QED
  BY <1>1, <1>5, <1>6, <1>8, <1>9, <1>10, <1>11

\* Every node is that of the complete tree at its place.
LEMMA NodesAreReference ==
    ASSUME Counted, NEW at, NEW level, NEW first, Placed(at), Queued(at, level, first), Built
    PROVE  \A id \in DOMAIN heap : heap[id].level <= Height =>
              heap[id].node = ReferenceNodes(LeavesOf(contents), Height)[heap[id].level][at[id]]
<1> DEFINE leaves == LeavesOf(contents)
           tree == ReferenceNodes(leaves, Height)
           T == {l \in Nat : l <= Height =>
                    \A id \in DOMAIN heap : heap[id].level = l => heap[id].node = tree[l][at[id]]}
<1>1. Height \in Nat
  BY BuiltFacts
<1>2. /\ leafCount \in Nat /\ Len(leaves) = leafCount /\ width = Widths(Len(leaves))
      /\ \A i \in 1..leafCount : leaves[i] = LeafOf(contents[i])
  <2>1. contents \in Seq(Claims \cup {Empty}) /\ leafCount = Len(contents)
    BY DEF Counted
  <2> QED
    BY <2>1, LeavesFacts DEF width
<1>3. \A id \in DOMAIN heap :
         /\ id \in Nat /\ at[id] \in Nat /\ heap[id].level \in Nat
         /\ IF id < leafCount THEN IsLeaf(at, id) ELSE IsFiller(at, id) \/ IsJoined(at, id)
  <2>1. \A id \in DOMAIN heap : id \in Nat
    BY DEF Counted
  <2> QED
    BY <2>1 DEF Placed
<1>4. ASSUME NEW id \in DOMAIN heap, heap[id].level <= Height, IsFiller(at, id)
      PROVE  heap[id].node = tree[heap[id].level][at[id]]
  <2>1. heap[id].node = emptyNode[heap[id].level] /\ at[id] >= width[heap[id].level]
    BY <1>4 DEF IsFiller
  <2>2. heap[id].level \in 0..Height
    BY <1>1, <1>3, <1>4
  <2>3. tree[heap[id].level][at[id]] = emptyNode[heap[id].level]
    BY <1>1, <1>2, <1>3, <2>1, <2>2, ReferenceEmpty
  <2> QED
    BY <2>1, <2>3
<1>5. Hashed(tree, Height)
  BY <1>1, ReferenceStep
<1>6. 0 \in T
  <2> SUFFICES ASSUME NEW id \in DOMAIN heap, heap[id].level = 0 PROVE heap[id].node = tree[0][at[id]]
    OBVIOUS
  <2>1. CASE id < leafCount
    <3>1. at[id] = id /\ heap[id].node = LeafOf(contents[id + 1])
      BY <1>3, <2>1 DEF IsLeaf
    <3>2. tree[0][id] = leaves[id + 1]
      BY <1>1, <1>2, <1>3, <2>1, ReferenceLeaves
    <3>3. id + 1 \in 1..leafCount
      BY <1>2, <1>3, <2>1
    <3> HIDE DEF tree, leaves
    <3> QED
      BY <1>2, <3>1, <3>2, <3>3
  <2>2. CASE ~(id < leafCount)
    <3>1. ~IsJoined(at, id)
      BY <1>3 DEF IsJoined
    <3>2. heap[id].level <= Height
      BY <1>1
    <3> HIDE DEF tree
    <3> QED
      BY <1>3, <1>4, <2>2, <3>1, <3>2
  <2> QED
    BY <2>1, <2>2
<1>7. ASSUME NEW l \in Nat, l \in T PROVE l + 1 \in T
  <2> SUFFICES ASSUME l + 1 <= Height, NEW id \in DOMAIN heap, heap[id].level = l + 1
               PROVE  heap[id].node = tree[l + 1][at[id]]
    OBVIOUS
  <2>1. l <= Height /\ l + 1 \in 1..Height /\ (l + 1) - 1 = l /\ l + 1 # 0
    BY <1>1
  <2>2. ~(id < leafCount)
    BY <1>3, <2>1 DEF IsLeaf
  <2>3. CASE IsFiller(at, id)
    <3> HIDE DEF tree
    <3> QED
      BY <1>4, <2>3
  <2>4. CASE IsJoined(at, id)
    <3> DEFINE a == heap[id].left
               b == heap[id].right
    <3>1. /\ a \in DOMAIN heap /\ b \in DOMAIN heap /\ heap[a].level = l /\ heap[b].level = l
          /\ at[a] = 2 * at[id] /\ at[b] = 2 * at[id] + 1 /\ heap[id].node = hash(heap[a].node, heap[b].node)
      BY <2>1, <2>4 DEF IsJoined
    <3> HIDE DEF tree, a, b
    <3>2. tree[l + 1][at[id]] = hash(tree[l][2 * at[id]], tree[l][2 * at[id] + 1])
      BY <1>3, <1>5, <2>1 DEF Hashed
    <3>3. heap[a].node = tree[l][at[a]] /\ heap[b].node = tree[l][at[b]]
      BY <1>7, <2>1, <3>1
    <3> QED
      BY <3>1, <3>2, <3>3
  <2> QED
    BY <1>3, <2>2, <2>3, <2>4
<1> HIDE DEF T
<1>8. \A l \in Nat : l \in T
  BY <1>6, <1>7, Induction
<1> HIDE DEF tree
<1> QED
  BY <1>3, <1>8 DEF T, tree

\* From a leaf its ancestors lead to the top, each at the place of the index shifted.
LEMMA PathFacts ==
    ASSUME Counted, NEW at, NEW level, NEW first, Placed(at), Queued(at, level, first), Built,
           NEW i \in 0..(leafCount - 1)
    PROVE  /\ Path(i)[0] = i /\ Path(i)[Height] = Top
           /\ \A k \in 0..Height : /\ Path(i)[k] \in DOMAIN heap
                                   /\ heap[Path(i)[k]].level = k /\ at[Path(i)[k]] = Shifted(i)[k]
           /\ \A k \in 1..Height : /\ heap[Path(i)[k - 1]].parent = Path(i)[k] /\ ~(Path(i)[k] < leafCount)
                                   /\ heap[Path(i)[k]].left # NoId /\ IsJoined(at, Path(i)[k])
                                   /\ Path(i)[k - 1] \in {heap[Path(i)[k]].left, heap[Path(i)[k]].right}
<1> DEFINE path == Path(i)
           Good(k) == path[k] \in DOMAIN heap /\ heap[path[k]].level = k /\ at[path[k]] = Shifted(i)[k]
           Above(k) == /\ heap[path[k]].parent = path[k + 1] /\ ~(path[k + 1] < leafCount)
                       /\ heap[path[k + 1]].left # NoId /\ IsJoined(at, path[k + 1])
                       /\ path[k] \in {heap[path[k + 1]].left, heap[path[k + 1]].right}
           T == {k \in Nat : k <= Height => Good(k)}
<1>1. /\ Height \in Nat /\ Top \in DOMAIN heap /\ at[Top] = 0 /\ heap[Top].level = Height
      /\ \A id \in DOMAIN heap : /\ heap[id].parent = NoId => id = Top
                                 /\ heap[id].level > Height => heap[id].parent = NoId
  BY BuiltFacts DEF Height
<1>2. leafCount \in Nat /\ i \in Nat /\ i < leafCount /\ i \in DOMAIN heap
  <2>1. leafCount \in Nat /\ NextId \in Nat /\ NextId >= leafCount /\ DOMAIN heap = 0..(NextId - 1)
    BY WidthIs DEF Counted
  <2> QED
    BY <2>1
<1>3. path[0] = i
  <2>1. 0 \in 0..Height
    BY <1>1
  <2> QED
    BY <1>1, <2>1, PathIs
<1>4. \A k \in Nat : k + 1 <= Height => path[k + 1] = heap[path[k]].parent
  <2> TAKE k \in Nat
  <2> HAVE k + 1 <= Height
  <2>1. k + 1 \in 0..Height /\ k + 1 # 0 /\ (k + 1) - 1 = k
    BY <1>1
  <2> QED
    BY <1>1, <2>1, PathIs
<1> HIDE DEF path
<1>5. \A id \in DOMAIN heap :
         /\ id \in Nat /\ at[id] \in Nat /\ heap[id].level \in Nat /\ (heap[id].parent = NoId \/ HasParent(id))
         /\ IF id < leafCount THEN IsLeaf(at, id) ELSE IsFiller(at, id) \/ IsJoined(at, id)
  <2>1. \A id \in DOMAIN heap : id \in Nat
    BY DEF Counted
  <2> QED
    BY <2>1 DEF Placed
\* The parent of a node is above it.
<1>6. ASSUME NEW id \in DOMAIN heap, heap[id].parent # NoId
      PROVE  LET parent == heap[id].parent
             IN  /\ parent \in DOMAIN heap /\ ~(parent < leafCount) /\ heap[parent].left # NoId
                 /\ IsJoined(at, parent) /\ id \in {heap[parent].left, heap[parent].right}
                 /\ heap[parent].level = heap[id].level + 1 /\ at[parent] = at[id] \div 2
  <2> DEFINE parent == heap[id].parent
  <2>1. parent \in DOMAIN heap /\ heap[parent].left # NoId /\ id \in {heap[parent].left, heap[parent].right}
    BY <1>5, <1>6 DEF HasParent
  <2> HIDE DEF parent
  <2>2. ~(parent < leafCount) /\ IsJoined(at, parent)
    BY <1>5, <2>1 DEF IsLeaf, IsFiller
  <2>3. /\ heap[id].level = heap[parent].level - 1 /\ (at[id] = 2 * at[parent] \/ at[id] = 2 * at[parent] + 1)
    BY <2>1, <2>2 DEF IsJoined
  <2>4. heap[parent].level \in Nat /\ at[parent] \in Nat
    BY <1>5, <2>1
  <2>5. heap[parent].level = heap[id].level + 1 /\ at[parent] = at[id] \div 2
    BY <2>3, <2>4
  <2> QED
    BY <2>1, <2>2, <2>5 DEF parent
<1>7. ASSUME NEW k \in Nat, k + 1 <= Height, Good(k) PROVE Above(k) /\ Good(k + 1)
  <2>1. heap[path[k]].parent # NoId
    BY <1>1, <1>7
  <2>2. path[k + 1] = heap[path[k]].parent
    BY <1>4, <1>7
  <2>3. Shifted(i)[k + 1] = Shifted(i)[k] \div 2
    BY <1>2, ShiftedFacts
  <2> QED
    BY <1>6, <1>7, <2>1, <2>2, <2>3
<1>8. 0 \in T
  <2>1. Shifted(i)[0] = i
    BY <1>2, ShiftedFacts
  <2>2. heap[i].level = 0 /\ at[i] = i
    BY <1>2, <1>5 DEF IsLeaf
  <2> QED
    BY <1>2, <1>3, <2>1, <2>2
<1>9. ASSUME NEW k \in Nat, k \in T PROVE k + 1 \in T
  <2> SUFFICES ASSUME k + 1 <= Height PROVE Good(k + 1)
    OBVIOUS
  <2>1. k <= Height
    BY <1>1
  <2> HIDE DEF Good, Above
  <2> QED
    BY <1>7, <1>9, <2>1
<1> HIDE DEF T
<1>10. \A k \in Nat : k \in T
  BY <1>8, <1>9, Induction
<1>11. \A k \in 0..Height : Good(k)
  <2> HIDE DEF Good
  <2> QED
    BY <1>1, <1>10 DEF T
<1>12. \A k \in 1..Height : k - 1 \in Nat /\ (k - 1) + 1 = k /\ Above(k - 1)
  <2> TAKE k \in 1..Height
  <2>1. k - 1 \in Nat /\ (k - 1) + 1 = k /\ k <= Height /\ k - 1 \in 0..Height
    BY <1>1
  <2> HIDE DEF Above, Good
  <2> QED
    BY <1>7, <1>11, <2>1
<1>13. path[Height] = Top
  <2>1. path[Height] \in DOMAIN heap /\ heap[path[Height]].level = Height
    BY <1>1, <1>11
  <2> SUFFICES ASSUME heap[path[Height]].parent # NoId PROVE FALSE
    BY <1>1, <2>1
  <2> DEFINE parent == heap[path[Height]].parent
  <2>2. parent \in DOMAIN heap /\ heap[parent].level = Height + 1
    BY <1>6, <2>1
  <2> HIDE DEF parent
  <2>3. heap[parent].parent = NoId
    BY <1>1, <2>2
  <2>4. parent = Top
    BY <1>1, <2>2, <2>3
  <2> QED
    BY <1>1, <2>2, <2>4
<1> QED
  BY <1>3, <1>11, <1>12, <1>13 DEF path

\* The proof of a leaf is made of the siblings above it.
LEMMA GetProofFacts ==
    ASSUME Counted, NEW at, NEW level, NEW first, Placed(at), Queued(at, level, first), Built,
           NEW i \in 0..(leafCount - 1)
    PROVE  Len(getProof(i)) = Height /\ AreSiblings(getProof(i), LeavesOf(contents), Height, i)
<1> DEFINE path == Path(i)
           tree == ReferenceNodes(LeavesOf(contents), Height)
           cell(k) == LET parent == heap[path[k]]
                      IN  heap[IF parent.left = path[k - 1] THEN parent.right ELSE parent.left].node
<1>1. Height \in Nat
  BY BuiltFacts
<1>2. getProof(i) = [k \in 1..Height |-> cell(k)]
  BY DEF getProof
<1>3. Len(getProof(i)) = Height
  <2> DEFINE S == {cell(k) : k \in 1..Height}
  <2>1. getProof(i) \in [1..Height -> S]
    <3> HIDE DEF cell
    <3> QED
      BY <1>2
  <2> HIDE DEF S
  <2> QED
    BY <1>1, <2>1, FunctionIsSequence
<1>4. ASSUME NEW k \in 1..Height PROVE cell(k) = tree[k - 1][Sibling(Shifted(i)[k - 1])]
  <2> DEFINE id == path[k]
             a == heap[id].left
             b == heap[id].right
  <2>1. k \in 0..Height /\ k - 1 \in 0..Height /\ k - 1 \in Nat /\ k - 1 <= Height
    BY <1>1
  <2>2. /\ id \in DOMAIN heap /\ heap[id].level = k /\ IsJoined(at, id) /\ path[k - 1] \in {a, b}
        /\ at[path[k - 1]] = Shifted(i)[k - 1]
    BY <2>1, PathFacts
  <2>3. \A n \in DOMAIN heap : heap[n].level <= Height => heap[n].node = tree[heap[n].level][at[n]]
    BY NodesAreReference
  <2>4. at[id] \in Nat
    BY <2>2 DEF Placed
  <2> HIDE DEF path, id, tree
  <2>5. /\ a \in DOMAIN heap /\ b \in DOMAIN heap /\ heap[a].level = k - 1 /\ heap[b].level = k - 1
        /\ at[a] = 2 * at[id] /\ at[b] = 2 * at[id] + 1
    BY <2>2 DEF IsJoined
  <2> HIDE DEF a, b
  <2>6. heap[a].node = tree[k - 1][at[a]] /\ heap[b].node = tree[k - 1][at[b]]
    BY <2>1, <2>3, <2>5
  <2>7. CASE path[k - 1] = a
    <3>1. cell(k) = heap[b].node
      BY <2>7 DEF a, b, id
    <3>2. Sibling(at[a]) = at[b]
      BY <2>4, <2>5 DEF Sibling
    <3> QED
      BY <2>2, <2>6, <2>7, <3>1, <3>2
  <2>8. CASE path[k - 1] = b
    <3>1. a # b
      BY <2>4, <2>5
    <3>2. cell(k) = heap[a].node
      BY <2>8, <3>1 DEF a, b, id
    <3>3. Sibling(at[b]) = at[a]
      BY <2>4, <2>5 DEF Sibling
    <3> QED
      BY <2>2, <2>6, <2>8, <3>2, <3>3
  <2> QED
    BY <2>2, <2>7, <2>8
<1> HIDE DEF cell
<1>5. AreSiblings(getProof(i), LeavesOf(contents), Height, i)
  BY <1>2, <1>3, <1>4 DEF AreSiblings
<1> QED
  BY <1>3, <1>5

-----------------------------------------------------------------------------
(* What the invariant says of a finished tree *)

\* The root, and what the program computes from the proofs.
LEMMA BuiltTree ==
    ASSUME MerkleInv, Built
    PROVE  /\ Height \in Nat /\ Height = Depth(leafCount) /\ leafCount \in Nat /\ leafCount <= pow2[Height]
           /\ contents \in Seq(Claims \cup {Empty}) /\ Len(contents) = leafCount
           /\ root = ReferenceNodes(LeavesOf(contents), Height)[Height][0]
           /\ \A i \in 0..(leafCount - 1) :
                 /\ heap[i].node = LeafOf(contents[i + 1])
                 /\ Len(getProof(i)) = Height /\ AreSiblings(getProof(i), LeavesOf(contents), Height, i)
<1>1. PICK at, level, first : Placed(at) /\ Queued(at, level, first)
  BY DEF MerkleInv
<1>2. Counted
  BY DEF MerkleInv
<1>3. /\ Height \in Nat /\ Height = Depth(leafCount)
      /\ leafCount <= pow2[Height] /\ Top \in DOMAIN heap /\ at[Top] = 0
  BY <1>1, <1>2, BuiltFacts
<1>4. leafCount \in Nat /\ contents \in Seq(Claims \cup {Empty}) /\ Len(contents) = leafCount
  BY <1>2, WidthIs DEF Counted
<1>5. root = ReferenceNodes(LeavesOf(contents), Height)[Height][0]
  <2>1. \A id \in DOMAIN heap : heap[id].level <= Height =>
           heap[id].node = ReferenceNodes(LeavesOf(contents), Height)[heap[id].level][at[id]]
    BY <1>1, <1>2, NodesAreReference
  <2>2. heap[Top].level = Height /\ Height <= Height
    BY <1>3 DEF Height
  <2>3. root = heap[Top].node
    BY DEF MerkleInv
  <2> QED
    BY <1>3, <2>1, <2>2, <2>3
<1>6. ASSUME NEW i \in 0..(leafCount - 1)
      PROVE  Len(getProof(i)) = Height /\ AreSiblings(getProof(i), LeavesOf(contents), Height, i)
  BY <1>1, <1>2, GetProofFacts
<1>7. ASSUME NEW i \in 0..(leafCount - 1) PROVE heap[i].node = LeafOf(contents[i + 1])
  <2>1. i \in DOMAIN heap /\ i < leafCount
    BY <1>2, <1>4 DEF Counted
  <2> QED
    BY <1>1, <2>1 DEF Placed, IsLeaf
<1> QED
  BY <1>3, <1>4, <1>5, <1>6, <1>7

\* The leaves of the complete tree.
LEMMA ReferenceLeaf ==
    ASSUME NEW claims \in Seq(Claims \cup {Empty}), NEW depth \in Nat, NEW i \in Nat
    PROVE  ReferenceNodes(LeavesOf(claims), depth)[0][i] =
              IF i < Len(claims) THEN LeafOf(claims[i + 1]) ELSE Zero
<1> DEFINE leaves == LeavesOf(claims)
<1>1. /\ Len(claims) \in Nat /\ Len(leaves) = Len(claims)
      /\ \A j \in 1..Len(claims) : leaves[j] = LeafOf(claims[j])
  BY LeavesFacts
<1>2. i < Len(claims) => i + 1 \in 1..Len(claims)
  BY <1>1
<1>3. ReferenceNodes(leaves, depth)[0][i] = IF i < Len(leaves) THEN leaves[i + 1] ELSE Zero
  BY ReferenceLeaves
<1> HIDE DEF leaves
<1>4. ReferenceNodes(leaves, depth)[0][i] = IF i < Len(claims) THEN LeafOf(claims[i + 1]) ELSE Zero
  BY <1>1, <1>2, <1>3
<1> QED
  BY <1>4 DEF leaves

\* The siblings above a leaf make the program compute the root of the tree they are of.
LEMMA SiblingsVerify ==
    ASSUME NEW claims \in Seq(Claims \cup {Empty}), NEW depth \in Nat, Len(claims) <= pow2[depth],
           NEW i \in 0..(Len(claims) - 1), NEW proof, Len(proof) = depth,
           AreSiblings(proof, LeavesOf(claims), depth, i)
    PROVE  recompute_root(LeafOf(claims[i + 1]), proof, i) = ReferenceNodes(LeavesOf(claims), depth)[depth][0]
<1>1. Len(claims) \in Nat /\ pow2[depth] \in Nat
  BY LenProperties, PowerFacts
<1>2. i \in Nat /\ i < Len(claims) /\ i < pow2[depth]
  BY <1>1
<1>3. ReferenceNodes(LeavesOf(claims), depth)[0][i] = LeafOf(claims[i + 1])
  BY <1>2, ReferenceLeaf
<1>4. Recomputed(ReferenceNodes(LeavesOf(claims), depth)[0][i], proof, i)[depth] =
         ReferenceNodes(LeavesOf(claims), depth)[depth][Shifted(i)[depth]]
  <2>1. Len(proof) \in Nat /\ Len(proof) <= depth
    OBVIOUS
  <2> QED
    BY <1>2, <2>1, ReferenceProof
<1>5. Shifted(i)[depth] = 0
  BY <1>2, ShiftedOut
<1> QED
  BY <1>3, <1>4, <1>5 DEF recompute_root

\* The four properties follow from the invariant: the root is that of the tree of the leaves;
LEMMA RootHolds ==
    MerkleInv => RootIsThatOfTheLeaves
<1> SUFFICES ASSUME MerkleInv, Built PROVE root = ReferenceRoot(LeavesOf(contents))
  BY DEF RootIsThatOfTheLeaves
<1>1. /\ Height = Depth(leafCount) /\ contents \in Seq(Claims \cup {Empty}) /\ Len(contents) = leafCount
      /\ root = ReferenceNodes(LeavesOf(contents), Height)[Height][0]
  BY BuiltTree
<1>2. Len(LeavesOf(contents)) = leafCount
  BY <1>1, LeavesFacts
<1> QED
  BY <1>1, <1>2 DEF ReferenceRoot

\* the program computes it from every leaf and its proof;
LEMMA VerifyHolds ==
    MerkleInv => LeavesVerify
<1> SUFFICES ASSUME MerkleInv, Built, NEW i \in 0..(leafCount - 1)
             PROVE  recompute_root(LeafOf(contents[i + 1]), getProof(i), i) = root
  BY DEF LeavesVerify
<1>1. /\ Height \in Nat /\ leafCount <= pow2[Height]
      /\ contents \in Seq(Claims \cup {Empty}) /\ Len(contents) = leafCount
      /\ root = ReferenceNodes(LeavesOf(contents), Height)[Height][0]
      /\ Len(getProof(i)) = Height /\ AreSiblings(getProof(i), LeavesOf(contents), Height, i)
  BY BuiltTree
<1> QED
  BY <1>1, SiblingsVerify

\* Not even a proof made of hashes that nobody knows leads to the root from anything but
\* a leaf of the tree, whatever the index.
LEMMA OnlyLeavesLead ==
    ASSUME MerkleInv, Built, NEW claim \in Claims, NEW proof, Len(proof) \in Nat, Len(proof) <= Height,
           NEW index \in Nat, recompute_root(hashNode(claim), proof, index) = root
    PROVE  index % pow2[Height] < leafCount /\ contents[(index % pow2[Height]) + 1] = claim
<1> DEFINE place == index % pow2[Len(proof)]
<1>0. /\ place \in Nat /\ place < pow2[Len(proof)]
      /\ Recomputed(hashNode(claim), proof, place)[Len(proof)] =
            Recomputed(hashNode(claim), proof, index)[Len(proof)]
  BY ShiftedLow, RecomputedLow
<1> HIDE DEF place
<1> DEFINE tree == ReferenceNodes(LeavesOf(contents), Height)
<1>1. /\ Height \in Nat /\ leafCount \in Nat
      /\ contents \in Seq(Claims \cup {Empty}) /\ Len(contents) = leafCount
      /\ root = tree[Height][0]
  BY BuiltTree
<1>2. Hashed(tree, Height)
  BY <1>1, ReferenceStep
<1>3. hashNode(claim) = tree[Height - Len(proof)][place]
  <2>1. Recomputed(hashNode(claim), proof, place)[Len(proof)] = tree[Height][0]
    BY <1>0, <1>1 DEF recompute_root
  <2> QED
    BY <1>0, <1>1, <2>1, OnlyNodesLead
<1>4. Len(proof) = Height
  <2> SUFFICES ASSUME Len(proof) # Height PROVE FALSE
    OBVIOUS
  <2>1. Height - Len(proof) \in 1..Height
    BY <1>1
  <2> DEFINE d == Height - Len(proof)
  <2> HIDE DEF tree
  <2>2. tree[d][place] = hash(tree[d - 1][2 * place], tree[d - 1][2 * place + 1])
    BY <1>0, <1>2, <2>1 DEF Hashed
  <2> QED
    BY <1>3, <2>2, HashesDiffer
<1>5. tree[0][place] = IF place < leafCount THEN LeafOf(contents[place + 1]) ELSE Zero
  BY <1>0, <1>1, ReferenceLeaf
<1>6. Height - Len(proof) = 0
  BY <1>1, <1>4
<1> HIDE DEF tree
<1>7. place < leafCount /\ LeafOf(contents[place + 1]) = LeafOf(claim)
  BY <1>3, <1>5, <1>6, HashesDiffer
<1>8. contents[place + 1] \in Claims \cup {Empty}
  <2>1. place + 1 \in 1..Len(contents)
    BY <1>0, <1>1, <1>7
  <2> QED
    BY <1>1, <2>1, LeavesFacts
<1>9. contents[place + 1] = claim
  BY <1>7, <1>8, HashesDiffer
<1> QED
  BY <1>4, <1>7, <1>9 DEF place

\* The known hashes are among them.
LEMMA OnlyHolds ==
    MerkleInv => OnlyLeavesVerify
<1> SUFFICES ASSUME MerkleInv, Built, NEW claim \in Claims, NEW length \in 0..Height,
                    NEW proof \in [1..length -> KnownHashes], NEW index \in 0..MaxIndex,
                    recompute_root(hashNode(claim), proof, index) = root
             PROVE  index % pow2[Height] < leafCount /\ contents[(index % pow2[Height]) + 1] = claim
  BY DEF OnlyLeavesVerify
<1>1. Height \in Nat
  BY BuiltTree
<1>2. length \in Nat /\ length <= Height
  BY <1>1
<1>3. Len(proof) = length
  BY <1>2, FunctionIsSequence
<1>4. index \in Nat
  BY MerkleAssumption
<1> QED
  BY <1>2, <1>3, <1>4, OnlyLeavesLead

\* Two trees that differ in a leaf have different roots, so that a proof is good for one.
LEMMA StaleHolds ==
    MerkleInv => ProofsGoStale
<1> SUFFICES ASSUME MerkleInv, Built, NEW p \in issued
             PROVE  verify(p.root, p) /\ (verify(root, p) <=> p.of = contents)
  BY DEF ProofsGoStale
<1>1. /\ Height \in Nat /\ leafCount \in Nat /\ leafCount <= pow2[Height]
      /\ contents \in Seq(Claims \cup {Empty}) /\ Len(contents) = leafCount
      /\ root = ReferenceNodes(LeavesOf(contents), Height)[Height][0]
  BY BuiltTree
<1>2. /\ p.of \in Seq(Claims \cup {Empty}) /\ Len(p.of) = leafCount
      /\ p.leafIndex \in 0..(leafCount - 1) /\ p.leaf = LeafOf(p.of[p.leafIndex + 1])
      /\ p.root = ReferenceNodes(LeavesOf(p.of), Height)[Height][0]
      /\ Len(p.proof) = Height /\ AreSiblings(p.proof, LeavesOf(p.of), Height, p.leafIndex)
  BY DEF MerkleInv, Issued, IsProof
<1>3. recompute_root(p.leaf, p.proof, p.leafIndex) = p.root
  BY <1>1, <1>2, SiblingsVerify
<1>4. ASSUME p.root = root PROVE p.of = contents
  <2>1. ReferenceNodes(LeavesOf(p.of), Height)[Height][0] =
           ReferenceNodes(LeavesOf(contents), Height)[Height][0]
    BY <1>1, <1>2, <1>4
  <2>2. ASSUME NEW j \in 1..leafCount PROVE p.of[j] = contents[j]
    <3>0. pow2[Height] \in Nat
      BY <1>1, PowerFacts
    <3>1. j - 1 \in Nat /\ j - 1 < leafCount /\ (j - 1) + 1 = j /\ j - 1 < pow2[Height]
      BY <1>1, <3>0
    <3>2. ReferenceNodes(LeavesOf(p.of), Height)[0][j - 1] =
             ReferenceNodes(LeavesOf(contents), Height)[0][j - 1]
      BY <1>1, <2>1, <3>1, SameRoot
    <3>3. LeafOf(p.of[j]) = LeafOf(contents[j])
      BY <1>1, <1>2, <3>1, <3>2, ReferenceLeaf
    <3>4. p.of[j] \in Claims \cup {Empty} /\ contents[j] \in Claims \cup {Empty}
      BY <1>1, <1>2, LeavesFacts
    <3> QED
      BY <3>3, <3>4, HashesDiffer
  <2> QED
    BY <1>1, <1>2, <2>2, SeqEqual
<1>5. ASSUME p.of = contents PROVE p.root = root
  BY <1>1, <1>2, <1>5
<1> QED
  BY <1>3, <1>4, <1>5 DEF verify

-----------------------------------------------------------------------------
(* A leaf is replaced *)

\* The path above it gets new hashes, and nothing else changes.
LEMMA UpdateChanges ==
    ASSUME Counted, NEW at, NEW level, NEW first, Placed(at), Queued(at, level, first),
           NEW i \in 0..(leafCount - 1), NEW claim, updateLeaf(i, claim)
    PROVE  /\ DOMAIN heap' = DOMAIN heap
           /\ \A id \in DOMAIN heap :
                 /\ DOMAIN heap'[id] = Fields /\ heap'[id].level = heap[id].level
                 /\ heap'[id].left = heap[id].left /\ heap'[id].right = heap[id].right
                 /\ heap'[id].parent = heap[id].parent
                 /\ (\A k \in 0..Height : Path(i)[k] # id) => heap'[id].node = heap[id].node
           /\ \A k \in 0..Height : heap'[Path(i)[k]].node = Rehashed(i, LeafOf(claim))[k]
<1> DEFINE path == Path(i)
           node == Rehashed(i, LeafOf(claim))
           On(id) == \E k \in 0..Height : path[k] = id
           step(id) == CHOOSE k \in 0..Height : path[k] = id
           cell(id) == IF On(id) THEN [heap[id] EXCEPT !.node = node[step(id)]] ELSE heap[id]
<1>1. Built /\ heap' = [id \in DOMAIN heap |-> cell(id)]
  BY DEF updateLeaf
<1>2. \A k \in 0..Height : path[k] \in DOMAIN heap /\ heap[path[k]].level = k
  BY <1>1, PathFacts
<1>3. \A id \in DOMAIN heap : DOMAIN heap[id] = Fields
  BY DEF Placed
<1> HIDE DEF path, node
<1>4. \A k \in 0..Height : On(path[k]) /\ step(path[k]) = k
  <2> TAKE k \in 0..Height
  <2>1. step(path[k]) \in 0..Height /\ path[step(path[k])] = path[k]
    OBVIOUS
  <2> HIDE DEF step
  <2> QED
    BY <1>2, <2>1
<1> HIDE DEF step
<1>5. \A id \in DOMAIN heap :
         /\ DOMAIN cell(id) = Fields /\ cell(id).level = heap[id].level
         /\ cell(id).left = heap[id].left /\ cell(id).right = heap[id].right
         /\ cell(id).parent = heap[id].parent
         /\ ~On(id) => cell(id).node = heap[id].node
         /\ On(id) => cell(id).node = node[step(id)]
  <2> TAKE id \in DOMAIN heap
  <2> HIDE DEF On
  <2>1. CASE On(id)
    <3>1. cell(id) = [heap[id] EXCEPT !.node = node[step(id)]]
      BY <2>1
    <3> HIDE DEF cell
    <3> QED
      BY <1>3, <2>1, <3>1, NewHash
  <2>2. CASE ~On(id)
    <3>1. cell(id) = heap[id]
      BY <2>2
    <3> HIDE DEF cell
    <3> QED
      BY <1>3, <2>2, <3>1
  <2> QED
    BY <2>1, <2>2
<1> HIDE DEF cell
<1>6. DOMAIN heap' = DOMAIN heap /\ \A id \in DOMAIN heap : heap'[id] = cell(id)
  BY <1>1
<1>7. ASSUME NEW k \in 0..Height PROVE heap'[path[k]].node = node[k]
  <2> HIDE DEF On
  <2> QED
    BY <1>2, <1>4, <1>5, <1>6
<1>8. ASSUME NEW id \in DOMAIN heap
      PROVE  /\ DOMAIN heap'[id] = Fields /\ heap'[id].level = heap[id].level
             /\ heap'[id].left = heap[id].left /\ heap'[id].right = heap[id].right
             /\ heap'[id].parent = heap[id].parent
             /\ (\A k \in 0..Height : path[k] # id) => heap'[id].node = heap[id].node
  <2>1. (\A k \in 0..Height : path[k] # id) => ~On(id)
    OBVIOUS
  <2> HIDE DEF On
  <2> QED
    BY <1>5, <1>6, <2>1
<1> QED
  BY <1>6, <1>7, <1>8 DEF path, node

\* The hashes on the path, one by one.
LEMMA RehashedFacts ==
    ASSUME Height \in Nat, NEW i, NEW leaf
    PROVE  /\ Rehashed(i, leaf)[0] = leaf
           /\ \A k \in 1..Height :
                 Rehashed(i, leaf)[k] =
                    IF heap[Path(i)[k]].left = Path(i)[k - 1]
                       THEN hash(Rehashed(i, leaf)[k - 1], heap[heap[Path(i)[k]].right].node)
                       ELSE hash(heap[heap[Path(i)[k]].left].node, Rehashed(i, leaf)[k - 1])
<1>1. 0 \in 0..Height /\ \A k \in 1..Height : k \in 0..Height /\ k # 0
  OBVIOUS
<1> QED
  BY <1>1, RehashedIs

\* All nodes are at their places still.
LEMMA UpdatePlaced ==
    ASSUME Counted, NEW at, NEW level, NEW first, Placed(at), Queued(at, level, first),
           NEW i \in 0..(leafCount - 1), NEW claim, updateLeaf(i, claim)
    PROVE  Placed(at)'
<1> DEFINE path == Path(i)
           node == Rehashed(i, LeafOf(claim))
<1>1. /\ Built /\ leafCount' = leafCount /\ contents' = [contents EXCEPT ![i + 1] = claim]
  BY DEF updateLeaf
<1>2. /\ DOMAIN heap' = DOMAIN heap
      /\ \A id \in DOMAIN heap :
            /\ DOMAIN heap'[id] = Fields /\ heap'[id].level = heap[id].level
            /\ heap'[id].left = heap[id].left /\ heap'[id].right = heap[id].right
            /\ heap'[id].parent = heap[id].parent
            /\ (\A k \in 0..Height : path[k] # id) => heap'[id].node = heap[id].node
      /\ \A k \in 0..Height : heap'[path[k]].node = node[k]
  BY UpdateChanges
<1>3. /\ path[0] = i /\ path[Height] = Top
      /\ \A k \in 0..Height : path[k] \in DOMAIN heap /\ heap[path[k]].level = k
      /\ \A k \in 1..Height : /\ heap[path[k - 1]].parent = path[k] /\ ~(path[k] < leafCount)
                              /\ heap[path[k]].left # NoId
                              /\ path[k - 1] \in {heap[path[k]].left, heap[path[k]].right}
  BY <1>1, PathFacts
<1>4. Height \in Nat /\ Top \in DOMAIN heap /\ \A id \in DOMAIN heap : heap[id].parent = NoId => id = Top
  BY <1>1, BuiltFacts
<1>5. /\ node[0] = LeafOf(claim)
      /\ \A k \in 1..Height :
            node[k] = IF heap[path[k]].left = path[k - 1]
                         THEN hash(node[k - 1], heap[heap[path[k]].right].node)
                         ELSE hash(heap[heap[path[k]].left].node, node[k - 1])
  BY <1>4, RehashedFacts
<1>6. /\ leafCount \in Nat /\ contents \in Seq(Claims \cup {Empty}) /\ leafCount = Len(contents)
      /\ \A id \in DOMAIN heap : id \in Nat
      /\ width' = width
  BY <1>1, WidthIs DEF Counted, width
<1>7. \A id \in DOMAIN heap :
         /\ heap[id].level \in Nat /\ at[id] \in Nat
         /\ IF id < leafCount THEN IsLeaf(at, id) ELSE IsFiller(at, id) \/ IsJoined(at, id)
         /\ heap[id].parent = NoId \/ HasParent(id)
  BY DEF Placed
<1>8. heap[Top].parent = NoId
  <2>1. 1 \in 1..Len(queue)
    BY <1>1 DEF Built
  <2> QED
    BY <2>1, QueuedIs DEF Top
<1> HIDE DEF path, node
<1>9. \A k \in 0..Height : k = 0 \/ (k \in 1..Height /\ k - 1 \in 0..Height)
  BY <1>4
<1>10. ASSUME NEW id \in DOMAIN heap, id < leafCount PROVE IsLeaf(at, id)'
  <2>1. IsLeaf(at, id)
    BY <1>7, <1>10
  <2>2. CASE id = i
    <3>1. heap'[i].node = LeafOf(claim)
      BY <1>2, <1>3, <1>4, <1>5
    <3>2. contents'[i + 1] = claim
      <4>1. i + 1 \in DOMAIN contents
        BY <1>6, LenProperties
      <4> QED
        BY <1>1, <4>1
    <3> QED
      BY <1>2, <2>1, <2>2, <3>1, <3>2 DEF IsLeaf
  <2>3. CASE id # i
    <3>1. \A k \in 0..Height : path[k] # id
      BY <1>3, <1>9, <1>10, <2>3
    <3>2. contents'[id + 1] = contents[id + 1]
      <4>1. id + 1 \in DOMAIN contents /\ id + 1 # i + 1
        BY <1>6, <1>10, <2>3, LenProperties
      <4> QED
        BY <1>1, <4>1
    <3> QED
      BY <1>2, <2>1, <3>1, <3>2 DEF IsLeaf
  <2> QED
    BY <2>2, <2>3
<1>11. ASSUME NEW id \in DOMAIN heap, ~(id < leafCount), IsFiller(at, id) PROVE IsFiller(at, id)'
  <2>1. heap[id].left = NoId
    BY <1>11 DEF IsFiller
  <2>2. id # i
    BY <1>6, <1>11
  <2>3. \A k \in 0..Height : path[k] # id
    BY <1>3, <1>9, <2>1, <2>2
  <2> QED
    BY <1>2, <1>6, <1>11, <2>3 DEF IsFiller
<1>12. ASSUME NEW id \in DOMAIN heap, ~(id < leafCount), IsJoined(at, id) PROVE IsJoined(at, id)'
  <2> DEFINE a == heap[id].left
             b == heap[id].right
  <2>1. /\ a \in DOMAIN heap /\ b \in DOMAIN heap /\ heap[id].level > 0
        /\ heap[a].level = heap[id].level - 1 /\ at[a] = 2 * at[id] /\ heap[a].parent = id
        /\ heap[b].level = heap[id].level - 1 /\ at[b] = 2 * at[id] + 1 /\ heap[b].parent = id
        /\ heap[id].node = hash(heap[a].node, heap[b].node)
    BY <1>12 DEF IsJoined
  <2> HIDE DEF a, b
  <2>2. id # NoId /\ a # b
    <3>1. id \in Nat /\ at[id] \in Nat
      BY <1>6, <1>7
    <3>2. at[a] # at[b]
      BY <2>1, <3>1
    <3> QED
      BY <3>1, <3>2 DEF NoId
  <2>3. heap'[id].node = hash(heap'[a].node, heap'[b].node)
    <3>1. CASE \E k \in 0..Height : path[k] = id
      <4>1. PICK k \in 0..Height : path[k] = id
        BY <3>1
      <4>2. k \in 1..Height /\ k - 1 \in 0..Height
        <5>1. i < leafCount
          BY <1>6
        <5>2. k # 0
          BY <1>3, <1>12, <4>1, <5>1
        <5> QED
          BY <1>9, <5>2
      <4>3. path[k - 1] \in {a, b} /\ heap[path[k - 1]].level = k - 1 /\ heap'[path[k - 1]].node = node[k - 1]
        BY <1>2, <1>3, <4>1, <4>2 DEF a, b
      <4>4. heap'[id].node = node[k]
        BY <1>2, <4>1
      \* The other child is not on the path.
      <4>5. ASSUME NEW c \in {a, b}, c # path[k - 1] PROVE heap'[c].node = heap[c].node
        <5>1. c \in DOMAIN heap /\ heap[c].level = k - 1
          BY <1>3, <2>1, <4>1, <4>5
        <5>2. \A j \in 0..Height : path[j] # c
          BY <1>3, <4>5, <5>1
        <5> QED
          BY <1>2, <5>1, <5>2
      <4>6. node[k] = IF a = path[k - 1] THEN hash(node[k - 1], heap[b].node)
                                         ELSE hash(heap[a].node, node[k - 1])
        BY <1>5, <4>1, <4>2 DEF a, b
      <4> QED
        BY <2>2, <4>3, <4>4, <4>5, <4>6
    <3>2. CASE ~\E k \in 0..Height : path[k] = id
      <4>1. ASSUME NEW c \in {a, b} PROVE heap'[c].node = heap[c].node
        <5>1. c \in DOMAIN heap /\ heap[c].parent = id
          BY <2>1
        <5>2. ASSUME NEW j \in 0..Height, path[j] = c PROVE FALSE
          <6>1. CASE j = Height
            BY <1>3, <1>8, <2>2, <5>1, <5>2, <6>1
          <6>2. CASE j # Height
            <7>1. j + 1 \in 1..Height /\ (j + 1) - 1 = j /\ j + 1 \in 0..Height
              BY <1>4, <6>2
            <7>2. heap[path[j]].parent = path[j + 1]
              BY <1>3, <7>1
            <7> QED
              BY <3>2, <5>1, <5>2, <7>1, <7>2
          <6> QED
            BY <6>1, <6>2
        <5> QED
          BY <1>2, <5>1, <5>2
      <4> QED
        BY <1>2, <2>1, <3>2, <4>1
    <3> QED
      BY <3>1, <3>2
  <2> QED
    BY <1>2, <2>1, <2>3 DEF IsJoined, a, b
<1>13. ASSUME NEW id \in DOMAIN heap, HasParent(id) PROVE HasParent(id)'
  BY <1>2, <1>13 DEF HasParent
<1>14. at \in [DOMAIN heap' -> Nat]
  BY <1>2 DEF Placed
<1>15. ASSUME NEW id \in DOMAIN heap
       PROVE  /\ DOMAIN heap'[id] = Fields /\ heap'[id].level \in Nat
              /\ IF id < leafCount' THEN IsLeaf(at, id)' ELSE IsFiller(at, id)' \/ IsJoined(at, id)'
              /\ heap'[id].parent = NoId \/ HasParent(id)'
  <2>1. IF id < leafCount' THEN IsLeaf(at, id)' ELSE IsFiller(at, id)' \/ IsJoined(at, id)'
    BY <1>1, <1>7, <1>10, <1>11, <1>12
  <2>2. heap'[id].parent = NoId \/ HasParent(id)'
    BY <1>2, <1>7, <1>13
  <2> QED
    BY <1>2, <1>7, <2>1, <2>2
<1> QED
  BY <1>2, <1>14, <1>15 DEF Placed

\* The queue is the same, and so are the trees that proofs were made for.
LEMMA UpdateInv ==
    ASSUME MerkleInv, NEW i \in 0..(leafCount - 1), NEW claim \in Claims \cup {Empty}, updateLeaf(i, claim)
    PROVE  MerkleInv'
<1>1. PICK at, level, first : Placed(at) /\ Queued(at, level, first)
  BY DEF MerkleInv
<1>2. Counted
  BY DEF MerkleInv
<1>3. /\ Built /\ leafCount' = leafCount /\ contents' = [contents EXCEPT ![i + 1] = claim]
      /\ queue' = queue /\ issued' = issued /\ root' = Rehashed(i, LeafOf(claim))[Height]
  BY DEF updateLeaf
<1>4. /\ DOMAIN heap' = DOMAIN heap
      /\ \A id \in DOMAIN heap : heap'[id].level = heap[id].level /\ heap'[id].parent = heap[id].parent
      /\ \A k \in 0..Height : heap'[Path(i)[k]].node = Rehashed(i, LeafOf(claim))[k]
  BY <1>1, <1>2, UpdateChanges
<1>5. Height \in Nat /\ Top \in DOMAIN heap /\ Path(i)[Height] = Top
  BY <1>1, <1>2, <1>3, BuiltFacts, PathFacts
<1>6. Placed(at)'
  BY <1>1, <1>2, UpdatePlaced
<1>7. Queued(at, level, first)'
  <2>1. width' = width
    BY <1>3 DEF width
  <2> QED
    BY <1>1, <1>3, <1>4, <2>1, ZenonT(30) DEF Queued
<1>8. Counted'
  <2>1. NextId' = NextId
    BY <1>4 DEF NextId
  <2>2. contents' \in Seq(Claims \cup {Empty}) /\ Len(contents') = Len(contents)
    <3>1. contents \in Seq(Claims \cup {Empty}) /\ i + 1 \in 1..Len(contents)
      BY <1>2, WidthIs DEF Counted
    <3> QED
      BY <1>3, <3>1, ExceptSeq
  <2> QED
    BY <1>2, <1>3, <1>4, <2>1, <2>2 DEF Counted
<1>9. Top' = Top /\ Height' = Height /\ Built'
  <2>1. Top' = Top
    BY <1>3 DEF Top
  <2>2. Height' = heap'[Top].level
    BY <2>1 DEF Height
  <2> QED
    BY <1>3, <1>4, <1>5, <2>1, <2>2 DEF Height, Built
<1>10. root' = heap'[Top'].node
  <2>1. Height \in 0..Height
    BY <1>5
  <2>2. heap'[Path(i)[Height]].node = Rehashed(i, LeafOf(claim))[Height]
    BY <1>4, <2>1
  <2> QED
    BY <1>3, <1>5, <1>9, <2>2
<1>11. Issued'
  <2>1. \A p \in issued : IsProof(p)
    BY DEF MerkleInv, Issued
  <2>2. \A p : IsProof(p) => IsProof(p)'
    BY <1>3, <1>9 DEF IsProof
  <2> QED
    BY <1>3, <1>9, <2>1, <2>2 DEF Issued
<1> QED
  BY <1>6, <1>7, <1>8, <1>10, <1>11 DEF MerkleInv

-----------------------------------------------------------------------------
(* A proof is handed out, or nothing happens *)

\* What the invariant says of the tree is about these variables,
LEMMA TreeKept ==
    ASSUME MerkleInv, UNCHANGED <<heap, queue, leafCount, root, contents>>
    PROVE  /\ Counted' /\ (\E at, level, first : Placed(at) /\ Queued(at, level, first))'
           /\ (Built => root = heap[Top].node)' /\ Built' = Built
           /\ \A p : IsProof(p) => IsProof(p)'
<1>1. PICK at, level, first : Placed(at) /\ Queued(at, level, first)
  BY DEF MerkleInv
<1>2. heap' = heap /\ queue' = queue /\ leafCount' = leafCount /\ root' = root /\ contents' = contents
  OBVIOUS
<1>3. NextId' = NextId /\ width' = width /\ Top' = Top /\ Height' = Height /\ Built' = Built
  BY <1>2 DEF NextId, width, Top, Height, Built
<1>4. Counted'
  BY <1>2, <1>3 DEF MerkleInv, Counted
<1>5. Placed(at)'
  BY <1>1, <1>2, <1>3 DEF Placed, IsLeaf, IsFiller, IsJoined, HasParent
<1>6. Queued(at, level, first)'
  BY <1>1, <1>2, <1>3 DEF Queued
<1>7. (Built => root = heap[Top].node)'
  BY <1>2, <1>3 DEF MerkleInv
<1>8. \A p : IsProof(p) => IsProof(p)'
  BY <1>2, <1>3 DEF IsProof
<1> QED
  BY <1>3, <1>4, <1>5, <1>6, <1>7, <1>8

\* and the proof that is handed out is the siblings above its leaf.
LEMMA IssueInv ==
    ASSUME MerkleInv, NEW i \in 0..(leafCount - 1), Issue(i)
    PROVE  MerkleInv'
<1> DEFINE new == [leaf |-> heap[i].node, leafIndex |-> i, proof |-> getProof(i),
                   root |-> root, of |-> contents]
<1>1. Built /\ issued' = issued \cup {new} /\ UNCHANGED <<heap, queue, leafCount, root, contents>>
  BY DEF Issue
<1>2. /\ Height \in Nat /\ contents \in Seq(Claims \cup {Empty}) /\ Len(contents) = leafCount
      /\ root = ReferenceNodes(LeavesOf(contents), Height)[Height][0]
      /\ heap[i].node = LeafOf(contents[i + 1])
      /\ Len(getProof(i)) = Height /\ AreSiblings(getProof(i), LeavesOf(contents), Height, i)
  BY <1>1, BuiltTree
<1>3. /\ new.leaf = heap[i].node /\ new.leafIndex = i
      /\ new.proof = getProof(i) /\ new.root = root /\ new.of = contents
  OBVIOUS
<1> HIDE DEF new
<1>4. IsProof(new)
  BY <1>2, <1>3 DEF IsProof
<1>5. /\ Counted' /\ (\E at, level, first : Placed(at) /\ Queued(at, level, first))'
      /\ (Built => root = heap[Top].node)' /\ Built' = Built
      /\ \A p : IsProof(p) => IsProof(p)'
  BY <1>1, TreeKept
<1>6. \A p \in issued : IsProof(p)
  BY DEF MerkleInv, Issued
<1>7. Issued'
  BY <1>1, <1>4, <1>5, <1>6 DEF Issued
<1> QED
  BY <1>5, <1>7 DEF MerkleInv

-----------------------------------------------------------------------------
(* The theorems *)

\* Every node of the heap has its place in the complete tree, every proof that was
\* handed out is the siblings above a leaf of the tree it was made for.
THEOREM MerkleInvCorrect == Spec => []MerkleInv
<1>1. Init => MerkleInv
  BY MerkleInit
<1>2. MerkleInv /\ [Next]_vars => MerkleInv'
  <2> SUFFICES ASSUME MerkleInv, [Next]_vars PROVE MerkleInv'
    OBVIOUS
  <2>1. CASE Combine
    BY <2>1, CombineInv
  <2>2. ASSUME NEW i \in 0..(leafCount - 1), NEW claim \in Claims \cup {Empty}, updateLeaf(i, claim)
        PROVE  MerkleInv'
    BY <2>2, UpdateInv
  <2>3. ASSUME NEW i \in 0..(leafCount - 1), Issue(i) PROVE MerkleInv'
    BY <2>3, IssueInv
  <2>4. CASE UNCHANGED vars
    <3>1. UNCHANGED <<heap, queue, leafCount, root, contents>> /\ issued' = issued
      BY <2>4 DEF vars
    <3>2. /\ Counted' /\ (\E at, level, first : Placed(at) /\ Queued(at, level, first))'
          /\ (Built => root = heap[Top].node)' /\ Built' = Built
          /\ \A p : IsProof(p) => IsProof(p)'
      BY <3>1, TreeKept
    <3>3. Issued'
      BY <3>1, <3>2 DEF MerkleInv, Issued
    <3> QED
      BY <3>2, <3>3 DEF MerkleInv
  <2> QED
    BY <2>1, <2>2, <2>3, <2>4 DEF Next
<1> QED
  BY <1>1, <1>2, PTL DEF Spec

\* Whatever the number of leaves, filled up or not, and after any updates, the root is
\* that of the complete tree of the leaves (merkle-tree.ts:27-81, 132-150).
THEOREM RootCorrect == Spec => []RootIsThatOfTheLeaves
BY MerkleInvCorrect, RootHolds, PTL

\* The program accepts the proof of every leaf of a tree (merkle-tree.ts:87-130,
\* dephy-rewards lib.rs:252-263).
THEOREM LeavesVerifyCorrect == Spec => []LeavesVerify
BY MerkleInvCorrect, VerifyHolds, PTL

\* It accepts nothing else, whatever the index: a claim for which any proof of known
\* hashes leads to the root is in the tree, at what the index leaves modulo the width of
\* the tree (lib.rs:50-72, 199, 252-263).
THEOREM OnlyLeavesVerifyCorrect == Spec => []OnlyLeavesVerify
BY MerkleInvCorrect, OnlyHolds, PTL

\* A proof is good for as long as no leaf differs from when it was made, and no longer
\* (merkle-tree.ts:87-186).
THEOREM ProofsGoStaleCorrect == Spec => []ProofsGoStale
BY MerkleInvCorrect, StaleHolds, PTL
=============================================================================
