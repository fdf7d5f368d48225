------------------------- MODULE MCRewardsAccounts -------------------------
(* Instances of RewardsAccounts for TLC. *)
EXTENDS RewardsAccounts, TLC

CONSTANTS state1, state2

alice == Bytes32("alice")
bob == Bytes32("bob")

MCUsers == {alice, bob}
MCMint == Bytes32("mint")
MCTokenProgram == Bytes32("Tokenz")
MCRootAccount == Bytes32("ballot box")

tree1 == Bytes32("tree1")
tree2 == Bytes32("tree2")

\* A state is what the program and the tokens are in, not what was sent last: the next
\* steps, and the books, are the same, and TLC checks every step by itself.
WithoutSent == <<accountData, tokens, paid>>

StateSymmetry == Permutations({state1, state2})

MCTrees == [hash \in {tree1, tree2} |->
               IF hash = tree1 THEN << <<alice, 0>>, <<bob, 1>> >> ELSE << <<alice, 1>>, <<bob, 2>> >>]
MCPlaces == [hash \in {tree1, tree2} |-> 2]

MCMaxU64 == 255
MCRoots == {Inplace(tree1), External(MCRootAccount, 80)}
MCRootsFar == MCRoots \cup {External(MCRootAccount, 230)}
MCRootsAt == [offset \in {80} |-> tree2]

=============================================================================
