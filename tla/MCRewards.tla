------------------------------ MODULE MCRewards ------------------------------
(* Instances of Rewards for TLC. *)
EXTENDS Rewards

CONSTANTS a, b

MCTrees == { {}, {<<a, 1>>, <<a, 2>>, <<b, 1>>}, {<<a, 1>>, <<b, 2>>} }

=============================================================================
