----------------------------- MODULE MCRewardsCli -----------------------------
(* Instances of RewardsCli for TLC. *)
EXTENDS RewardsCli

CONSTANTS a, b

MCFiles == { << <<b, 1>>, <<a, 1>> >>, << <<b, 1>>, <<a, 2>> >> }
MCTrees == {{}} \cup {TreeOf(file) : file \in MCFiles}
MCSlots == { <<"ballot box", 80>> }

=============================================================================
