---------------------------- MODULE MCNcnRewards ----------------------------
(* Instances of NcnRewards for TLC, from a network that is set up. *)
EXTENDS NcnRewards, ConnectedNcn

CONSTANTS a, b

MCRoots == { {}, {<<a, 1>>}, {<<a, 2>>, <<b, 1>>} }
MCOperatorAdmin == [o \in Operators |-> CHOOSE k \in Signers : TRUE]

ConnectedInit == Connected /\ R!RewardsInit /\ agreed = {} /\ grown = TRUE

ConnectedNext == SystemNext /\ SteadyNetwork /\ FollowsConsensus

ConnectedSpec == ConnectedInit /\ [][ConnectedNext]_systemVars

=============================================================================
