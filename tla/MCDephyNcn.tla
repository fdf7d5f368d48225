----------------------------- MODULE MCDephyNcn -----------------------------
(* Instances of DephyNcn for TLC. *)
EXTENDS ConnectedNcn

CONSTANTS o1, o2, o3, v1, v2, admin1, admin2

\* Every operator has its own admin, except that o2 and o3 share one.
MCOperatorAdmin == [o \in Operators |-> IF o = o1 THEN admin1 ELSE admin2]

\* The stakes and the supply of v1 move.  v2 stays a small vault, with a supply of
\* one and no stake for o1.
ConnectedInit ==
    /\ Connected
    /\ vrtSupply[v2] = 1
    /\ staked[v2] = [o \in Operators |-> IF o = o1 THEN 0 ELSE 1]
    /\ vrtSupply[v1] # 1
    /\ \A o \in Operators : staked[v1][o] # 0

ConnectedNext ==
    \/ Voting
    \/ AdvanceEpoch
    \/ \E o \in Operators, amount \in StakeAmounts \ {0} : SetDelegation(v1, o, amount)
    \/ \E amount \in SupplyAmounts \ {1} : SetSupply(v1, amount)

ConnectedSpec == ConnectedInit /\ [][ConnectedNext]_vars

=============================================================================
