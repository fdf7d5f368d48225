---------------------------- MODULE ConnectedNcn ----------------------------
(* A network that is set up, the state deploy_steps.md ends in: the runs that are *)
(* about votes start from here, so that their bounds are spent on votes.          *)
EXTENDS DephyNcn

\* Every account exists, every operator has a ticket with every vault and some
\* delegation.
Connected ==
    /\ epoch = 0
    /\ ncnInitialized = TRUE
    /\ ballotBox = EmptyBallotBox
    /\ voterAccounts = Operators
    /\ lastVotedEpoch = [o \in Operators |-> 0]
    /\ ncnOperatorState = [o \in Operators |-> "warm"]
    /\ ncnVaultTicket = [v \in Vaults |-> "warm"]
    /\ operatorVaultTicket = Operators \X Vaults
    /\ staked \in [Vaults -> [Operators -> StakeAmounts]]
    /\ vrtSupply \in [Vaults -> SupplyAmounts]
    /\ votes = [o \in Operators |-> NoBallot]

\* Stakes, supplies and tickets stay what they are.
SteadyNetwork == UNCHANGED <<ticketVars, jitoVars>>

=============================================================================
