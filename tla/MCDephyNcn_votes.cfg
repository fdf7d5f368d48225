\* Three operators and two vaults over three epochs; the stakes and the supply of one of
\* the vaults move between votes.
CONSTANTS
    o1 = o1
    o2 = o2
    o3 = o3
    v1 = v1
    v2 = v2
    admin1 = admin1
    admin2 = admin2
    Operators = {o1, o2, o3}
    Vaults = {v1, v2}
    NoVault = NoVault
    ZeroRoot = rZ
    Roots = {rZ, rA}
    Signers = {admin1, admin2}
    OperatorAdmin <- MCOperatorAdmin
    StakeAmounts = {0, 1, 4}
    SupplyAmounts = {1, 5, 6}
    U64Max = 11
    MaxEpoch = 3
SPECIFICATION ConnectedSpec
INVARIANTS
    PublishedRootIsVoted
    TallyMatchesVotes
PROPERTIES
    ConsensusIsBacked
    ConsensusIsNotMissed
    BallotOnlyGrows
    ImplementsEpochConsensus
