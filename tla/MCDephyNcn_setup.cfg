\* The whole life of a network of two operators and one vault, from no account
\* at all.
CONSTANTS
    o1 = o1
    o2 = o2
    o3 = o3
    v1 = v1
    v2 = v2
    admin1 = admin1
    admin2 = admin2
    Operators = {o1, o2}
    Vaults = {v1}
    NoVault = NoVault
    ZeroRoot = rZ
    Roots = {rZ, rA}
    Signers = {admin1, admin2}
    OperatorAdmin <- MCOperatorAdmin
    StakeAmounts = {1, 4}
    SupplyAmounts = {3}
    U64Max = 6
    MaxEpoch = 2
SPECIFICATION Spec
INVARIANTS
    TypeOK
    SetupOrder
    EpochOrder
    TallyMatchesVotes
