\* Two operators, both of whose votes a consensus takes; votes may land late, twice or never.
CONSTANTS
    v1 = v1
    r0 = r0
    r1 = r1
    r2 = r2
    Operators = {o1, o2}
    Vaults = {v1}
    NoVault = NoVault
    Roots = {r0, r1, r2}
    ZeroRoot = r0
    Signers = {admin1}
    OperatorAdmin <- MCOperatorAdmin
    StakeAmounts = {2}
    SupplyAmounts = {6}
    U64Max = 12
    MaxEpoch = 2
    VaultOf <- MCVaultOf
    MockedRoot <- MCMockedRoot
    MaxStrays = 1
SPECIFICATION MCFairSpec
INVARIANTS
    RootIsOfItsEpoch
PROPERTIES
    EpochSettles
