\* One operator over three epochs; votes may land in any later epoch, up to three times or
\* never, and the process crashes at any point.
CONSTANTS
    v1 = v1
    r0 = r0
    r1 = r1
    r2 = r2
    Operators = {o1}
    Vaults = {v1}
    NoVault = NoVault
    Roots = {r0, r1, r2}
    ZeroRoot = r0
    Signers = {admin1}
    OperatorAdmin <- MCOperatorAdmin
    StakeAmounts = {2}
    SupplyAmounts = {4}
    U64Max = 8
    MaxEpoch = 3
    VaultOf <- MCVaultOf
    MockedRoot <- MCMockedRoot
    MaxStrays = 2
SPECIFICATION MCFairSpec
INVARIANTS
    MockTypeOK
    BelievedIsVoted
PROPERTIES
    EveryoneVotes
