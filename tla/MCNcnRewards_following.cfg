\* Two operators and one vault; a rewards state that follows the ballot box.
CONSTANTS
    a = a
    b = b
    Operators = {o1, o2}
    Vaults = {v1}
    NoVault = NoVault
    Roots <- MCRoots
    ZeroRoot = {}
    Signers = {admin1}
    OperatorAdmin <- MCOperatorAdmin
    StakeAmounts = {0, 1, 2}
    SupplyAmounts = {4}
    U64Max = 8
    MaxEpoch = 2
    States = {s1}
    Owners = {a, b}
    Keys = {k1}
    NoKey = NoKey
    Wallet = Wallet
    Amounts = {1, 2}
    TokenSupply = 3
SPECIFICATION ConnectedSpec
INVARIANTS
    PaidOnlyWhatWasAgreed
    ClaimableWasAgreed
    NoOwnerLockedOut
