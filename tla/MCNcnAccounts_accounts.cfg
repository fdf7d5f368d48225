\* Two NCNs, two operators and a vault, and callers who give any accounts of theirs.
SPECIFICATION Spec
CONSTANTS
    Bases = {b1, b2}
    Operators = {o1, o2}
    Vaults = {v1}
    NoVault = NoVault
    Keys = {o1, o2}
    OperatorAdmin <- MCOperatorAdmin
    Roots = {r0, r1}
    ZeroRoot = r0
    StakeAmounts = {1}
    SupplyAmounts = {2, 3}
    U64Max = 4
    MaxEpoch = 1
    MaxVoters = 2
SYMMETRY Symmetric
INVARIANT NcnAccountsTypeOK
INVARIANT CommandsSuffice
PROPERTY ImplementsDephyNcn
