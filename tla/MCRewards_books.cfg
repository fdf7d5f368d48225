\* Two rewards states of one mint, with trees that have one or two leaves of an owner;
\* a claim from one may be paid into the vault of the other, or back into its own.
CONSTANTS
    a = a
    b = b
    States = {s1, s2}
    Owners = {a, b}
    Keys = {k1}
    NoKey = NoKey
    Trees <- MCTrees
    Slots = {p80}
    Wallet = Wallet
    Amounts = {2}
    TokenSupply = 2
SPECIFICATION RewardsSpec
INVARIANTS
    RewardsTypeOK
    VaultBalances
    NoOverpayment
PROPERTIES
    PayoutIsBacked
