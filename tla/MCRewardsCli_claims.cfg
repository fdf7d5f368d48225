\* One claimant, whose runs may be given up, and a careful administrator who sets
\* up a rewards state, funds it, and publishes two files, in place or externally.
CONSTANTS
    a = a
    b = b
    States = {s1}
    Owners = {a, b}
    Keys = {k1}
    NoKey = NoKey
    Trees <- MCTrees
    Slots <- MCSlots
    Wallet = Wallet
    Amounts = {2}
    TokenSupply = 2
    Files <- MCFiles
    Claimants = {a}
    Admin = Admin
    CliKey = k1
    NoAccount = NoAccount
    Nothing = Nothing
    MaxStrays = 1
SPECIFICATION CarefulSpec
INVARIANTS
    CliTypeOK
    ConfirmedIsPaid
    NeverLockedOut
PROPERTIES
    ImplementsCumulative
    EntitledGetsPaid
