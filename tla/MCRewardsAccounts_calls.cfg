\* Two rewards states, two users, each of whom may give the accounts of the other.
CONSTANTS
    state1 = state1
    state2 = state2
    StateKeys = {state1, state2}
    Users <- MCUsers
    Mint <- MCMint
    TokenProgram <- MCTokenProgram
    Trees <- MCTrees
    Places <- MCPlaces
    Laps = {0}
    RootAccount <- MCRootAccount
    RootsAt <- MCRootsAt
    Roots <- MCRoots
    MaxU64 <- MCMaxU64
    Supply = 1
SPECIFICATION Spec
SYMMETRY StateSymmetry
VIEW WithoutSent

INVARIANTS
    AccountsTypeOK
PROPERTIES
    ImplementsRewards
    ChangesAreExplained
