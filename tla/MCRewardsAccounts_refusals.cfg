\* One rewards state, a root at an offset beyond every account, indices that go round the tree.
CONSTANTS
    state1 = state1
    state2 = state2
    StateKeys = {state1}
    Users <- MCUsers
    Mint <- MCMint
    TokenProgram <- MCTokenProgram
    Trees <- MCTrees
    Places <- MCPlaces
    Laps = {0, 1}
    RootAccount <- MCRootAccount
    RootsAt <- MCRootsAt
    Roots <- MCRootsFar
    MaxU64 <- MCMaxU64
    Supply = 3
SPECIFICATION Spec
VIEW WithoutSent

INVARIANTS
    EntitledIsServed
    RefusalsAreTold
