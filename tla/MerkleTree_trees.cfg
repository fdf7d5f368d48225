\* Trees of up to five claims, filled up or not, and updates; proofs from before and
\* after updates of trees of up to four leaves, with indices of one bit more than these
\* trees have levels.
CONSTANTS
    Owners = {a}
    Totals = {1, 2}
    MaxClaims = 5
    MaxIssued = 1
    MaxProved = 4
    MaxIndex = 7
SPECIFICATION Spec
INVARIANTS
    RootIsThatOfTheLeaves
    LeavesVerify
    OnlyLeavesVerify
    ProofsGoStale
