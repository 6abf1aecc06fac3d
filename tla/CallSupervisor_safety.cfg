\* Two callers, one child task and one permit; one reopening.
SPECIFICATION Spec
CONSTANTS
    Roots = {r1, r2}
    Children = {c1}
    Tokens = {1, 2, 3}
    MaxEpoch = 2
    Limit = 1
    MaxDepth = 2
SYMMETRY RootSymmetry
INVARIANTS
    TypeOK
    AccountsExact
    OneGenerationPerTask
    NothingLeaks
PROPERTIES
    IdleStays
    DrainAdmitsNestedOnly
    StartsOnCurrent
