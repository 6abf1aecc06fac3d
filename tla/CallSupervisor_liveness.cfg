\* A caller and its child compete for one permit; one generation.
SPECIFICATION FairSpec
CONSTANTS
    Roots = {r1}
    Children = {c1}
    Tokens = {1, 2, 3}
    MaxEpoch = 1
    Limit = 1
    MaxDepth = 2
PROPERTIES
    Quiesces
    ImplementsAdmission
