\* The consumer and the backstop dispatch at once; the cap is two builds, and a
\* create may land late.  One repo's recipe has no service annotation.
SPECIFICATION Spec
CONSTANTS
    Callers = {consumer, backstop}
    Repos = {r1, r2}
    Tags = {t1}
    Labelled = {t1}
    AutoBuild = {r1, r2}
    Unannotated = {r2}
    Unlisted = {}
    Recipes <- MCRecipes
    Listed <- MCListed
    Service <- MCService
    JobNames = {j1, j2, j3, j4, j5}
    NoRequest = NoRequest
    NoService = NoService
    MaxConcurrent = 2
    MaxLate = 1
SYMMETRY CallerJobSymmetry
INVARIANTS TypeOK DuplicatesBounded CapPerTag
PROPERTIES FailsClosed
