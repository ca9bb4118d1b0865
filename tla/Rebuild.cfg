\* One caller alone: is a published image ever built again?
SPECIFICATION Spec
CONSTANTS
    Callers = {consumer}
    Repos = {r1}
    Tags = {t1}
    Labelled = {t1}
    AutoBuild = {r1}
    Unannotated = {}
    Unlisted = {}
    Recipes <- MCRecipes
    Listed <- MCListed
    Service <- MCService
    JobNames = {j1, j2}
    NoRequest = NoRequest
    NoService = NoService
    MaxConcurrent = 1
    MaxLate = 0
PROPERTIES NeverRebuilt
