\* A branch push, two tags (one of them poison) and /trigger; one restart.
SPECIFICATION FairSpec
CONSTANTS
    None = None
    Malformed = Malformed
    Repos = {r1}
    Tags = {t1, t2}
    Poison = {t2}
    Handlers = {h1}
    Deliveries <- MCDeliveries
    MaxCommands = 2
    MaxRestarts = 1
INVARIANTS TypeOK SwallowedIsCovered
PROPERTIES ImplementsQueue CommandsExecuted
