\* One call at a time, of every kind: two repos, one of them a fork.
SPECIFICATION Spec
CONSTANTS
    None = None
    Missing = Missing
    Truncated = Truncated
    Garbled = Garbled
    Procs = {p1}
    Pollers = {p1}
    Operators = {p1}
    Repos = {r1, r2}
    Commits = {c1, c2}
    Tags = {t1}
    Owned = {r1, r2}
    Archived = {}
    Allowlisted = {r1, r2}
    Forks = {r2}
    Bulleted = {c1, c2}
    OptedIn = {c1}
    ForkAllowed = {}
    ForcedScopes = {r1}
    DedupScopes = {None}
    PinRepos = {r1}
    PinCommits = {c2}
    PollArgs <- MCPollArgs
    Pins <- MCPins
INVARIANTS TypeOK CursorSound CursorIntact
PROPERTIES TasksAreGated ForksAreGated ImplementsLedger
