\* A scoped check of a fork that did not set allowFork.
SPECIFICATION Spec
CONSTANTS
    None = None
    Missing = Missing
    Truncated = Truncated
    Garbled = Garbled
    Procs = {p1}
    Pollers = {p1}
    Operators = {p1}
    Repos = {r1}
    Commits = {c1, c2}
    Tags = {t1}
    Owned = {r1}
    Archived = {}
    Allowlisted = {r1}
    Forks = {r1}
    Bulleted = {c1}
    OptedIn = {c1, c2}
    ForkAllowed = {}
    ForcedScopes = {}
    DedupScopes = {None, r1}
    PinRepos = {}
    PinCommits = {}
    PollArgs <- MCPollArgs
    Pins <- MCPins
PROPERTIES ForksAreGated
