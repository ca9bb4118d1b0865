\* Two calls at once: is the saved file ever incomplete?
SPECIFICATION Spec
CONSTANTS
    None = None
    Missing = Missing
    Truncated = Truncated
    Garbled = Garbled
    Procs = {p1, p2}
    Pollers = {p1, p2}
    Operators = {p1, p2}
    Repos = {r1}
    Commits = {c1, c2}
    Tags = {t1}
    Owned = {r1}
    Archived = {}
    Allowlisted = {r1}
    Forks = {}
    Bulleted = {c1}
    OptedIn = {c1, c2}
    ForkAllowed = {}
    ForcedScopes = {}
    DedupScopes = {None}
    PinRepos = {}
    PinCommits = {}
    PollArgs <- MCPollArgs
    Pins <- MCPins
INVARIANTS CursorIntact
