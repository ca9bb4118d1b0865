\* Two calls at once on one repo, polls and resets; the poll loop is fair, the other may stop.
SPECIFICATION FairSpec
CONSTANTS
    None = None
    Missing = Missing
    Truncated = Truncated
    Garbled = Garbled
    Procs = {p1, p2}
    Pollers = {p1, p2}
    Operators = {p2}
    Repos = {r1}
    Commits = {c1, c2}
    Tags = {}
    Owned = {r1}
    Archived = {}
    Allowlisted = {r1}
    Forks = {r1}
    Bulleted = {c1}
    OptedIn = {c1, c2}
    ForkAllowed = {c1, c2}
    ForcedScopes = {}
    DedupScopes = {None}
    PinRepos = {}
    PinCommits = {}
    PollArgs <- MCPollArgs
    Pins <- MCPins
INVARIANTS CursorSound
PROPERTIES TasksAreGated EligibleHeadReleased
