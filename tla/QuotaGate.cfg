\* Two repos; a window holds one full scan and one request more.
SPECIFICATION FairSpec
CONSTANTS
    FirstRepo = FirstRepo
    LastRepo = LastRepo
    Fleet <- MCFleet
    Window = 4
    QuotaMin = 2
    MaxRestarts = 1
INVARIANTS TypeOK
PROPERTIES MissedOnlyBehindGate StallShows
