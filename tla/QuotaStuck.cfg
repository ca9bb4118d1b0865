\* Does a deferred full scan resume once the quota is back?
SPECIFICATION FairSpec
CONSTANTS
    FirstRepo = FirstRepo
    LastRepo = LastRepo
    Fleet <- MCFleet
    Window = 4
    QuotaMin = 2
    MaxRestarts = 1
PROPERTIES ScanResumes
