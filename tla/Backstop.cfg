\* Tags come, go and move under the backstop's scans.
SPECIFICATION FairSpec
CONSTANTS
    None = None
    Tags = {t1, t2, t3}
    Epochs = {0, 1}
INVARIANTS TypeOK PicksTheNewest
PROPERTIES NewestIsRecorded SettlesOnNewest
