\* Is a build that the cap deferred tried again?
SPECIFICATION FairSpec
CONSTANTS
    None = None
    Tags = {t1, t2}
    Epochs = {0, 1}
PROPERTIES DroppedIsRetried
