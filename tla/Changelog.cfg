\* Every text of up to six lines.
SPECIFICATION Spec
CONSTANTS
    Versions = {v1, v2}
    Section = Section
    Untitled = Untitled
    Bullet = Bullet
    Other = Other
    None = None
    MaxLines = 6
CHECK_DEADLOCK FALSE
INVARIANTS SummaryIsTheReading
