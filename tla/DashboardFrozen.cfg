\* As Dashboard.cfg, up to the time after which the banner is due.
CONSTANTS
    Site = {1}
    Poll = 3
    Timeout = 2
    ConfigPoll = 6
    Prompt = 1
    MaxChanges = 0
    MaxTime = 11
SPECIFICATION Spec
INVARIANTS
    FrozenIsFlagged
CHECK_DEADLOCK FALSE
