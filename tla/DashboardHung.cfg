\* The code's own interval and timeout; one user who only watches.
CONSTANTS
    Site = {1}
    Poll = 5
    Timeout = 4
    ConfigPoll = 60
    Prompt = 1
    MaxChanges = 0
    MaxTime = 6
SPECIFICATION Spec
INVARIANTS
    HungRequestsDieBeforeTick
CHECK_DEADLOCK FALSE
