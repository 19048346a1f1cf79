\* Two sites; the code's 5, 4 and 60 seconds scaled to 3, 2 and 6, which keeps
\* Timeout < Poll < 2 * Timeout and leaves room for two config fetches.
CONSTANTS
    Site = {1, 2}
    Poll = 3
    Timeout = 2
    ConfigPoll = 6
    Prompt = 1
    MaxChanges = 2
    MaxTime = 8
SPECIFICATION Spec
INVARIANTS
    TypeOK
    ViewIsOfOneSite
    RecoversByItself
PROPERTIES
    NoRollback
CHECK_DEADLOCK FALSE
