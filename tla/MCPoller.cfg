SPECIFICATION FairSpec
CONSTANTS
    MaxRetries = 4
    MaxLag = 3
    MaxRejects = 2
INVARIANTS
    GivesUpOnlyWhenExhausted
    CallsBounded
PROPERTIES
    QuietOnceSettled
    Settles
CHECK_DEADLOCK FALSE
