\* Two calls in flight, with faults and crashes.
SPECIFICATION FairSpec
CONSTANTS
    Calls = {c1, c2}
    MaxAttempts = 2
    Modes = {TRUE, FALSE}
    Allowances = {0, 1}
    Faults = TRUE
INVARIANTS ParsesABurn SubmitsAttested
PROPERTY CallEnds
CHECK_DEADLOCK FALSE
