\* One call at a time, without faults.
SPECIFICATION Spec
CONSTANTS
    Calls = {c1}
    MaxAttempts = 3
    Modes = {TRUE, FALSE}
    Tokens = {"native", "erc20"}
    Redeemers = {"any", "one"}
    Allowances = {0, 1, 2}
    Faults = FALSE
PROPERTY InitiateReturnsHashes
CHECK_DEADLOCK FALSE
