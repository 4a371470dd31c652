\* One call at a time, with faults and crashes.
SPECIFICATION Spec
CONSTANTS
    Calls = {c1}
    MaxAttempts = 3
    Modes = {TRUE, FALSE}
    Tokens = {"native", "erc20"}
    Redeemers = {"one"}
    Allowances = {0, 1, 2}
    Faults = TRUE
INVARIANTS AttestedHasAll TxidsCoverVaas
PROPERTIES ImplementsLifecycle
CHECK_DEADLOCK FALSE
