\* Two calls in flight on one object, with faults and crashes.
SPECIFICATION Spec
CONSTANTS
    Calls = {c1, c2}
    MaxAttempts = 2
    Modes = {TRUE, FALSE}
    Tokens = {"native", "erc20"}
    Redeemers = {"one"}
    Allowances = {0, 1}
    Faults = TRUE
INVARIANTS VaasDistinct RedeemsSigned
PROPERTIES CompleteReturnsAll FetchReturnsAll NeverSetBack
CHECK_DEADLOCK FALSE
