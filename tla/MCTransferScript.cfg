\* The documented order of calls, with up to two faults.
SPECIFICATION ScriptSpec
CONSTANTS
    Calls = {c1}
    MaxAttempts = 2
    Modes = {TRUE, FALSE}
    Tokens = {"native", "erc20"}
    Redeemers = {"any", "one"}
    Allowances = {0, 1}
    Faults = TRUE
    MaxFaults = 2
INVARIANTS CallsAreValid ReturnMeansDelivered
PROPERTIES FundsArrive ScriptEnds
CHECK_DEADLOCK FALSE
