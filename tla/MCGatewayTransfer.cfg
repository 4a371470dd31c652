\* Two slots for calls, two attempts to initiate, one fault.
SPECIFICATION FairSpec
CONSTANTS
    Calls = {c1, c2}
    Routes = {"in", "out", "through"}
    Allowances = {0, 2}
    MaxAttempts = 2
    MaxFaults = 1
INVARIANTS NothingFailedIsAttested OwnVaa
PROPERTIES ReturnsOneLeg ImplementsWhileAlone ReachesItsEnd
CHECK_DEADLOCK FALSE
