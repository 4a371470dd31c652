\* One call at a time, with faults and crashes.
SPECIFICATION Spec
CONSTANTS
    Calls = {c1}
    MaxAttempts = 3
    Modes = {TRUE, FALSE}
    Allowances = {0, 1, 2}
    Faults = TRUE
INVARIANTS AttestedHasAttestation AttestationMatchesId
PROPERTIES CompleteReturnsMinted ImplementsLifecycle
CHECK_DEADLOCK FALSE
