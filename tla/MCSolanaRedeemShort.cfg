\* VAAs with a signature that begins with a zero.
SPECIFICATION Spec
CONSTANTS
    Calls = {1}
    Digits = 2
    Vaas <- MCShortVaas
    MaxFaults = 0
PROPERTIES VerificationsPass
CHECK_DEADLOCK FALSE
