SPECIFICATION Spec
CONSTANTS
    a1 = a1
    a2 = a2
    q1 = q1
    q2 = q2
    Accounts = {a1, a2}
    Casts <- MCCasts
    Devices = {v1}
    NoDevice = none
    Requests = {q1, q2}
    MaxAttempts = 2
    MaxAddresses = 1
    MaxCalls = 4
    MaxFaults = 1
SYMMETRY Symmetry
CHECK_DEADLOCK FALSE
INVARIANTS
    AccountsAreSound
    OneSession
    LockoutHolds
    SuperRemains
    SuspendedIsIdle
