SPECIFICATION Spec
CONSTANTS
    u1 = u1
    u2 = u2
    Users = {u1, u2}
    MaxChannels = 2
    MaxMade = 2
    MaxRequests = 2
    MaxSaid = 2
    MaxBoth = 3
SYMMETRY Symmetry
CHECK_DEADLOCK FALSE
INVARIANTS TypeOK OwnAnswer NumbersAgree KeptForCause SleepersServed
