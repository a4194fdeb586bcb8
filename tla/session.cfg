SPECIFICATION FairSpec
CONSTANTS
    MaxConnects = 2
    MaxRequests = 2
    MaxEvents = 5
INVARIANTS TypeOK AnswersMatch ThreadsOutlived NotifiedForCause
PROPERTIES RequestReturns
CHECK_DEADLOCK FALSE
