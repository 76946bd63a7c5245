CONSTANTS
    MaxRetriesIfBindError = 3
    Goroutines = {"pubsubLoop", "pocRefresh", "connCheck", "printStats", "extLoggers"}
SPECIFICATION Spec
CHECK_DEADLOCK FALSE
INVARIANT FailedConstructionStopsGoroutines
