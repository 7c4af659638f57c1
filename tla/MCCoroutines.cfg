SPECIFICATION FairSpec
CONSTANTS
    MaxCo = 5
    MaxFd = 6
    MaxOpen = 2
    MaxConns = 2
    MaxForks = 2
    Faults = {"nomem"}
INVARIANTS
    EachInOnePlace
    WakesTheRightOne
    

    
CHECK_DEADLOCK FALSE
