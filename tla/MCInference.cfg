\* One worker and two calls: answers, timeouts, late requests and heartbeats.
CONSTANTS
    Nodes = {w1}
    NoNode = none
    MaxRequests = 0
    Healths = {TRUE}
    Reports = {0}
    Overloads = {FALSE}
    Figures <- FiguresMC
    FullCount = 2
    MaxCalls = 2
SPECIFICATION InfFairSpec
INVARIANTS
    InfTypeOK
    ActiveIsRunning
    CreditedWasServed
    BusyNeedsGpu
PROPERTIES
    CountFollowsPosts
    SettledTillDispatch
    BooksSettle
