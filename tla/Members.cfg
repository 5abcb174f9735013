\* One worker that joins, stays, leaves or crashes while calls are lost or late,
\* the operator removes it and the master restarts.
CONSTANTS
    Nodes = {w1}
    NoNode = none
    MaxRequests = 0
    Healths = {TRUE}
    Reports = {0}
    Overloads = {FALSE}
    MaxAttempts = 3
SPECIFICATION MembFairSpec
INVARIANT
    MembTypeOK
PROPERTIES
    SidelinedForGood
    GoneIsSidelined
    ServingIsKnown
    TargetsCatchUp
