\* One worker and two requests that share a queue of one place: retries, puts
\* that block, recoveries, late answers and callers that give up.
CONSTANTS
    Nodes = {w1}
    NoNode = none
    MaxRequests = 2
    Healths = {TRUE, FALSE}
    Reports = {0}
    Overloads = {FALSE}
    MaxQueueSize = 1
    MaxRetries = 1
    MaxLapses = 1
SPECIFICATION Spec
INVARIANTS
    TypeOK
    NoLostTask
    NoLostWakeup
    SingleFlight
    RetryBound
PROPERTIES
    RestIsFinal
    KeepsContract
