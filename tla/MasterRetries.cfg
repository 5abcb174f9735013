\* One request: recoveries take the count of retries past MAX_RETRIES.
CONSTANTS
    Nodes = {w1}
    NoNode = none
    MaxRequests = 1
    Healths = {TRUE}
    Reports = {0}
    Overloads = {FALSE}
    MaxQueueSize = 1
    MaxRetries = 1
    MaxLapses = 1
SPECIFICATION Spec
INVARIANT
    RetriesWithinMax
