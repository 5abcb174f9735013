\* Two workers, two requests: a worker deleted and registered again while the
\* monitor waits for room in the queue is marked unhealthy when it goes on.
CONSTANTS
    Nodes = {w1, w2}
    NoNode = none
    MaxRequests = 2
    Healths = {TRUE}
    Reports = {0}
    Overloads = {FALSE}
    MaxQueueSize = 1
    MaxRetries = 1
    MaxLapses = 2
SPECIFICATION Spec
PROPERTY
    MonitorSparesTheLive
