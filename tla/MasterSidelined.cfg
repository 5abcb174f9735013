\* A worker that falls silent, comes back and falls silent again, also while the
\* monitor is blocked in the full queue: it leaves the schedule.
CONSTANTS
    Nodes = {w1}
    NoNode = none
    MaxRequests = 2
    Healths = {TRUE}
    Reports = {0}
    Overloads = {FALSE}
    MaxQueueSize = 1
    MaxRetries = 0
    MaxLapses = 2
SPECIFICATION FairSpec
PROPERTY
    SilentWorkerSidelined
