\* One worker that deregisters while its heartbeat loop goes on: it can be put
\* back into the schedule by a registration that is handled later.
CONSTANTS
    Nodes = {w1}
    NoNode = none
    MaxRequests = 0
    Healths = {TRUE, FALSE}
    Reports = {0}
    Overloads = {FALSE}
    MaxAttempts = 2
SPECIFICATION MembSpec
INVARIANT
    DeregisteredIsExcluded
