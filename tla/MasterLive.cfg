\* One worker, two requests, a queue of one place: every caller is answered and
\* every request comes to rest.
CONSTANTS
    Nodes = {w1}
    NoNode = none
    MaxRequests = 2
    Healths = {TRUE}
    Reports = {0}
    Overloads = {FALSE}
    MaxQueueSize = 1
    MaxRetries = 1
    MaxLapses = 1
SPECIFICATION FairSpec
PROPERTIES
    EveryCallerAnswered
    EveryRequestComesToRest
