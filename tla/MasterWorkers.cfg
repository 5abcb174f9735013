\* Two workers that fall silent one after the other, and one request that moves
\* between them: drains, deletions, purges, recoveries and late answers.
CONSTANTS
    Nodes = {w1, w2}
    NoNode = none
    MaxRequests = 1
    Healths = {TRUE, FALSE}
    Reports = {0}
    Overloads = {TRUE, FALSE}
    MaxQueueSize = 1
    MaxRetries = 1
    MaxLapses = 2
SPECIFICATION Spec
INVARIANTS
    OnlyMonitorDuplicates
    TargetsCurrent
    HealthyMeansOllama
PROPERTY
    OnlyRegisterRevives
