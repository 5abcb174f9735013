\* Three workers and every list of them; figures below, at and past the
\* threshold.
CONSTANTS
    Nodes = {w1, w2, w3}
    NoNode = none
    Figures = {1, 2, 3}
    Overload = 2
    MaxTurns = 3
SPECIFICATION StratSpec
INVARIANTS
    StratTypeOK
    EvenTurns
    ThresholdIsIdle
