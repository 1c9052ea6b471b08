\* Each agent rotates its DID once; five messages, and one trouble on the way.
CONSTANTS
    Agents = {A, B}
    Workers = {w1, w2}
    Rotating = {A, B}
    Patient = TRUE
    MaxRotations = 1
    MaxSends = 5
    MaxTroubles = 1
SPECIFICATION Spec
INVARIANT TypeOK
INVARIANT StaysReachable
\* The agents stop when they have sent what they may.
CHECK_DEADLOCK FALSE
SYMMETRY Symmetry
