\* One agent rotates twice, the second time when the first rotation is acknowledged,
\* one goroutine in each agent and no trouble.
CONSTANTS
    Agents = {A, B}
    Workers = {w1}
    Rotating = {A}
    Patient = TRUE
    MaxRotations = 2
    MaxSends = 4
    MaxTroubles = 0
SPECIFICATION Spec
INVARIANT NewDIDIsAccepted
\* The agents stop when they have sent what they may.
CHECK_DEADLOCK FALSE
