\* A message delivered twice, two answers at a time, a failure.
CONSTANTS
    Prover = Prover
    Verifier = Verifier
    Handlers = {h1, h2}
    Listener = Listener
    Opening = "request-confirm"
    ByEvent = {Prover}
    MaxRounds = 0
    MaxDuplicates = 1
    MaxDoubles = 1
    MaxFailures = 1
    MaxCrashes = 0
SPECIFICATION Spec
SYMMETRY Symmetry
\* The thread stops once it is over.
CHECK_DEADLOCK FALSE
INVARIANT TypeOK
INVARIANT AcceptedMeansSaved
