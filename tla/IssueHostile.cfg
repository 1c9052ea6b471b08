\* A message delivered twice, two calls of the holder's client at a time, a failure, a
\* restart.
CONSTANTS
    Holder = Holder
    Issuer = Issuer
    Handlers = {h1, h2}
    Listener = Listener
    Opening = "request"
    ByEvent = {Issuer}
    MaxRounds = 0
    MaxDuplicates = 1
    MaxDoubles = 1
    MaxFailures = 1
    MaxCrashes = 1
SPECIFICATION Spec
SYMMETRY Symmetry
\* The thread stops once it is over.
CHECK_DEADLOCK FALSE
INVARIANT TypeOK
INVARIANT AckMeansSaved
