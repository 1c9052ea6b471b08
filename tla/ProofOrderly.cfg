\* Restarts, and nothing else going wrong.
CONSTANTS
    Prover = Prover
    Verifier = Verifier
    Handlers = {h1, h2}
    Listener = Listener
    Opening = "propose"
    ByEvent = {Verifier}
    MaxRounds = 1
    MaxDuplicates = 0
    MaxDoubles = 0
    MaxFailures = 0
    MaxCrashes = 2
SPECIFICATION FairSpec
\* The thread stops once it is over.
CHECK_DEADLOCK FALSE
INVARIANT NobodyIsSurprised
INVARIANT PromiseIsKept
PROPERTY ImplementsFulfilment
PROPERTY ThreadSettles
