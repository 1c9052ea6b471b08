\* Restarts, and nothing else going wrong.
CONSTANTS
    Holder = Holder
    Issuer = Issuer
    Handlers = {h1, h2}
    Listener = Listener
    Opening = "propose"
    ByEvent = {Issuer}
    MaxRounds = 2
    MaxDuplicates = 0
    MaxDoubles = 0
    MaxFailures = 0
    MaxCrashes = 2
SPECIFICATION FairSpec
\* The thread stops once it is over.
CHECK_DEADLOCK FALSE
INVARIANT NobodyIsSurprised
PROPERTY DoneIsFinal
PROPERTY ImplementsFulfilment
PROPERTY ThreadSettles
