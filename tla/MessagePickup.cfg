\* Every interleaving of two calls with two goroutines of the mediator, one trouble.
CONSTANTS
    Mediators = {w1, w2}
    Callers = {c1, c2}
    Handlers = {h1}
    Nobody = Nobody
    BatchSize = 1
    MaxMessages = 2
    MaxCalls = 2
    MaxTroubles = 1
SPECIFICATION FairSpec
\* The agent and the mediator stop when everything is delivered.
CHECK_DEADLOCK FALSE
INVARIANT TypeOK
INVARIANT NothingIsLost
PROPERTY EverythingReturns
PROPERTY AnswersAreTaken
PROPERTY ImplementsMailbox
