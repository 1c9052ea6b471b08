\* Two calls at a time of three, two goroutines of the mediator.
CONSTANTS
    Callers = {c1, c2}
    Handlers = {h1, h2}
    Workers = {w1}
    MaxCalls = 3
    MaxMessages = 1
    MaxUnregisters = 1
    MaxOutages = 1
    MaxTroubles = 1
SPECIFICATION FairSpec
\* The agents stop when everybody has what they asked for.
CHECK_DEADLOCK FALSE
INVARIANT TypeOK
INVARIANT RegisteredIsGranted
INVARIANT PublishedIsRouted
INVARIANT MessagesArrive
PROPERTY CallsReturn
PROPERTY AnswersAreTaken
