\* Everything that can go wrong, at once.
CONSTANTS
    Invitee = Invitee
    Inviter = Inviter
    Handlers = {h1, h2}
    Listener = Listener
    Opening = "invitation"
    Listening = {}
    Duplicates = TRUE
    AnswerTwice = TRUE
    Durable = FALSE
    NoDID = NoDID
    NoMsg = NoMsg
    MaxConns = 2
    MaxAccepts = 2
    MaxFailures = 1
    MaxCrashes = 1
SPECIFICATION Spec
SYMMETRY Symmetry
\* The exchange stops once it is over.
CHECK_DEADLOCK FALSE
INVARIANT TypeOK
INVARIANT WaitingIsAnswerable
INVARIANT LearnedIsPersisted
INVARIANT InviterCompletesLast
