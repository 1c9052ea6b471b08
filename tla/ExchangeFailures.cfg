\* Failing stores and transports, and restarts.
CONSTANTS
    Invitee = Invitee
    Inviter = Inviter
    Handlers = {h1, h2}
    Listener = Listener
    Opening = "implicit"
    Listening = {Inviter}
    Duplicates = FALSE
    AnswerTwice = FALSE
    Durable = TRUE
    NoDID = NoDID
    NoMsg = NoMsg
    MaxConns = 1
    MaxAccepts = 1
    MaxFailures = 2
    MaxCrashes = 2
SPECIFICATION Spec
SYMMETRY Symmetry
\* The exchange stops once it is over.
CHECK_DEADLOCK FALSE
INVARIANT Agreement
