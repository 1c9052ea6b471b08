\* Restarts, and nothing else going wrong.
CONSTANTS
    Invitee = Invitee
    Inviter = Inviter
    Handlers = {h1, h2}
    Listener = Listener
    Opening = "invitation"
    Listening = {Invitee, Inviter}
    Duplicates = FALSE
    AnswerTwice = FALSE
    Durable = TRUE
    NoDID = NoDID
    NoMsg = NoMsg
    MaxConns = 1
    MaxAccepts = 1
    MaxFailures = 0
    MaxCrashes = 2
SPECIFICATION FairSpec
\* The exchange stops once it is over.
CHECK_DEADLOCK FALSE
INVARIANT StoresAgree
PROPERTY CompletedNeverReopened
PROPERTY AbandonedIsFinal
PROPERTY ImplementsHandshake
PROPERTY ExchangeSettles
