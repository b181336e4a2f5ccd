CONSTANTS
    Socket = {1, 2, 3}
    Key <- Keys
    PinnedKey <- Pin
    BufSize = 3
    RequestLen = 2
    MaxAbandoned = 2
SPECIFICATION Spec
INVARIANTS
    TypeOK
    AnswersAreVerified
    NothingHeldBetweenRequests
    ConnectedMeansHandshake
PROPERTIES
    AnsweredAgain
