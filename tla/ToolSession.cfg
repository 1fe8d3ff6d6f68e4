\* Six messages of a client, its system prompt among them; calls one or two at a time.
SPECIFICATION Spec
CONSTANTS
    Publishers <- MCPublishers
    UserMessages <- MCUserMessages
    ResultTexts <- MCResultTexts
    Answers <- MCAnswers
    Settings <- MCSettings
    ResultMax = 2
    ElidedBytes = 2
    MaxMessages = 6
    CacheMinBytes = 2
    CacheTailMinTurns = 4
    CacheTailMinBytes = 5
INVARIANTS
    TypeOK
    ExchangesResolve
    EverythingTold
PROPERTY
    CachedPrefixReadBack
CHECK_DEADLOCK FALSE
