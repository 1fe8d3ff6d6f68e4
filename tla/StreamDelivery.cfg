\* Two attempts, one retrieval round; by dialect, eight symbols of text at the
\* most and two calls of a round.
SPECIFICATION FairSpec
CONSTANTS
    MaxAttempts = 2
    MaxRetrievals = 1
    Hashes = {h}
    NoCall = NoCall
    NoHash = NoHash
    Routes <- MCRoutes
    Fragments <- MCFragments
    CallNames <- MCCallNames
    MaxWritten <- MCMaxWritten
    MaxCalls <- MCMaxCalls
    MaxEntity = 3
    MaxTag = 3
    LoopWindow = 6
    LoopChunk = 2
    LoopThreshold = 2
INVARIANTS
    TypeOK
    WholeAnswer
    CallsAsMade
    WellFormedStream
    RepetitionCaught
PROPERTY
    EveryStreamCloses
