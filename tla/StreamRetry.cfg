\* Three attempts (two back-offs), two retrieval rounds, two hashes.  The
\* liveness properties exclude symmetry.
SPECIFICATION FairSpec
CONSTANTS
    MaxAttempts = 3
    MaxRetrievals = 2
    Hashes = {h1, h2}
    NoCall = NoCall
    NoHash = NoHash
INVARIANTS
    TypeOK
    NoDuplicateWithinRound
    CallsWithinBudget
    OwnCancelHidden
PROPERTIES
    RetrievalsAsAsked
    EveryRequestReturns
    ImplementsExchange
