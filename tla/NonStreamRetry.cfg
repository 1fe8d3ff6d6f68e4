\* The code's own limits would be 4 and 5; three attempts and three retrievals
\* already have a first, a middle and a last of each.
SPECIFICATION FairSpec
CONSTANTS
    MaxAttempts = 3
    MaxRetrievals = 3
    Hashes = {h1, h2}
    NoCall = NoCall
    NoHash = NoHash
INVARIANT
    TypeOK
PROPERTIES
    NoCallAfterCancel
    EveryRequestReturns
    ImplementsExchange
