\* Conversations of up to seven turns; one failed attempt and one retrieval in
\* each request.
SPECIFICATION Spec
CONSTANTS
    Settings <- MCSettings
    Openings <- MCOpenings
    Replies <- MCReplies
    ModelTurns <- MCModelTurns
    MaxTurns = 7
    MaxRetrievals = 1
    MaxFailures = 1
INVARIANTS
    TypeOK
    StillAConversation
    ContentReadable
    RetrievalOffered
PROPERTY
    RetrySamePrompt
