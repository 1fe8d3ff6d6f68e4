\* Ollama clients, whose calls have no IDs.
SPECIFICATION Spec
CONSTANTS
    Settings <- MCOllama
    Openings <- MCOpenings
    Replies <- MCReplies
    ModelTurns <- MCModelTurns
    MaxTurns = 7
    MaxRetrievals = 0
    MaxFailures = 0
INVARIANT NewestRead
