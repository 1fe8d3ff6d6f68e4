\* The default profile: not every placeholder brings the retrieval tool along.
SPECIFICATION Spec
CONSTANTS
    Settings <- MCDefault
    Openings <- MCOpenings
    Replies <- MCReplies
    ModelTurns <- MCModelTurns
    MaxTurns = 7
    MaxRetrievals = 0
    MaxFailures = 0
INVARIANT HashesRedeemable
