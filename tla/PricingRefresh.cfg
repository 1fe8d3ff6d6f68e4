\* Two requests and the warm-up; a refresh may take one tick, the TTL is two.
\* No symmetry: two properties are liveness properties.
SPECIFICATION FairSpec
CONSTANTS
    Requests = {q1, q2}
    Warm = Warm
    None = None
    TTL = 2
    DiskTTL = 1
    ScrapeTimeout = 1
INVARIANT
    TypeOK
PROPERTIES
    RequestsProceed
    EstimatesAppear
