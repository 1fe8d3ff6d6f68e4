\* Two requests that elide the same block; the clock passes the TTL twice
\* after the start.  No symmetry: one property is a liveness property.
SPECIFICATION FairSpec
CONSTANTS
    Requests = {r1, r2}
    Hashes = {h1}
    TTL = 1
    MaxTime = 4
    MaxRestarts = 1
    Absent = Absent
INVARIANTS
    TypeOK
    NeverTorn
    ContentWithinTTL
PROPERTY
    ExpiredFilesGo
