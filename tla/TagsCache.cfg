\* A client and the warm-up, two publishers, so that a list can be truncated
\* and not empty; the windows differ so that either can lapse first.  No
\* symmetry: one property is a liveness property.
SPECIFICATION FairSpec
CONSTANTS
    Pollers = {c1}
    Publishers = {g, a}
    Warm = Warm
    None = None
    MemTTL = 1
    DiskTTL = 2
    MaxHangUps = 1
    MaxRestarts = 1
INVARIANTS
    TypeOK
    StalenessBounded
    OneBurstPerWindow
PROPERTY
    CatalogHeals
