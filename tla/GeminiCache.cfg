\* Two requests that may share their tools or not; one resource may be lost.
SPECIFICATION Spec
CONSTANTS
    Requests = {q1, q2}
    Systems = {s}
    Toolsets = {t1, t2}
    Choices = {auto}
    Names = {n1, n2}
    None = None
    Life = 4
    Margin = 2
    MaxDelay = 1
    MaxDrops = 1
SYMMETRY GeminiSymmetry
INVARIANTS
    TypeOK
    AliveWhenUsed
    OwnPrefix
