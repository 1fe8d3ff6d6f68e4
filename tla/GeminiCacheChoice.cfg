\* Two requests that differ in their tool choice only.
SPECIFICATION Spec
CONSTANTS
    Requests = {q1, q2}
    Systems = {s}
    Toolsets = {t1}
    Choices = {auto, forced}
    Names = {n1, n2}
    None = None
    Life = 4
    Margin = 2
    MaxDelay = 1
    MaxDrops = 0
SYMMETRY GeminiSymmetry
INVARIANT
    OwnToolChoice
