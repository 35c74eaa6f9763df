CONSTANTS
    c1 = c1
    c2 = c2
    Captures = {c1, c2}
    NoFile = NoFile
SPECIFICATION Spec
INVARIANTS
    NodeStateFromQuietHost
    PublishedIsWhole
SYMMETRY Symmetry
