CONSTANTS
    i1 = i1
    i2 = i2
    clab = clab
    eve = eve
    b1 = b1
    b2 = b2
    Processes = {i1, i2}
    Blueprints = {clab, eve}
    Containerlab = {clab}
    Bundles = {b1, b2}
    NoBundle = NoBundle
SPECIFICATION ImportSpec
INVARIANTS
    NothingNamedIsMissing
    LatestIsOneSet
SYMMETRY Symmetry
