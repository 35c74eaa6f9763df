CONSTANTS
    r1 = r1
    r2 = r2
    e1 = e1
    e2 = e2
    s1 = s1
    s2 = s2
    s3 = s3
    Runs = {r1, r2}
    Envs = {e1, e2}
    Secrets = {s1, s2}
    None = None
SPECIFICATION Spec
INVARIANTS
    ReadyWorks
    NoTokenIsLost
SYMMETRY Symmetry
