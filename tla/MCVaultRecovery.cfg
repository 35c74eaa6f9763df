CONSTANTS
    None = None
    Envs = {e1, e2}
    Selected = e1
    Passwords = {p1, p2}
    MaxMishaps = 3
SPECIFICATION RecoverySpec
INVARIANTS RecoveryTypeOK
PROPERTIES OnlyWhatWasChecked RecoveryEnds
