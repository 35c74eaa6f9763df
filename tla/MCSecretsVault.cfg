CONSTANTS
    c1 = c1
    c2 = c2
    k1 = k1
    k2 = k2
    r1 = r1
    Commands = {c1, c2}
    Keys = {k1, k2}
    Refs = {r1}
    RefOf <- MCRefOf
    Backends = {"gsm", "vault"}
    Mapped = {k1}
    Texts = {k1}
    MaxMade = 2
SPECIFICATION Spec
SYMMETRY Symmetry
INVARIANTS TypeOK OkMeansAgreement
PROPERTIES CredentialChangedOnRequest
