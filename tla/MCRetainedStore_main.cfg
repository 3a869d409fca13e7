SPECIFICATION Spec
CONSTANTS
    c1 = c1
    c2 = c2
    t1 = t1
    t2 = t2
    a = a
    b = b
    Empty = Empty
    Clients = {c1, c2}
    Writers = {c1, c2}
    Readers = {c1, c2}
    Topics = {t1, t2}
    Payloads = {a, b}
    Faults = TRUE
    Expiry = TRUE
    MaxOps = 3
SYMMETRY PayloadSymmetry
INVARIANTS
    TypeOK
    AgreesWhenUndisturbed
    NeverSuperseded
