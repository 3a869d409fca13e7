SPECIFICATION Spec
CONSTANTS
    c1 = c1
    c2 = c2
    t1 = t1
    t2 = t2
    a = a
    b = b
    Empty = Empty
    Clients = {c1, c2}
    Writers = {c1, c2}
    Readers = {}
    Topics = {t1}
    Payloads = {a, b}
    Faults = FALSE
    Expiry = FALSE
    MaxOps = 2
SYMMETRY PayloadSymmetry
INVARIANT QuiescentAgreement
