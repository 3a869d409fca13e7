SPECIFICATION Spec
CONSTANTS
    c1 = c1
    c2 = c2
    t1 = t1
    t2 = t2
    a = a
    b = b
    Empty = Empty
    Clients = {c1, c2}
    Writers = {c1}
    Readers = {c2}
    Topics = {t1}
    Payloads = {a}
    Faults = FALSE
    Expiry = FALSE
    MaxOps = 3
INVARIANT DeletedStaysDeleted
