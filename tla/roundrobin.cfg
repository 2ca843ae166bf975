SPECIFICATION Spec
CONSTANTS
    Addrs = {"a1", "a2", "a3"}
    ConnsOf <- MCConnsOf
    Callers = {u1, u2}
    u1 = u1
    u2 = u2
    Width = 8
    None = None
INVARIANTS
    ListConsistent
PROPERTIES
    ImplementsMap
