\* Three consumers: one waits, one is woken and one arrives.  After front() of
\* an empty queue nothing follows, so the model stops there.
SPECIFICATION Spec
CONSTANTS
    c1 = c1
    c2 = c2
    c3 = c3
    e1 = e1
    e2 = e2
    e3 = e3
    None = None
    Consumers = {c1, c2, c3}
    Items = {e1, e2, e3}
SYMMETRY Symmetry
CHECK_DEADLOCK FALSE
INVARIANTS
    TypeOK
    FirstInFirstOut
    NothingStranded
