SPECIFICATION Spec
CONSTANTS
    i1 = i1  i2 = i2  t1 = t1  t2 = t2  c1 = c1  c2 = c2
    Item = {i1, i2}
    Thread = {t1, t2}
    Caller = {c1, c2}
    Budget <- Everything
    None = None
SYMMETRY ThreadsAndCallers
INVARIANTS WorkersSound BatchReported
PROPERTIES ResultIsFinal
CHECK_DEADLOCK FALSE
