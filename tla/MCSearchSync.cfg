SPECIFICATION Spec
CONSTANTS
    u1 = u1  u2 = u2  b1 = b1  b2 = b2
    Uid = {u1, u2}
    Builder = {b1, b2}
    Budget <- Five
INVARIANTS SearchSound QuietIndexAgrees VectorsCurrent
SYMMETRY Symmetry
CHECK_DEADLOCK FALSE
