SPECIFICATION Spec
CONSTANTS
    f1 = f1  f2 = f2  w1 = w1  w2 = w2  c1 = c1  c2 = c2  a = a  b = b
    None = None
    File = {f1, f2}
    Worker = {w1, w2}
    Caller = {c1}
    Content = {a, b}
    MaxAttempts = 2
    MaxPool = 2
    Budget <- Every
SYMMETRY Symmetric
CONSTRAINT ThreeEvents
INVARIANTS QueueSound DoneIsDigest
CHECK_DEADLOCK FALSE
