SPECIFICATION FairSpec
CONSTANTS
    i1 = i1  i2 = i2  t1 = t1  t2 = t2  c1 = c1  c2 = c2
    Item = {i1, i2}
    Thread = {t1, t2}
    Caller = {c1}
    Budget <- Everything
    None = None
PROPERTIES RunningSettles QueuedServed
CHECK_DEADLOCK FALSE
