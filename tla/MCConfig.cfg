SPECIFICATION Spec
CONSTANTS
    c1 = c1
    Client = {c1}
    Asks <- Requests
    Looks <- Installed
    Dir = {"comfy"}
    HintsOf <- Childless
    ChildrenOf <- Childless
    MAX_CHILD_PROBE = 2
    MaxSaves = 1
    MaxFailures = 0
INVARIANT RootsHaveOneNumber
CHECK_DEADLOCK FALSE
