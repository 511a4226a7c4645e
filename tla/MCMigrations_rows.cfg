SPECIFICATION Spec
CONSTANTS
    Album = {1, 2, 3}
    Crashes = 1
PROPERTIES AssetsKept
CHECK_DEADLOCK FALSE
