SPECIFICATION FairSpec
CONSTANTS
    Path = {p1, p2}
    Asset = {a1, a2}
    MaxRow = 4
    Caller = {c1, c2}
    ByPath = TRUE
    Budget <- SafetyBudget
    None = None
 
INVARIANT TagsFollow
 
PROPERTY VaultHeals
CHECK_DEADLOCK FALSE
