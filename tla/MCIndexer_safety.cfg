SPECIFICATION FairSpec
CONSTANTS
    model = model  workflow = workflow  internal = internal  external = external
    File = {model, workflow}
    Root = {internal, external}
    RootOf <- Places
    PhaseOf <- Phases
    Watching = TRUE
    Partial <- JustModels
    Budget <- Three
INVARIANTS JobsSound QuietScanDescribes DerivedCurrent
PROPERTIES AwayRowsKept TablesSettle
CHECK_DEADLOCK FALSE
