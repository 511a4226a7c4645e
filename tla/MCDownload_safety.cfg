SPECIFICATION FairSpec
CONSTANTS
    t = t  sib = sib  v1 = v1  v2 = v2
    Path = {t, sib}
    Target = t
    Version = {v1, v2}
    Length <- TwoAndThree
    Metadata <- Hashed
    OnConflict = {"fail", "skip", "keep_both"}
    Budget <- Rough
    NoFile = NoFile
    Foreign = Foreign
INVARIANTS FolderSound
PROPERTIES FolderSpec RetriesSucceed
