SPECIFICATION FairSpec
CONSTANTS
    main = main  c1 = c1  c2 = c2
    Client = {main, c1, c2}
    Main = main
    Asks <- Kinds
    MaxUnit <- Few
    MaxWriter = 2
    Budget <- Two
INVARIANTS StoreSound CleanExit
PROPERTIES Serial 
CHECK_DEADLOCK FALSE
