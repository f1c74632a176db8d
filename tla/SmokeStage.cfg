CONSTANTS
    Scripts <- AllScripts
    Reproducers <- NotInAGate
    Tolerated <- Optional
    Leftover <- Unremoved
    Remains <- Unclean
    Outliving <- CaughtLate
    MaxFaults = 2
    Lists <- AllLists
    Elements = 3
    Rounds = 2
    MaxSlips = 1
    MaxDefects = 2
    s1 = s1
    s2 = s2
    p1 = p1
    p2 = p2
    Smokes <- TwoSmokes
    Ports <- TwoPorts
    NoOne = NoOne
    MaxAttempts = 2
    Parallel = TRUE
    MaxKills = 1
SPECIFICATION FairSpec
INVARIANTS TypeOK NoFalseAlarm PassIsDeserved VerdictsAgree NothingDangles NothingLeftBehind
PROPERTIES Ends
