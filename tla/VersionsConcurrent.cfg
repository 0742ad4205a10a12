SPECIFICATION FairSpec
CONSTANTS
    s1 = s1
    s2 = s2
    Sessions = {s1, s2}
    Listing <- TwoPapers
    NamesOf <- Names
    KeyOf <- Normalized
    NoKey = ""
    MaxFaults = 1
INVARIANT OneLatest
INVARIANT AuthorsComplete
PROPERTY NewestBecomesLatest
PROPERTY OnlyStaleDemotes
PROPERTY StoredIfRefetched
CHECK_DEADLOCK FALSE
