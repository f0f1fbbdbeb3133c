SPECIFICATION ParserSpec
CONSTANTS
    ads = ads
    ADS = ADS
    com = com
    long = long
    Label <- MCLabel
    ToLower <- MCToLower
    Star = star
    NoLabel = nolabel
    LongLabel = {long}
    MaxLabels = 3
    Comment = comment
    IpLiteral = ip
    Garbage = garbage
    Lists <- MCLists
    Lookups <- MCLookups
    Limits = {0, 1, 2}
CHECK_DEADLOCK FALSE
INVARIANTS
    ListMeaning
    EveryEntryAccounted
