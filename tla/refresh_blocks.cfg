SPECIFICATION FilterSpec
CONSTANTS
    ads = ads
    ADS = ADS
    com = com
    Label <- MCLabel
    ToLower <- MCToLower
    Star = star
    NoLabel = nolabel
    LongLabel = {}
    MaxLabels = 3
    Caller = {c1}
    QueryName <- MCQueryName
    BlockSubdomains = TRUE
    Blocklists <- MCLists
    Allowlists <- MCLists
    MaxLoads = 1
CHECK_DEADLOCK FALSE
SYMMETRY Symmetry
INVARIANTS
    NeverBlocksTheAllowed
