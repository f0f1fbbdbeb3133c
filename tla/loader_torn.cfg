SPECIFICATION LoaderSpec
CONSTANTS
    u1 = u1
    u2 = u2
    p1 = p1
    NoList = nolist
    NoUrl = nourl
    CustomId <- MCCustomId
    Url = {u1, u2}
    Path = {p1}
    Configs <- MCConfigs
    Blank = {" "}
    Clean <- MCClean
    MaxVersion = 1
    MaxLoad = 2
    MaxCrash = 1
CHECK_DEADLOCK FALSE
INVARIANT CachedListWhole
