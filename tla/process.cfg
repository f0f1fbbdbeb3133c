SPECIFICATION ProcessSpec
CONSTANTS
    foo = foo
    bar = bar
    ip1 = ip1
    ip2 = ip2
    Label <- MCLabel
    ToLower <- MCToLower
    Star = star
    NoLabel = nolabel
    LongLabel = {}
    MaxLabels = 3
    Address = {ip1, ip2}
    None = nil
    Unset = unset
    Missing = missing
    Unreadable = unreadable
    RecordFiles <- MCFiles
    LookupNames <- MCLookups
    Reader = {c1}
    RawConfigs <- MCConfigs
    MaxEdits = 2
    MaxSignals = 3
CHECK_DEADLOCK FALSE
INVARIANTS
    ServesOnlyWhenReady
    ConfigUsable
    StopsOnlyWhenTold
PROPERTIES
    StoreIsAtomic
    StopsWhenTold
    ReloadTakesEffect
