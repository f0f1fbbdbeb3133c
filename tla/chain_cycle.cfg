SPECIFICATION ChainSpec
CONSTANTS
    foo = foo
    bar = bar
    ip = ip
    Label <- MCLabel
    ToLower <- MCToLower
    Star = star
    NoLabel = nolabel
    LongLabel = {}
    MaxLabels = 3
    Address = {ip}
    None = nil
    RecordFiles <- MCFiles
    Asked <- Names3
    MaxReloads = 0
CHECK_DEADLOCK FALSE
PROPERTY ChainEnds
