SPECIFICATION Spec
CONSTANTS
    foo = foo
    FOO = FOO
    bar = bar
    ali = ali
    loc = loc
    long = long
    ip1 = ip1
    ip2 = ip2
    ip3 = ip3
    Request = {r1,r2}
    Caller = {r1,r2}
    Label <- MCLabel
    ToLower <- MCToLower
    Star = star
    NoLabel = nolabel
    LongLabel = {long}
    MaxLabels = 3
    Address <- MCAddress
    None = nil
    QType = {"A", "TXT"}
    Class = {"IN", "CH"}
    QueryName = {}
    Remote = ip3
    EmptyTTL = 1
    DefaultTTL = 2
    Queries <- FilterQueries
    Reply <- EmptyReply
    RecordFiles <- FilterFile
    MaxMsgSize = 2
    MaxWireSize = 9
    MaxTime = 1
    Upstreams = 2
    FilterEnabled = TRUE
    BlockSubdomains = TRUE
    Blocklists <- FilterBlocklists
    Allowlists <- FilterAllowlists
    MaxLoads = 1
    MaxReloads = 0
CHECK_DEADLOCK FALSE
INVARIANTS
    TypeOK
    NothingBypassesFilter
    OnlyAnswersCached
    GivesUpLast
    NeverFailsOpen
