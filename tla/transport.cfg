SPECIFICATION HistorySpec
CONSTANTS
    foo = foo
    FOO = FOO
    bar = bar
    ali = ali
    loc = loc
    long = long
    ip1 = ip1
    ip2 = ip2
    ip3 = ip3
    Request = {r1,r2}
    Caller = {r1,r2}
    Label <- MCLabel
    ToLower <- MCToLower
    Star = star
    NoLabel = nolabel
    LongLabel = {long}
    MaxLabels = 3
    Address <- MCAddress
    None = nil
    QType = {"A", "TXT"}
    Class = {"IN", "CH"}
    QueryName = {}
    Remote = ip3
    EmptyTTL = 1
    DefaultTTL = 2
    Queries <- TransportQueries
    Reply <- TransportReplies
    RecordFiles <- NoFile
    MaxMsgSize = 1
    MaxWireSize = 9
    MaxTime = 2
    Upstreams = 1
    FilterEnabled = FALSE
    BlockSubdomains = TRUE
    Blocklists <- NoLists
    Allowlists <- NoLists
    MaxLoads = 0
    MaxReloads = 0
CHECK_DEADLOCK FALSE
SYMMETRY Symmetry
INVARIANTS
    RepliesMatchRequests
    UdpRepliesFit
    TcpRepliesUncut
    CutRepliesFlagged
    HitsWithinTtl
    LostAnswersFlagged
PROPERTY
    RepliesRepeatValues
