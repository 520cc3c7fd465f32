CONSTANTS
    Procs = {p1, p2}
    None = none
    SqlCustomers = {c1, c2}
    Databases = {n1, n2}
    SqlUsers = {u1}
    MaxRows = 3
    DatabaseLimit = 2
    UserLimit = 1
    MaxCalls = 3
    Logins = {l1, l2}
    OnAlias = {l1}
    FtpLimit = 2
    DiskLimits = {d1, d2}
    Accounts = {n1, n2}
    Catchalls = {k1}
    Elsewhere = {}
    Quotas = {1}
    PoolLimit = 1
    MailLimit = 3
    MailCalls = 2
    Records = {n1, n2}
    Contents = {v1, v2}
    Mutations = {n1, n2}
    MaxNesting = 3
    Keys = {n1, n2}
    Readings = {v1}
    Promises = {p1, p2}
    Absent = absent
    Unread = unread
    Failed = failed
    Fields = {c1, c2}
    Nothing = nothing
    Offered <- Plugins
    MaxExtensions = 3
SPECIFICATION Spec
SYMMETRY Symmetry
INVARIANT ServicesTypeOK
INVARIANT RowsMatchServer
INVARIANT DeletionRepeatable
INVARIANT MutationsWhole
INVARIANT AnswersAgree
INVARIANT OthersAreKept
PROPERTY ForeignOnlyByOverlap
PROPERTY TablesPartByOverlap
PROPERTY MailLostByOverlap
PROPERTY MailQuotaByOverlap
PROPERTY DeletedIsUnlisted
PROPERTY ZonePartsByOverlap
CHECK_DEADLOCK FALSE
