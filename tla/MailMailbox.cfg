CONSTANTS
    Procs = {p1}
    None = none
    SqlCustomers = {c1, c2}
    Databases = {n1, n2}
    SqlUsers = {u1}
    MaxRows = 3
    DatabaseLimit = 2
    UserLimit = 1
    MaxCalls = 0
    Logins = {l1}
    OnAlias = {l1}
    FtpLimit = 2
    DiskLimits = {d1, d2}
    Accounts = {n1, n2}
    Catchalls = {k1}
    Elsewhere = {}
    Quotas = {1}
    PoolLimit = 1
    MailLimit = 3
    MailCalls = 1
    Records = {n1, n2}
    Contents = {v1}
    Mutations = {n1, n2}
    MaxNesting = 1
    Keys = {n1, n2}
    Readings = {v1}
    Promises = {p1}
    Absent = absent
    Unread = unread
    Failed = failed
    Fields = {c1, c2}
    Nothing = nothing
    Offered <- Plugins
    MaxExtensions = 1
SPECIFICATION Spec
SYMMETRY Symmetry
PROPERTY MailboxesStay
CHECK_DEADLOCK FALSE
