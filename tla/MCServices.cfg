CONSTANTS
    a1 = a1
    a2 = a2
    o1 = o1
    o2 = o2
    StepIds = {s}
    NoStep = none
    MaxApprovals = 2
    MaxRequested = 2
    Deciders = {t1, t2}
    Users = {u1, u2}
    NoUser = nobody
    Emails = {e1, e2}
    Passwords = {p1, p2}
    AuthThreads = {t1, t2}
    MaxUsers = 3
    Sessions = {s1, s2}
    Agents = {a1, a2}
    Orgs = {o1, o2}
    Queries <- MCQueries
    Retrievals = {c1}
    MaxStored = 3
    None = null
    ToolLists <- MCToolLists
    StepLimits = {5}
    IntegrationOrgs = {o1}
    NoOrg = noorg
    ToolThreads = {t1}
    MaxIntegrations = 2
    Tenants = {o1, o2}
    OrgThreads = {t1, t2}
    Creation = creation
    MaxRecords = 3
    NotifyThreads = {t1, t2, t3}
    NotifyOrgs = {o1, o2}
    EveryOrg = any
    PageLimits = {0, 1, 2}
    Calls = {c1, c2}
SPECIFICATION ServicesSpec
INVARIANTS
    ServicesTypeOK
    ResolvedIsAttributed
    GrantedToFirst
    PacketIsOwn
    PacketIsComplete
    HighestLayerWins
    PresetIsTheLimit
    ValidIsIntegrated
    ListIsComplete
    PatchStands
    AnsweredIsShown
    ToldIsTrue
PROPERTIES
    SettledForever
    LoginStands
CHECK_DEADLOCK FALSE
