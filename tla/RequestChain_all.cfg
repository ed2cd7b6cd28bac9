SPECIFICATION Spec
CONSTANTS
    r1 = r1
    r2 = r2
    r3 = r3
    u0 = u0
    s0 = s0
    home = home
    ann = ann
    bob = bob
    long = long
    short = short
    Requests = {r1, r2, r3}
    Kinds <- Mixed
    Address <- OneAddress
    Logins <- SomeLogins
    Queries <- SomeQueries
    UserIds = {r1, r2, r3, u0}
    RecordIds = {r1, r2, r3, s0}
    Owners = {r1, r2, r3, u0}
    Names = {ann, bob}
    Passwords = {long, short}
    Acceptable = {long}
    Titles = {t1, t2}
    ExpireHours = 0
    DefaultHours = 1
    Secret = secret
    DefaultPageSize = 1
    MaxPageSize = 2
    MaxInt = 7
    IPLimit = 1
    LLMLimit = 1
    Window = 1
    CozeKey = key
    CozeUser = coze
    NoUser = none
    FirstUser = u0
    FirstRecord = s0
    MaxTime = 1
    Faulty = {r1}
INVARIANTS
    TypeOK
    NoTokenNoSuccess
    OneAccount
    MetricsAddUp
    LimitsHold
PROPERTIES
    OthersUntouched
    PageFitsTotal
    Windows
CHECK_DEADLOCK FALSE
