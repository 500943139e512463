SPECIFICATION FairSpec
CONSTANTS
    Requests = {r1, r2}
    Cli = Cli
    Providers = {p1}
    Users = {u1, u2}
    MaxId = 2
    Passwords = {a, b}
    Nobody = Nobody
    MaxEdits = 2
    MaxFaults = 1
INVARIANTS
    TypeOK
    OverridesFollowTable
    PasswordKept
    EnabledKept
PROPERTIES
    CacheCatchesUp
