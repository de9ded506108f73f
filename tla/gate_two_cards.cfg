SPECIFICATION FairSpec
CONSTANTS
    a1 = a1
    a2 = a2
    r1 = r1
    r2 = r2
    r3 = r3
    t1 = t1
    t2 = t2
    Actions = {a1, a2}
    Requests = {r1, r2}
    Tenants = {t1, t2}
    Channels = {"web", "telegram"}
    NoRequest = NoRequest
    OwnerOf <- OneOwner
    KeyOf <- ContentKeys
    Lifetime = 1
    MaxTime = 1
    MaxFaults = 1
INVARIANTS
    TenantSerialised
PROPERTIES
    WebReplays
    RequestsFinish
