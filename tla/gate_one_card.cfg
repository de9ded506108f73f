SPECIFICATION Spec
CONSTANTS
    a1 = a1
    a2 = a2
    r1 = r1
    r2 = r2
    r3 = r3
    t1 = t1
    t2 = t2
    Actions = {a1}
    Requests = {r1, r2, r3}
    Tenants = {t1}
    Channels = {"web", "telegram"}
    NoRequest = NoRequest
    OwnerOf <- OneOwner
    KeyOf <- FreshKeys
    Lifetime = 1
    MaxTime = 2
    MaxFaults = 1
SYMMETRY Symmetry
INVARIANTS
    SingleFlight
    EffectsAccounted
    TrailMatchesStatus
    ChainLinked
    TelegramAnswerRecorded
PROPERTIES
    GateSpec
