\* A gated folder and a pinned one share the cache; two origins share a body.
SPECIFICATION Spec
CONSTANTS
    f = f
    g = g
    page = page
    data = data
    a = a
    b = b
    c = c
    Damaged = Damaged
    Absent = Absent
    Folders = {f, g}
    Urls = {page, data}
    Bodies <- AsBodies
    Stamp <- AsStamps
    Hops <- OneByTime
    Pin <- PinB
    Gated = {f}
    Cached = {f, g}
    Damageable = {f}
    Repointed = {g}
    Moves <- MovesToPage
    MaxFaults = 2
INVARIANTS
    RecordsAreNotAhead
PROPERTIES
    CachedAsUncached
CHECK_DEADLOCK FALSE
