SPECIFICATION StoreSpec
CONSTANTS
    Callers = {k1, k2}
    Deciders = {d1, d2}
    Ids = {i1, i2, i3, i4}
    NoId = NoId
    Retries = 0
    SessionLimit = 3
    Expiry = TRUE
    MaxOthers = 1
    Profiles = {p1, p2, p3}
    Admins = {a1, a2}
    Reports = {r1, r2}
    Spaces = {s1}
    NoSpace = NoSpace
    Users = {u1, u2}
    Plugins = {g1}
    Blobs = {b1, b2}
    Writers = {w1, w2}
    MaxRevision = 3
    MaxLives = 1
    Uses = {x1, x2}
    MaxTokens = 2
    MaxStamp = 2
SYMMETRY Symmetry
INVARIANTS ApprovalRunsOnce PromptsBounded MembersArePublic
PROPERTIES DecisionsStand SeenAllKeepsDefault EditsBuildOnTheirBase GoodTokenIsKept
CHECK_DEADLOCK FALSE
