SPECIFICATION FairSpec
CONSTANTS
    Sets = {s1}
    Profiles = {p1, p2}
    Uploads = {u1}
    Workers = {w1}
    Clients = {c1}
    Housekeeper = housekeeper
    Records = {r1, r2, r3}
    Suffixes = {}
    Overwrites = TRUE
    LockHolds = TRUE
    Alone = TRUE
    Edits = {"published"}
    Nil = Nil
INVARIANT PublishedHasFile
INVARIANT RenderedIsComplete
PROPERTY UploadedIsRendered
