SPECIFICATION UploadedSpec
CONSTANTS
    Sets = {s1, s2}
    Profiles = {p1}
    Uploads = {}
    Workers = {w1}
    Clients = {}
    Housekeeper = housekeeper
    Records = {r1, r2}
    Suffixes = {x1}
    Overwrites = FALSE
    LockHolds = TRUE
    Alone = TRUE
    Edits = {"name"}
    Nil = Nil
INVARIANT VideosAreOwn
INVARIANT TypeOK
