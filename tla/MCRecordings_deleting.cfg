SPECIFICATION FairSpec
CONSTANTS
    Sets = {s1}
    Profiles = {p1}
    Uploads = {u1}
    Workers = {w1}
    Clients = {}
    Housekeeper = housekeeper
    Records = {r1}
    Suffixes = {x1, x2}
    Overwrites = TRUE
    LockHolds = TRUE
    Alone = FALSE
    Edits = {}
    Nil = Nil
PROPERTY DeletingSetsGo
