SPECIFICATION Spec
CONSTANTS
    Sets = {s1}
    Profiles = {p1}
    Uploads = {u1}
    Workers = {w1, w2}
    Clients = {c1}
    Housekeeper = housekeeper
    Records = {r1, r2}
    Suffixes = {}
    Overwrites = TRUE
    LockHolds = FALSE
    Alone = FALSE
    Edits = {"name"}
    Nil = Nil
INVARIANT OneRecordPerProfile
