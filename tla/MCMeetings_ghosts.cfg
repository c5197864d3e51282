SPECIFICATION FairSpec
CONSTANTS
    Nodes = {n1}
    Ids = {i1}
    Secrets = {s1}
    Clients = {c1}
    Handlers = {h1}
    TenantLimit = 0
    SecretLimit = 1
    RecordEnabled = FALSE
    MaxNonce = 3
    NoOverlap = FALSE
    None = None
PROPERTY GhostsDisappear
