SPECIFICATION Spec
CONSTANTS
    Nodes = {n1, n2}
    Ids = {i1}
    Secrets = {s1}
    Clients = {c1}
    Handlers = {h1}
    TenantLimit = 0
    SecretLimit = 0
    RecordEnabled = FALSE
    MaxNonce = 2
    NoOverlap = FALSE
    None = None
SYMMETRY Symmetry
PROPERTY RemovedForCause
INVARIANT UniqueMeeting
INVARIANT IInv
PROPERTY RoutesKept
