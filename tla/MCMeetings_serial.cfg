SPECIFICATION Spec
CONSTANTS
    Nodes = {n1, n2}
    Ids = {i1}
    Secrets = {s1, s2}
    Clients = {c1, c2}
    Handlers = {h1}
    TenantLimit = 0
    SecretLimit = 0
    RecordEnabled = TRUE
    MaxNonce = 3
    NoOverlap = TRUE
    None = None
SYMMETRY Symmetry
INVARIANT TypeOK
INVARIANT NonceNamesOneMeeting
INVARIANT RunningIsRouted
INVARIANT OneServerPerMeeting
INVARIANT TagHasRecordSet
