SPECIFICATION FairSpec
CONSTANTS
    n1 = n1
    k1 = k1
    Nodes = {n1}
    Clusters = {k1}
    ClusterOf <- Single
    Clients = {c1, c2}
    CpuLoads = {0}
    Scale = 2
    Charge <- HalfPoint
    MaxWork = 1
    LoadCap = 9
    NoView = NoView
INVARIANT TypeOK
 
PROPERTY MaintenanceTakesEffect
PROPERTY FailingNodesLeave
