SPECIFICATION FairSpec
CONSTANTS
    r1 = r1
    r2 = r2
    Recordings = {r1, r2}
    CutShort = {r2}
    RenderRecord = render_record
    Tasks = {r1, r2, render_record}
    Periodic = {render_record}
    Processes = {p1, p2}
    NoTask = NoTask
    MaxOutlived <- OneIsLong
INVARIANT TypeOK
INVARIANT DeletedIsStored
INVARIANT NoBacklog
PROPERTY QueuedIsRendered
PROPERTY PeriodicTasksRun
