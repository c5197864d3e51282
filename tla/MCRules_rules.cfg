SPECIFICATION Spec
CONSTANTS
    Counters = {"created", "joined"}
    Gauges = {"attendees"}
    Callers = {c1, c2, c3}
    Values = {1, 2}
    Modulo = 4
    Missing = Missing
    LoadCap = 2
    CpuBase = 10
    LongTerm = 3
    MaxSubId = 4
    InCreate = {"record", "logo", "welcome"}
    InJoin = {"style"}
    None = None
    MaxBase64Slide = 1024000
    Unknown = Unknown
    TopTenants = 2
    NoInput = NoInput
CHECK_DEADLOCK FALSE
INVARIANT CountersExact
INVARIANT LoadOrdered
INVARIANT TenantDecides
INVARIANT SettingsBind
INVARIANT AddingKeepsSecrets
INVARIANT MeetingIsReached
INVARIANT RecordingsAsAsked
INVARIANT SlideArrives
INVARIANT FiguresAddUp
INVARIANT MeetingsAreListed
INVARIANT AgentMeasures
INVARIANT VideoShowsRecording
