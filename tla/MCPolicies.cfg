CONSTANTS
    None = None
    MaxLun = 2
    MaxFrag = 2
    LunFrags = {1, 2}
    LogSize = 3
    Window = 2
    FreshHeat = 2
    MaxMisses = 1
    NoFrag = NoFrag
    MaxCdev = 2
    MaxOff = 2
    DevFrags = {1, 2}
    RefCeiling = 2
SPECIFICATION PoliciesSpec
CONSTRAINT MCOneAtStart
INVARIANTS ChoosesHottest EvictsColdest
PROPERTY KeepsRecentMisses
