SPECIFICATION FairSpec
CONSTANTS
    N = 2
    MaxSessions = 2
INVARIANTS
    TypeOK
    SlotsMatch
    SeatForAll
    DataOfOwner
    OneEntryEach
PROPERTIES
    SketchCatchesUp
    ReportsTaken
