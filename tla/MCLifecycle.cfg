SPECIFICATION FairSpec
CONSTANTS
    p1 = p1
    Pod <- OnePod
    MaxHandlers = 2
    MaxStops = 2
    MaxFaults = 2
INVARIANTS
    TypeOK
    CancelAfterDrain
PROPERTIES
    OutageRestartsNobody
    OutageEmptiesService
    EventuallyInService
    StopsWithoutKill
