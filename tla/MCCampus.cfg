SPECIFICATION ZoneSpec
CONSTANTS
    Dates <- MCDates
    Rooms <- MCRooms
    EventPool <- MCEvents
    MaxEvents = 1
    Step = 10
    Draws <- MCDraws
INVARIANTS
    LockedDrawsNobody
    GeneratorAgrees
    DatasetVerifies
PROPERTY LockedRoomsDoNotFill
