SPECIFICATION SpecEither
CONSTANTS
    track = track
    twin = twin
    lone = lone
    conductor = conductor
    Track = {track, twin, lone, conductor}
    Conductor = {conductor}
    Twin <- SmallTwins
    Value = {2}
    Frame = {0, 1}
    Actions <- SmallActions
    MaxEdits = 4
    MaxDepth = 2
INVARIANTS
    UndoRestores
    CleanMeansSaved
    LiveHasDevice
    PlayingHasDevice
    DeviceReleased
    FlagsExact
PROPERTIES
    GestureIsOneStep
    RefusedChangesNothing
    Settles
CHECK_DEADLOCK FALSE
