CONSTANTS
    a = a
    b = b
    Tasks = {a, b}
    Confs <- Core
SPECIFICATION Spec
CHECK_DEADLOCK FALSE
INVARIANTS
    CompletedLanded
    BuiltOnDeps
    ChargedFirst
    StopKills
    PublishedNotRedone
PROPERTIES
    RunEnds
