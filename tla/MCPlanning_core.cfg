SPECIFICATION Spec
CONSTANTS
    a = a
    b = b
    c = c
    Tasks <- MCTasks
    Revisions <- MCRevisions
    Manifest <- MCManifest
    Scenes <- MCScenes
    None = None
    Damaged = Damaged
    Capacity = 1
INVARIANTS
    EvidenceEarned
PROPERTIES
    ContributorsFirst
    WorkKept
    AmendSettles
CHECK_DEADLOCK FALSE
