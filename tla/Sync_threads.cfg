SPECIFICATION FairSpec
CONSTANTS
    Users = {u1, u2}
    Lives = 2
INVARIANTS
    VisitsLiveObjects
PROPERTIES
    DestructorReturns
    SavesWhileRunning
