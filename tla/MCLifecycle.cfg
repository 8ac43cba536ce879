CONSTANT
    Family = {"v4", "v6"}
SPECIFICATION FairSpec
INVARIANTS
    TypeOK
    NothingLeftBehind
    LeftOnlyByKill
    StopsForAReason
PROPERTIES
    ReasonEndsProcess
    ServesAgain
