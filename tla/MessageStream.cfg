\* Safety, the implementation of the abstract stream and liveness.  Two
\* yields let one fetch be in any of its states while the other is spawned,
\* joined or killed, and every task may die, the stream task (0) included.
\* The stream may end or be stuck: no deadlock check.
SPECIFICATION Spec
CONSTANT MaxYields = 2
CONSTANT Mortal = {0, 1, 2}
INVARIANTS
    RegistryTracksLive
    ClosedMeansClean
    FetchedIsSunk
    LogoutUnlessStopped
    IInv
PROPERTIES
    ImplementsStream
    OnlyDeathBreaksLockCycle
    CloseResolvesOrLockCycle
    StopWindsUp
    EndReachesReader
    TakenSettles
CHECK_DEADLOCK FALSE
