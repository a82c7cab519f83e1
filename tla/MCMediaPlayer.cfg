SPECIFICATION Spec
CONSTANTS
    Medias  <- SafetyMedias
    MaxLost = 1
    UB      = {"survive", "crash"}
INVARIANTS TypeOK LockDiscipline AudioFifo VideoConserved OneBufferChain
PROPERTIES NeverEarly KeepsPromise
CHECK_DEADLOCK FALSE
