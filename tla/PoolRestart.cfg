CONSTANTS
    j1 = j1
    j2 = j2
    j3 = j3
    Requested = 1
    Jobs <- ThreeJobs
    RawJobs <- LastJobs
    Background <- NoJobs
    Hanging <- NoJobs
    SharedCh = SharedCh
    SharedCap = 1
    NoJob = NoJob
    MaxStarts = 2
SPECIFICATION Spec
SYMMETRY LastAlike
INVARIANT TypeOK
INVARIANT WorkersSurvive
INVARIANT CountersExact
PROPERTY ImplementsService
CHECK_DEADLOCK FALSE
