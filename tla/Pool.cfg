CONSTANTS
    j1 = j1
    j2 = j2
    j3 = j3
    Requested = 2
    Jobs <- ThreeJobs
    RawJobs <- NoJobs
    Background <- SecondJob
    Hanging <- FirstJobs
    SharedCh = SharedCh
    SharedCap = 1
    NoJob = NoJob
    MaxStarts = 1
SPECIFICATION LiveSpec
INVARIANT ExactlyOneCopy
INVARIANT HonestAnswer
PROPERTY GracefulStopIsClean
PROPERTY AnsweredWhileRunning
PROPERTY NothingLeftBehind
CHECK_DEADLOCK FALSE
