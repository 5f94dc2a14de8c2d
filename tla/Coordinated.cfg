CONSTANTS
    wrapped = wrapped
    bare = bare
    w1 = w1
    w2 = w2
    Ops <- TwoOps
    Waits <- TwoWaits
    TimedWaits <- SecondWait
    Recovered <- Wrapped
    Retried <- Wrapped
    Timed <- Wrapped
    Hanging <- Bare
    Deaf <- Wrapped
    Retries = 1
SPECIFICATION LiveSpec
INVARIANT TypeOK
PROPERTY WaitSeesAll
INVARIANT AnswerIsOwn
INVARIANT CrashOnlyByMisuse
PROPERTY NothingLeftBehind
CHECK_DEADLOCK FALSE
