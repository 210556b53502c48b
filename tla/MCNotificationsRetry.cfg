SPECIFICATION FairSpec
CONSTANTS
    NoWorker = NoWorker
    NoNotice = NoNotice
    Notices = {n1, n2}
    Workers = {w1, w2}
    Adapters = {"EMAIL"}
    MaxAttempts = 2
    MaxStalled = 1
    MaxFaults = 2
CHECK_DEADLOCK FALSE
INVARIANT FailedSendsRetried
