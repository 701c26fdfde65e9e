SPECIFICATION Spec
CONSTANTS
    RunnableJobs <- JobsBuiltin
    LaterJobs = {}
    MaxJobs = 1
    MaxFd = 10
    Failures = {}
INVARIANT PipedAsWritten
