SPECIFICATION FairSpec
CONSTANTS
    RunnableJobs <- Jobs
    LaterJobs <- Later
    MaxJobs = 3
    MaxFd = 8
    Failures = {"pipe", "fork"}
INVARIANTS ShellKeepsNoFd ChildStreams ShellSurvives
PROPERTY SoundJobEnds
