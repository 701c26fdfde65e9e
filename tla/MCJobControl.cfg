SPECIFICATION Spec
CONSTANTS
    Lines <- LinesAll
    MaxLines = 2
    MaxPid = 4
    ExecRace = TRUE
    Stops = {"SIGTSTP", "SIGTTIN"}
    MaxStops = 1
INVARIANTS TypeOk ShellOwnsTerminal ReapedByWait GroupOutlivesLeader UnfinishedOnlyIf
PROPERTY KeepsContract
