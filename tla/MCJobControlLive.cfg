SPECIFICATION FairSpec
CONSTANTS
    Lines <- LinesFew
    MaxLines = 1
    MaxPid = 4
    ExecRace = TRUE
    Stops = {"SIGTSTP"}
    MaxStops = 2
PROPERTIES ZombiesReaped WaitsOnlyForRunning ExitHonoured
