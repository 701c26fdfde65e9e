SPECIFICATION Spec
CONSTANTS
    Lines <- LinesFew
    MaxLines = 1
    MaxPid = 4
    ExecRace = TRUE
    Stops = {}
    MaxStops = 0
INVARIANT ForegroundJobFinished
