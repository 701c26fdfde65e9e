SPECIFICATION FairSpec
CONSTANTS
    Width = 3
    ReportBytes = 3
    MaxLen = 5
    Recalled <- MCRecalled
    MaxFlight = 3
    MaxKeys = 6
    MaxLines = 2
INVARIANTS ColumnAgrees ShowsText
PROPERTY ExchangeEnds
CHECK_DEADLOCK FALSE
