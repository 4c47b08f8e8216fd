SPECIFICATION LiveSpec
CONSTANTS
    w1 = w1
    Workers = {w1}
    a = a
    b = b
    Contents = {a, b}
    NoFile = NoFile
    Junk = Junk
    MaxDocs = 2
    MaxCrashes = 1
    MaxFaults = 1
PROPERTY PreparedIsRestored
CHECK_DEADLOCK FALSE
