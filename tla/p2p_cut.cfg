SPECIFICATION NetworkSpec
CONSTANTS
    c1 = c1
    c2 = c2
    c3 = c3
    Clients <- MCClients
    Free = Free
    Failed = Failed
    Garbage = Garbage
    MaxClients = 2
    Surroundings <- Clean
    Scripts <- MCScripts
    Backlog = 1
    MaxFaults = 1
CHECK_DEADLOCK FALSE
INVARIANT CutReported
