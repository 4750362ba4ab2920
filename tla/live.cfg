CONSTANTS
    c1 = c1  c2 = c2  c3 = c3
    t1 = t1  t2 = t2
    None = None
    Conns <- Two
    Timers <- TwoTimers
    Commands <- AllCommands
    Faults <- NoFaults
SPECIFICATION FairSpec
PROPERTIES MatchEnds AllOutEnds CommandsEnd EndTold
CHECK_DEADLOCK FALSE
