CONSTANTS
    c1 = c1  c2 = c2  c3 = c3
    t1 = t1  t2 = t2
    None = None
    Conns <- Two
    Timers <- TwoTimers
    Commands <- AllCommands
    Faults <- AllFaults
SPECIFICATION Spec
SYMMETRY Symm2
CHECK_DEADLOCK FALSE
INVARIANTS OneOwner TimerAlive SpawnAlone EndHasTeller
PROPERTIES PhaseOrder EndCause Implements
