CONSTANTS
    p1 = p1  p2 = p2   b1 = b1  b2 = b2 
    Main = Main  Periodic = Periodic  None = None
    Peers <- TwoPeers
    Fds <- TwoFds
    Blocks <- TwoBlocks
    MaxCommands = 1
    MaxTicks = 1
    Faults <- NoFaults
SPECIFICATION Spec
CHECK_DEADLOCK FALSE
INVARIANT Survives
