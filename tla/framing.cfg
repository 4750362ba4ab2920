CONSTANTS
    h = h
    t = t
    u = u
    Handler = h
    Others <- MCOthers
    MaxClients = 3
    Lengths <- MCLengths
    BufferSize = 9
    MaxMsg = 4
    MAX_USERS_DISPLAY = 2
    Capacity = 4
SYMMETRY Symmetry
SPECIFICATION Spec
INVARIANTS StreamInv TornByHandler InStep
CHECK_DEADLOCK FALSE
