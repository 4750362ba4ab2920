CONSTANTS
    n1 = n1  n2 = n2
    None = None  Guest = Guest  Stranger = Stranger  Me = Me
    Nicks <- TwoNicks
    Within <- InStrangersLine
    MaxOut = 1  MaxIn = 1  MaxUntold = 1
SPECIFICATION Spec
SYMMETRY Symm
CHECK_DEADLOCK FALSE
INVARIANTS NickTruth  PlayInv ExitTruth
