CONSTANTS
    c1 = c1  c2 = c2  c3 = c3  n1 = n1  n2 = n2
    Anonymous = Anonymous  None = None
    Conns <- Two
    Nicks <- TwoNicks
    Capacity = 2
    ObjectPoints = 1  MaxObjects = 1  MaxTime = 2  MaxAccepts = 3
SPECIFICATION Spec
CHECK_DEADLOCK FALSE
SYMMETRY SymmBoth
INVARIANTS TableOnce RankInv RankOrder RankShowsCurrent
