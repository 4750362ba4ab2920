CONSTANTS
    c1 = c1  c2 = c2  c3 = c3  n1 = n1  n2 = n2  p1 = p1  p2 = p2
    Absent = Absent
    Conns <- Three
    Nicks <- Nicks2
    Passwords <- Passwords2
    Faults <- AllFaults
SPECIFICATION Spec
SYMMETRY Symm
INVARIANTS AuthHasAccount NickShared
PROPERTIES PasswordReplaced
