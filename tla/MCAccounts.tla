----------------------------- MODULE MCAccounts -----------------------------
EXTENDS Accounts, TLC
CONSTANTS c1, c2, c3, n1, n2, p1, p2
Two == {c1, c2}
Three == {c1, c2, c3}
Nicks2 == {n1, n2}
Passwords2 == {p1, p2}
AllFaults == {"GET", "EXISTS", "SET"}
NoFaults == {}
Symm == Permutations(Three) \cup Permutations(Nicks2) \cup Permutations(Passwords2)
=============================================================================
