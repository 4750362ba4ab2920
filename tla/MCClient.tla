------------------------------ MODULE MCClient ------------------------------
EXTENDS Client, TLC
CONSTANTS n1, n2
TwoNicks == {n1, n2}
InStrangersLine == {<<n, n>> : n \in Nicks} \cup {<<n, Stranger>> : n \in Nicks}
Symm == Permutations(TwoNicks)
=============================================================================
