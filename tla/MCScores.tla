------------------------------ MODULE MCScores ------------------------------
EXTENDS Scores, TLC
CONSTANTS c1, c2, c3, n1, n2
Two == {c1, c2}
Three == {c1, c2, c3}
OneNick == {n1}
TwoNicks == {n1, n2}
SymmNames == Permutations(Two)
SymmBoth == Permutations(Two) \cup Permutations(TwoNicks)
Symm3 == Permutations(Three) \cup Permutations(TwoNicks)
=============================================================================
