--------------------------- MODULE MCConnections ---------------------------
EXTENDS Connections, TLC
CONSTANTS p1, p2, b1, b2
TwoPeers == {p1, p2}
TwoFds == {4, 5}
TwoBlocks == {b1, b2}
AllFaults == {"accept", "calloc", "pthread_create"}
NoFaults == {}
=============================================================================
