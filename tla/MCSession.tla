----------------------------- MODULE MCSession -----------------------------
EXTENDS Session, TLC
CONSTANTS c1, c2, c3, t1, t2
Two == {c1, c2}
Three == {c1, c2, c3}
OneTimer == {t1}
TwoTimers == {t1, t2}
AllCommands == {"LOGIN", "READY", "START", "RESET", "MOVE", "QUIT"}
NoFaults == {}
ClientFaults == {"client_create"}
TimerFaults == {"timer_create"}
AllFaults == ClientFaults \cup TimerFaults
Symm2 == Permutations(Two) \cup Permutations(TwoTimers)
Symm3 == Permutations(Three)
=============================================================================
