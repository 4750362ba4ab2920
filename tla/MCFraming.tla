----------------------------- MODULE MCFraming -----------------------------
(* A handler and two broadcasting threads.  A list of two users fits the   *)
(* buffer if their lines are short; three are too many for the client.  A  *)
(* line fills the client's buffer only if it is torn.                      *)
EXTENDS Framing, TLC

CONSTANTS h, t, u

MCOthers == {t, u}
MCLengths == {1, 2}

Symmetry == Permutations(MCOthers)
=============================================================================
