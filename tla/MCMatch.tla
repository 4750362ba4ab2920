------------------------------ MODULE MCMatch ------------------------------
(* Two mazes of five by five cells.  In the first the exit is in the last  *)
(* column and there are two objects; in the second the exit is (1, 1),     *)
(* where newcomers are put, and, to keep it small, there are no objects.   *)
(* Two connections play, come and go.  A third only makes START place      *)
(* three clients, so that one is given a room that is neither in the row   *)
(* nor in the column of (1, 1): Bystander.                                 *)
EXTENDS Match, TLC

CONSTANTS a, b, c

MCConns == {a, b, c}

East == [open |-> {<<1, 1>>, <<1, 2>>, <<1, 3>>, <<2, 3>>, <<3, 3>>,
                   <<2, 1>>, <<3, 1>>, <<4, 1>>},
         exit |-> <<3, 1>>, objects |-> {<<1, 3>>, <<2, 3>>}]

North == [open |-> {<<1, 1>>, <<1, 2>>, <<1, 3>>, <<2, 3>>, <<3, 3>>,
                    <<3, 2>>, <<3, 1>>, <<1, 0>>},
          exit |-> <<1, 1>>, objects |-> {}]

MCMazes == {East, North}

(* The states explored with the third connection: everybody comes, begins  *)
(* or is placed, and no object has been taken.                             *)
Bystander ==
    pc[c] # "none" =>
        /\ \A d \in Conns : pc[d] \in {"none", "idle"} \cup Unbegun \cup Starting
        /\ has_object = maze.objects

Symmetry == Permutations({a, b})
=============================================================================
