---------------------------- MODULE GrowingTree ----------------------------
(***************************************************************************)
(* What the generation of a maze promises, whatever the order in which it  *)
(* carves: the open cells grow from a first room, by a neighbouring room   *)
(* and the wall between at a time, until every room is open; then a single *)
(* cell of the border is opened next to a room, and nothing changes until  *)
(* the next maze.                                                          *)
(***************************************************************************)
CONSTANTS Room, Border, Start, Directions, Beside(_, _), Ahead(_, _)

VARIABLE open

Init == open = {}

Begin ==
    /\ open = {} \/ open \cap Border # {}
    /\ open' = {Start}

Grow ==
    \E a \in Room \cap open, d \in Directions :
        /\ Ahead(a, d) \in Room \ open
        /\ open' = open \cup {Beside(a, d), Ahead(a, d)}

OpenBorder ==
    /\ Room \subseteq open
    /\ open \cap Border = {}
    /\ \E a \in Room, d \in Directions :
        /\ Beside(a, d) \in Border
        /\ open' = open \cup {Beside(a, d)}

Next == Begin \/ Grow \/ OpenBorder

Spec == Init /\ [][Next]_open
=============================================================================
