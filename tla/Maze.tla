-------------------------------- MODULE Maze --------------------------------
(***************************************************************************)
(* The maze of server/game.c: game_init with the recursive carve, the exit *)
(* and the objects, then the objects that a match collects, and so on for  *)
(* every later match, which finds the matrix as the last left it.          *)
(*                                                                         *)
(* A call of carve is an entry of stack, with the directions its loop has  *)
(* not tried.  The shuffle of the four directions is that they are tried   *)
(* in any order; those that leave the matrix, which the loop passes over,  *)
(* are left out at once.  rand() is a choice.  game_init runs under        *)
(* maze_mutex, so its steps interleave with nothing.  A cell is <<x, y>>.  *)
(***************************************************************************)
EXTENDS Integers, Sequences, FiniteSets

CONSTANTS
    Width, Height,  \* MAP_WIDTH, MAP_HEIGHT
    Objects         \* OBJECT_COUNT

ASSUME SizeAssumption ==
    /\ Width \in Nat /\ Width >= 5 /\ Width % 2 = 1
    /\ Height \in Nat /\ Height >= 5 /\ Height % 2 = 1
ASSUME ObjectsAssumption == Objects \in Nat

VARIABLES
    tile, has_object, is_exit,  \* the fields of cell_t; flags as sets of cells
    stack,                      \* the calls of carve
    pc                          \* how far game_init is

vars == <<tile, has_object, is_exit, stack, pc>>

Cell == (0..Width - 1) \X (0..Height - 1)
Start == <<1, 1>>
Directions == {<<0, -1>>, <<0, 1>>, <<-1, 0>>, <<1, 0>>}
Beside(c, d) == <<c[1] + d[1], c[2] + d[2]>>
Ahead(c, d) == <<c[1] + 2 * d[1], c[2] + 2 * d[2]>>

(* The cells that carve can reach, and the outermost ones. *)
Room == {c \in Cell : c[1] % 2 = 1 /\ c[2] % 2 = 1}
Inner == (1..Width - 2) \X (1..Height - 2)
Border == Cell \ Inner

Tiles == {"wall", "empty", "object", "exit"}
(* Mutant of Call: inside stops short of the last room of a row. *)
CallInsideShort(c) ==
    [at |-> c, left |-> {d \in Directions : Ahead(c, d) \in Cell /\ Ahead(c, d)[1] < Width - 2}]

Call(c) == [at |-> c, left |-> {d \in Directions : Ahead(c, d) \in Cell}]

Calls == [at : Room, left : SUBSET Directions]

TypeOK ==
    /\ tile \in [Cell -> Tiles]
    /\ has_object \subseteq Inner
    /\ is_exit \subseteq Room
    /\ stack \in Seq(Calls)
    /\ pc \in {"none", "carve", "exit", "objects", "done"}

game_is_walkable(c) == c \in Cell /\ tile[c] # "wall"
Walkable == {c \in Cell : game_is_walkable(c)}

(* The server starts with a zeroed matrix: walls. *)
Init ==
    /\ tile = [c \in Cell |-> "wall"]
    /\ has_object = {} /\ is_exit = {}
    /\ stack = << >>
    /\ pc = "none"

(* Mutant of game_init: the flags of the last maze are kept. *)
InitKeepsExit ==
    /\ pc \in {"none", "done"}
    /\ pc' = "carve"
    /\ tile' = [c \in Cell |-> IF c = Start THEN "empty" ELSE "wall"]
    /\ has_object' = {}
    /\ stack' = <<Call(Start)>>
    /\ UNCHANGED is_exit

game_init ==
    /\ pc \in {"none", "done"}
    /\ pc' = "carve"
    /\ tile' = [c \in Cell |-> IF c = Start THEN "empty" ELSE "wall"]
    /\ has_object' = {}
    /\ is_exit' = {}
    /\ stack' = <<Call(Start)>>

Top == stack[Len(stack)]
Tried(d) == [stack EXCEPT ![Len(stack)].left = @ \ {d}]

(* Mutants of carve: the wall in between stays, the loop only goes on      *)
(* after a room that was closed.                                           *)
CarveLeavesWall(d) ==
    /\ pc = "carve"
    /\ stack # << >> /\ d \in Top.left
    /\ LET n == Ahead(Top.at, d)
       IN  \/ /\ tile[n] = "wall"
              /\ tile' = [tile EXCEPT ![n] = "empty"]
              /\ stack' = Append(Tried(d), Call(n))
           \/ /\ tile[n] # "wall"
              /\ stack' = Tried(d)
              /\ UNCHANGED tile
    /\ UNCHANGED <<has_object, is_exit, pc>>

CarveRepeats(d) ==
    /\ pc = "carve"
    /\ stack # << >> /\ d \in Top.left
    /\ LET n == Ahead(Top.at, d)
       IN  \/ /\ tile[n] = "wall"
              /\ tile' = [tile EXCEPT ![n] = "empty", ![Beside(Top.at, d)] = "empty"]
              /\ stack' = Append(Tried(d), Call(n))
           \/ tile[n] # "wall" /\ UNCHANGED <<tile, stack>>
    /\ UNCHANGED <<has_object, is_exit, pc>>

carve(d) ==
    /\ pc = "carve"
    /\ stack # << >> /\ d \in Top.left
    /\ LET n == Ahead(Top.at, d)
       IN  \/ /\ tile[n] = "wall"
              /\ tile' = [tile EXCEPT ![n] = "empty", ![Beside(Top.at, d)] = "empty"]
              /\ stack' = Append(Tried(d), Call(n))
           \/ /\ tile[n] # "wall"
              /\ stack' = Tried(d)
              /\ UNCHANGED tile
    /\ UNCHANGED <<has_object, is_exit, pc>>

carve_return ==
    /\ pc = "carve"
    /\ stack # << >> /\ Top.left = {}
    /\ stack' = SubSeq(stack, 1, Len(stack) - 1)
    /\ UNCHANGED <<tile, has_object, is_exit, pc>>

(* Mutant of Exits: the coordinate along the side need not be odd.         *)
ExitsAnywhere ==
    LET xs == 1..Width - 3
        ys == 1..Height - 3
    IN  {<<<<x, 1>>, <<x, 0>>>> : x \in xs}
        \cup {<<<<x, Height - 2>>, <<x, Height - 1>>>> : x \in xs}
        \cup {<<<<1, y>>, <<0, y>>>> : y \in ys}
        \cup {<<<<Width - 2, y>>, <<Width - 1, y>>>> : y \in ys}

(* The exits that place_exit chooses from, with the border cell it opens:  *)
(* the last room of a side is never chosen.                                *)
Exits ==
    LET xs == {2 * i + 1 : i \in 0..(Width - 3) \div 2 - 1}
        ys == {2 * j + 1 : j \in 0..(Height - 3) \div 2 - 1}
    IN  {<<<<x, 1>>, <<x, 0>>>> : x \in xs}
        \cup {<<<<x, Height - 2>>, <<x, Height - 1>>>> : x \in xs}
        \cup {<<<<1, y>>, <<0, y>>>> : y \in ys}
        \cup {<<<<Width - 2, y>>, <<Width - 1, y>>>> : y \in ys}

place_exit ==
    /\ pc = "carve" /\ stack = << >>
    /\ \E e \in Exits :
        /\ tile' = [tile EXCEPT ![e[1]] = "exit", ![e[2]] = "empty"]
        /\ is_exit' = is_exit \cup {e[1]}
    /\ pc' = "objects"
    /\ UNCHANGED <<has_object, stack>>

(* The loop of game_init that places the objects: a random cell that does  *)
(* not suit changes nothing and another is drawn.                          *)
place_object ==
    /\ pc = "objects" /\ Cardinality(has_object) < Objects
    /\ \E c \in Inner :
        /\ tile[c] = "empty" /\ c \notin is_exit /\ c \notin has_object
        /\ tile' = [tile EXCEPT ![c] = "object"]
        /\ has_object' = has_object \cup {c}
    /\ UNCHANGED <<is_exit, stack, pc>>

objects_done ==
    /\ pc = "objects" /\ Cardinality(has_object) >= Objects
    /\ pc' = "done"
    /\ UNCHANGED <<tile, has_object, is_exit, stack>>

(* A MOVE of the match collects the object it stands on. *)
game_pickup(c) ==
    /\ pc = "done" /\ c \in has_object
    /\ has_object' = has_object \ {c}
    /\ tile' = [tile EXCEPT ![c] = "empty"]
    /\ UNCHANGED <<is_exit, stack, pc>>

Generate ==
    \/ \E d \in Directions : carve(d)
    \/ carve_return \/ place_exit \/ place_object \/ objects_done

Next == game_init \/ Generate \/ \E c \in Inner : game_pickup(c)

Spec == Init /\ [][Next]_vars
FairSpec == Spec /\ WF_vars(Generate)

-----------------------------------------------------------------------------
(* Properties. *)

Closed(S, W) ==
    \A c \in S, d \in Directions : Beside(c, d) \in W => Beside(c, d) \in S

(* From Start one walks to every cell of W: a part of W that has Start and *)
(* that one cannot walk out of is W.                                       *)
Linked(W) ==
    \A S \in SUBSET (W \ {Start}) :
        Closed(S \cup {Start}, W) => S \cup {Start} = W

(* Every walkable cell can be walked to from (1, 1), at every moment of    *)
(* the generation.  So a player, wherever START has put it, can reach      *)
(* every object and the exit.                                              *)
Connected == pc # "none" => Linked(Walkable)

(* The recursion leaves no room closed, whatever the order of directions.  *)
AllRoomsOpen == pc \in {"objects", "done"} => Room \subseteq Walkable

(* A maze without circles: as many passages as rooms less one.             *)
Perfect ==
    pc # "none" =>
        Cardinality(Walkable \cap Inner) = 2 * Cardinality(Walkable \cap Room) - 1

(* In the match the maze has one exit, next to the only opening of the border,   *)
(* and the tiles and flags, which different functions read, agree, also    *)
(* when the matrix was used before and while objects are collected.        *)
WellFormed ==
    pc = "done" =>
        /\ \E e \in Exits : is_exit = {e[1]} /\ Walkable \cap Border = {e[2]}
        /\ is_exit = {c \in Cell : tile[c] = "exit"}
        /\ has_object = {c \in Cell : tile[c] = "object"}
        /\ Cardinality(has_object) <= Objects

(* What makes them inductive.  A call that has not tried a direction yet   *)
(* stands for the room ahead: any other room next to an open one is open.  *)
Pending(c, d) == \E i \in DOMAIN stack : stack[i].at = c /\ d \in stack[i].left

Explored ==
    pc # "none" =>
        \A c \in Room \cap Walkable, d \in Directions :
            Ahead(c, d) \in Cell => Ahead(c, d) \in Walkable \/ Pending(c, d)

(* A wall between two rooms is only opened with both of them. *)
BothEndsOpen ==
    \A c \in Room, d \in Directions :
        Ahead(c, d) \in Cell /\ Beside(c, d) \in Walkable
            => c \in Walkable /\ Ahead(c, d) \in Walkable

CallsInOpenRooms ==
    /\ pc # "carve" => stack = << >>
    /\ pc # "none" => Start \in Walkable
    /\ \A i \in DOMAIN stack :
        /\ stack[i].at \in Walkable
        /\ \A d \in stack[i].left : Ahead(stack[i].at, d) \in Cell

(* The matrix is clean until carve has ended, and as in WellFormed after. *)
Prepared ==
    /\ pc = "none" => Walkable = {}
    /\ pc = "carve" =>
        /\ has_object = {} /\ is_exit = {}
        /\ Walkable \subseteq Inner
        /\ \A c \in Walkable : tile[c] = "empty"

Placed ==
    pc \in {"objects", "done"} =>
        /\ \E e \in Exits : is_exit = {e[1]} /\ Walkable \cap Border = {e[2]}
        /\ is_exit = {c \in Cell : tile[c] = "exit"}
        /\ has_object = {c \in Cell : tile[c] = "object"}
        /\ IsFiniteSet(has_object)
        /\ Cardinality(has_object) <= Objects

IInv ==
    /\ TypeOK /\ Connected /\ Perfect
    /\ Explored /\ BothEndsOpen /\ CallsInOpenRooms /\ Prepared /\ Placed

(* The recursion and the loop for the objects end. *)
Generated == pc = "carve" ~> pc = "done"

Tree == INSTANCE GrowingTree
          WITH open <- IF pc = "none" THEN {} ELSE Walkable

(* The recursive carving is a tree that grows. *)
Implements == Tree!Spec
=============================================================================
