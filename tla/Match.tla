------------------------------- MODULE Match -------------------------------
(***************************************************************************)
(* The players in the maze: what START, MOVE, LOCAL, GLOBAL, RESET, coming *)
(* and leaving do to positions, discovered cells, objects and exits        *)
(* (server/server.c with server/game.c).                                   *)
(*                                                                         *)
(* A MOVE is taken apart where another thread may get in: the test of      *)
(* PLAYING, the reading of exit_reached, the two halves of the section     *)
(* under maze_mutex (the position, and what is done where it now is), and  *)
(* after it the unlocked writes to the score, each with a send before it.  *)
(* What the section found is carried on in local variables: carry.         *)
(* START, RESET and a thread that begins write positions and cells with no *)
(* mutex in common: they too are taken apart, write by write, a whole      *)
(* visible array being cleared or marked in one step.                      *)
(*                                                                         *)
(* Taken from the other modules: a maze is any record that Maze proves of  *)
(* a generated one (IsMaze); START meets no MOVE and no RESET under way    *)
(* (Session, SpawnAlone), which is a conjunct of its guard here and stands *)
(* for readiness and ownership.  A command the handler refuses without a   *)
(* change (wrong phase, unknown direction) is no step.                     *)
(***************************************************************************)
EXTENDS Integers, Sequences, SequencesExt, FiniteSets

CONSTANTS
    Conns,          \* connections; one may leave and another take its place
    Width, Height,  \* MAP_WIDTH, MAP_HEIGHT
    Radius,         \* VIEW_RADIUS
    Mazes           \* the mazes game_init may draw

ASSUME SizeAssumption ==
    /\ Width \in Nat /\ Width >= 5 /\ Height \in Nat /\ Height >= 5
    /\ Radius \in Nat

Cell == (0..Width - 1) \X (0..Height - 1)
Inner == (1..Width - 2) \X (1..Height - 2)
Room == {x \in Inner : x[1] % 2 = 1 /\ x[2] % 2 = 1}
Start == <<1, 1>>
Corner == <<0, 0>>          \* the position of a block fresh from calloc
Nowhere == <<-1, -1>>       \* where the views put a player that is out
Beside(x, d) == <<x[1] + d[1], x[2] + d[2]>>
Directions == {<<0, -1>>, <<0, 1>>, <<-1, 0>>, <<1, 0>>}
Around == (-Radius..Radius) \X (-Radius..Radius)

(* A maze: its open cells, its exit and its objects. *)
IsMaze(m) ==
    /\ m.open \subseteq Cell /\ Room \subseteq m.open
    /\ m.exit \in Room
    /\ \A x \in m.open \ Inner, d \in Directions :
            Beside(x, d) \in m.open => Beside(x, d) = m.exit
    /\ m.objects \subseteq (m.open \cap Inner) \ {m.exit}
    /\ IsFiniteSet(m.objects)

ASSUME MazesAssumption == \A m \in Mazes : IsMaze(m)

(* Before the first match the matrix is zeroed: walls. *)
NoMaze == [open |-> {}, exit |-> Nowhere, objects |-> {}]

VARIABLES
    session_state, maze, has_object,
    client_list,                \* head first
    pos, visible, objects_collected, exit_reached,      \* of client_t
    pc, carry,                  \* where a thread is and what its MOVE found
    taken, lost,                \* history: the objects counted for a client
                                \* and for those that left
    onexit                      \* history: clients put on the exit cell

board == <<session_state, maze>>
player == <<pos, visible, objects_collected, exit_reached, taken, onexit>>
vars == <<board, has_object, client_list, player, pc, carry, lost>>

Moving == {"asked", "looked", "walked", "sent", "counted", "out"}
Unbegun == {"created", "new", "put_x", "put_y"}
Starting == {"start_y", "start_mark"}
Resetting == {"reset", "reset_clear", "reset_mark"}
Unlisted == {"none", "failed", "left", "gone"}
Listed == ToSet(client_list)

TypeOK ==
    /\ session_state \in {"LOBBY", "PLAYING", "FINISHED"}
    /\ maze \in Mazes \cup {NoMaze}
    /\ session_state # "LOBBY" => maze \in Mazes
    /\ has_object \subseteq maze.objects
    /\ client_list \in Seq(Conns)
    /\ pos \in [Conns -> Cell]
    /\ visible \in [Conns -> SUBSET Cell]
    /\ objects_collected \in [Conns -> Nat]
    /\ exit_reached \in [Conns -> BOOLEAN]
    /\ pc \in [Conns -> {"idle"} \cup Unlisted \cup Unbegun \cup Starting
                         \cup Resetting \cup Moving]
    /\ carry \in [Conns -> SUBSET {"object", "exit", "last"}]
    /\ taken \in [Conns -> SUBSET Cell]
    /\ lost \subseteq Cell
    /\ onexit \subseteq Conns

Init ==
    /\ session_state = "LOBBY"
    /\ maze = NoMaze /\ has_object = {}
    /\ client_list = <<>>
    /\ pos = [c \in Conns |-> Corner]
    /\ visible = [c \in Conns |-> {}]
    /\ objects_collected = [c \in Conns |-> 0]
    /\ exit_reached = [c \in Conns |-> FALSE]
    /\ pc = [c \in Conns |-> "none"]
    /\ carry = [c \in Conns |-> {}]
    /\ taken = [c \in Conns |-> {}]
    /\ lost = {} /\ onexit = {}

Goto(c, to) == pc' = [pc EXCEPT ![c] = to]

-----------------------------------------------------------------------------
(* game.c *)

(* Mutant of game_is_walkable: the tile is not tested. *)
ThroughWalls(x) == x \in Cell

game_is_walkable(x) == x \in maze.open

game_is_exit(x) == x = maze.exit

(* What game_mark_visible marks for a player at x. *)
Near(x) == {Beside(x, a) : a \in Around} \cap Cell

(* What a discovered cell looks like; the others are hidden. *)
cell_char(x, seen) ==
    CASE x \notin seen -> "hidden"
      [] x \in seen /\ game_is_exit(x) -> "exit"
      [] x \in seen /\ x \in has_object /\ ~game_is_exit(x) -> "object"
      [] x \in seen /\ ~game_is_walkable(x) -> "wall"
      [] x \in seen /\ game_is_walkable(x) /\ ~game_is_exit(x)
            /\ x \notin has_object -> "empty"

is_other_player(x, others, seen) == x \in others /\ x \in seen

game_build_local_view(p, seen, others) ==
    [a \in Around |->
        LET x == Beside(p, a) IN
        IF a = <<0, 0>> THEN "player"
        ELSE IF x \in Cell /\ is_other_player(x, others, seen) THEN "other"
        ELSE IF x \in Cell THEN cell_char(x, seen)
        ELSE "wall"]

game_build_global_view(p, seen, others) ==
    [x \in Cell |->
        IF x = p THEN "player"
        ELSE IF is_other_player(x, others, seen) THEN "other"
        ELSE cell_char(x, seen)]

(* The positions that LOCAL, GLOBAL, MOVE and periodic_global pass on. *)
get_other_positions(c) == {pos[d] : d \in {e \in Listed \ {c} : ~exit_reached[e]}}
ViewFrom(c) == IF exit_reached[c] THEN Nowhere ELSE pos[c]

handle_local(c) ==
    game_build_local_view(ViewFrom(c), visible[c], get_other_positions(c))
handle_global(c) ==
    game_build_global_view(ViewFrom(c), visible[c], get_other_positions(c))

-----------------------------------------------------------------------------
(* client_mutex is held while START places the players and while RESET     *)
(* goes through them.                                                      *)

ClientFree ==
    \A c \in Conns : pc[c] \notin Starting \cup {"reset_clear", "reset_mark"}

(* Coming: the block, its fields zeroed, is linked by main, which then     *)
(* creates its thread.                                                     *)

MainFree == \A c \in Conns : pc[c] \notin {"created", "failed"}

client_list_add(c) ==
    /\ pc[c] = "none"
    /\ MainFree /\ ClientFree
    /\ client_list' = <<c>> \o client_list
    /\ Goto(c, "created")
    /\ UNCHANGED <<board, has_object, player, carry, lost>>

CreateThread(c) ==
    /\ pc[c] = "created"
    /\ Goto(c, "new")
    /\ UNCHANGED <<board, has_object, client_list, player, carry, lost>>

(* The thread begins: it puts the player on (1, 1), one coordinate after   *)
(* the other, and marks the cells around wherever the player then is,      *)
(* without a mutex and whatever the phase.                                 *)
BeginX(c) ==
    /\ pc[c] = "new"
    /\ pos' = [pos EXCEPT ![c] = <<Start[1], @[2]>>]
    /\ Goto(c, "put_x")
    /\ UNCHANGED <<board, has_object, client_list, visible, objects_collected,
                   exit_reached, taken, onexit, carry, lost>>

BeginY(c) ==
    /\ pc[c] = "put_x"
    /\ pos' = [pos EXCEPT ![c] = <<@[1], Start[2]>>]
    /\ Goto(c, "put_y")
    /\ UNCHANGED <<board, has_object, client_list, visible, objects_collected,
                   exit_reached, taken, onexit, carry, lost>>

(* Mutant of BeginMark: it marks the cells around (1, 1). *)
BeginMarkStart(c) ==
    /\ pc[c] = "put_y"
    /\ visible' = [visible EXCEPT ![c] = @ \cup Near(Start)]
    /\ onexit' = IF game_is_exit(pos[c]) THEN onexit \cup {c} ELSE onexit \ {c}
    /\ Goto(c, "idle")
    /\ UNCHANGED <<board, has_object, client_list, pos, objects_collected,
                   exit_reached, taken, carry, lost>>

BeginMark(c) ==
    /\ pc[c] = "put_y"
    /\ visible' = [visible EXCEPT ![c] = @ \cup Near(pos[c])]
    /\ onexit' = IF game_is_exit(pos[c]) THEN onexit \cup {c} ELSE onexit \ {c}
    /\ Goto(c, "idle")
    /\ UNCHANGED <<board, has_object, client_list, pos, objects_collected,
                   exit_reached, taken, carry, lost>>

-----------------------------------------------------------------------------
(* START: the maze, then the players, round the rooms in the order of the  *)
(* list.  A thread whose client came after the check of readiness may      *)
(* begin between any two of its steps.                                     *)

(* Mutant of PoolOf: the exit is not left out. *)
PoolWithExit(m) == Room

PoolOf(m) == Room \ {m.exit}

RowMajor(f) ==
    \A i, j \in DOMAIN f :
        i < j => \/ f[i][2] < f[j][2]
                 \/ f[i][2] = f[j][2] /\ f[i][1] < f[j][1]

(* The pool in the order it is collected: there is one. *)
Pools(m) == {f \in [1..Cardinality(PoolOf(m)) -> PoolOf(m)] : RowMajor(f)}

idx(c) == (CHOOSE i \in DOMAIN client_list : client_list[i] = c) - 1

(* The cell of each client, f being the pool. *)
assign_spawn_positions(f) ==
    [c \in Listed |-> f[1 + (idx(c) % Len(f))]]

(* game_init; every client cleared by reset_client_for_lobby and its first *)
(* coordinate written ...                                                  *)
start_game_session(c) ==
    /\ session_state = "LOBBY"
    /\ pc[c] = "idle"
    /\ \A d \in Listed : pc[d] \in {"idle"} \cup Unbegun
    /\ \E m \in Mazes : \E f \in Pools(m) :
        LET spawn == assign_spawn_positions(f) IN
        /\ maze' = m /\ has_object' = m.objects
        /\ pos' = [d \in Conns |->
                IF d \in Listed THEN <<spawn[d][1], Start[2]>> ELSE pos[d]]
    /\ visible' = [d \in Conns |->
            IF d \in Listed THEN Near(Start) ELSE visible[d]]
    /\ objects_collected' = [d \in Conns |-> 0]
    /\ exit_reached' = [d \in Conns |-> FALSE]
    /\ taken' = [d \in Conns |-> {}]
    /\ onexit' = {} /\ lost' = {}
    /\ Goto(c, "start_y")
    /\ UNCHANGED <<session_state, client_list, carry>>

(* ... the second coordinate ...                                           *)
StartY(c) ==
    /\ pc[c] = "start_y"
    /\ \E f \in Pools(maze) :
        pos' = [d \in Conns |->
                IF d \in Listed THEN <<pos[d][1], assign_spawn_positions(f)[d][2]>>
                ELSE pos[d]]
    /\ Goto(c, "start_mark")
    /\ UNCHANGED <<board, has_object, client_list, visible, objects_collected,
                   exit_reached, taken, onexit, carry, lost>>

(* ... and the cells around wherever the player then is.  Who stands on    *)
(* the exit without having been given it was put there by its own thread.  *)
StartMark(c) ==
    /\ pc[c] = "start_mark"
    /\ session_state' = "PLAYING"
    /\ visible' = [d \in Conns |->
            IF d \in Listed THEN visible[d] \cup Near(pos[d]) ELSE visible[d]]
    /\ \E f \in Pools(maze) :
        onexit' = {d \in Listed : game_is_exit(pos[d])
                                  /\ pos[d] # assign_spawn_positions(f)[d]}
    /\ Goto(c, "idle")
    /\ UNCHANGED <<maze, has_object, client_list, pos, objects_collected,
                   exit_reached, taken, carry, lost>>

-----------------------------------------------------------------------------
(* MOVE. *)

(* The test of PLAYING. *)
MoveAsk(c) ==
    /\ pc[c] = "idle"
    /\ session_state = "PLAYING"
    /\ Goto(c, "asked")
    /\ UNCHANGED <<board, has_object, client_list, player, carry, lost>>

(* Mutant of MoveSee: a player that is out goes on. *)
MoveSeeNothing(c) ==
    /\ pc[c] = "asked"
    /\ Goto(c, "looked")
    /\ UNCHANGED <<board, has_object, client_list, player, carry, lost>>

(* A player that is out only gets a map. *)
MoveSee(c) ==
    /\ pc[c] = "asked"
    /\ Goto(c, IF exit_reached[c] THEN "idle" ELSE "looked")
    /\ UNCHANGED <<board, has_object, client_list, player, carry, lost>>

(* Mutant of game_pickup: the flag of the cell stays. *)
PickupKeeps(x) == UNCHANGED has_object

game_pickup(x) == has_object' = has_object \ {x}

(* The section under maze_mutex: the step of the player ... *)
game_move(c) ==
    /\ pc[c] = "looked"
    /\ \A d \in Conns : pc[d] # "walked"
    /\ \E d \in Directions :
        LET x == Beside(pos[c], d)
        IN  \/ ~game_is_walkable(x) /\ Goto(c, "idle") /\ UNCHANGED pos
            \/ /\ game_is_walkable(x)
               /\ pos' = [pos EXCEPT ![c] = x]
               /\ Goto(c, "walked")
    /\ UNCHANGED <<board, has_object, client_list, visible, objects_collected,
                   exit_reached, taken, onexit, carry, lost>>

(* ... and what is around and on the cell where it now stands. *)
MoveMark(c) ==
    /\ pc[c] = "walked"
    /\ visible' = [visible EXCEPT ![c] = @ \cup Near(pos[c])]
    /\ game_pickup(pos[c])
    /\ carry' = [carry EXCEPT ![c] =
            (IF pos[c] \in has_object THEN {"object"} ELSE {})
            \cup (IF game_is_exit(pos[c]) THEN {"exit"} ELSE {})]
    /\ taken' = [taken EXCEPT ![c] = @ \cup (has_object \cap {pos[c]})]
    /\ Goto(c, "sent")
    /\ UNCHANGED <<board, client_list, pos, objects_collected, exit_reached,
                   onexit, lost>>

(* The score, written without a mutex after a send. *)
MoveCount(c) ==
    /\ pc[c] = "sent"
    /\ objects_collected' = [objects_collected EXCEPT ![c] =
            IF "object" \in carry[c] THEN @ + 1 ELSE @]
    /\ carry' = [carry EXCEPT ![c] = @ \ {"object"}]
    /\ Goto(c, "counted")
    /\ UNCHANGED <<board, has_object, client_list, pos, visible, exit_reached,
                   taken, onexit, lost>>

MoveOut(c) ==
    /\ pc[c] = "counted"
    /\ IF "exit" \in carry[c] /\ ~exit_reached[c]
       THEN /\ exit_reached' = [exit_reached EXCEPT ![c] = TRUE]
            /\ Goto(c, "out")
       ELSE Goto(c, "idle") /\ UNCHANGED exit_reached
    /\ carry' = [carry EXCEPT ![c] = {}]
    /\ UNCHANGED <<board, has_object, client_list, pos, visible,
                   objects_collected, taken, onexit, lost>>

all_players_done ==
    client_list # <<>> /\ \A c \in Listed : exit_reached[c]

EndIf(over) ==
    session_state' = IF over /\ session_state = "PLAYING" THEN "FINISHED"
                                                       ELSE session_state

MoveDone(c) ==
    /\ pc[c] = "out"
    /\ EndIf(all_players_done)
    /\ Goto(c, "idle")
    /\ UNCHANGED <<maze, has_object, client_list, player, carry, lost>>

-----------------------------------------------------------------------------
(* The end of a match, RESET, leaving. *)

session_timer ==
    /\ session_state = "PLAYING"
    /\ session_state' = "FINISHED"
    /\ UNCHANGED <<maze, has_object, client_list, player, pc, carry, lost>>

(* handle_reset and the first section of reset_session_to_lobby. *)
ResetSet(c) ==
    /\ pc[c] = "idle"
    /\ session_state = "FINISHED"
    /\ session_state' = "LOBBY"
    /\ Goto(c, "reset")
    /\ UNCHANGED <<maze, has_object, client_list, player, carry, lost>>

(* Its last section, under client_mutex.  A MOVE still under way may write *)
(* the same fields: of each coordinate, and of the count, the value it     *)
(* wrote may be the last ...                                               *)
reset_client_for_lobby(c) ==
    LET Busy == {d \in Listed : pc[d] \in Moving} IN
    /\ pc[c] = "reset"
    /\ \E kx \in SUBSET Busy, ky \in SUBSET Busy, kn \in SUBSET Busy :
        /\ pos' = [d \in Conns |->
                IF d \in Listed THEN <<IF d \in kx THEN pos[d][1] ELSE 1,
                                       IF d \in ky THEN pos[d][2] ELSE 1>>
                ELSE pos[d]]
        /\ objects_collected' = [d \in Conns |->
                IF d \in kn THEN objects_collected[d] ELSE 0]
    /\ exit_reached' = [d \in Conns |-> FALSE]
    /\ taken' = [d \in Conns |-> {}]
    /\ onexit' = {}
    /\ Goto(c, "reset_clear")
    /\ UNCHANGED <<board, has_object, client_list, visible, carry, lost>>

(* ... then the cells are hidden ...                                       *)
ResetClear(c) ==
    /\ pc[c] = "reset_clear"
    /\ visible' = [d \in Conns |-> IF d \in Listed THEN {} ELSE visible[d]]
    /\ Goto(c, "reset_mark")
    /\ UNCHANGED <<board, has_object, client_list, pos, objects_collected,
                   exit_reached, taken, onexit, carry, lost>>

(* ... and those around the player marked: around (1, 1) in a build that   *)
(* remembers what it wrote, around the player in one that reads it back.   *)
ResetMark(c) ==
    /\ pc[c] = "reset_mark"
    /\ \E reread \in BOOLEAN :
        visible' = [d \in Conns |->
            IF d \in Listed THEN visible[d] \cup Near(IF reread THEN pos[d] ELSE Start)
            ELSE visible[d]]
    /\ Goto(c, "idle")
    /\ UNCHANGED <<board, has_object, client_list, pos, objects_collected,
                   exit_reached, taken, onexit, carry, lost>>

(* QUIT or a lost connection, or, by main, a connection whose thread could *)
(* not be created: out of the list, and the block freed (its fields stand  *)
(* for those of the next block, from calloc) ...                           *)
client_list_remove(c) ==
    /\ \/ pc[c] = "idle" /\ Goto(c, "left")
       \/ pc[c] = "created" /\ Goto(c, "failed")
    /\ ClientFree
    /\ \E i \in DOMAIN client_list :
        client_list[i] = c /\ client_list' = RemoveAt(client_list, i)
    /\ carry' = [carry EXCEPT ![c] = IF client_list' = <<>> THEN {"last"} ELSE {}]
    /\ lost' = lost \cup taken[c]
    /\ taken' = [taken EXCEPT ![c] = {}]
    /\ pos' = [pos EXCEPT ![c] = Corner]
    /\ visible' = [visible EXCEPT ![c] = {}]
    /\ objects_collected' = [objects_collected EXCEPT ![c] = 0]
    /\ exit_reached' = [exit_reached EXCEPT ![c] = FALSE]
    /\ onexit' = onexit \ {c}
    /\ UNCHANGED <<board, has_object>>

(* ... the test of what remained then... *)
RemoveLast(c) ==
    /\ \/ pc[c] = "left" /\ Goto(c, "gone")
       \/ pc[c] = "failed" /\ Goto(c, "none")
    /\ EndIf("last" \in carry[c])
    /\ carry' = [carry EXCEPT ![c] = {}]
    /\ UNCHANGED <<maze, has_object, client_list, player, lost>>

(* ... and, by a handler thread, of what remains now. *)
Cleanup(c) ==
    /\ pc[c] = "gone"
    /\ EndIf(client_list = <<>> \/ all_players_done)
    /\ Goto(c, "none")
    /\ UNCHANGED <<maze, has_object, client_list, player, carry, lost>>

Next ==
    \/ session_timer
    \/ \E c \in Conns :
        \/ client_list_add(c) \/ CreateThread(c)
        \/ BeginX(c) \/ BeginY(c) \/ BeginMark(c)
        \/ start_game_session(c) \/ StartY(c) \/ StartMark(c)
        \/ MoveAsk(c) \/ MoveSee(c) \/ game_move(c) \/ MoveMark(c)
        \/ MoveCount(c) \/ MoveOut(c) \/ MoveDone(c)
        \/ ResetSet(c) \/ reset_client_for_lobby(c)
        \/ ResetClear(c) \/ ResetMark(c)
        \/ client_list_remove(c) \/ RemoveLast(c) \/ Cleanup(c)

Spec == Init /\ [][Next]_vars

-----------------------------------------------------------------------------
(***************************************************************************)
(* Properties.                                                             *)
(***************************************************************************)

Begun == {c \in Listed : pc[c] \notin Unbegun}
InMatch == session_state # "LOBBY"

(* Whoever plays stands in the open, inside the grid: START, MOVE and a    *)
(* thread that begins while the players are placed, or long after, never   *)
(* leave a player in a wall of this match's maze, where it could not move. *)
InTheOpen ==
    InMatch => \A c \in Begun : pos[c] \in maze.open

(* The objects of the maze are shared out: each still lies there, or was   *)
(* taken by one player that is here, or by one that left; a player's score *)
(* counts those it took, but for one its MOVE has picked up under          *)
(* maze_mutex and not counted yet.  Two players on the same cell never     *)
(* both get it, and a MOVE that a RESET overtakes brings nothing into the  *)
(* next match.                                                             *)
InHand(c) == IF "object" \in carry[c] THEN 1 ELSE 0

Shared ==
    /\ maze.objects = has_object \cup lost \cup UNION {taken[c] : c \in Conns}
    /\ has_object \cap lost = {}
    /\ \A c \in Conns : taken[c] \cap (has_object \cup lost) = {}
    /\ \A c, d \in Conns : c # d => taken[c] \cap taken[d] = {}

Conserved ==
    InMatch =>
        /\ Shared
        /\ \A c \in Begun :
                objects_collected[c] + InHand(c) = Cardinality(taken[c])

(* exit_reached is the truth about a player between two commands: it is on *)
(* the exit exactly if the match counts it as out, although the flag is    *)
(* set after the lock is released and a send.  The one exception is a      *)
(* player put on the exit by its own thread: newcomers begin on (1, 1),    *)
(* which place_exit may choose.                                            *)
ExitScored ==
    InMatch => \A c \in Begun :
        /\ exit_reached[c] => pos[c] = maze.exit
        /\ pos[c] = maze.exit /\ pc[c] = "idle" => exit_reached[c] \/ c \in onexit

(* Nobody walks out of the maze: the opening in the border behind the exit *)
(* is open to game_move, and only a player put on the exit can step on it. *)
InsideWalls ==
    InMatch => \A c \in Begun : pos[c] \in Inner \/ c \in onexit

(* The two maps a player can ask for agree: what LOCAL shows is the part   *)
(* of GLOBAL around the player, with walls past the edge, and nothing      *)
(* around a player is ever hidden, in whatever order START, MOVE and its   *)
(* own thread wrote its position and cleared and marked its cells.  (No    *)
(* map is drawn inside the section of MOVE: maze_mutex is held.)           *)
ViewsAgree ==
    InMatch =>
      \A c \in {b \in Begun : ~exit_reached[b] /\ pc[b] # "walked"}, a \in Around :
        LET x == Beside(pos[c], a) IN
        /\ handle_local(c)[a] = IF x \in Cell THEN handle_global(c)[x] ELSE "wall"
        /\ handle_local(c)[a] # "hidden"

(***************************************************************************)
(* The inductive invariant.                                                *)
(***************************************************************************)

(* The list holds each connection whose thread has not left, once. *)
ListInv ==
    /\ IsInjective(client_list)
    /\ \A c \in Conns : c \in Listed <=> pc[c] \notin Unlisted

(* What a thread carries, and what its position says of the rest. *)
ThreadInv == \A c \in Conns :
    /\ pc[c] \in Resetting => session_state = "LOBBY"
    /\ pc[c] \in Starting => session_state = "LOBBY" /\ maze \in Mazes
    /\ pc[c] \in Moving => maze \in Mazes
    /\ "object" \in carry[c] => pc[c] = "sent"
    /\ "exit" \in carry[c] => pc[c] \in {"sent", "counted"}
    /\ "last" \in carry[c] => pc[c] \in {"left", "failed"}
    /\ c \notin Listed => taken[c] = {} /\ objects_collected[c] = 0
            /\ ~exit_reached[c]

(* In the middle of a MOVE in the match: it looked before it leapt, and    *)
(* knows that it leapt on the exit.                                        *)
MoveInv == InMatch => \A c \in Begun :
    /\ pc[c] \in {"looked", "walked", "sent", "counted"} => ~exit_reached[c]
    /\ pc[c] \in {"sent", "counted"} =>
            ("exit" \in carry[c] <=> pos[c] = maze.exit)
    /\ pc[c] = "out" => exit_reached[c]
    /\ pc[c] \in {"asked", "looked"} /\ pos[c] = maze.exit =>
            exit_reached[c] \/ c \in onexit

(* A client whose thread has not begun has no score; as soon as its thread *)
(* wrote a coordinate, and while START places the players, that coordinate *)
(* is odd, whoever writes it.                                              *)
NewInv == \A c \in Listed :
    /\ pc[c] \in Unbegun => ~exit_reached[c]
            /\ taken[c] = {} /\ objects_collected[c] = 0
    /\ pc[c] = "put_x" => <<pos[c][1], 1>> \in Room
    /\ pc[c] = "put_y" => pos[c] \in Room

(* START: nothing moves but the threads that begin, every player is on odd *)
(* coordinates with no score yet, and the objects are all there.           *)
StartInv == \A s \in Conns : pc[s] \in Starting =>
    /\ \A c \in Conns : pc[c] \notin Moving \cup Resetting
                          /\ (pc[c] \in Starting => c = s)
    /\ \A c \in Listed : pos[c] \in Room /\ ~exit_reached[c]
                          /\ objects_collected[c] = 0
    /\ \A c \in Conns : taken[c] = {}
    /\ has_object = maze.objects /\ lost = {}

(* What lies around a player is discovered. *)
ViewInv ==
    InMatch => \A c \in Begun :
        pc[c] # "walked" => Near(pos[c]) \subseteq visible[c]

IInv ==
    /\ TypeOK /\ ListInv /\ ThreadInv /\ MoveInv /\ NewInv /\ StartInv
    /\ InTheOpen /\ Conserved /\ ExitScored /\ InsideWalls /\ ViewInv
=============================================================================
