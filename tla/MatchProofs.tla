---------------------------- MODULE MatchProofs ----------------------------
(***************************************************************************)
(* Theorems about Match, for any clients, grid, radius and mazes.          *)
(***************************************************************************)
EXTENDS Match, Integers, SequencesExt, SequenceTheorems, FiniteSetTheorems, TLAPS

(***************************************************************************)
(* Facts about lists.                                                      *)
(***************************************************************************)

(* What unlinking the i-th entry leaves of a list without repetitions. *)
LEMMA RemoveAtFacts ==
    ASSUME NEW S, NEW s \in Seq(S), NEW i \in 1..Len(s), IsInjective(s)
    PROVE  /\ RemoveAt(s, i) \in Seq(S)
           /\ IsInjective(RemoveAt(s, i))
           /\ ToSet(RemoveAt(s, i)) = ToSet(s) \ {s[i]}
<1> DEFINE r == RemoveAt(s, i)
           N == Len(s)
           a == SubSeq(s, 1, i - 1)
           b == SubSeq(s, i + 1, N)
<1>1. /\ a \in Seq(S) /\ Len(a) = i - 1 /\ \A j \in 1..(i - 1) : a[j] = s[j]
      /\ b \in Seq(S) /\ Len(b) = N - i /\ \A j \in 1..(N - i) : b[j] = s[i + j]
      /\ r = a \o b
  BY LenProperties, ElementOfSeq, SubSeqProperties DEF RemoveAt
<1>2. N \in Nat /\ i \in 1..N
  BY LenProperties
<1> HIDE DEF r, a, b, N
<1>3. /\ r \in Seq(S) /\ Len(r) = N - 1
      /\ \A j \in 1..(N - 1) : r[j] = IF j < i THEN s[j] ELSE s[j + 1]
  <2>1. /\ r \in Seq(S) /\ Len(r) = N - 1
        /\ \A j \in 1..(N - 1) : r[j] = IF j <= i - 1 THEN a[j] ELSE b[j - (i - 1)]
    BY <1>1, <1>2, ConcatProperties
  <2>2. ASSUME NEW j \in 1..(N - 1), j < i PROVE r[j] = s[j]
    BY <1>1, <1>2, <2>1, <2>2
  <2>3. ASSUME NEW j \in 1..(N - 1), ~(j < i) PROVE r[j] = s[j + 1]
    <3>1. /\ j - (i - 1) \in 1..(N - i) /\ i + (j - (i - 1)) = j + 1
          /\ ~(j <= i - 1)
      BY <1>2, <2>3
    <3> QED BY <1>1, <2>1, <3>1
  <2> QED BY <2>1, <2>2, <2>3
<1>4. DOMAIN s = 1..N /\ DOMAIN r = 1..(N - 1)
  BY <1>3, LenProperties DEF N
<1>5. \A j, k \in 1..N : s[j] = s[k] => j = k
  BY <1>4 DEF IsInjective
<1>6. IsInjective(r)
  BY <1>2, <1>3, <1>4, <1>5 DEF IsInjective
<1>7. ToSet(r) = ToSet(s) \ {s[i]}
  <2>1. ASSUME NEW k \in 1..N, k # i PROVE s[k] \in ToSet(r)
    <3>1. \E j \in 1..(N - 1) : r[j] = s[k]
      <4> DEFINE j == IF k < i THEN k ELSE k - 1
      <4>1. j \in 1..(N - 1) /\ r[j] = s[k]
        BY <1>2, <1>3, <2>1
      <4> QED BY <4>1
    <3> QED BY <1>4, <3>1 DEF ToSet
  <2>2. ASSUME NEW j \in 1..(N - 1) PROVE r[j] \in ToSet(s) /\ r[j] # s[i]
    BY <1>2, <1>3, <1>4, <1>5 DEF ToSet
  <2>3. \A j \in 1..N : j # i => s[j] # s[i]
    BY <1>2, <1>5
  <2>4. /\ ToSet(s) = {s[j] : j \in 1..N}
        /\ ToSet(r) = {r[j] : j \in 1..(N - 1)}
    BY <1>4 DEF ToSet
  <2>5. ToSet(r) \subseteq ToSet(s) \ {s[i]}
    BY <2>2, <2>4
  <2>6. ToSet(s) \ {s[i]} \subseteq ToSet(r)
    BY <2>1, <2>4
  <2> QED BY <2>5, <2>6
<1> QED BY <1>3, <1>6, <1>7 DEF r

(* A new entry at the head of a list it was not in. *)
LEMMA PushFacts ==
    ASSUME NEW S, NEW s \in Seq(S), NEW e \in S, e \notin ToSet(s), IsInjective(s)
    PROVE  /\ <<e>> \o s \in Seq(S)
           /\ <<e>> \o s # << >>
           /\ IsInjective(<<e>> \o s)
           /\ ToSet(<<e>> \o s) = ToSet(s) \cup {e}
<1> DEFINE r == <<e>> \o s
           N == Len(s)
<1>1. /\ r \in Seq(S) /\ Len(r) = N + 1 /\ N \in Nat /\ r # << >>
      /\ r[1] = e /\ \A j \in 1..N : r[j + 1] = s[j]
      /\ DOMAIN s = 1..N /\ DOMAIN r = 1..(N + 1)
  OBVIOUS
<1> HIDE DEF r
<1>2. \A j \in 1..(N + 1) : j = 1 \/ (j - 1 \in 1..N /\ r[j] = s[j - 1])
  BY <1>1
<1>3. \A j, k \in 1..N : s[j] # e /\ (s[j] = s[k] => j = k)
  BY <1>1 DEF IsInjective, ToSet
<1>4. \A j, k \in 1..(N + 1) : r[j] = r[k] => j = k
  BY <1>1, <1>2, <1>3
<1>5. \A j \in 1..N : s[j] \in ToSet(r)
  <2> SUFFICES ASSUME NEW j \in 1..N PROVE s[j] \in ToSet(r)
    OBVIOUS
  <2>1. j + 1 \in DOMAIN r
    BY <1>1
  <2> QED BY <1>1, <2>1 DEF ToSet
<1>6. ToSet(r) = ToSet(s) \cup {e}
  <2>1. e \in ToSet(r)
    BY <1>1 DEF ToSet
  <2>2. \A j \in 1..(N + 1) : r[j] = e \/ r[j] \in ToSet(s)
    BY <1>1, <1>2 DEF ToSet
  <2>3. ToSet(s) = {s[j] : j \in 1..N} /\ ToSet(r) = {r[j] : j \in 1..(N + 1)}
    BY <1>1 DEF ToSet
  <2> QED BY <1>5, <2>1, <2>2, <2>3
<1> QED BY <1>1, <1>4, <1>6 DEF r, IsInjective


(* The grid: newcomers' (1, 1) is a room, and rooms are cells.             *)
LEMMA Geometry ==
    /\ Start \in Room /\ Room \subseteq Inner /\ Inner \subseteq Cell
    /\ Corner \in Cell
    /\ \A x \in Room : x = <<x[1], x[2]>>
    /\ \A x, y \in Room : <<x[1], y[2]>> \in Room
    /\ <<3, 1>> \in Room
<1>1. Inner \subseteq Cell /\ Corner \in Cell /\ Start \in Inner /\ <<3, 1>> \in Inner
  BY SizeAssumption DEF Inner, Cell, Corner, Start
<1>2. Start \in Room /\ <<3, 1>> \in Room
  <2>1. Start[1] % 2 = 1 /\ Start[2] % 2 = 1
    BY DEF Start
  <2>2. <<3, 1>>[1] % 2 = 1 /\ <<3, 1>>[2] % 2 = 1
    OBVIOUS
  <2> QED BY <1>1, <2>1, <2>2 DEF Room
<1>3. ASSUME NEW x \in Room PROVE x = <<x[1], x[2]>>
  BY DEF Room, Inner
<1>4. ASSUME NEW x \in Room, NEW y \in Room PROVE <<x[1], y[2]>> \in Room
  <2>1. /\ x \in Inner /\ x[1] % 2 = 1
        /\ y \in Inner /\ y[2] % 2 = 1
    BY DEF Room
  <2>2. <<x[1], y[2]>> \in Inner
    BY <2>1 DEF Inner
  <2>3. <<x[1], y[2]>>[1] = x[1] /\ <<x[1], y[2]>>[2] = y[2]
    OBVIOUS
  <2> QED BY <2>1, <2>2, <2>3 DEF Room
<1> QED BY <1>1, <1>2, <1>3, <1>4 DEF Room

(* The coordinates of (1, 1), one at a time. *)
LEMMA StartCoordinates ==
    /\ Start[1] = 1 /\ Start[2] = 1
    /\ \A x \in Room : <<x[1], 1>> \in Room /\ <<1, x[2]>> \in Room
<1>1. Start[1] = 1 /\ Start[2] = 1 /\ Start \in Room
  BY Geometry DEF Start
<1>2. \A x \in Room : <<x[1], Start[2]>> \in Room /\ <<Start[1], x[2]>> \in Room
  BY <1>1, Geometry
<1> QED BY <1>1, <1>2

LEMMA MazeFacts ==
    ASSUME NEW m \in Mazes
    PROVE  /\ m.open \subseteq Cell /\ Room \subseteq m.open
           /\ m.exit \in Room
           /\ m.objects \subseteq m.open /\ m.objects \subseteq Cell
           /\ m.exit \notin m.objects
           /\ IsFiniteSet(m.objects)
  BY MazesAssumption DEF IsMaze

(* What START takes the cells of the players from: a finite pool, never    *)
(* empty.                                                                  *)
LEMMA PoolFacts ==
    ASSUME NEW m \in Mazes
    PROVE  /\ Cardinality(PoolOf(m)) \in Nat \ {0}
           /\ PoolOf(m) \subseteq Room
<1>1. IsFiniteSet(Inner)
  <2>1. IsFiniteSet(1..Width - 2) /\ IsFiniteSet(1..Height - 2)
    BY SizeAssumption, FS_Interval
  <2> QED BY <2>1, FS_Product DEF Inner
<1>2. PoolOf(m) \subseteq Room /\ PoolOf(m) \in SUBSET Inner
  BY Geometry DEF PoolOf
<1>3. IsFiniteSet(PoolOf(m))
  BY <1>1, <1>2, FS_Subset
<1>4. PoolOf(m) # {}
  BY Geometry DEF PoolOf, Start
<1> QED BY <1>2, <1>3, <1>4, FS_CardinalityType, FS_EmptySet

(* The round robin gives every listed client a room of the pool. *)
LEMMA SpawnFacts ==
    ASSUME client_list \in Seq(Conns), NEW m \in Mazes,
           NEW f \in Pools(m), NEW c \in Listed
    PROVE  /\ assign_spawn_positions(f)[c] \in Room
           /\ assign_spawn_positions(f)[c] # m.exit
<1> DEFINE n == Cardinality(PoolOf(m))
<1>1. n \in Nat \ {0}
  BY PoolFacts
<1>2. Len(f) = n /\ f \in [1..n -> PoolOf(m)]
  BY <1>1, LenProperties DEF Pools
<1>3. \E i \in DOMAIN client_list : client_list[i] = c
  BY DEF Listed, ToSet
<1>4. DOMAIN client_list \subseteq Nat \ {0}
  BY LenProperties
<1>5. idx(c) \in Nat
  BY <1>3, <1>4 DEF idx
<1>6. idx(c) % n \in 0..(n - 1)
  BY <1>1, <1>5
<1>7. 1 + (idx(c) % n) \in 1..n
  <2> HIDE DEF n
  <2>1. \A k \in 0..(n - 1) : 1 + k \in 1..n
    BY <1>1
  <2> QED BY <2>1, <1>6
<1>8. assign_spawn_positions(f)[c] \in PoolOf(m)
  BY <1>2, <1>7 DEF assign_spawn_positions
<1> QED BY <1>8 DEF PoolOf

LEMMA ListedFacts == TypeOK => Listed \subseteq Conns
  BY ElementOfSeq, LenProperties DEF TypeOK, Listed, ToSet

LEMMA ListedNext == (TypeOK => Listed \subseteq Conns)'
  BY ListedFacts, PTL

LEMMA NearCells == \A x : Near(x) \subseteq Cell
  BY DEF Near

(* No position of a thread is of two kinds. *)
LEMMA PositionsApart ==
    /\ \A p \in Moving : p \notin Unlisted \cup Unbegun \cup Starting
                                  \cup Resetting \cup {"idle"}
    /\ \A p \in Resetting : p \notin Unlisted \cup Unbegun \cup Starting \cup {"idle"}
    /\ \A p \in Starting : p \notin Unlisted \cup Unbegun \cup {"idle"}
    /\ \A p \in Unbegun : p \notin Unlisted \cup {"idle"}
    /\ "idle" \notin Unlisted
  BY DEF Moving, Resetting, Starting, Unbegun, Unlisted

(* Who steps into the border comes from the exit. *)
LEMMA BorderFromExit ==
    ASSUME NEW m \in Mazes, NEW x \in m.open, NEW d \in Directions,
           Beside(x, d) \in m.open, Beside(x, d) \notin Inner
    PROVE  x = m.exit
<1> DEFINE y == Beside(x, d)
           e == <<-d[1], -d[2]>>
<1>1. e \in Directions
  BY DEF Directions
<1>2. x \in Cell
  BY MazeFacts
<1>3. Beside(y, e) = x
  <2>1. x = <<x[1], x[2]>> /\ x[1] \in Int /\ x[2] \in Int
    BY <1>2, SizeAssumption DEF Cell
  <2>2. d[1] \in Int /\ d[2] \in Int
    BY DEF Directions
  <2>3. y[1] = x[1] + d[1] /\ y[2] = x[2] + d[2] /\ e[1] = -d[1] /\ e[2] = -d[2]
    BY DEF Beside
  <2>4. Beside(y, e) = <<y[1] + e[1], y[2] + e[2]>>
    BY DEF Beside
  <2> QED BY <2>1, <2>2, <2>3, <2>4
<1>4. y \in m.open \ Inner
  OBVIOUS
<1> HIDE DEF y, e
<1> QED BY <1>1, <1>3, <1>4, MazesAssumption DEF IsMaze

-----------------------------------------------------------------------------
(* What linking and unlinking do to the list as a set. *)

LEMMA AddList ==
    ASSUME IInv, NEW c \in Conns, client_list_add(c)
    PROVE  /\ client_list' \in Seq(Conns) /\ IsInjective(client_list')
           /\ Listed' = Listed \cup {c} /\ c \notin Listed
<1>1. c \notin Listed
  BY DEF IInv, ListInv, client_list_add, Unlisted
<1> QED BY <1>1, PushFacts DEF IInv, TypeOK, ListInv, Listed, client_list_add

LEMMA RemoveList ==
    ASSUME IInv, NEW c \in Conns, client_list_remove(c)
    PROVE  /\ client_list' \in Seq(Conns) /\ IsInjective(client_list')
           /\ Listed' = Listed \ {c} /\ c \in Listed
<1>1. PICK i \in DOMAIN client_list :
        client_list[i] = c /\ client_list' = RemoveAt(client_list, i)
  BY DEF client_list_remove
<1>2. i \in 1..Len(client_list)
  BY LenProperties DEF IInv, TypeOK
<1>3. c \in Listed
  BY DEF IInv, ListInv, client_list_remove, Unlisted
<1> QED BY <1>1, <1>2, <1>3, RemoveAtFacts DEF IInv, TypeOK, ListInv, Listed

(* RESET puts the listed clients back on (1, 1) with no score, but for     *)
(* those in the middle of a MOVE.                                          *)
LEMMA ResetEffect ==
    ASSUME IInv, NEW c \in Conns, reset_client_for_lobby(c)
    PROVE  /\ pos' \in [Conns -> Cell]
           /\ objects_collected' \in [Conns -> Nat]
           /\ \A d \in Conns : pc[d] \notin Moving => objects_collected'[d] = 0
           /\ \A d \in Listed : pc[d] \notin Moving => pos'[d] = <<1, 1>>
<1> USE DEF IInv, TypeOK
<1> DEFINE Busy == {d \in Listed : pc[d] \in Moving}
<1>1. PICK kx \in SUBSET Busy, ky \in SUBSET Busy, kn \in SUBSET Busy :
        /\ pos' = [d \in Conns |->
                IF d \in Listed THEN <<IF d \in kx THEN pos[d][1] ELSE 1,
                                       IF d \in ky THEN pos[d][2] ELSE 1>>
                ELSE pos[d]]
        /\ objects_collected' = [d \in Conns |->
                IF d \in kn THEN objects_collected[d] ELSE 0]
  BY Zenon DEF reset_client_for_lobby
<1>2. ASSUME NEW d \in Conns PROVE pos'[d] \in Cell
  BY <1>1, SizeAssumption DEF Cell
<1>3. pos' \in [Conns -> Cell]
  <2>1. pos' = [d \in Conns |-> pos'[d]]
    BY <1>1
  <2> QED BY <2>1, <1>2
<1>4. objects_collected' \in [Conns -> Nat]
  BY <1>1
<1>5. \A d \in Conns : pc[d] \notin Moving => d \notin kx /\ d \notin ky /\ d \notin kn
  BY <1>1
<1> QED BY <1>1, <1>3, <1>4, <1>5, ListedFacts

-----------------------------------------------------------------------------
(* Types. *)

LEMMA TypeStep == IInv /\ [Next]_vars => TypeOK'
<1> SUFFICES ASSUME IInv, [Next]_vars PROVE TypeOK'
  OBVIOUS
<1> USE DEF IInv, TypeOK, Goto, board, player, EndIf
<1> USE DEF Moving, Starting, Resetting, Unbegun, Unlisted
<1>1. CASE session_timer
  BY <1>1 DEF session_timer
<1>2. ASSUME NEW c \in Conns, client_list_add(c) PROVE TypeOK'
  BY <1>2, AddList DEF client_list_add
<1>3. ASSUME NEW c \in Conns, CreateThread(c) PROVE TypeOK'
  BY <1>3 DEF CreateThread
<1>4. ASSUME NEW c \in Conns, BeginX(c) PROVE TypeOK'
  <2>1. <<Start[1], pos[c][2]>> \in Cell
    BY SizeAssumption DEF Start, Cell
  <2> QED BY <1>4, <2>1 DEF BeginX
<1>5. ASSUME NEW c \in Conns, BeginY(c) PROVE TypeOK'
  <2>1. <<pos[c][1], Start[2]>> \in Cell
    BY SizeAssumption DEF Start, Cell
  <2> QED BY <1>5, <2>1 DEF BeginY
<1>6. ASSUME NEW c \in Conns, BeginMark(c) PROVE TypeOK'
  <2>1. visible[c] \cup Near(pos[c]) \subseteq Cell
    BY NearCells
  <2>2. visible' \in [Conns -> SUBSET Cell]
    BY <1>6, <2>1 DEF BeginMark
  <2>3. pc' \in [Conns -> {"idle"} \cup Unlisted \cup Unbegun \cup Starting
                         \cup Resetting \cup Moving]
    BY <1>6 DEF BeginMark
  <2> QED BY <1>6, <2>2, <2>3 DEF BeginMark
<1>7. ASSUME NEW c \in Conns, start_game_session(c) PROVE TypeOK'
  <2>0. PICK m \in Mazes : \E f \in Pools(m) :
          /\ maze' = m /\ has_object' = m.objects
          /\ pos' = [d \in Conns |->
                IF d \in Listed THEN <<assign_spawn_positions(f)[d][1], Start[2]>>
                                ELSE pos[d]]
    BY <1>7 DEF start_game_session
  <2>1. PICK f \in Pools(m) :
          /\ maze' = m /\ has_object' = m.objects
          /\ pos' = [d \in Conns |->
                IF d \in Listed THEN <<assign_spawn_positions(f)[d][1], Start[2]>>
                                ELSE pos[d]]
    BY <2>0
  <2>2. ASSUME NEW d \in Listed
        PROVE  <<assign_spawn_positions(f)[d][1], Start[2]>> \in Cell
    BY <2>1, SpawnFacts, StartCoordinates, Geometry
  <2>3. pos' \in [Conns -> Cell]
    BY <2>1, <2>2
  <2>4. visible' \in [Conns -> SUBSET Cell]
    BY <1>7, NearCells DEF start_game_session
  <2>5. pc' \in [Conns -> {"idle"} \cup Unlisted \cup Unbegun \cup Starting
                         \cup Resetting \cup Moving]
    BY <1>7 DEF start_game_session
  <2> QED BY <1>7, <2>1, <2>3, <2>4, <2>5 DEF start_game_session
<1>8. ASSUME NEW c \in Conns, StartY(c) PROVE TypeOK'
  <2>1. PICK f \in Pools(maze) :
          pos' = [d \in Conns |->
                IF d \in Listed THEN <<pos[d][1], assign_spawn_positions(f)[d][2]>>
                                ELSE pos[d]]
    BY <1>8 DEF StartY
  <2>2. maze \in Mazes
    BY <1>8 DEF StartY, ThreadInv
  <2>3. ASSUME NEW d \in Listed
        PROVE  <<pos[d][1], assign_spawn_positions(f)[d][2]>> \in Cell
    <3>1. pos[d] \in Cell /\ assign_spawn_positions(f)[d] \in Cell
      BY <2>2, SpawnFacts, Geometry, ListedFacts
    <3> QED BY <3>1 DEF Cell
  <2>4. pos' \in [Conns -> Cell]
    BY <2>1, <2>3
  <2> QED BY <1>8, <2>4 DEF StartY
<1>9. ASSUME NEW c \in Conns, StartMark(c) PROVE TypeOK'
  <2>1. maze \in Mazes
    BY <1>9 DEF StartMark, ThreadInv
  <2>2. visible' \in [Conns -> SUBSET Cell]
    BY <1>9, NearCells DEF StartMark
  <2>3. onexit' \subseteq Conns
    BY <1>9, ListedFacts DEF StartMark
  <2>4. pc' \in [Conns -> {"idle"} \cup Unlisted \cup Unbegun \cup Starting
                         \cup Resetting \cup Moving]
    BY <1>9 DEF StartMark
  <2> QED BY <1>9, <2>1, <2>2, <2>3, <2>4 DEF StartMark
<1>10. ASSUME NEW c \in Conns, MoveAsk(c) PROVE TypeOK'
  BY <1>10 DEF MoveAsk
<1>11. ASSUME NEW c \in Conns, MoveSee(c) PROVE TypeOK'
  BY <1>11 DEF MoveSee
<1>12. ASSUME NEW c \in Conns, game_move(c) PROVE TypeOK'
  <2>1. PICK d \in Directions :
          LET x == Beside(pos[c], d)
          IN  \/ ~game_is_walkable(x) /\ Goto(c, "idle") /\ UNCHANGED pos
              \/ /\ game_is_walkable(x)
                 /\ pos' = [pos EXCEPT ![c] = x]
                 /\ Goto(c, "walked")
    BY <1>12 DEF game_move
  <2>2. maze \in Mazes
    BY <1>12 DEF game_move, ThreadInv
  <2>3. maze.open \subseteq Cell
    BY <2>2, MazeFacts
  <2>4. pos' \in [Conns -> Cell]
    BY <2>1, <2>3 DEF game_is_walkable
  <2>5. pc' \in [Conns -> {"idle"} \cup Unlisted \cup Unbegun \cup Starting
                         \cup Resetting \cup Moving]
    BY <2>1
  <2> QED BY <1>12, <2>4, <2>5 DEF game_move
<1>13. ASSUME NEW c \in Conns, MoveMark(c) PROVE TypeOK'
  <2>1. maze \in Mazes
    BY <1>13 DEF MoveMark, ThreadInv
  <2>2. has_object \subseteq Cell
    BY <2>1, MazeFacts
  <2>3. visible[c] \cup Near(pos[c]) \subseteq Cell
    BY NearCells
  <2>4. visible' \in [Conns -> SUBSET Cell]
    BY <1>13, <2>3 DEF MoveMark
  <2>5. taken[c] \cup (has_object \cap {pos[c]}) \subseteq Cell
    BY <2>2
  <2>6. taken' \in [Conns -> SUBSET Cell]
    BY <1>13, <2>5 DEF MoveMark
  <2>7. carry' \in [Conns -> SUBSET {"object", "exit", "last"}]
    BY <1>13 DEF MoveMark
  <2>8. pc' \in [Conns -> {"idle"} \cup Unlisted \cup Unbegun \cup Starting
                         \cup Resetting \cup Moving]
    BY <1>13 DEF MoveMark
  <2> QED BY <1>13, <2>4, <2>6, <2>7, <2>8 DEF MoveMark, game_pickup
<1>14. ASSUME NEW c \in Conns, MoveCount(c) PROVE TypeOK'
  BY <1>14 DEF MoveCount
<1>15. ASSUME NEW c \in Conns, MoveOut(c) PROVE TypeOK'
  BY <1>15 DEF MoveOut
<1>16. ASSUME NEW c \in Conns, MoveDone(c) PROVE TypeOK'
  BY <1>16 DEF MoveDone
<1>17. ASSUME NEW c \in Conns, ResetSet(c) PROVE TypeOK'
  BY <1>17 DEF ResetSet
<1>18. ASSUME NEW c \in Conns, reset_client_for_lobby(c) PROVE TypeOK'
  BY <1>18, ResetEffect DEF reset_client_for_lobby
<1>19. ASSUME NEW c \in Conns, ResetClear(c) PROVE TypeOK'
  BY <1>19 DEF ResetClear
<1>20. ASSUME NEW c \in Conns, ResetMark(c) PROVE TypeOK'
  <2>1. visible' \in [Conns -> SUBSET Cell]
    BY <1>20, NearCells DEF ResetMark
  <2>2. pc' \in [Conns -> {"idle"} \cup Unlisted \cup Unbegun \cup Starting
                         \cup Resetting \cup Moving]
    BY <1>20 DEF ResetMark
  <2> QED BY <1>20, <2>1, <2>2 DEF ResetMark
<1>21. ASSUME NEW c \in Conns, client_list_remove(c) PROVE TypeOK'
  <2>1. client_list' \in Seq(Conns)
    BY <1>21, RemoveList
  <2>2. carry' \in [Conns -> SUBSET {"object", "exit", "last"}]
    BY <1>21 DEF client_list_remove
  <2>3. Corner \in Cell
    BY Geometry
  <2>4. pc' \in [Conns -> {"idle"} \cup Unlisted \cup Unbegun \cup Starting
                         \cup Resetting \cup Moving]
    BY <1>21 DEF client_list_remove
  <2> QED BY <1>21, <2>1, <2>2, <2>3, <2>4 DEF client_list_remove
<1>22. ASSUME NEW c \in Conns, RemoveLast(c) PROVE TypeOK'
  BY <1>22 DEF RemoveLast
<1>23. ASSUME NEW c \in Conns, Cleanup(c) PROVE TypeOK'
  BY <1>23 DEF Cleanup
<1>24. CASE UNCHANGED vars
  BY <1>24 DEF vars
<1> QED BY <1>1, <1>2, <1>3, <1>4, <1>5, <1>6, <1>7, <1>8, <1>9, <1>10, <1>11,
           <1>12, <1>13, <1>14, <1>15, <1>16, <1>17, <1>18, <1>19, <1>20, <1>21,
           <1>22, <1>23, <1>24 DEF Next

-----------------------------------------------------------------------------
(* The invariant, client by client.                                        *)

(* What it says of a player that is in the match. *)
InGame(d) ==
    /\ pos[d] \in maze.open
    /\ pos[d] \in Inner \/ d \in onexit
    /\ objects_collected[d] + InHand(d) = Cardinality(taken[d])
    /\ exit_reached[d] => pos[d] = maze.exit
    /\ pos[d] = maze.exit /\ pc[d] \in {"idle", "asked", "looked"} =>
            exit_reached[d] \/ d \in onexit
    /\ pc[d] \in {"looked", "walked", "sent", "counted"} => ~exit_reached[d]
    /\ pc[d] \in {"sent", "counted"} => ("exit" \in carry[d] <=> pos[d] = maze.exit)
    /\ pc[d] = "out" => exit_reached[d]
    /\ pc[d] # "walked" => Near(pos[d]) \subseteq visible[d]

(* What it says of the thread of a connection, in whatever phase. *)
OfThread(d) ==
    /\ d \in Listed <=> pc[d] \notin Unlisted
    /\ pc[d] \in Resetting => session_state = "LOBBY"
    /\ pc[d] \in Starting => session_state = "LOBBY" /\ maze \in Mazes
    /\ pc[d] \in Moving => maze \in Mazes
    /\ "object" \in carry[d] => pc[d] = "sent"
    /\ "exit" \in carry[d] => pc[d] \in {"sent", "counted"}
    /\ "last" \in carry[d] => pc[d] \in {"left", "failed"}
    /\ d \notin Listed \/ pc[d] \in Unbegun =>
            taken[d] = {} /\ objects_collected[d] = 0 /\ ~exit_reached[d]
    /\ pc[d] = "put_x" => <<pos[d][1], 1>> \in Room
    /\ pc[d] = "put_y" => pos[d] \in Room

InPlay(d) == InMatch /\ pc[d] \notin Unlisted \cup Unbegun

Parts ==
    /\ TypeOK /\ IsInjective(client_list) /\ StartInv
    /\ InMatch => Shared
    /\ \A d \in Conns : OfThread(d)
    /\ \A d \in Conns : InPlay(d) => InGame(d)

LEMMA PartsOfInv == IInv <=> Parts
<1>1. IInv => Parts
  <2> SUFFICES ASSUME IInv PROVE Parts
    OBVIOUS
  <2>1. \A d \in Conns : OfThread(d)
    BY DEF IInv, ListInv, ThreadInv, NewInv, OfThread, Unbegun, Unlisted
  <2>2. ASSUME NEW d \in Conns, InPlay(d) PROVE d \in Begun /\ InMatch
    BY <2>1, <2>2 DEF InPlay, OfThread, Begun
  <2>3. ASSUME NEW d \in Conns, InPlay(d) PROVE InGame(d)
    BY <2>2, <2>3 DEF IInv, MoveInv, InTheOpen, Conserved, ExitScored,
                      InsideWalls, ViewInv, InGame
  <2> QED BY <2>1, <2>3 DEF IInv, ListInv, Conserved, Parts
<1>2. Parts => IInv
  <2> SUFFICES ASSUME Parts PROVE IInv
    OBVIOUS
  <2>1. TypeOK /\ StartInv /\ ListInv /\ ThreadInv
    BY DEF Parts, OfThread, ListInv, ThreadInv
  <2>2. NewInv
    BY ListedFacts DEF Parts, OfThread, NewInv
  <2>3. ASSUME InMatch, NEW d \in Begun PROVE InGame(d)
    BY <2>3, ListedFacts DEF Parts, OfThread, InPlay, Begun
  <2>4. MoveInv /\ InTheOpen /\ Conserved /\ ExitScored /\ InsideWalls /\ ViewInv
    BY <2>3 DEF Parts, MoveInv, InTheOpen, Conserved, ExitScored, InsideWalls,
                ViewInv, InGame
  <2> QED BY <2>1, <2>2, <2>4 DEF IInv
<1> QED BY <1>1, <1>2

LEMMA PartsOfNext == (IInv <=> Parts)'
  BY PartsOfInv, PTL

(* A client that a step of another thread leaves alone keeps its parts. *)
Still(d) ==
    /\ pc'[d] = pc[d] /\ carry'[d] = carry[d]
    /\ pos'[d] = pos[d] /\ visible'[d] = visible[d] /\ taken'[d] = taken[d]
    /\ objects_collected'[d] = objects_collected[d]
    /\ exit_reached'[d] = exit_reached[d]
    /\ d \in onexit' <=> d \in onexit
    /\ d \in Listed' <=> d \in Listed

LEMMA StillPart ==
    ASSUME IInv, NEW d \in Conns, Still(d), maze' = maze, InMatch' => InMatch
    PROVE  OfThread(d)' /\ (InPlay(d)' => InGame(d)')
<1>1. OfThread(d)'
  BY PartsOfInv DEF Parts, OfThread, Still, InMatch
<1>2. ASSUME InPlay(d)' PROVE InGame(d)'
  <2>1. InPlay(d) /\ InGame(d)
    BY <1>2, PartsOfInv DEF Parts, InPlay, Still
  <2> QED BY <2>1 DEF InGame, Still, Near, InHand
<1> QED BY <1>1, <1>2

(* While START places the players, whoever else steps does not disturb it. *)
LEMMA StartHold ==
    ASSUME IInv, TypeOK', NEW c \in Conns, \A d \in Conns \ {c} : Still(d),
           pc'[c] \notin Starting,
           \A s \in Conns \ {c} : pc[s] \in Starting =>
                  /\ pc'[c] \notin Moving \cup Resetting
                  /\ UNCHANGED <<maze, has_object, lost>> /\ taken'[c] = {}
                  /\ c \in Listed' => pos'[c] \in Room /\ ~exit_reached'[c]
                                       /\ objects_collected'[c] = 0
    PROVE  StartInv'
<1> SUFFICES ASSUME NEW s \in Conns, pc'[s] \in Starting
             PROVE  /\ \A d \in Conns : pc'[d] \notin Moving \cup Resetting
                                          /\ (pc'[d] \in Starting => d = s)
                    /\ \A d \in Listed' : pos'[d] \in Room /\ ~exit_reached'[d]
                                          /\ objects_collected'[d] = 0
                    /\ \A d \in Conns : taken'[d] = {}
                    /\ has_object' = maze'.objects /\ lost' = {}
  BY DEF StartInv
<1>1. s # c /\ pc[s] \in Starting
  BY DEF Still
<1>2. /\ \A d \in Conns : pc[d] \notin Moving \cup Resetting
                             /\ (pc[d] \in Starting => d = s)
      /\ \A d \in Listed : pos[d] \in Room /\ ~exit_reached[d]
                             /\ objects_collected[d] = 0
      /\ \A d \in Conns : taken[d] = {}
      /\ has_object = maze.objects /\ lost = {}
  BY <1>1 DEF IInv, StartInv
<1>3. /\ pc'[c] \notin Moving \cup Resetting
      /\ UNCHANGED <<maze, has_object, lost>> /\ taken'[c] = {}
      /\ c \in Listed' => pos'[c] \in Room /\ ~exit_reached'[c]
                           /\ objects_collected'[c] = 0
  BY <1>1
<1>4. \A d \in Conns : d # c => Still(d)
  OBVIOUS
<1>5. \A d \in Conns : pc'[d] \notin Moving \cup Resetting
                             /\ (pc'[d] \in Starting => d = s)
  BY <1>2, <1>3, <1>4 DEF Still
<1>6. ASSUME NEW d \in Listed'
      PROVE  pos'[d] \in Room /\ ~exit_reached'[d] /\ objects_collected'[d] = 0
  <2>1. CASE d = c
    BY <1>3, <1>6, <2>1
  <2>2. CASE d # c /\ d \in Conns
    BY <1>2, <1>4, <1>6, <2>2 DEF Still
  <2> QED BY <2>1, <2>2, ListedNext
<1> QED BY <1>2, <1>3, <1>4, <1>5, <1>6 DEF Still

(* A step of one thread: only its own client is left to look at. *)
LEMMA OneThread ==
    ASSUME IInv, TypeOK', IsInjective(client_list'),
           NEW c \in Conns, \A d \in Conns \ {c} : Still(d),
           maze' = maze, InMatch' => InMatch,
           StartInv', InMatch' => Shared',
           OfThread(c)', InPlay(c)' => InGame(c)'
    PROVE  IInv'
<1>1. ASSUME NEW d \in Conns
      PROVE  OfThread(d)' /\ (InPlay(d)' => InGame(d)')
  <2>1. CASE d = c
    BY <2>1
  <2>2. CASE d # c
    BY <2>2, StillPart
  <2> QED BY <2>1, <2>2
<1> QED BY <1>1, PartsOfNext DEF Parts

(* One that touches neither the players nor their objects. *)
Aside(c) ==
    /\ pc' = [pc EXCEPT ![c] = pc'[c]] /\ carry' = [carry EXCEPT ![c] = carry'[c]]
    /\ UNCHANGED <<maze, has_object, client_list, player, lost>>
    /\ pc'[c] \notin Starting
    /\ InMatch' => InMatch

LEMMA AsideStep ==
    ASSUME IInv, TypeOK', NEW c \in Conns, Aside(c),
           pc'[c] \in Moving \cup Resetting => \A s \in Conns \ {c} : pc[s] \notin Starting,
           OfThread(c)', InPlay(c)' => InGame(c)'
    PROVE  IInv'
<1>1. Listed' = Listed
  BY DEF Aside, Listed
<1>2. \A d \in Conns \ {c} : Still(d)
  BY <1>1 DEF Aside, Still, player, IInv, TypeOK
<1>3. Shared' <=> Shared
  BY DEF Aside, player, Shared
<1>4. StartInv'
  <2>1. ASSUME NEW s \in Conns \ {c}, pc[s] \in Starting
        PROVE  /\ pc'[c] \notin Moving \cup Resetting
               /\ UNCHANGED <<maze, has_object, lost>> /\ taken'[c] = {}
               /\ c \in Listed' => pos'[c] \in Room /\ ~exit_reached'[c]
                                    /\ objects_collected'[c] = 0
    BY <1>1, <2>1 DEF Aside, player, IInv, StartInv
  <2>2. pc'[c] \notin Starting
    BY DEF Aside
  <2> QED BY <1>2, <2>1, <2>2, StartHold
<1>5. maze' = maze /\ (InMatch' => InMatch) /\ IsInjective(client_list')
  BY DEF Aside, IInv, ListInv
<1>6. InMatch' => Shared'
  BY <1>3, <1>5 DEF IInv, Conserved
<1> QED BY <1>2, <1>4, <1>5, <1>6, OneThread

-----------------------------------------------------------------------------
(* The steps, action by action. *)

LEMMA AddStep ==
    ASSUME IInv, TypeOK', NEW c \in Conns, client_list_add(c)
    PROVE  IInv'
<1> USE DEF IInv, TypeOK, Goto, board, player
<1>1. /\ IsInjective(client_list') /\ Listed' = Listed \cup {c} /\ c \notin Listed
      /\ pc[c] = "none" /\ pc'[c] = "created"
      /\ \A d \in Conns \ {c} : pc'[d] = pc[d]
      /\ UNCHANGED <<board, has_object, player, carry, lost>>
  BY AddList DEF client_list_add
<1>2. \A d \in Conns \ {c} : Still(d)
  BY <1>1 DEF Still
<1>3. StartInv'
  BY <1>1, <1>2, StartHold DEF client_list_add, ClientFree, Starting
<1>4. OfThread(c)'
  BY <1>1, PartsOfInv
  DEF Parts, OfThread, Unlisted, Unbegun, Starting, Resetting, Moving
<1>5. ~InPlay(c)'
  BY <1>1 DEF InPlay, Unbegun
<1>6. InMatch' = InMatch /\ maze' = maze /\ (Shared' <=> Shared)
  BY <1>1 DEF InMatch, Shared
<1> QED BY <1>1, <1>2, <1>3, <1>4, <1>5, <1>6, OneThread DEF Conserved

LEMMA BeginStep ==
    ASSUME IInv, TypeOK', NEW c \in Conns,
           CreateThread(c) \/ BeginX(c) \/ BeginY(c) \/ BeginMark(c)
    PROVE  IInv'
<1> USE DEF IInv, TypeOK, Goto, board, player
<1> USE DEF Unlisted, Unbegun, Starting, Resetting, Moving
<1>1. /\ UNCHANGED <<session_state, maze, has_object, client_list,
                     objects_collected, exit_reached, taken, carry, lost>>
      /\ \A d \in Conns \ {c} : /\ pc'[d] = pc[d] /\ pos'[d] = pos[d]
                                /\ visible'[d] = visible[d]
                                /\ d \in onexit' <=> d \in onexit
      /\ pc[c] \in Unbegun /\ pc'[c] \in Unbegun \cup {"idle"}
  BY DEF CreateThread, BeginX, BeginY, BeginMark
<1>2. Listed' = Listed /\ c \in Listed /\ IsInjective(client_list')
      /\ InMatch' = InMatch
  BY <1>1 DEF Listed, ListInv, InMatch
<1>3. \A d \in Conns \ {c} : Still(d)
  BY <1>1, <1>2 DEF Still
<1>4. /\ pc'[c] = "put_x" => pc[c] = "new" /\ pos'[c] = <<1, pos[c][2]>>
      /\ pc'[c] = "put_y" => pc[c] = "put_x" /\ pos'[c] = <<pos[c][1], 1>>
      /\ pc'[c] \in {"new", "idle"} => pos'[c] = pos[c]
      /\ pc'[c] = "idle" => /\ pc[c] = "put_y"
                            /\ Near(pos[c]) \subseteq visible'[c]
                            /\ pos[c] = maze.exit => c \in onexit'
      /\ pc'[c] # "created"
  BY StartCoordinates DEF CreateThread, BeginX, BeginY, BeginMark, game_is_exit
<1>5. OfThread(c) /\ taken[c] = {} /\ objects_collected[c] = 0 /\ ~exit_reached[c]
  BY <1>1, PartsOfInv DEF Parts, OfThread
<1>6. OfThread(c)'
  <2>1. pc'[c] = "put_x" => <<pos'[c][1], 1>> \in Room
    <3>1. <<1, 1>> \in Room /\ <<1, pos[c][2]>>[1] = 1
      BY Geometry, StartCoordinates
    <3> QED BY <1>4, <3>1
  <2>2. pc'[c] = "put_y" => pos'[c] \in Room
    BY <1>4, <1>5 DEF OfThread
  <2> QED BY <1>1, <1>2, <1>5, <2>1, <2>2 DEF OfThread
<1>7. ASSUME InPlay(c)' PROVE InGame(c)'
  <2>1. /\ pc'[c] = "idle" /\ pos'[c] = pos[c] /\ pos[c] \in Room
        /\ Near(pos[c]) \subseteq visible'[c]
        /\ pos[c] = maze.exit => c \in onexit'
    BY <1>1, <1>4, <1>5, <1>7 DEF InPlay, OfThread
  <2>2. maze \in Mazes
    BY <1>2, <1>7 DEF InPlay, InMatch
  <2>3. pos[c] \in maze.open /\ pos[c] \in Inner
    BY <2>1, <2>2, MazeFacts, Geometry
  <2>4. "object" \notin carry[c] /\ "exit" \notin carry[c]
    BY <1>1, <1>5 DEF OfThread
  <2>5. Near(pos'[c]) = Near(pos[c])
    BY <2>1 DEF Near
  <2> QED BY <1>1, <1>5, <2>1, <2>3, <2>4, <2>5, FS_EmptySet DEF InGame, InHand
<1>8. StartInv'
  <2>1. ASSUME NEW s \in Conns \ {c}, pc[s] \in Starting
        PROVE  pos'[c] \in Room
    <3>1. pos[c] \in Room
      BY <1>2, <2>1 DEF StartInv
    <3>2. CASE pc'[c] = "put_x"
      BY <3>1, <3>2, <1>4, StartCoordinates
    <3>3. CASE pc'[c] = "put_y"
      BY <3>1, <3>3, <1>4, StartCoordinates
    <3>4. CASE pc'[c] \notin {"put_x", "put_y"}
      BY <3>1, <3>4, <1>1, <1>4
    <3> QED BY <3>2, <3>3, <3>4
  <2> QED BY <1>1, <1>3, <1>5, <2>1, StartHold
<1>9. Shared' <=> Shared
  BY <1>1 DEF Shared
<1> QED BY <1>1, <1>2, <1>3, <1>6, <1>7, <1>8, <1>9, OneThread DEF Conserved

(* START: the three steps of the thread that serves it. *)
LEMMA StartStep ==
    ASSUME IInv, TypeOK', NEW c \in Conns, start_game_session(c)
    PROVE  IInv'
<1> USE DEF IInv, TypeOK, Goto, board, player
<1>1. PICK m \in Mazes : \E f \in Pools(m) :
          /\ maze' = m /\ has_object' = m.objects
          /\ pos' = [d \in Conns |->
                IF d \in Listed THEN <<assign_spawn_positions(f)[d][1], Start[2]>>
                                ELSE pos[d]]
  BY DEF start_game_session
<1>2. PICK f \in Pools(m) :
          pos' = [d \in Conns |->
                IF d \in Listed THEN <<assign_spawn_positions(f)[d][1], Start[2]>>
                                ELSE pos[d]]
  BY <1>1
<1>3. /\ session_state' = "LOBBY" /\ session_state = "LOBBY"
      /\ maze' = m /\ has_object' = m.objects /\ lost' = {}
      /\ taken' = [d \in Conns |-> {}] /\ objects_collected' = [d \in Conns |-> 0]
      /\ exit_reached' = [d \in Conns |-> FALSE]
      /\ UNCHANGED <<client_list, carry>> /\ Listed' = Listed
      /\ pc[c] = "idle" /\ pc' = [pc EXCEPT ![c] = "start_y"]
      /\ \A d \in Listed : pc[d] \in {"idle"} \cup Unbegun
  BY <1>1 DEF start_game_session, Listed
<1>4. ASSUME NEW d \in Listed PROVE pos'[d] \in Room
  <2>1. assign_spawn_positions(f)[d] \in Room /\ Start[2] = 1
    BY <1>2, SpawnFacts, StartCoordinates
  <2>2. pos'[d] = <<assign_spawn_positions(f)[d][1], 1>>
    BY <1>2, <2>1, ListedFacts
  <2> QED BY <2>1, <2>2, StartCoordinates
<1>5. \A d \in Conns : OfThread(d)
  BY PartsOfInv DEF Parts
<1>6. \A d \in Conns : pc[d] \in {"idle"} \cup Unbegun \cup Unlisted
  BY <1>3, <1>5 DEF OfThread
<1>7. ASSUME NEW d \in Conns PROVE OfThread(d)'
  <2>1. OfThread(d) /\ pc[d] \in {"idle"} \cup Unbegun \cup Unlisted
    BY <1>5, <1>6
  <2>2. pc'[d] = (IF d = c THEN "start_y" ELSE pc[d]) /\ carry'[d] = carry[d]
    BY <1>3
  <2>3. d \in Listed /\ pos'[d] \in Room => <<pos'[d][1], 1>> \in Room
    BY StartCoordinates
  <2>4. pc[d] \in {"put_x", "put_y"} => d \in Listed
    BY <2>1 DEF OfThread, Unlisted
  <2>5. /\ pc'[d] = "put_x" => <<pos'[d][1], 1>> \in Room
        /\ pc'[d] = "put_y" => pos'[d] \in Room
    BY <1>4, <2>2, <2>3, <2>4
  <2> QED BY <1>3, <2>1, <2>2, <2>5
      DEF OfThread, Unlisted, Unbegun, Starting, Resetting, Moving
<1>8. StartInv'
  <2>1. /\ \A s \in Conns : pc'[s] \notin Moving \cup Resetting
        /\ \A s \in Conns : pc'[s] \in Starting => s = c
    BY <1>3, <1>6 DEF Unlisted, Unbegun, Starting, Resetting, Moving
  <2> QED BY <1>3, <1>4, <2>1, ListedFacts DEF StartInv
<1>9. ~InMatch' /\ IsInjective(client_list')
  BY <1>3 DEF InMatch, ListInv
<1> QED BY <1>7, <1>8, <1>9, PartsOfNext DEF Parts, InPlay

LEMMA StartYStep ==
    ASSUME IInv, TypeOK', NEW c \in Conns, StartY(c)
    PROVE  IInv'
<1> USE DEF IInv, TypeOK, Goto, board, player
<1>1. PICK f \in Pools(maze) :
          pos' = [d \in Conns |->
                IF d \in Listed THEN <<pos[d][1], assign_spawn_positions(f)[d][2]>>
                                ELSE pos[d]]
  BY DEF StartY
<1>2. /\ UNCHANGED <<session_state, maze, has_object, client_list, visible,
                     objects_collected, exit_reached, taken, onexit, carry, lost>>
      /\ Listed' = Listed /\ pc[c] = "start_y" /\ pc' = [pc EXCEPT ![c] = "start_mark"]
  BY DEF StartY, Listed
<1>3. /\ \A d \in Conns : pc[d] \notin Moving \cup Resetting
                              /\ (pc[d] \in Starting => d = c)
      /\ \A d \in Listed : pos[d] \in Room /\ ~exit_reached[d]
                              /\ objects_collected[d] = 0
      /\ \A d \in Conns : taken[d] = {}
      /\ has_object = maze.objects /\ lost = {}
      /\ session_state = "LOBBY" /\ maze \in Mazes
  BY <1>2 DEF StartInv, ThreadInv, Starting
<1>4. ASSUME NEW d \in Listed PROVE pos'[d] \in Room
  <2>1. assign_spawn_positions(f)[d] \in Room
    BY <1>3, SpawnFacts
  <2>2. pos'[d] = <<pos[d][1], assign_spawn_positions(f)[d][2]>>
    BY <1>1, ListedFacts
  <2> QED BY <1>3, <2>1, <2>2, Geometry
<1>5. ASSUME NEW d \in Conns PROVE OfThread(d)'
  <2>1. OfThread(d)
    BY PartsOfInv DEF Parts
  <2>2. pc'[d] = (IF d = c THEN "start_mark" ELSE pc[d]) /\ carry'[d] = carry[d]
    BY <1>2
  <2>3. pos'[d] \in Room => <<pos'[d][1], 1>> \in Room
    BY StartCoordinates
  <2>4. pc[d] \in {"put_x", "put_y"} => d \in Listed
    BY <2>1 DEF OfThread, Unlisted
  <2>5. /\ pc'[d] = "put_x" => <<pos'[d][1], 1>> \in Room
        /\ pc'[d] = "put_y" => pos'[d] \in Room
    BY <1>2, <1>4, <2>2, <2>3, <2>4
  <2> QED BY <1>2, <1>3, <2>1, <2>2, <2>5
      DEF OfThread, Unlisted, Unbegun, Starting, Resetting, Moving
<1>6. StartInv'
  <2>1. /\ \A s \in Conns : pc'[s] \notin Moving \cup Resetting
        /\ \A s \in Conns : pc'[s] \in Starting => s = c
    BY <1>2, <1>3 DEF Starting, Resetting, Moving
  <2> QED BY <1>2, <1>3, <1>4, <2>1, ListedFacts DEF StartInv
<1>7. ~InMatch' /\ IsInjective(client_list')
  BY <1>2, <1>3 DEF InMatch, ListInv
<1> QED BY <1>5, <1>6, <1>7, PartsOfNext DEF Parts, InPlay

LEMMA StartMarkStep ==
    ASSUME IInv, TypeOK', NEW c \in Conns, StartMark(c)
    PROVE  IInv'
<1> USE DEF IInv, TypeOK, Goto, board, player
<1>1. PICK f \in Pools(maze) :
        onexit' = {d \in Listed : game_is_exit(pos[d])
                                  /\ pos[d] # assign_spawn_positions(f)[d]}
  BY DEF StartMark
<1>2. /\ UNCHANGED <<maze, has_object, client_list, pos,
                     objects_collected, exit_reached, taken, carry, lost>>
      /\ Listed' = Listed /\ pc[c] = "start_mark" /\ pc' = [pc EXCEPT ![c] = "idle"]
      /\ \A d \in Listed : Near(pos[d]) \subseteq visible'[d]
  BY ListedFacts DEF StartMark, Listed
<1>3. /\ \A d \in Conns : pc[d] \notin Moving \cup Resetting
                              /\ (pc[d] \in Starting => d = c)
      /\ \A d \in Listed : pos[d] \in Room /\ ~exit_reached[d]
                              /\ objects_collected[d] = 0
      /\ \A d \in Conns : taken[d] = {}
      /\ has_object = maze.objects /\ lost = {}
      /\ maze \in Mazes
  BY <1>2 DEF StartInv, ThreadInv, Starting
<1>4. ASSUME NEW d \in Conns PROVE OfThread(d) /\ OfThread(d)'
  <2>1. OfThread(d)
    BY PartsOfInv DEF Parts
  <2>2. pc'[d] = IF d = c THEN "idle" ELSE pc[d]
    BY <1>2
  <2> QED BY <1>2, <1>3, <2>1, <2>2
      DEF OfThread, Unlisted, Unbegun, Starting, Resetting, Moving
<1>5. ASSUME NEW d \in Conns, InPlay(d)' PROVE InGame(d)'
  <2>1. d \in Listed /\ pc'[d] = "idle"
    BY <1>2, <1>3, <1>4, <1>5
    DEF InPlay, OfThread, Unlisted, Unbegun, Starting, Resetting, Moving
  <2>2. pos[d] \in Room /\ pos[d] \in Inner /\ pos[d] \in maze.open
    BY <1>3, <2>1, MazeFacts, Geometry
  <2>3. pos[d] = maze.exit => d \in onexit'
    BY <1>1, <1>3, <2>1, SpawnFacts DEF game_is_exit
  <2>4. "object" \notin carry[d]
    BY <1>3, <1>4 DEF OfThread, Moving
  <2>5. Near(pos'[d]) = Near(pos[d])
    BY <1>2 DEF Near
  <2>6. /\ taken'[d] = {} /\ objects_collected'[d] = 0 /\ ~exit_reached'[d]
        /\ "object" \notin carry'[d] /\ maze' = maze /\ pos'[d] = pos[d]
        /\ Near(pos'[d]) \subseteq visible'[d]
    BY <1>2, <1>3, <2>1, <2>4, <2>5
  <2>7. objects_collected'[d] + InHand(d)' = Cardinality(taken'[d])
    BY <2>6, FS_EmptySet DEF InHand
  <2> QED BY <2>1, <2>2, <2>3, <2>6, <2>7 DEF InGame
<1>6. StartInv'
  BY <1>2, <1>3 DEF StartInv, Starting
<1>7. Shared' /\ IsInjective(client_list')
  BY <1>2, <1>3 DEF Shared, ListInv
<1> QED BY <1>4, <1>5, <1>6, <1>7, PartsOfNext DEF Parts

(* MOVE. *)
LEMMA MoveTestStep ==
    ASSUME IInv, TypeOK', NEW c \in Conns,
           MoveAsk(c) \/ MoveSee(c) \/ MoveDone(c)
    PROVE  IInv'
<1> USE DEF IInv, TypeOK, Goto, board, player, EndIf
<1>1. /\ UNCHANGED <<maze, has_object, client_list, player, carry, lost>>
      /\ pc[c] \in {"idle", "asked", "out"}
      /\ pc' = [pc EXCEPT ![c] = pc'[c]]
      /\ pc'[c] = "asked" => pc[c] = "idle" /\ InMatch
      /\ pc'[c] = "looked" => pc[c] = "asked" /\ ~exit_reached[c]
      /\ pc'[c] \in {"asked", "looked", "idle"}
      /\ InMatch' = InMatch
      /\ session_state = "LOBBY" => session_state' = "LOBBY"
      /\ pc'[c] = "idle" => exit_reached[c] \/ pc[c] = "out"
  BY DEF MoveAsk, MoveSee, MoveDone, InMatch
<1>2. OfThread(c) /\ (InPlay(c) => InGame(c)) /\ Listed' = Listed
  BY <1>1, PartsOfInv DEF Parts, Listed
<1>3. Aside(c)
  BY <1>1 DEF Aside, Starting
<1>4. OfThread(c)'
  <2>1. InMatch => maze \in Mazes
    BY DEF InMatch
  <2> QED BY <1>1, <1>2, <2>1
      DEF OfThread, Unlisted, Unbegun, Starting, Resetting, Moving
<1>5. ASSUME InPlay(c)' PROVE InGame(c)'
  <2>1. InGame(c) /\ pos'[c] = pos[c] /\ visible'[c] = visible[c]
    BY <1>1, <1>2, <1>5 DEF InPlay, Unlisted, Unbegun
  <2>2. InHand(c)' = InHand(c) /\ Near(pos'[c]) = Near(pos[c])
    BY <1>1 DEF InHand, Near
  <2>3. pc[c] = "out" => exit_reached[c]
    BY <2>1 DEF InGame
  <2> QED BY <1>1, <2>1, <2>2, <2>3 DEF InGame
<1>6. ASSUME NEW s \in Conns \ {c}, pc[s] \in Starting, pc'[c] \in Moving \cup Resetting
      PROVE FALSE
  <2>1. session_state = "LOBBY" /\ pc[c] \notin Moving
    BY <1>6 DEF StartInv, ThreadInv
  <2> QED BY <1>1, <1>6, <2>1 DEF Moving, Resetting, InMatch
<1> QED BY <1>3, <1>4, <1>5, <1>6, AsideStep

LEMMA WalkStep ==
    ASSUME IInv, TypeOK', NEW c \in Conns, game_move(c)
    PROVE  IInv'
<1> USE DEF IInv, TypeOK, Goto, board, player
<1>1. PICK d \in Directions :
        LET x == Beside(pos[c], d)
        IN  \/ ~game_is_walkable(x) /\ Goto(c, "idle") /\ UNCHANGED pos
            \/ /\ game_is_walkable(x)
               /\ pos' = [pos EXCEPT ![c] = x]
               /\ Goto(c, "walked")
  BY DEF game_move
<1>2. /\ UNCHANGED <<board, has_object, client_list, visible, objects_collected,
                     exit_reached, taken, onexit, carry, lost>>
      /\ pc[c] = "looked" /\ pc'[c] \in {"idle", "walked"}
      /\ \A e \in Conns \ {c} : pc'[e] = pc[e] /\ pos'[e] = pos[e]
      /\ Listed' = Listed /\ InMatch' = InMatch /\ IsInjective(client_list')
  BY <1>1 DEF game_move, Listed, InMatch, ListInv
<1>3. OfThread(c) /\ (InPlay(c) => InGame(c)) /\ maze \in Mazes
  BY <1>2, PartsOfInv DEF Parts, ThreadInv, Moving
<1>4. \A e \in Conns \ {c} : Still(e)
  BY <1>2 DEF Still
<1>5. OfThread(c)'
  BY <1>2, <1>3 DEF OfThread, Unlisted, Unbegun, Starting, Resetting, Moving
<1>6. ASSUME InPlay(c)' PROVE InGame(c)'
  <2>1. InGame(c) /\ InHand(c)' = InHand(c)
    BY <1>2, <1>3, <1>6 DEF InPlay, InHand, Unlisted, Unbegun
  <2>2. CASE pc'[c] = "idle"
    <3>1. pos' = pos /\ Near(pos[c])' = Near(pos[c])
      BY <1>1, <2>2 DEF Near
    <3> QED BY <1>2, <2>1, <2>2, <3>1 DEF InGame
  <2>3. CASE pc'[c] = "walked"
    <3> DEFINE x == Beside(pos[c], d)
    <3>1. x \in maze.open /\ pos'[c] = x
      BY <1>1, <2>3 DEF game_is_walkable
    <3>2. ~exit_reached[c] /\ pos[c] \in maze.open
          /\ (pos[c] = maze.exit => c \in onexit)
      BY <1>2, <2>1 DEF InGame
    <3>3. x \in Inner \/ c \in onexit
      BY <1>3, <3>1, <3>2, BorderFromExit
    <3> QED BY <1>2, <2>1, <2>3, <3>1, <3>2, <3>3 DEF InGame
  <2> QED BY <1>2, <2>2, <2>3
<1>7. StartInv'
  <2>1. \A s \in Conns : pc[s] \notin Starting
    BY <1>2 DEF StartInv, Moving
  <2> QED BY <1>2, <1>4, <2>1, StartHold DEF Starting
<1>8. Shared' <=> Shared
  BY <1>2 DEF Shared
<1> QED BY <1>2, <1>4, <1>5, <1>6, <1>7, <1>8, OneThread DEF Conserved

LEMMA MarkStep ==
    ASSUME IInv, TypeOK', NEW c \in Conns, MoveMark(c)
    PROVE  IInv'
<1> USE DEF IInv, TypeOK, Goto, board, player
<1> DEFINE x == pos[c]
           found == has_object \cap {x}
<1>1. /\ UNCHANGED <<board, client_list, pos, objects_collected, exit_reached,
                     onexit, lost>>
      /\ pc[c] = "walked" /\ pc' = [pc EXCEPT ![c] = "sent"]
      /\ has_object' = has_object \ {x}
      /\ taken'[c] = taken[c] \cup found
      /\ visible'[c] = visible[c] \cup Near(x)
      /\ "object" \in carry'[c] <=> x \in has_object
      /\ "exit" \in carry'[c] <=> x = maze.exit
      /\ "last" \notin carry'[c]
      /\ \A e \in Conns \ {c} : /\ visible'[e] = visible[e] /\ carry'[e] = carry[e]
                                /\ taken'[e] = taken[e]
      /\ Listed' = Listed /\ InMatch' = InMatch /\ IsInjective(client_list')
  BY DEF MoveMark, game_pickup, game_is_exit, Listed, InMatch, ListInv
<1>2. OfThread(c) /\ (InPlay(c) => InGame(c)) /\ maze \in Mazes
  BY <1>1, PartsOfInv DEF Parts, ThreadInv, Moving
<1>3. \A e \in Conns \ {c} : Still(e)
  BY <1>1 DEF Still
<1>4. OfThread(c)'
  BY <1>1, <1>2 DEF OfThread, Unlisted, Unbegun, Starting, Resetting, Moving
<1>5. ASSUME InMatch PROVE Shared'
  <2>1. Shared
    BY <1>5 DEF Conserved
  <2> HIDE DEF IInv, TypeOK
  <2>2. UNION {taken'[e] : e \in Conns} = found \cup UNION {taken[e] : e \in Conns}
    BY <1>1
  <2> QED BY <1>1, <2>1, <2>2 DEF Shared
<1>6. ASSUME InPlay(c)' PROVE InGame(c)'
  <2>1. InGame(c) /\ Shared /\ InHand(c) = 0
    BY <1>1, <1>2, <1>6 DEF InPlay, InHand, OfThread, Conserved, Unlisted, Unbegun
  <2> HIDE DEF IInv, TypeOK
  <2>2. IsFiniteSet(taken[c]) /\ Cardinality(taken[c]) \in Nat
    <3>1. taken[c] \in SUBSET maze.objects
      BY <2>1 DEF Shared
    <3> QED BY <1>2, <3>1, MazeFacts, FS_Subset, FS_CardinalityType
  <2>3. Cardinality(taken'[c]) = Cardinality(taken[c]) + InHand(c)'
    <3>1. CASE x \in has_object
      <4>1. taken'[c] = taken[c] \cup {x} /\ x \notin taken[c]
        BY <1>1, <2>1, <3>1 DEF Shared
      <4>2. InHand(c)' = 1
        BY <1>1, <3>1 DEF InHand
      <4> QED BY <4>1, <4>2, <2>2, FS_AddElement
    <3>2. CASE x \notin has_object
      <4>1. taken'[c] = taken[c] /\ InHand(c)' = 0
        BY <1>1, <3>2 DEF InHand
      <4> QED BY <4>1, <2>2
    <3> QED BY <3>1, <3>2
  <2>4. objects_collected[c] = Cardinality(taken[c])
    BY <2>1, <2>2 DEF InGame, IInv, TypeOK
  <2>5. objects_collected'[c] + InHand(c)' = Cardinality(taken'[c])
    BY <1>1, <2>3, <2>4
  <2>6. Near(pos'[c]) \subseteq visible'[c]
    <3>1. Near(pos'[c]) = Near(x)
      BY <1>1 DEF Near
    <3> QED BY <1>1, <3>1
  <2> QED BY <1>1, <2>1, <2>5, <2>6 DEF InGame
<1>7. StartInv'
  <2>1. \A s \in Conns : pc[s] \notin Starting
    BY <1>1 DEF StartInv, Moving
  <2> QED BY <1>1, <1>3, <2>1, StartHold DEF Starting
<1> QED BY <1>1, <1>3, <1>4, <1>5, <1>6, <1>7, OneThread

LEMMA CountStep ==
    ASSUME IInv, TypeOK', NEW c \in Conns, MoveCount(c) \/ MoveOut(c)
    PROVE  IInv'
<1> USE DEF IInv, TypeOK, Goto, board, player
<1>1. /\ UNCHANGED <<board, has_object, client_list, pos, visible, taken,
                     onexit, lost>>
      /\ pc[c] \in {"sent", "counted"}
      /\ pc' = [pc EXCEPT ![c] = pc'[c]]
      /\ \A e \in Conns \ {c} : /\ carry'[e] = carry[e]
                                /\ objects_collected'[e] = objects_collected[e]
                                /\ exit_reached'[e] = exit_reached[e]
      /\ Listed' = Listed /\ InMatch' = InMatch /\ IsInjective(client_list')
  BY DEF MoveCount, MoveOut, Listed, InMatch, ListInv
<1>2. OfThread(c) /\ (InPlay(c) => InGame(c)) /\ maze \in Mazes
  BY <1>1, PartsOfInv DEF Parts, ThreadInv, Moving
<1>3. \A e \in Conns \ {c} : Still(e)
  BY <1>1 DEF Still
<1>4. Shared' <=> Shared
  BY <1>1 DEF Shared
<1>5. StartInv' /\ pc'[c] \in {"counted", "out", "idle"}
  <2>1. \A s \in Conns : pc[s] \notin Starting
    BY <1>1 DEF StartInv, Moving
  <2>2. pc'[c] \in {"counted", "out", "idle"}
    BY DEF MoveCount, MoveOut
  <2> QED BY <1>1, <1>3, <2>1, <2>2, StartHold DEF Starting
<1>6. /\ MoveCount(c) => carry'[c] = carry[c] \ {"object"}
      /\ MoveOut(c) => carry'[c] = {}
  BY DEF MoveCount, MoveOut
<1>7. OfThread(c)'
  <2>1. /\ "object" \notin carry'[c] /\ "last" \notin carry'[c]
        /\ "exit" \in carry'[c] => pc'[c] = "counted"
    BY <1>1, <1>2, <1>6 DEF OfThread, MoveCount, MoveOut
  <2> QED BY <1>1, <1>2, <1>5, <2>1
      DEF OfThread, Unlisted, Unbegun, Starting, Resetting, Moving
<1>8. ASSUME InPlay(c)' PROVE InGame(c)'
  <2>1. InGame(c) /\ InHand(c) \in 0..1
    BY <1>1, <1>2, <1>8 DEF InPlay, InHand, Unlisted, Unbegun
  <2>2. objects_collected'[c] + InHand(c)' = objects_collected[c] + InHand(c)
    <3>1. CASE MoveCount(c)
      BY <3>1 DEF MoveCount, InHand
    <3>2. CASE MoveOut(c)
      BY <1>2, <3>2 DEF MoveOut, InHand, OfThread
    <3> QED BY <3>1, <3>2
  <2>3. Near(pos'[c]) = Near(pos[c])
    BY <1>1 DEF Near
  <2>4. CASE MoveCount(c)
    <3>1. pc[c] = "sent" /\ pc'[c] = "counted" /\ exit_reached' = exit_reached
          /\ ("exit" \in carry'[c] <=> "exit" \in carry[c])
      BY <2>4 DEF MoveCount
    <3> QED BY <1>1, <2>1, <2>2, <2>3, <3>1 DEF InGame
  <2>5. CASE MoveOut(c)
    <3>1. /\ pc[c] = "counted" /\ ~exit_reached[c]
          /\ "exit" \in carry[c] <=> pos[c] = maze.exit
      BY <2>1, <2>5 DEF MoveOut, InGame
    <3>2. /\ pos[c] = maze.exit => exit_reached'[c] /\ pc'[c] = "out"
          /\ pos[c] # maze.exit => ~exit_reached'[c] /\ pc'[c] = "idle"
      BY <2>5, <3>1 DEF MoveOut
    <3> QED BY <1>1, <2>1, <2>2, <2>3, <3>2 DEF InGame
  <2> QED BY <2>4, <2>5
<1> QED BY <1>1, <1>3, <1>4, <1>5, <1>7, <1>8, OneThread DEF Conserved

(* RESET: once it has set LOBBY, no player is in a match. *)
LEMMA ResetSetStep ==
    ASSUME IInv, TypeOK', NEW c \in Conns, ResetSet(c)
    PROVE  IInv'
<1> USE DEF IInv, TypeOK, Goto, board, player
<1>1. /\ UNCHANGED <<maze, has_object, client_list, player, carry, lost>>
      /\ pc[c] = "idle" /\ pc' = [pc EXCEPT ![c] = "reset"]
      /\ session_state = "FINISHED" /\ session_state' = "LOBBY"
      /\ Listed' = Listed
  BY DEF ResetSet, Listed
<1>2. Aside(c) /\ ~InPlay(c)'
  BY <1>1 DEF Aside, InPlay, InMatch, Starting
<1>3. OfThread(c)'
  BY <1>1, PartsOfInv
  DEF Parts, OfThread, Unlisted, Unbegun, Starting, Resetting, Moving
<1>4. \A s \in Conns \ {c} : pc[s] \notin Starting
  BY <1>1 DEF ThreadInv
<1> QED BY <1>2, <1>3, <1>4, AsideStep

LEMMA ResetStep ==
    ASSUME IInv, TypeOK', NEW c \in Conns, reset_client_for_lobby(c)
    PROVE  IInv'
<1> USE DEF IInv, TypeOK, Goto, board, player
<1>1. /\ UNCHANGED <<board, has_object, client_list, visible, carry, lost>>
      /\ exit_reached' = [d \in Conns |-> FALSE]
      /\ taken' = [d \in Conns |-> {}]
      /\ pc[c] = "reset" /\ pc' = [pc EXCEPT ![c] = "reset_clear"]
      /\ session_state = "LOBBY" /\ Listed' = Listed
  BY DEF reset_client_for_lobby, ThreadInv, Resetting, Listed
<1>2. ASSUME NEW d \in Conns PROVE OfThread(d)'
  <2>1. OfThread(d)
    BY PartsOfInv DEF Parts
  <2>2. d \notin Listed \/ pc[d] \in Unbegun => objects_collected'[d] = 0
    BY <2>1, ResetEffect DEF OfThread, Unlisted, Unbegun, Moving
  <2>3. pc[d] \in {"put_x", "put_y"} => pos'[d] = <<1, 1>>
    BY <2>1, ResetEffect DEF OfThread, Unlisted, Moving
  <2>4. <<1, 1>> \in Room /\ <<1, 1>>[1] = 1
    BY Geometry, StartCoordinates DEF Start
  <2> QED BY <1>1, <2>1, <2>2, <2>3, <2>4
      DEF OfThread, Unlisted, Unbegun, Starting, Resetting, Moving
<1>3. StartInv'
  BY <1>1 DEF StartInv, Starting, Resetting
<1>4. ~InMatch' /\ IsInjective(client_list')
  BY <1>1 DEF InMatch, ListInv
<1> QED BY <1>2, <1>3, <1>4, PartsOfNext DEF Parts, InPlay

LEMMA ResetCellsStep ==
    ASSUME IInv, TypeOK', NEW c \in Conns, ResetClear(c) \/ ResetMark(c)
    PROVE  IInv'
<1> USE DEF IInv, TypeOK, Goto, board, player
<1>1. /\ UNCHANGED <<board, has_object, client_list, pos, objects_collected,
                     exit_reached, taken, onexit, carry, lost>>
      /\ pc[c] \in {"reset_clear", "reset_mark"} /\ pc'[c] \in {"reset_mark", "idle"}
      /\ pc' = [pc EXCEPT ![c] = pc'[c]]
      /\ session_state = "LOBBY" /\ Listed' = Listed
  BY DEF ResetClear, ResetMark, ThreadInv, Resetting, Listed
<1>2. ASSUME NEW d \in Conns PROVE OfThread(d)'
  <2>1. OfThread(d)
    BY PartsOfInv DEF Parts
  <2> QED BY <1>1, <2>1
      DEF OfThread, Unlisted, Unbegun, Starting, Resetting, Moving
<1>3. StartInv'
  BY <1>1 DEF StartInv, Starting, Resetting
<1>4. ~InMatch' /\ IsInjective(client_list')
  BY <1>1 DEF InMatch, ListInv
<1> QED BY <1>2, <1>3, <1>4, PartsOfNext DEF Parts, InPlay

(* Leaving. *)
LEMMA RemoveStep ==
    ASSUME IInv, TypeOK', NEW c \in Conns, client_list_remove(c)
    PROVE  IInv'
<1> USE DEF IInv, TypeOK, Goto, board, player
<1>1. /\ IsInjective(client_list') /\ Listed' = Listed \ {c}
      /\ UNCHANGED <<session_state, maze, has_object>> /\ InMatch' = InMatch
      /\ pc'[c] \in {"left", "failed"} /\ pc[c] \in {"idle", "created"}
      /\ carry'[c] \subseteq {"last"}
      /\ lost' = lost \cup taken[c]
      /\ taken'[c] = {} /\ objects_collected'[c] = 0 /\ ~exit_reached'[c]
      /\ \A d \in Conns \ {c} :
            /\ pc'[d] = pc[d] /\ carry'[d] = carry[d] /\ pos'[d] = pos[d]
            /\ visible'[d] = visible[d] /\ taken'[d] = taken[d]
            /\ objects_collected'[d] = objects_collected[d]
            /\ exit_reached'[d] = exit_reached[d]
            /\ d \in onexit' <=> d \in onexit
  BY RemoveList DEF client_list_remove, InMatch
<1>2. \A d \in Conns \ {c} : Still(d)
  BY <1>1 DEF Still
<1>3. OfThread(c)' /\ ~InPlay(c)'
  BY <1>1, PartsOfInv
  DEF Parts, InPlay, OfThread, Unlisted, Unbegun, Starting, Resetting, Moving
<1>4. ASSUME InMatch PROVE Shared'
  <2>1. Shared
    BY <1>4 DEF Conserved
  <2> HIDE DEF IInv, TypeOK
  <2>2. UNION {taken[d] : d \in Conns} = taken[c] \cup UNION {taken'[d] : d \in Conns}
    BY <1>1
  <2> QED BY <1>1, <2>1, <2>2 DEF Shared
<1>5. StartInv'
  BY <1>1, <1>2, StartHold DEF client_list_remove, ClientFree, Starting
<1> QED BY <1>1, <1>2, <1>3, <1>4, <1>5, OneThread

LEMMA LeaveStep ==
    ASSUME IInv, TypeOK', NEW c \in Conns, RemoveLast(c) \/ Cleanup(c)
    PROVE  IInv'
<1> USE DEF IInv, TypeOK, Goto, board, player, EndIf
<1>1. /\ UNCHANGED <<maze, has_object, client_list, player, lost>>
      /\ carry'[c] \subseteq carry[c] /\ carry' = [carry EXCEPT ![c] = carry'[c]]
      /\ pc[c] \in Unlisted /\ pc'[c] \in {"gone", "none"}
      /\ pc' = [pc EXCEPT ![c] = pc'[c]]
      /\ pc'[c] = "gone" => carry'[c] = {}
      /\ pc[c] = "gone" \/ carry'[c] = {}
      /\ Listed' = Listed /\ InMatch' = InMatch
  BY DEF RemoveLast, Cleanup, Unlisted, Listed, InMatch
<1>2. Aside(c) /\ ~InPlay(c)'
  BY <1>1 DEF Aside, InPlay, Starting, Unlisted
<1>3. OfThread(c)'
  BY <1>1, PartsOfInv
  DEF Parts, OfThread, Unlisted, Unbegun, Starting, Resetting, Moving
<1>4. pc'[c] \notin Moving \cup Resetting
  BY <1>1 DEF Moving, Resetting
<1> QED BY <1>2, <1>3, <1>4, AsideStep

(* A step that leaves every client alone. *)
LEMMA NobodyStep ==
    ASSUME IInv, TypeOK',
           UNCHANGED <<maze, has_object, client_list, player, pc, carry, lost>>,
           InMatch' = InMatch
    PROVE  IInv'
<1>1. Listed' = Listed
  BY DEF Listed
<1>2. \A d \in Conns : Still(d)
  BY <1>1 DEF Still, player
<1>3. \A d \in Conns : OfThread(d)' /\ (InPlay(d)' => InGame(d)')
  BY <1>2, StillPart
<1>4. (Shared' <=> Shared) /\ (StartInv' <=> StartInv) /\ IsInjective(client_list')
  BY <1>1 DEF Shared, StartInv, player, IInv, ListInv
<1> QED BY <1>3, <1>4, PartsOfNext DEF Parts, IInv, Conserved

LEMMA MatchStep == IInv /\ [Next]_vars => IInv'
<1> SUFFICES ASSUME IInv, [Next]_vars PROVE IInv'
  OBVIOUS
<1>1. TypeOK'
  BY TypeStep
<1>2. CASE session_timer
  BY <1>1, <1>2, NobodyStep DEF session_timer, InMatch
<1>3. ASSUME NEW c \in Conns, client_list_add(c) PROVE IInv'
  BY <1>1, <1>3, AddStep
<1>4. ASSUME NEW c \in Conns,
             CreateThread(c) \/ BeginX(c) \/ BeginY(c) \/ BeginMark(c)
      PROVE  IInv'
  BY <1>1, <1>4, BeginStep
<1>5. ASSUME NEW c \in Conns, start_game_session(c) \/ StartY(c) \/ StartMark(c)
      PROVE  IInv'
  BY <1>1, <1>5, StartStep, StartYStep, StartMarkStep
<1>6. ASSUME NEW c \in Conns, MoveAsk(c) \/ MoveSee(c) \/ MoveDone(c)
      PROVE  IInv'
  BY <1>1, <1>6, MoveTestStep
<1>7. ASSUME NEW c \in Conns, game_move(c) \/ MoveMark(c) PROVE IInv'
  BY <1>1, <1>7, WalkStep, MarkStep
<1>8. ASSUME NEW c \in Conns, MoveCount(c) \/ MoveOut(c) PROVE IInv'
  BY <1>1, <1>8, CountStep
<1>9. ASSUME NEW c \in Conns,
             ResetSet(c) \/ reset_client_for_lobby(c) \/ ResetClear(c) \/ ResetMark(c)
      PROVE  IInv'
  BY <1>1, <1>9, ResetSetStep, ResetStep, ResetCellsStep
<1>10. ASSUME NEW c \in Conns,
              client_list_remove(c) \/ RemoveLast(c) \/ Cleanup(c)
       PROVE  IInv'
  BY <1>1, <1>10, RemoveStep, LeaveStep
<1>11. CASE UNCHANGED vars
  BY <1>1, <1>11, NobodyStep DEF vars, board, InMatch
<1> QED BY <1>2, <1>3, <1>4, <1>5, <1>6, <1>7, <1>8, <1>9, <1>10, <1>11 DEF Next

LEMMA MatchInit == Init => IInv
<1> SUFFICES ASSUME Init PROVE IInv
  OBVIOUS
<1>1. client_list = <<>> /\ Listed = {} /\ <<>> \in Seq(Conns)
  BY DEF Init, Listed, ToSet
<1>2. TypeOK
  BY <1>1, Geometry DEF Init, TypeOK, NoMaze, Unlisted
<1>3. ListInv /\ ThreadInv /\ NewInv /\ StartInv
  BY <1>1
  DEF Init, ListInv, ThreadInv, NewInv, StartInv, IsInjective,
      Unlisted, Starting, Resetting, Moving
<1>4. ~InMatch
  BY DEF Init, InMatch
<1> QED BY <1>2, <1>3, <1>4
  DEF IInv, MoveInv, InTheOpen, Conserved, ExitScored, InsideWalls, ViewInv

(* Where the players are, what they carry and what the threads know of the *)
(* match hold in every reachable state.                                    *)
THEOREM MatchInv == Spec => []IInv
  BY MatchInit, MatchStep, PTL DEF Spec

(* Positions, scores and histories keep their types: the grid is never     *)
(* left.                                                                   *)
THEOREM Typed == Spec => []TypeOK
<1>1. IInv => TypeOK
  BY DEF IInv
<1> QED BY <1>1, MatchInv, PTL

(* No player ever stands in a wall of the maze it plays in. *)
THEOREM Open == Spec => []InTheOpen
<1>1. IInv => InTheOpen
  BY DEF IInv
<1> QED BY <1>1, MatchInv, PTL

(* Every object of the maze lies there or is counted once. *)
THEOREM Objects == Spec => []Conserved
<1>1. IInv => Conserved
  BY DEF IInv
<1> QED BY <1>1, MatchInv, PTL

(* exit_reached tells who stands on the exit. *)
THEOREM Exits == Spec => []ExitScored
<1>1. IInv => ExitScored
  BY DEF IInv
<1> QED BY <1>1, MatchInv, PTL

(* Nobody leaves through the opening behind the exit. *)
THEOREM Inside == Spec => []InsideWalls
<1>1. IInv => InsideWalls
  BY DEF IInv
<1> QED BY <1>1, MatchInv, PTL
-----------------------------------------------------------------------------
(* The maps. *)

(* A discovered cell always looks like something. *)
LEMMA CellSeen ==
    ASSUME NEW x, NEW seen, x \in seen
    PROVE  cell_char(x, seen) # "hidden"
  BY DEF cell_char

(* The cells a local map shows are those its player has marked. *)
LEMMA AroundSeen ==
    ASSUME NEW p \in Cell, NEW a \in Around
    PROVE  /\ Beside(p, a) = p <=> a = <<0, 0>>
           /\ Beside(p, a) \in Cell => Beside(p, a) \in Near(p)
<1>1. p = <<p[1], p[2]>> /\ p[1] \in Int /\ p[2] \in Int
  BY SizeAssumption DEF Cell
<1>2. a = <<a[1], a[2]>> /\ a[1] \in Int /\ a[2] \in Int
  BY SizeAssumption DEF Around
<1>3. Beside(p, a) = p <=> a = <<0, 0>>
  BY <1>1, <1>2 DEF Beside
<1> QED BY <1>3 DEF Near

LEMMA ViewsFromMarks ==
    ASSUME TypeOK, ViewInv
    PROVE  ViewsAgree
<1> SUFFICES ASSUME InMatch, NEW c \in Begun, ~exit_reached[c],
                    pc[c] # "walked", NEW a \in Around
             PROVE  LET x == Beside(pos[c], a) IN
                    /\ handle_local(c)[a] = IF x \in Cell THEN handle_global(c)[x]
                                                         ELSE "wall"
                    /\ handle_local(c)[a] # "hidden"
  BY Zenon DEF ViewsAgree
<1> DEFINE p == pos[c]
           x == Beside(p, a)
           others == get_other_positions(c)
<1>1. p \in Cell /\ ViewFrom(c) = p
  BY ListedFacts DEF Begun, TypeOK, ViewFrom
<1>2. /\ x = p <=> a = <<0, 0>>
      /\ x \in Cell => x \in Near(p)
  BY <1>1, AroundSeen
<1>3. Near(p) \subseteq visible[c]
  BY DEF ViewInv
<1> HIDE DEF others
<1>4. handle_local(c)[a] =
        IF a = <<0, 0>> THEN "player"
        ELSE IF x \in Cell /\ is_other_player(x, others, visible[c]) THEN "other"
        ELSE IF x \in Cell THEN cell_char(x, visible[c])
        ELSE "wall"
  BY <1>1 DEF handle_local, game_build_local_view, others
<1>5. x \in Cell => handle_global(c)[x] =
        IF x = p THEN "player"
        ELSE IF is_other_player(x, others, visible[c]) THEN "other"
        ELSE cell_char(x, visible[c])
  BY <1>1 DEF handle_global, game_build_global_view, others
<1>6. x \in Cell => cell_char(x, visible[c]) # "hidden"
  BY <1>2, <1>3, CellSeen
<1> HIDE DEF x, p
<1>7. CASE a = <<0, 0>>
  <2>1. x \in Cell
    BY <1>1, <1>2, <1>7
  <2> QED BY <1>2, <1>4, <1>5, <1>7, <2>1 DEF x, p
<1>8. CASE a # <<0, 0>> /\ x \in Cell
  BY <1>2, <1>4, <1>5, <1>6, <1>8 DEF x, p
<1>9. CASE a # <<0, 0>> /\ x \notin Cell
  BY <1>4, <1>9 DEF x, p
<1> QED BY <1>7, <1>8, <1>9

(* However the steps of START, RESET, MOVE and a thread that begins fall,  *)
(* the two maps agree and nothing around a player is hidden.               *)
THEOREM Views == Spec => []ViewsAgree
<1>1. IInv => ViewsAgree
  BY ViewsFromMarks DEF IInv
<1> QED BY <1>1, MatchInv, PTL
=============================================================================
