----------------------------- MODULE MazeProofs -----------------------------
(***************************************************************************)
(* Proofs about the maze, for every odd Width and Height from 5 on and     *)
(* every number of objects: the types, the shape of a finished maze, that  *)
(* every walkable cell is reached from (1, 1), that every room is opened,  *)
(* that there are no circles, and that the generation is a growing tree.   *)
(***************************************************************************)
EXTENDS Maze, Integers, SequencesExt, SequenceTheorems, WellFoundedInduction, FiniteSetTheorems, TLAPS

(* A non-empty set of natural numbers has a least element. *)
LEMMA NatMin ==
    ASSUME NEW T \in SUBSET Nat, T # {}
    PROVE  \E x \in T : \A y \in T : x <= y
  <1> DEFINE R == OpToRel(<, Nat)
  <1>1. IsWellFoundedOn(R, Nat)
    BY NatLessThanWellFounded
  <1>2. \A x, y \in Nat : y < x => <<y, x>> \in R
    BY DEF OpToRel
  <1> HIDE DEF R
  <1>3. PICK x \in T : \A y \in T : ~(<<y, x>> \in R)
    BY <1>1, WFMin
  <1>4. ASSUME NEW y \in T
        PROVE  x <= y
    <2>1. x \in Nat /\ y \in Nat
      OBVIOUS
    <2>2. ~(y < x)
      BY <2>1, <1>2, <1>3
    <2> QED
      BY <2>1, <2>2
  <1> QED
    BY <1>4


-----------------------------------------------------------------------------
(* The geometry of the matrix. *)

(* Rooms have odd coordinates, so none lies on the border. *)
LEMMA RoomInner ==
    ASSUME NEW c \in Room
    PROVE  c \in Inner /\ c \in Cell /\ c = <<c[1], c[2]>>
  BY SizeAssumption DEF Room, Inner, Cell

LEMMA StartRoom == Start \in Room /\ Start \in Cell /\ Start \in Inner
  <1>1. Start \in Room
    BY SizeAssumption DEF Start, Room, Cell
  <1> QED
    BY <1>1, RoomInner

(* From a room, two cells on is a room or outside, and the cell between is *)
(* an inner one that is no room.                                           *)
LEMMA AheadRoom ==
    ASSUME NEW c \in Room, NEW d \in Directions, Ahead(c, d) \in Cell
    PROVE  /\ Ahead(c, d) \in Room
           /\ Ahead(c, d) = Beside(Beside(c, d), d)
           /\ Beside(c, d) \in Inner
           /\ Beside(c, d) \in Cell
           /\ Beside(c, d) \notin Room
  <1>1. c[1] \in 0..Width - 1 /\ c[2] \in 0..Height - 1
        /\ c[1] % 2 = 1 /\ c[2] % 2 = 1
    BY DEF Room, Cell
  <1>2. CASE d = <<0, -1>>
    BY <1>1, <1>2, SizeAssumption DEF Room, Inner, Cell, Ahead, Beside
  <1>3. CASE d = <<0, 1>>
    BY <1>1, <1>3, SizeAssumption DEF Room, Inner, Cell, Ahead, Beside
  <1>4. CASE d = <<-1, 0>>
    BY <1>1, <1>4, SizeAssumption DEF Room, Inner, Cell, Ahead, Beside
  <1>5. CASE d = <<1, 0>>
    BY <1>1, <1>5, SizeAssumption DEF Room, Inner, Cell, Ahead, Beside
  <1> QED
    BY <1>2, <1>3, <1>4, <1>5 DEF Directions

(* The wall between two rooms is between no other two. *)
LEMMA OneBetween ==
    ASSUME NEW a \in Room, NEW d \in Directions,
           NEW b \in Room, NEW e \in Directions,
           Beside(a, d) = Beside(b, e)
    PROVE  {b, Ahead(b, e)} = {a, Ahead(a, d)}
  <1>1. /\ a = <<a[1], a[2]>> /\ b = <<b[1], b[2]>>
        /\ a[1] \in Int /\ a[2] \in Int /\ b[1] \in Int /\ b[2] \in Int
        /\ a[1] % 2 = 1 /\ a[2] % 2 = 1 /\ b[1] % 2 = 1 /\ b[2] % 2 = 1
    BY SizeAssumption DEF Room, Cell
  <1>2. /\ d \in {<<0, -1>>, <<0, 1>>, <<-1, 0>>, <<1, 0>>}
        /\ e \in {<<0, -1>>, <<0, 1>>, <<-1, 0>>, <<1, 0>>}
    BY DEF Directions
  <1>3. a[1] + d[1] = b[1] + e[1] /\ a[2] + d[2] = b[2] + e[2]
    BY DEF Beside
  <1>4. \/ a = b /\ d = e
        \/ a = Ahead(b, e) /\ b = Ahead(a, d)
    BY <1>1, <1>2, <1>3 DEF Ahead
  <1> QED
    BY <1>4

(* An exit is a room and its opening the border cell beside it. *)
LEMMA ExitFacts ==
    ASSUME NEW e \in Exits
    PROVE  /\ e[1] \in Room
           /\ e[2] \in Border
           /\ \E d \in Directions : e[2] = Beside(e[1], d)
  <1>1. PICK x \in Int, y \in Int :
          \/ /\ x \in 1..Width - 4 /\ x % 2 = 1
             /\ \/ y = 1 /\ e = <<<<x, 1>>, <<x, 0>>>>
                \/ y = Height - 2 /\ e = <<<<x, Height - 2>>, <<x, Height - 1>>>>
          \/ /\ y \in 1..Height - 4 /\ y % 2 = 1
             /\ \/ x = 1 /\ e = <<<<1, y>>, <<0, y>>>>
                \/ x = Width - 2 /\ e = <<<<Width - 2, y>>, <<Width - 1, y>>>>
    BY SizeAssumption DEF Exits
  <1>2. e[1] \in Room /\ e[2] \in Border
    BY <1>1, SizeAssumption DEF Room, Border, Inner, Cell
  <1>3. \E d \in Directions : e[2] = Beside(e[1], d)
    BY <1>1, SizeAssumption DEF Directions, Beside
  <1> QED
    BY <1>2, <1>3

-----------------------------------------------------------------------------
(* Reachability. *)

(* A set that can be walked grows by a cell next to one of its cells. *)
LEMMA LinkedGrow ==
    ASSUME NEW W, NEW a, NEW b, NEW d \in Directions,
           Start \in W, Linked(W), a \in W, b = Beside(a, d)
    PROVE  Linked(W \cup {b})
  <1> SUFFICES ASSUME NEW S \in SUBSET ((W \cup {b}) \ {Start}),
                      Closed(S \cup {Start}, W \cup {b})
               PROVE  S \cup {Start} = W \cup {b}
    BY DEF Linked
  <1> DEFINE T == S \cap W
  <1>1. T \in SUBSET (W \ {Start})
    OBVIOUS
  <1>2. Closed(T \cup {Start}, W)
    BY DEF Closed
  <1>3. T \cup {Start} = W
    BY <1>1, <1>2 DEF Linked
  <1>4. b \in S \cup {Start}
    BY <1>3 DEF Closed
  <1> QED
    BY <1>3, <1>4

LEMMA OddLess ==
    ASSUME NEW n \in Nat, n % 2 = 1, n # 1
    PROVE  n - 2 \in Nat /\ (n - 2) % 2 = 1
  <1>1. n # 0 /\ n # 2
    OBVIOUS
  <1>2. n >= 3
    BY <1>1
  <1>3. (n - 2) % 2 = 1
    BY <1>2
  <1> QED
    BY <1>2, <1>3

(* A set of rooms with Start in it that carve cannot leave is all of them: *)
(* first the top row, from the leftmost missing room, then each column.    *)
LEMMA RoomsFilled ==
    ASSUME NEW S, Start \in S,
           \A c \in Room \cap S, d \in Directions : Ahead(c, d) \in Cell => Ahead(c, d) \in S
    PROVE  Room \subseteq S
  <1>1. \A x \in Nat, y \in Nat :
            <<x, y>> \in Room <=> x < Width /\ y < Height /\ x % 2 = 1 /\ y % 2 = 1
    BY SizeAssumption DEF Room, Cell
  <1>2. \A c \in Room : c[1] \in Nat /\ c[2] \in Nat /\ c = <<c[1], c[2]>>
    BY SizeAssumption DEF Room, Cell
  <1>3. ASSUME NEW x \in Nat, <<x, 1>> \in Room
        PROVE  <<x, 1>> \in S
    <2> DEFINE T == {n \in Nat : <<n, 1>> \in Room \ S}
    <2> SUFFICES ASSUME T # {} PROVE FALSE
      BY <1>3
    <2>1. PICK n \in T : \A k \in T : n <= k
      BY NatMin
    <2>2. n # 1
      BY <2>1 DEF Start
    <2>3. n \in Nat /\ n % 2 = 1 /\ n < Width
      BY <2>1, <1>1
    <2>4. n - 2 \in Nat /\ (n - 2) % 2 = 1 /\ n - 2 < Width
      BY <2>2, <2>3, OddLess, SizeAssumption
    <2>5. <<n - 2, 1>> \in Room
      BY <2>4, <1>1, SizeAssumption
    <2>6. <<n - 2, 1>> \in S
      BY <2>1, <2>3, <2>4, <2>5
    <2>7. Ahead(<<n - 2, 1>>, <<1, 0>>) = <<n, 1>>
      BY <2>3 DEF Ahead
    <2>8. <<n, 1>> \in Cell /\ <<1, 0>> \in Directions
      BY <2>1 DEF Room, Directions
    <2> QED
      BY <2>1, <2>5, <2>6, <2>7, <2>8
  <1>4. ASSUME NEW x \in Nat, NEW y \in Nat, <<x, y>> \in Room
        PROVE  <<x, y>> \in S
    <2> DEFINE T == {n \in Nat : <<x, n>> \in Room \ S}
    <2> SUFFICES ASSUME T # {} PROVE FALSE
      BY <1>4
    <2>1. PICK n \in T : \A k \in T : n <= k
      BY NatMin
    <2>2. n # 1
      BY <2>1, <1>3
    <2>3. n \in Nat /\ n % 2 = 1 /\ n < Height /\ x < Width /\ x % 2 = 1
      BY <2>1, <1>1
    <2>4. n - 2 \in Nat /\ (n - 2) % 2 = 1 /\ n - 2 < Height
      BY <2>2, <2>3, OddLess, SizeAssumption
    <2>5. <<x, n - 2>> \in Room
      BY <2>3, <2>4, <1>1
    <2>6. <<x, n - 2>> \in S
      BY <2>1, <2>3, <2>4, <2>5
    <2>7. Ahead(<<x, n - 2>>, <<0, 1>>) = <<x, n>>
      BY <2>3 DEF Ahead
    <2>8. <<x, n>> \in Cell /\ <<0, 1>> \in Directions
      BY <2>1 DEF Room, Directions
    <2> QED
      BY <2>1, <2>5, <2>6, <2>7, <2>8
  <1> QED
    BY <1>2, <1>4

-----------------------------------------------------------------------------
(* The stack of calls. *)

LEMMA TriedFacts ==
    ASSUME stack \in Seq(Calls), stack # << >>, NEW d
    PROVE  /\ Top \in Calls /\ Len(stack) \in DOMAIN stack
           /\ Tried(d) \in Seq(Calls) /\ DOMAIN Tried(d) = DOMAIN stack
           /\ Len(Tried(d)) = Len(stack)
           /\ \A i \in DOMAIN stack :
                /\ Tried(d)[i].at = stack[i].at
                /\ Tried(d)[i].left =
                     IF i = Len(stack) THEN stack[i].left \ {d} ELSE stack[i].left
  <1>1. /\ Len(stack) \in Nat \ {0} /\ DOMAIN stack = 1..Len(stack)
        /\ \A i \in 1..Len(stack) : stack[i] \in Calls
    BY LenProperties, EmptySeq, ElementOfSeq
  <1>2. Top \in Calls /\ Len(stack) \in DOMAIN stack
    BY <1>1 DEF Top
  <1> DEFINE k == [Top EXCEPT !.left = @ \ {d}]
  <1>3. k \in Calls /\ k.at = Top.at /\ k.left = Top.left \ {d}
    BY <1>2 DEF Calls
  <1>4. Tried(d) = [stack EXCEPT ![Len(stack)] = k]
    BY <1>1 DEF Tried, Top
  <1> HIDE DEF k
  <1>5. Tried(d) \in Seq(Calls) /\ Len(Tried(d)) = Len(stack)
    BY <1>1, <1>3, <1>4, ExceptSeq
  <1> QED
    BY <1>1, <1>2, <1>3, <1>4, <1>5 DEF Top

-----------------------------------------------------------------------------
(* The invariant. *)

LEMMA CallFacts ==
    ASSUME NEW c \in Room
    PROVE  /\ Call(c) \in Calls /\ Call(c).at = c
           /\ \A d \in Directions : d \in Call(c).left <=> Ahead(c, d) \in Cell
  BY DEF Call, Calls

LEMMA InitInv == Init => IInv
  <1> SUFFICES ASSUME Init PROVE IInv
    OBVIOUS
  <1>1. TypeOK
    BY DEF Init, TypeOK, Tiles
  <1>2. Walkable = {}
    BY DEF Init, Walkable, game_is_walkable
  <1> QED
    BY <1>1, <1>2 DEF Init, IInv, Connected, Perfect, Explored, BothEndsOpen,
       CallsInOpenRooms, Prepared, Placed

LEMMA GameInitInv == IInv /\ game_init => IInv'
  <1> SUFFICES ASSUME IInv, game_init PROVE IInv'
    OBVIOUS
  <1>1. /\ pc' = "carve" /\ has_object' = {} /\ is_exit' = {}
        /\ stack' = <<Call(Start)>>
        /\ tile' = [c \in Cell |-> IF c = Start THEN "empty" ELSE "wall"]
    BY DEF game_init
  <1>2. Call(Start) \in Calls /\ Call(Start).at = Start
        /\ \A d \in Directions : d \in Call(Start).left <=> Ahead(Start, d) \in Cell
    BY StartRoom, CallFacts
  <1>3. stack' \in Seq(Calls) /\ DOMAIN stack' = {1} /\ stack'[1] = Call(Start)
    BY <1>1, <1>2
  <1>4. TypeOK'
    BY <1>1, <1>3 DEF TypeOK, Tiles
  <1>5. Walkable' = {Start}
    BY <1>1, StartRoom DEF Walkable, game_is_walkable
  <1>6. Connected'
    BY <1>5 DEF Connected, Linked
  <1>7. Perfect'
    <2>1. Walkable' \cap Inner = {Start} /\ Walkable' \cap Room = {Start}
      BY <1>5, StartRoom
    <2>2. Cardinality({Start}) = 1
      BY FS_Singleton
    <2> QED
      BY <2>1, <2>2 DEF Perfect
  <1>8. Explored'
    BY <1>2, <1>3, <1>5 DEF Explored, Pending
  <1>9. BothEndsOpen'
    BY <1>5, StartRoom, AheadRoom DEF BothEndsOpen
  <1>10. CallsInOpenRooms'
    BY <1>1, <1>2, <1>3, <1>5 DEF CallsInOpenRooms, Call
  <1>11. Prepared' /\ Placed'
    BY <1>1, <1>5, StartRoom DEF Prepared, Placed
  <1> QED
    BY <1>4, <1>6, <1>7, <1>8, <1>9, <1>10, <1>11 DEF IInv

LEMMA InnerFinite == IsFiniteSet(Inner) /\ Inner \subseteq Cell /\ Room \subseteq Inner
  <1>1. IsFiniteSet(1..Width - 2) /\ IsFiniteSet(1..Height - 2)
    BY SizeAssumption, FS_Interval
  <1>2. IsFiniteSet((1..Width - 2) \X (1..Height - 2))
    BY <1>1, FS_Product
  <1> QED
    BY <1>2, RoomInner, SizeAssumption DEF Inner, Cell

(* Opening a room and the wall in between keeps the balance of Perfect. *)
LEMMA PassageAdded ==
    ASSUME NEW W, NEW b, NEW n, b \in Inner \ W, n \in Room \ W, b \notin Room,
           Cardinality(W \cap Inner) = 2 * Cardinality(W \cap Room) - 1
    PROVE  Cardinality((W \cup {b, n}) \cap Inner)
               = 2 * Cardinality((W \cup {b, n}) \cap Room) - 1
  <1> DEFINE I == W \cap Inner
             R == W \cap Room
  <1>1. IsFiniteSet(I) /\ IsFiniteSet(R) /\ n \in Inner /\ n # b
    BY InnerFinite, FS_Subset
  <1>2. Cardinality(I) \in Nat /\ Cardinality(R) \in Nat
    BY <1>1, FS_CardinalityType
  <1>3. IsFiniteSet(I \cup {b}) /\ Cardinality(I \cup {b}) = Cardinality(I) + 1
    BY <1>1, FS_AddElement
  <1>4. n \notin I \cup {b} /\ n \notin R
    BY <1>1
  <1>5. Cardinality(I) = 2 * Cardinality(R) - 1
    OBVIOUS
  <1>6. (W \cup {b, n}) \cap Inner = (I \cup {b}) \cup {n}
        /\ (W \cup {b, n}) \cap Room = R \cup {n}
    BY <1>1
  <1> HIDE DEF I, R
  <1>7. Cardinality((I \cup {b}) \cup {n}) = Cardinality(I \cup {b}) + 1
    BY <1>3, <1>4, FS_AddElement
  <1>8. Cardinality(R \cup {n}) = Cardinality(R) + 1
    BY <1>1, <1>4, FS_AddElement
  <1>9. Cardinality((I \cup {b}) \cup {n}) = 2 * Cardinality(R \cup {n}) - 1
    BY <1>2, <1>3, <1>5, <1>7, <1>8
  <1> QED
    BY <1>6, <1>9

(* What a call knows of the room it stands in and of the room ahead. *)
LEMMA CarveFacts ==
    ASSUME IInv, NEW d \in Directions, carve(d)
    PROVE  /\ stack \in Seq(Calls) /\ stack # << >> /\ pc = "carve" /\ d \in Top.left
           /\ Top.at \in Room \cap Walkable /\ Ahead(Top.at, d) \in Cell
           /\ has_object' = has_object /\ is_exit' = is_exit /\ pc' = pc
           /\ has_object = {} /\ is_exit = {}
  <1>1. stack \in Seq(Calls) /\ stack # << >> /\ pc = "carve" /\ d \in Top.left
    BY DEF IInv, TypeOK, carve
  <1>2. Top \in Calls /\ Len(stack) \in DOMAIN stack
    BY <1>1, TriedFacts
  <1> QED
    BY <1>1, <1>2 DEF IInv, CallsInOpenRooms, Prepared, Top, Calls, carve

LEMMA CarveOpenInv ==
    ASSUME IInv, NEW d \in Directions, carve(d), tile[Ahead(Top.at, d)] = "wall"
    PROVE  /\ IInv'
           /\ Walkable' = Walkable \cup {Beside(Top.at, d), Ahead(Top.at, d)}
           /\ Ahead(Top.at, d) \notin Walkable
  <1> DEFINE c == Top.at
             n == Ahead(c, d)
             b == Beside(c, d)
  <1>1. /\ stack \in Seq(Calls) /\ stack # << >> /\ pc = "carve" /\ d \in Top.left
        /\ c \in Room \cap Walkable /\ n \in Cell
        /\ has_object' = has_object /\ is_exit' = is_exit /\ pc' = pc
        /\ has_object = {} /\ is_exit = {}
    BY CarveFacts
  <1>2. n \in Room /\ n = Beside(b, d) /\ b \in Inner /\ b \in Cell /\ b \notin Room
        /\ n \in Inner
    BY <1>1, AheadRoom, RoomInner
  <1>3. tile' = [tile EXCEPT ![n] = "empty", ![b] = "empty"]
        /\ stack' = Append(Tried(d), Call(n))
    BY DEF carve
  <1>4. /\ Top \in Calls /\ Len(stack) \in DOMAIN stack
        /\ Tried(d) \in Seq(Calls) /\ DOMAIN Tried(d) = DOMAIN stack
        /\ Len(Tried(d)) = Len(stack)
        /\ \A i \in DOMAIN stack :
             /\ Tried(d)[i].at = stack[i].at
             /\ Tried(d)[i].left =
                  IF i = Len(stack) THEN stack[i].left \ {d} ELSE stack[i].left
    BY <1>1, TriedFacts
  <1>5. /\ Call(n) \in Calls /\ Call(n).at = n
        /\ \A e \in Directions : e \in Call(n).left <=> Ahead(n, e) \in Cell
    BY <1>2, CallFacts
  <1> DEFINE m == Len(stack) + 1
  <1>6. /\ stack' \in Seq(Calls)
        /\ DOMAIN stack' = DOMAIN stack \cup {m} /\ m \notin DOMAIN stack
        /\ stack'[m] = Call(n)
        /\ \A i \in DOMAIN stack : stack'[i] = Tried(d)[i]
    <2>1. Len(stack) \in Nat /\ DOMAIN stack = 1..Len(stack)
      BY <1>1, LenProperties
    <2> QED
      BY <1>3, <1>4, <1>5, <2>1, AppendProperties
  <1>7. tile \in [Cell -> Tiles] /\ tile' \in [Cell -> Tiles]
        /\ \A x \in Cell : tile'[x] = IF x \in {b, n} THEN "empty" ELSE tile[x]
    BY <1>1, <1>2, <1>3 DEF IInv, TypeOK, Tiles
  <1>8. Walkable' = Walkable \cup {b, n}
    BY <1>1, <1>2, <1>7 DEF Walkable, game_is_walkable
  <1>9. n \notin Walkable
    BY DEF Walkable, game_is_walkable
  <1>10. b \notin Walkable
    BY <1>1, <1>9 DEF IInv, BothEndsOpen
  <1> HIDE DEF c, n, b, m
  <1>11. TypeOK'
    BY <1>1, <1>6, <1>7 DEF IInv, TypeOK
  <1>12. Connected'
    <2>1. Start \in Walkable /\ Linked(Walkable)
      BY <1>1 DEF IInv, Connected, CallsInOpenRooms
    <2>2. Linked(Walkable \cup {b})
      BY <1>1, <2>1, LinkedGrow DEF b
    <2>3. Linked((Walkable \cup {b}) \cup {n})
      BY <1>2, <2>1, <2>2, LinkedGrow
    <2>4. Walkable' = (Walkable \cup {b}) \cup {n}
      BY <1>8
    <2>5. Linked(Walkable')
      BY <2>3, <2>4
    <2> QED
      BY <2>5 DEF Connected, Linked, Closed
  <1>13. Perfect'
    <2>1. Cardinality(Walkable \cap Inner) = 2 * Cardinality(Walkable \cap Room) - 1
      BY <1>1 DEF IInv, Perfect
    <2>2. Cardinality((Walkable \cup {b, n}) \cap Inner)
            = 2 * Cardinality((Walkable \cup {b, n}) \cap Room) - 1
      BY <1>2, <1>9, <1>10, <2>1, PassageAdded
    <2> QED
      BY <1>8, <2>2 DEF Perfect
  <1>14. Explored'
    <2> SUFFICES ASSUME NEW r \in Room \cap Walkable', NEW e \in Directions,
                        Ahead(r, e) \in Cell, Ahead(r, e) \notin Walkable'
                 PROVE  \E i \in DOMAIN stack' : stack'[i].at = r /\ e \in stack'[i].left
      BY DEF Explored, Pending
    <2>1. CASE r = n
      BY <2>1, <1>5, <1>6
    <2>2. CASE r # n
      <3>1. r \in Walkable
        BY <2>2, <1>2, <1>8
      <3>2. PICK i \in DOMAIN stack : stack[i].at = r /\ e \in stack[i].left
        BY <3>1, <1>1, <1>8 DEF IInv, Explored, Pending
      <3>3. ~(i = Len(stack) /\ e = d)
        BY <3>2, <1>8 DEF n, c, Top
      <3> QED
        BY <3>2, <3>3, <1>4, <1>6
    <2> QED
      BY <2>1, <2>2
  <1>15. BothEndsOpen'
    <2> SUFFICES ASSUME NEW r \in Room, NEW e \in Directions,
                        Ahead(r, e) \in Cell, Beside(r, e) \in Walkable'
                 PROVE  r \in Walkable' /\ Ahead(r, e) \in Walkable'
      BY DEF BothEndsOpen
    <2>1. CASE Beside(r, e) \in Walkable
      BY <2>1, <1>8 DEF IInv, BothEndsOpen
    <2>2. CASE Beside(r, e) = b
      <3>1. {r, Ahead(r, e)} = {c, n}
        BY <2>2, <1>1, OneBetween DEF b, n
      <3> QED
        BY <3>1, <1>1, <1>8
    <2>3. Beside(r, e) # n
      BY <1>2, AheadRoom
    <2> QED
      BY <2>1, <2>2, <2>3, <1>8
  <1>16. CallsInOpenRooms'
    <2>1. ASSUME NEW i \in DOMAIN stack'
          PROVE  stack'[i].at \in Walkable' /\ \A e \in stack'[i].left : Ahead(stack'[i].at, e) \in Cell
      <3>1. CASE i = m
        BY <3>1, <1>5, <1>6, <1>8 DEF Calls
      <3>2. CASE i \in DOMAIN stack
        BY <3>2, <1>4, <1>6, <1>8 DEF IInv, CallsInOpenRooms
      <3> QED
        BY <3>1, <3>2, <1>6
    <2> QED
      BY <2>1, <1>1, <1>8 DEF IInv, CallsInOpenRooms
  <1>17. Prepared' /\ Placed'
    <2>1. \A x \in Walkable' : tile'[x] = "empty" /\ x \in Inner
      BY <1>1, <1>2, <1>7, <1>8 DEF IInv, Prepared, Walkable
    <2> QED
      BY <1>1, <2>1 DEF Prepared, Placed
  <1> QED
    BY <1>8, <1>9, <1>11, <1>12, <1>13, <1>14, <1>15, <1>16, <1>17 DEF IInv, n, b, c

(* A step that leaves the tiles and takes from the stack only a direction  *)
(* whose room is open, or a call without directions.                       *)
LEMMA CarveSkipInv ==
    ASSUME IInv, NEW d \in Directions, carve(d), tile[Ahead(Top.at, d)] # "wall"
    PROVE  IInv' /\ Walkable' = Walkable
  <1>1. /\ stack \in Seq(Calls) /\ stack # << >> /\ pc = "carve"
        /\ Top.at \in Room \cap Walkable /\ Ahead(Top.at, d) \in Cell
        /\ has_object' = has_object /\ is_exit' = is_exit /\ pc' = pc
    BY CarveFacts
  <1>2. tile' = tile /\ stack' = Tried(d)
    BY DEF carve
  <1>3. Walkable' = Walkable /\ Ahead(Top.at, d) \in Walkable
    BY <1>1, <1>2 DEF Walkable, game_is_walkable
  <1>4. /\ stack' \in Seq(Calls) /\ DOMAIN stack' = DOMAIN stack
        /\ \A i \in DOMAIN stack :
             /\ stack'[i].at = stack[i].at
             /\ stack'[i].left =
                  IF i = Len(stack) THEN stack[i].left \ {d} ELSE stack[i].left
    BY <1>1, <1>2, TriedFacts
  <1>5. TypeOK'
    BY <1>1, <1>2, <1>4 DEF IInv, TypeOK
  <1>6. Explored'
    <2> SUFFICES ASSUME NEW r \in Room \cap Walkable, NEW e \in Directions,
                        Ahead(r, e) \in Cell, Ahead(r, e) \notin Walkable
                 PROVE  \E i \in DOMAIN stack' : stack'[i].at = r /\ e \in stack'[i].left
      BY <1>3 DEF Explored, Pending
    <2>1. PICK i \in DOMAIN stack : stack[i].at = r /\ e \in stack[i].left
      BY <1>1 DEF IInv, Explored, Pending
    <2>2. ~(i = Len(stack) /\ e = d)
      BY <2>1, <1>3 DEF Top
    <2> QED
      BY <2>1, <2>2, <1>4
  <1>7. CallsInOpenRooms'
    BY <1>1, <1>3, <1>4 DEF IInv, CallsInOpenRooms
  <1>8. Connected' /\ Perfect' /\ BothEndsOpen'
    BY <1>1, <1>3 DEF IInv, Connected, Linked, Closed, Perfect, BothEndsOpen
  <1>9. Prepared' /\ Placed'
    BY <1>1, <1>2, <1>3 DEF IInv, Prepared, Placed
  <1> QED
    BY <1>3, <1>5, <1>6, <1>7, <1>8, <1>9 DEF IInv

LEMMA ReturnInv == IInv /\ carve_return => IInv' /\ Walkable' = Walkable
  <1> SUFFICES ASSUME IInv, carve_return PROVE IInv' /\ Walkable' = Walkable
    OBVIOUS
  <1>1. /\ stack \in Seq(Calls) /\ stack # << >> /\ pc = "carve" /\ Top.left = {}
        /\ tile' = tile /\ has_object' = has_object /\ is_exit' = is_exit /\ pc' = pc
        /\ stack' = SubSeq(stack, 1, Len(stack) - 1)
    BY DEF IInv, TypeOK, carve_return
  <1>2. Walkable' = Walkable
    BY <1>1 DEF Walkable, game_is_walkable
  <1>3. Len(stack) \in Nat \ {0} /\ DOMAIN stack = 1..Len(stack)
        /\ \A i \in 1..Len(stack) : stack[i] \in Calls
    BY <1>1, LenProperties, EmptySeq, ElementOfSeq
  <1>4. /\ stack' \in Seq(Calls) /\ DOMAIN stack' = 1..Len(stack) - 1
        /\ \A i \in 1..Len(stack) - 1 : stack'[i] = stack[i]
    <2>1. /\ stack' \in Seq(Calls) /\ Len(stack') = Len(stack) - 1
          /\ \A i \in 1..Len(stack) - 1 : stack'[i] = stack[1 + i - 1]
      BY <1>1, <1>3, SubSeqProperties
    <2> QED
      BY <2>1, <1>3, LenProperties
  <1>5. TypeOK'
    BY <1>1, <1>4 DEF IInv, TypeOK
  <1>6. Explored'
    <2> SUFFICES ASSUME NEW r \in Room \cap Walkable, NEW e \in Directions,
                        Ahead(r, e) \in Cell, Ahead(r, e) \notin Walkable
                 PROVE  \E i \in DOMAIN stack' : stack'[i].at = r /\ e \in stack'[i].left
      BY <1>2 DEF Explored, Pending
    <2>1. PICK i \in DOMAIN stack : stack[i].at = r /\ e \in stack[i].left
      BY <1>1 DEF IInv, Explored, Pending
    <2>2. i # Len(stack)
      BY <2>1, <1>1 DEF Top
    <2>3. i \in 1..Len(stack) - 1
      BY <2>2, <1>3
    <2> QED
      BY <2>1, <2>3, <1>4
  <1>7. CallsInOpenRooms'
    <2>1. \A i \in DOMAIN stack' : i \in DOMAIN stack /\ stack'[i] = stack[i]
      BY <1>3, <1>4
    <2> QED
      BY <1>1, <1>2, <2>1 DEF IInv, CallsInOpenRooms
  <1>8. Connected' /\ Perfect' /\ BothEndsOpen'
    BY <1>1, <1>2 DEF IInv, Connected, Linked, Closed, Perfect, BothEndsOpen
  <1>9. Prepared' /\ Placed'
    BY <1>1, <1>2 DEF IInv, Prepared, Placed
  <1> QED
    BY <1>2, <1>5, <1>6, <1>7, <1>8, <1>9 DEF IInv

(* When no call is left every room is open. *)
LEMMA RoomsOpen ==
    ASSUME IInv, pc # "none", stack = << >>
    PROVE  Room \subseteq Walkable
  <1>1. Start \in Walkable
    BY DEF IInv, CallsInOpenRooms
  <1>2. ASSUME NEW c \in Room \cap Walkable, NEW d \in Directions, Ahead(c, d) \in Cell
        PROVE  Ahead(c, d) \in Walkable
    <2>1. ~Pending(c, d)
      BY DEF Pending
    <2> QED
      BY <1>2, <2>1 DEF IInv, Explored
  <1> QED
    BY <1>1, <1>2, RoomsFilled

LEMMA PlaceExitInv ==
    IInv /\ place_exit =>
        /\ IInv'
        /\ \E a \in Room, d \in Directions :
             Beside(a, d) \in Border /\ Walkable' = Walkable \cup {Beside(a, d)}
  <1> SUFFICES ASSUME IInv, place_exit
               PROVE  /\ IInv'
                      /\ \E a \in Room, d \in Directions :
                           Beside(a, d) \in Border /\ Walkable' = Walkable \cup {Beside(a, d)}
    OBVIOUS
  <1>1. /\ pc = "carve" /\ stack = << >> /\ pc' = "objects"
        /\ stack' = stack /\ has_object' = has_object
        /\ has_object = {} /\ is_exit = {} /\ Walkable \subseteq Inner
        /\ \A c \in Walkable : tile[c] = "empty"
    BY DEF IInv, Prepared, place_exit
  <1>2. PICK e \in Exits :
          /\ tile' = [tile EXCEPT ![e[1]] = "exit", ![e[2]] = "empty"]
          /\ is_exit' = is_exit \cup {e[1]}
    BY DEF place_exit
  <1>3. PICK d \in Directions : e[2] = Beside(e[1], d)
    BY ExitFacts
  <1> DEFINE a == e[1]
             b == e[2]
  <1>4. /\ a \in Room /\ a \in Inner /\ a \in Cell
        /\ b \in Border /\ b \in Cell /\ b \notin Inner /\ b \notin Room /\ a # b
    BY ExitFacts, RoomInner DEF Border
  <1>5. Room \subseteq Walkable
    BY <1>1, RoomsOpen
  <1>6. /\ tile' \in [Cell -> Tiles] /\ tile \in [Cell -> Tiles]
        /\ \A x \in Cell : tile'[x] = IF x = b THEN "empty" ELSE IF x = a THEN "exit" ELSE tile[x]
    BY <1>2, <1>4 DEF IInv, TypeOK, Tiles
  <1> HIDE DEF a, b
  <1>7. Walkable' = Walkable \cup {b} /\ Walkable \subseteq Cell
    BY <1>4, <1>5, <1>6 DEF Walkable, game_is_walkable
  <1>8. TypeOK'
    BY <1>1, <1>2, <1>4, <1>6 DEF IInv, TypeOK, a
  <1>9. Connected'
    <2>1. Start \in Walkable /\ Linked(Walkable)
      BY <1>1 DEF IInv, Connected, CallsInOpenRooms
    <2>2. Linked(Walkable \cup {b})
      BY <1>3, <1>4, <1>5, <2>1, LinkedGrow DEF a, b
    <2>3. Linked(Walkable')
      BY <1>7, <2>2
    <2> QED
      BY <2>3 DEF Connected, Linked, Closed
  <1>10. Perfect'
    <2>1. Walkable' \cap Inner = Walkable \cap Inner /\ Walkable' \cap Room = Walkable \cap Room
      BY <1>4, <1>7
    <2> QED
      BY <1>1, <2>1 DEF IInv, Perfect
  <1>11. Explored'
    BY <1>5, <1>7, AheadRoom DEF Explored
  <1>12. BothEndsOpen'
    BY <1>5, <1>7, AheadRoom DEF BothEndsOpen
  <1>13. CallsInOpenRooms'
    BY <1>1, <1>7 DEF IInv, CallsInOpenRooms
  <1>14. Prepared' /\ Placed'
    <2>1. is_exit' = {a} /\ Walkable' \cap Border = {b}
      BY <1>1, <1>2, <1>4, <1>7 DEF a, Border
    <2>2. \A x \in Cell : tile'[x] \in {"wall", "empty"} \/ x = a
      BY <1>1, <1>6, <1>7 DEF Walkable, game_is_walkable
    <2>3. tile'[a] = "exit"
      BY <1>4, <1>6
    <2>4. is_exit' = {c \in Cell : tile'[c] = "exit"} /\ {} = {c \in Cell : tile'[c] = "object"}
      BY <2>1, <2>2, <2>3, <1>4
    <2>5. IsFiniteSet({}) /\ Cardinality({}) = 0
      BY FS_EmptySet
    <2> QED
      BY <1>1, <2>1, <2>4, <2>5, ObjectsAssumption DEF Prepared, Placed, a, b
  <1> QED
    BY <1>3, <1>4, <1>7, <1>8, <1>9, <1>10, <1>11, <1>12, <1>13, <1>14 DEF IInv, a, b

LEMMA PlaceObjectInv == IInv /\ place_object => IInv' /\ Walkable' = Walkable
  <1> SUFFICES ASSUME IInv, place_object PROVE IInv' /\ Walkable' = Walkable
    OBVIOUS
  <1>1. /\ pc = "objects" /\ pc' = "objects" /\ Cardinality(has_object) < Objects
        /\ stack' = stack /\ is_exit' = is_exit /\ stack = << >>
    BY DEF IInv, CallsInOpenRooms, place_object
  <1>2. PICK c \in Inner :
          /\ tile[c] = "empty" /\ c \notin is_exit /\ c \notin has_object
          /\ tile' = [tile EXCEPT ![c] = "object"]
          /\ has_object' = has_object \cup {c}
    BY DEF place_object
  <1>3. c \in Cell /\ tile \in [Cell -> Tiles] /\ tile' \in [Cell -> Tiles]
        /\ \A x \in Cell : tile'[x] = IF x = c THEN "object" ELSE tile[x]
    BY <1>2, InnerFinite DEF IInv, TypeOK, Tiles
  <1>4. Walkable' = Walkable
    BY <1>2, <1>3 DEF Walkable, game_is_walkable
  <1>5. TypeOK'
    BY <1>1, <1>2, <1>3 DEF IInv, TypeOK
  <1>6. Connected' /\ Perfect' /\ BothEndsOpen'
    BY <1>1, <1>4 DEF IInv, Connected, Linked, Closed, Perfect, BothEndsOpen
  <1>7. Explored' /\ CallsInOpenRooms'
    BY <1>1, <1>4 DEF IInv, Explored, Pending, CallsInOpenRooms
  <1>8. Prepared' /\ Placed'
    <2>1. IsFiniteSet(has_object) /\ is_exit = {x \in Cell : tile[x] = "exit"}
          /\ has_object = {x \in Cell : tile[x] = "object"}
          /\ \E e \in Exits : is_exit = {e[1]} /\ Walkable \cap Border = {e[2]}
      BY <1>1 DEF IInv, Placed
    <2>2. IsFiniteSet(has_object') /\ Cardinality(has_object') = Cardinality(has_object) + 1
      BY <1>2, <2>1, FS_AddElement
    <2>3. Cardinality(has_object') <= Objects
      BY <1>1, <2>1, <2>2, FS_CardinalityType, ObjectsAssumption
    <2>4. is_exit' = {x \in Cell : tile'[x] = "exit"}
          /\ has_object' = {x \in Cell : tile'[x] = "object"}
      BY <1>1, <1>2, <1>3, <2>1
    <2> QED
      BY <1>1, <1>4, <2>1, <2>2, <2>3, <2>4 DEF Prepared, Placed
  <1> QED
    BY <1>4, <1>5, <1>6, <1>7, <1>8 DEF IInv

LEMMA ObjectsDoneInv == IInv /\ objects_done => IInv' /\ Walkable' = Walkable
  <1> SUFFICES ASSUME IInv, objects_done PROVE IInv' /\ Walkable' = Walkable
    OBVIOUS
  <1>1. /\ pc = "objects" /\ pc' = "done" /\ Cardinality(has_object) >= Objects
        /\ stack' = stack /\ is_exit' = is_exit /\ tile' = tile /\ has_object' = has_object
    BY DEF objects_done
  <1>2. Walkable' = Walkable
    BY <1>1 DEF Walkable, game_is_walkable
  <1>3. TypeOK' /\ Connected' /\ Perfect' /\ BothEndsOpen'
    BY <1>1, <1>2 DEF IInv, TypeOK, Connected, Linked, Closed, Perfect, BothEndsOpen
  <1>4. Explored' /\ CallsInOpenRooms' /\ Prepared'
    BY <1>1, <1>2 DEF IInv, Explored, Pending, CallsInOpenRooms, Prepared
  <1>5. Placed'
    BY <1>1, <1>2 DEF IInv, Placed
  <1> QED
    BY <1>2, <1>3, <1>4, <1>5 DEF IInv

LEMMA PickupInv ==
    ASSUME IInv, NEW c \in Inner, game_pickup(c)
    PROVE  IInv' /\ Walkable' = Walkable
  <1>1. /\ pc = "done" /\ pc' = "done" /\ c \in has_object
        /\ has_object' = has_object \ {c}
        /\ tile' = [tile EXCEPT ![c] = "empty"]
        /\ stack' = stack /\ is_exit' = is_exit /\ stack = << >>
    BY DEF IInv, CallsInOpenRooms, game_pickup
  <1>2. /\ IsFiniteSet(has_object) /\ Cardinality(has_object) <= Objects
        /\ is_exit = {x \in Cell : tile[x] = "exit"}
        /\ has_object = {x \in Cell : tile[x] = "object"}
        /\ \E e \in Exits : is_exit = {e[1]} /\ Walkable \cap Border = {e[2]}
    BY <1>1 DEF IInv, Placed
  <1>3. c \in Cell /\ tile \in [Cell -> Tiles] /\ tile' \in [Cell -> Tiles]
        /\ \A x \in Cell : tile'[x] = IF x = c THEN "empty" ELSE tile[x]
    BY <1>1, InnerFinite DEF IInv, TypeOK, Tiles
  <1>4. Walkable' = Walkable
    BY <1>1, <1>2, <1>3 DEF Walkable, game_is_walkable
  <1>5. TypeOK'
    BY <1>1, <1>3 DEF IInv, TypeOK
  <1>6. Connected' /\ Perfect' /\ BothEndsOpen'
    BY <1>1, <1>4 DEF IInv, Connected, Linked, Closed, Perfect, BothEndsOpen
  <1>7. Explored' /\ CallsInOpenRooms'
    BY <1>1, <1>4 DEF IInv, Explored, Pending, CallsInOpenRooms
  <1>8. Prepared' /\ Placed'
    <2>1. /\ Cardinality(has_object') = Cardinality(has_object) - 1
          /\ IsFiniteSet(has_object') /\ Cardinality(has_object) \in Nat
      BY <1>1, <1>2, FS_RemoveElement, FS_CardinalityType
    <2>2. Cardinality(has_object') <= Objects
      BY <1>2, <2>1, ObjectsAssumption
    <2>3. is_exit' = {x \in Cell : tile'[x] = "exit"}
          /\ has_object' = {x \in Cell : tile'[x] = "object"}
      BY <1>1, <1>2, <1>3
    <2> QED
      BY <1>1, <1>2, <1>4, <2>1, <2>2, <2>3 DEF Prepared, Placed
  <1> QED
    BY <1>4, <1>5, <1>6, <1>7, <1>8 DEF IInv

LEMMA StutterInv == IInv /\ UNCHANGED vars => IInv' /\ Walkable' = Walkable
  <1> SUFFICES ASSUME IInv, UNCHANGED vars PROVE IInv' /\ Walkable' = Walkable
    OBVIOUS
  <1>1. tile' = tile /\ has_object' = has_object /\ is_exit' = is_exit
        /\ stack' = stack /\ pc' = pc
    BY DEF vars
  <1>2. Walkable' = Walkable
    BY <1>1 DEF Walkable, game_is_walkable
  <1>3. TypeOK' /\ Connected' /\ Perfect' /\ BothEndsOpen'
    BY <1>1, <1>2 DEF IInv, TypeOK, Connected, Linked, Closed, Perfect, BothEndsOpen
  <1>4. Explored' /\ CallsInOpenRooms' /\ Prepared' /\ Placed'
    BY <1>1, <1>2 DEF IInv, Explored, Pending, CallsInOpenRooms, Prepared, Placed
  <1> QED
    BY <1>2, <1>3, <1>4 DEF IInv

LEMMA NextInv == IInv /\ [Next]_vars => IInv'
  <1> SUFFICES ASSUME IInv, [Next]_vars PROVE IInv'
    OBVIOUS
  <1>1. CASE game_init
    BY <1>1, GameInitInv
  <1>2. ASSUME NEW d \in Directions, carve(d)
        PROVE  IInv'
    BY <1>2, CarveOpenInv, CarveSkipInv
  <1>3. CASE carve_return
    BY <1>3, ReturnInv
  <1>4. CASE place_exit
    BY <1>4, PlaceExitInv
  <1>5. CASE place_object
    BY <1>5, PlaceObjectInv
  <1>6. CASE objects_done
    BY <1>6, ObjectsDoneInv
  <1>7. CASE UNCHANGED vars
    BY <1>7, StutterInv
  <1>8. ASSUME NEW c \in Inner, game_pickup(c)
        PROVE  IInv'
    BY <1>8, PickupInv
  <1> QED
    BY <1>1, <1>2, <1>3, <1>4, <1>5, <1>6, <1>7, <1>8 DEF Next, Generate

-----------------------------------------------------------------------------
(* The theorems. *)

(* The inductive invariant holds in every state of every generation. *)
THEOREM MazeInvariant == Spec => []IInv
  <1> QED
    BY InitInv, NextInv, PTL DEF Spec

(* Type correctness of the matrix and the stack of calls: no room is       *)
(* carved and no object put outside the matrix.                            *)
THEOREM MazeTyped == Spec => []TypeOK
  <1>1. IInv => TypeOK
    BY DEF IInv
  <1> QED
    BY MazeInvariant, <1>1, PTL

(* Whatever the order of the directions, every walkable cell can be walked *)
(* to from (1, 1): no object and no exit is out of reach.                  *)
THEOREM MazeConnected == Spec => []Connected
  <1>1. IInv => Connected
    BY DEF IInv
  <1> QED
    BY <1>1, MazeInvariant, PTL

(* There are no circles: a passage less than there are rooms. *)
THEOREM MazePerfect == Spec => []Perfect
  <1>1. IInv => Perfect
    BY DEF IInv
  <1> QED
    BY <1>1, MazeInvariant, PTL

(* The recursive carve opens every room, in a matrix of any odd size. *)
THEOREM MazeAllRoomsOpen == Spec => []AllRoomsOpen
  <1>1. IInv => AllRoomsOpen
    BY RoomsOpen DEF IInv, AllRoomsOpen, CallsInOpenRooms
  <1> QED
    BY <1>1, MazeInvariant, PTL

(* In each match the exit is beside the one opening of the border and the  *)
(* tiles and flags agree, while objects are collected.                     *)
THEOREM MazeWellFormed == Spec => []WellFormed
  <1>1. IInv => WellFormed
    BY DEF IInv, Placed, WellFormed
  <1> QED
    BY <1>1, MazeInvariant, PTL

(* Each step of the generation is a step of a growing tree, or none. *)
THEOREM MazeImplements == Spec => Implements
  <1> DEFINE open == IF pc = "none" THEN {} ELSE Walkable
  <1>1. Init => Tree!Init
    BY DEF Init, Tree!Init
  <1>2. ASSUME IInv, [Next]_vars
        PROVE  [Tree!Next]_open
    <2>1. CASE game_init
      <3>1. open' = {Start}
        BY <2>1, StartRoom DEF game_init, Walkable, game_is_walkable
      <3>2. open = {} \/ open \cap Border # {}
        BY <1>2, <2>1 DEF IInv, Placed, game_init
      <3> QED
        BY <3>1, <3>2 DEF Tree!Next, Tree!Begin
    <2>2. ASSUME NEW d \in Directions, carve(d), tile[Ahead(Top.at, d)] = "wall"
          PROVE  [Tree!Next]_open
      <3>1. /\ pc = "carve" /\ pc' = "carve" /\ Top.at \in Room \cap Walkable
            /\ Ahead(Top.at, d) \in Cell
        BY <1>2, <2>2, CarveFacts
      <3>2. Walkable' = Walkable \cup {Beside(Top.at, d), Ahead(Top.at, d)}
            /\ Ahead(Top.at, d) \notin Walkable
        BY <1>2, <2>2, CarveOpenInv
      <3>3. Ahead(Top.at, d) \in Room
        BY <3>1, AheadRoom
      <3> QED
        BY <3>1, <3>2, <3>3 DEF Tree!Next, Tree!Grow
    <2>3. ASSUME NEW d \in Directions, carve(d), tile[Ahead(Top.at, d)] # "wall"
          PROVE  [Tree!Next]_open
      BY <1>2, <2>3, CarveSkipInv, CarveFacts
    <2>4. CASE carve_return
      BY <1>2, <2>4, ReturnInv DEF carve_return
    <2>5. CASE place_exit
      <3>1. pc = "carve" /\ pc' = "objects" /\ stack = << >>
        BY <2>5 DEF place_exit
      <3>2. Room \subseteq Walkable /\ Walkable \cap Border = {}
        BY <1>2, <3>1, RoomsOpen DEF IInv, Prepared, Border
      <3>3. \E a \in Room, d \in Directions :
              Beside(a, d) \in Border /\ Walkable' = Walkable \cup {Beside(a, d)}
        BY <1>2, <2>5, PlaceExitInv
      <3> QED
        BY <3>1, <3>2, <3>3 DEF Tree!Next, Tree!OpenBorder
    <2>6. CASE place_object
      BY <1>2, <2>6, PlaceObjectInv DEF place_object
    <2>7. CASE objects_done
      BY <1>2, <2>7, ObjectsDoneInv DEF objects_done
    <2>8. CASE UNCHANGED vars
      BY <1>2, <2>8, StutterInv DEF vars
    <2>9. ASSUME NEW c \in Inner, game_pickup(c)
          PROVE  [Tree!Next]_open
      BY <1>2, <2>9, PickupInv DEF game_pickup
    <2> QED
      BY <1>2, <2>1, <2>2, <2>3, <2>4, <2>5, <2>6, <2>7, <2>8, <2>9 DEF Next, Generate
  <1> QED
    BY <1>1, <1>2, MazeInvariant, PTL DEF Spec, Implements, Tree!Spec
=============================================================================
