--------------------------- MODULE SessionProofs ---------------------------
(***************************************************************************)
(* Proofs about Session, for every set of connections and of timers, every *)
(* set of commands and of faults.                                          *)
(***************************************************************************)
EXTENDS Session, Integers, SequencesExt, SequenceTheorems, TLAPS

(***************************************************************************)
(* Facts about lists.                                                      *)
(***************************************************************************)

(* What unlinking the i-th entry leaves of a list without repetitions. *)
LEMMA RemoveAtFacts ==
    ASSUME NEW S, NEW s \in Seq(S), NEW i \in 1..Len(s), IsInjective(s)
    PROVE  /\ RemoveAt(s, i) \in Seq(S)
           /\ IsInjective(RemoveAt(s, i))
           /\ ToSet(RemoveAt(s, i)) = ToSet(s) \ {s[i]}
<1> DEFINE r == RemoveAt(s, i)
           N == Len(s)
           a == SubSeq(s, 1, i - 1)
           b == SubSeq(s, i + 1, N)
<1>1. /\ a \in Seq(S) /\ Len(a) = i - 1 /\ \A j \in 1..(i - 1) : a[j] = s[j]
      /\ b \in Seq(S) /\ Len(b) = N - i /\ \A j \in 1..(N - i) : b[j] = s[i + j]
      /\ r = a \o b
  BY LenProperties, ElementOfSeq, SubSeqProperties DEF RemoveAt
<1>2. N \in Nat /\ i \in 1..N
  BY LenProperties
<1> HIDE DEF r, a, b, N
<1>3. /\ r \in Seq(S) /\ Len(r) = N - 1
      /\ \A j \in 1..(N - 1) : r[j] = IF j < i THEN s[j] ELSE s[j + 1]
  <2>1. /\ r \in Seq(S) /\ Len(r) = N - 1
        /\ \A j \in 1..(N - 1) : r[j] = IF j <= i - 1 THEN a[j] ELSE b[j - (i - 1)]
    BY <1>1, <1>2, ConcatProperties
  <2>2. ASSUME NEW j \in 1..(N - 1), j < i PROVE r[j] = s[j]
    BY <1>1, <1>2, <2>1, <2>2
  <2>3. ASSUME NEW j \in 1..(N - 1), ~(j < i) PROVE r[j] = s[j + 1]
    <3>1. /\ j - (i - 1) \in 1..(N - i) /\ i + (j - (i - 1)) = j + 1
          /\ ~(j <= i - 1)
      BY <1>2, <2>3
    <3> QED BY <1>1, <2>1, <3>1
  <2> QED BY <2>1, <2>2, <2>3
<1>4. DOMAIN s = 1..N /\ DOMAIN r = 1..(N - 1)
  BY <1>3, LenProperties DEF N
<1>5. \A j, k \in 1..N : s[j] = s[k] => j = k
  BY <1>4 DEF IsInjective
<1>6. IsInjective(r)
  BY <1>2, <1>3, <1>4, <1>5 DEF IsInjective
<1>7. ToSet(r) = ToSet(s) \ {s[i]}
  <2>1. ASSUME NEW k \in 1..N, k # i PROVE s[k] \in ToSet(r)
    <3>1. \E j \in 1..(N - 1) : r[j] = s[k]
      <4> DEFINE j == IF k < i THEN k ELSE k - 1
      <4>1. j \in 1..(N - 1) /\ r[j] = s[k]
        BY <1>2, <1>3, <2>1
      <4> QED BY <4>1
    <3> QED BY <1>4, <3>1 DEF ToSet
  <2>2. ASSUME NEW j \in 1..(N - 1) PROVE r[j] \in ToSet(s) /\ r[j] # s[i]
    BY <1>2, <1>3, <1>4, <1>5 DEF ToSet
  <2>3. \A j \in 1..N : j # i => s[j] # s[i]
    BY <1>2, <1>5
  <2>4. /\ ToSet(s) = {s[j] : j \in 1..N}
        /\ ToSet(r) = {r[j] : j \in 1..(N - 1)}
    BY <1>4 DEF ToSet
  <2>5. ToSet(r) \subseteq ToSet(s) \ {s[i]}
    BY <2>2, <2>4
  <2>6. ToSet(s) \ {s[i]} \subseteq ToSet(r)
    BY <2>1, <2>4
  <2> QED BY <2>5, <2>6
<1> QED BY <1>3, <1>6, <1>7 DEF r

(* A new entry at the head of a list it was not in. *)
LEMMA PushFacts ==
    ASSUME NEW S, NEW s \in Seq(S), NEW e \in S, e \notin ToSet(s), IsInjective(s)
    PROVE  /\ <<e>> \o s \in Seq(S)
           /\ <<e>> \o s # << >>
           /\ IsInjective(<<e>> \o s)
           /\ ToSet(<<e>> \o s) = ToSet(s) \cup {e}
<1> DEFINE r == <<e>> \o s
           N == Len(s)
<1>1. /\ r \in Seq(S) /\ Len(r) = N + 1 /\ N \in Nat /\ r # << >>
      /\ r[1] = e /\ \A j \in 1..N : r[j + 1] = s[j]
      /\ DOMAIN s = 1..N /\ DOMAIN r = 1..(N + 1)
  OBVIOUS
<1> HIDE DEF r
<1>2. \A j \in 1..(N + 1) : j = 1 \/ (j - 1 \in 1..N /\ r[j] = s[j - 1])
  BY <1>1
<1>3. \A j, k \in 1..N : s[j] # e /\ (s[j] = s[k] => j = k)
  BY <1>1 DEF IsInjective, ToSet
<1>4. \A j, k \in 1..(N + 1) : r[j] = r[k] => j = k
  BY <1>1, <1>2, <1>3
<1>5. \A j \in 1..N : s[j] \in ToSet(r)
  <2> SUFFICES ASSUME NEW j \in 1..N PROVE s[j] \in ToSet(r)
    OBVIOUS
  <2>1. j + 1 \in DOMAIN r
    BY <1>1
  <2> QED BY <1>1, <2>1 DEF ToSet
<1>6. ToSet(r) = ToSet(s) \cup {e}
  <2>1. e \in ToSet(r)
    BY <1>1 DEF ToSet
  <2>2. \A j \in 1..(N + 1) : r[j] = e \/ r[j] \in ToSet(s)
    BY <1>1, <1>2 DEF ToSet
  <2>3. ToSet(s) = {s[j] : j \in 1..N} /\ ToSet(r) = {r[j] : j \in 1..(N + 1)}
    BY <1>1 DEF ToSet
  <2> QED BY <1>5, <2>1, <2>2, <2>3
<1> QED BY <1>1, <1>4, <1>6 DEF r, IsInjective

(* The head of a list is in it, and only the empty list has no member. *)
LEMMA HeadFacts ==
    ASSUME NEW S, NEW s \in Seq(S)
    PROVE  /\ s # << >> => Head(s) \in ToSet(s)
           /\ s = << >> <=> ToSet(s) = {}
<1>1. Len(s) \in Nat /\ DOMAIN s = 1..Len(s)
  BY LenProperties
<1>2. CASE s = << >>
  BY <1>1, <1>2 DEF ToSet
<1>3. CASE s # << >>
  <2>1. 1 \in DOMAIN s /\ Head(s) = s[1]
    BY <1>3, EmptySeq, HeadTailProperties, <1>1
  <2> QED BY <2>1, <1>3 DEF ToSet
<1> QED BY <1>2, <1>3


(* What unlinking a listed connection does to the list and to ownership:   *)
(* the first section of client_list_remove.                                *)
LEMMA UnlinkFacts ==
    ASSUME TypeOK, ListOK, OneOwner, NEW c \in Members
    PROVE  LET rest == ListWithout(c)
               own == OwnersAfter(c, rest)
           IN  /\ rest \in Seq(Conns)
               /\ IsInjective(rest)
               /\ ToSet(rest) = Members \ {c}
               /\ own \in [Conns -> BOOLEAN]
               /\ \A d \in Conns : own[d] => d \in ToSet(rest)
               /\ rest # << >> => \E d \in ToSet(rest) : own[d]
               /\ \A d, e \in ToSet(rest) : own[d] /\ own[e] => d = e
               /\ \A d \in Members \ {c} : is_owner[d] => own[d]
               /\ ~is_owner[c] => \A d \in Members \ {c} : own[d] = is_owner[d]
<1> DEFINE i == CHOOSE k \in DOMAIN client_list : client_list[k] = c
           rest == ListWithout(c)
           own == OwnersAfter(c, rest)
<1>1. i \in DOMAIN client_list /\ client_list[i] = c
  BY DEF Members, ToSet
<1>2. i \in 1..Len(client_list) /\ client_list \in Seq(Conns)
  BY <1>1, LenProperties DEF TypeOK
<1>3. rest = RemoveAt(client_list, i)
  BY DEF ListWithout
<1> HIDE DEF i, rest
<1>4. /\ rest \in Seq(Conns)
      /\ IsInjective(rest)
      /\ ToSet(rest) = Members \ {c}
  BY <1>1, <1>2, <1>3, RemoveAtFacts DEF ListOK, Members
<1>5. rest # << >> => Head(rest) \in ToSet(rest)
  BY <1>4, HeadFacts
<1>6. own = [d \in Conns |->
                \/ is_owner[d] /\ d # c
                \/ is_owner[c] /\ rest # << >> /\ d = Head(rest)]
  BY DEF OwnersAfter
<1>7. Members \subseteq Conns /\ is_owner \in [Conns -> BOOLEAN]
  <2>1. \A k \in 1..Len(client_list) : client_list[k] \in Conns
    BY <1>2, ElementOfSeq
  <2> QED BY <2>1, <1>2, LenProperties DEF TypeOK, Members, ToSet
<1> HIDE DEF own
<1>8. own \in [Conns -> BOOLEAN]
  BY <1>6, <1>7
<1>9. \A d \in Conns : own[d] => d \in ToSet(rest)
  BY <1>4, <1>5, <1>6, <1>7 DEF ListOK
<1>10. \A d \in Members \ {c} : is_owner[d] => own[d]
  BY <1>6, <1>7
<1>11. client_list # << >>
  BY <1>2, HeadFacts DEF Members
<1>12. rest # << >> => \E d \in ToSet(rest) : own[d]
  <2>1. CASE is_owner[c]
    BY <2>1, <1>4, <1>5, <1>6, <1>7
  <2>2. CASE ~is_owner[c]
    BY <2>2, <1>4, <1>10, <1>11 DEF OneOwner
  <2> QED BY <2>1, <2>2
<1>13. \A d, e \in ToSet(rest) : own[d] /\ own[e] => d = e
  BY <1>4, <1>6, <1>7 DEF OneOwner
<1>14. ~is_owner[c] => \A d \in Members \ {c} : own[d] = is_owner[d]
  BY <1>6, <1>7
<1> QED
  BY <1>4, <1>8, <1>9, <1>10, <1>12, <1>13, <1>14 DEF own, rest

(* The first connection becomes the owner, the others do not. *)
LEMMA AddFacts ==
    ASSUME TypeOK, ListOK, OneOwner, NEW c \in Conns, client_list_add(c)
    PROVE  /\ client_list' \in Seq(Conns)
           /\ client_list' # << >>
           /\ IsInjective(client_list')
           /\ Members' = Members \cup {c}
           /\ c \notin Members
           /\ ListOK' /\ OneOwner'
<1> USE DEF client_list_add, Step, At, Goto, Listed
<1>1. c \notin Members
  BY DEF ListOK
<1>2. /\ client_list' \in Seq(Conns)
      /\ client_list' # << >>
      /\ IsInjective(client_list')
      /\ Members' = Members \cup {c}
  BY <1>1, PushFacts DEF TypeOK, ListOK, Members
<1>3. client_list = << >> <=> Members = {}
  BY HeadFacts DEF TypeOK, Members
<1>4. /\ is_owner' \in [Conns -> BOOLEAN]
      /\ \A d \in Conns : is_owner'[d] =
            IF d = c THEN Members = {} ELSE is_owner[d]
  BY <1>3 DEF TypeOK
<1>5. \A d \in Conns : pc'[d] = IF d = c THEN "created" ELSE pc[d]
  BY DEF TypeOK
<1>6. ListOK'
  BY <1>1, <1>2, <1>4, <1>5 DEF ListOK
<1>7. Members \subseteq Conns
  <2>1. \A k \in 1..Len(client_list) : client_list[k] \in Conns
    BY ElementOfSeq DEF TypeOK
  <2> QED BY <2>1, LenProperties DEF TypeOK, Members, ToSet
<1>8. OneOwner'
  <2>1. CASE Members = {}
    BY <2>1, <1>2, <1>4 DEF OneOwner
  <2>2. CASE Members # {}
    BY <2>2, <1>1, <1>2, <1>3, <1>4, <1>7 DEF OneOwner
  <2> QED BY <2>1, <2>2
<1> QED BY <1>1, <1>2, <1>6, <1>8

-----------------------------------------------------------------------------
LEMMA InitInv == Init => IInv
<1> SUFFICES ASSUME Init PROVE IInv
  OBVIOUS
<1> USE DEF Init, Phases, Positions, Listed, Leaving, HoldsSession
<1>1. client_list \in Seq(Conns) /\ Members = {}
  BY HeadFacts, EmptySeq DEF Members
<1>2. TypeOK
  BY <1>1 DEF TypeOK
<1>3. ListOK /\ OneOwner
  BY <1>1 DEF ListOK, OneOwner, IsInjective
<1>4. LocksOK /\ HoldersOK /\ LobbyTimer /\ TimerAlive /\ StaleReset /\ StaleMove
  BY NoneAssumption
  DEF LocksOK, HoldersOK, LobbyTimer, TimerAlive, StaleReset, StaleMove,
      MovePositions
<1> QED BY <1>2, <1>3, <1>4 DEF IInv

(* Every action keeps the invariant. *)
LEMMA StepInv ==
    ASSUME IInv, Next PROVE IInv'
<1> USE DEF IInv, session_vars, client_vars, lock_vars, Listed, Leaving,
            Positions, HoldsSession, Phases, SessionFree, ClientFree, At, Goto,
            Step, Command
<1>1. ASSUME NEW c \in Conns, CreateThread(c) PROVE IInv'
  <2> USE <1>1 DEF CreateThread
  <2>1. TypeOK' /\ ListOK' /\ OneOwner'
    BY DEF TypeOK, ListOK, OneOwner, Members
  <2>2. LocksOK' /\ HoldersOK'
    BY NoneAssumption
    DEF TypeOK, LocksOK, HoldersOK, all_players_done, Members
  <2>3. LobbyTimer' /\ TimerAlive'
    BY DEF TypeOK, HoldersOK, LobbyTimer, TimerAlive
  <2>4. StaleReset' /\ StaleMove'
    BY DEF TypeOK, LocksOK, HoldersOK, StaleReset, StaleMove, MovePositions
  <2> QED BY <2>1, <2>2, <2>3, <2>4
<1>2. ASSUME NEW c \in Conns, handle_login(c) PROVE IInv'
  <2> USE <1>2 DEF handle_login
  <2>1. TypeOK' /\ ListOK' /\ OneOwner'
    BY DEF TypeOK, ListOK, OneOwner, Members
  <2>2. LocksOK' /\ HoldersOK'
    BY NoneAssumption
    DEF TypeOK, LocksOK, HoldersOK, all_players_done, Members
  <2>3. LobbyTimer' /\ TimerAlive'
    BY DEF TypeOK, HoldersOK, LobbyTimer, TimerAlive
  <2>4. StaleReset' /\ StaleMove'
    BY DEF TypeOK, LocksOK, HoldersOK, StaleReset, StaleMove, MovePositions
  <2> QED BY <2>1, <2>2, <2>3, <2>4
<1>3. ASSUME NEW c \in Conns, ReadyRead(c) PROVE IInv'
  <2> USE <1>3 DEF ReadyRead
  <2>1. TypeOK' /\ ListOK' /\ OneOwner'
    BY DEF TypeOK, ListOK, OneOwner, Members
  <2>2. LocksOK' /\ HoldersOK'
    BY NoneAssumption
    DEF TypeOK, LocksOK, HoldersOK, all_players_done, Members
  <2>3. LobbyTimer' /\ TimerAlive'
    BY DEF TypeOK, HoldersOK, LobbyTimer, TimerAlive
  <2>4. StaleReset' /\ StaleMove'
    BY DEF TypeOK, LocksOK, HoldersOK, StaleReset, StaleMove, MovePositions
  <2> QED BY <2>1, <2>2, <2>3, <2>4
<1>4. ASSUME NEW c \in Conns, ReadySet(c) PROVE IInv'
  <2> USE <1>4 DEF ReadySet
  <2>1. TypeOK' /\ ListOK' /\ OneOwner'
    BY DEF TypeOK, ListOK, OneOwner, Members
  <2>2. LocksOK' /\ HoldersOK'
    BY NoneAssumption
    DEF TypeOK, LocksOK, HoldersOK, all_players_done, Members
  <2>3. LobbyTimer' /\ TimerAlive'
    BY DEF TypeOK, HoldersOK, LobbyTimer, TimerAlive
  <2>4. StaleReset' /\ StaleMove'
    BY DEF TypeOK, LocksOK, HoldersOK, StaleReset, StaleMove, MovePositions
  <2> QED BY <2>1, <2>2, <2>3, <2>4
<1>5. ASSUME NEW c \in Conns, StartTake(c) PROVE IInv'
  <2> USE <1>5 DEF StartTake
  <2>1. TypeOK' /\ ListOK' /\ OneOwner'
    BY DEF TypeOK, ListOK, OneOwner, Members
  <2>2. LocksOK' /\ HoldersOK'
    BY NoneAssumption
    DEF TypeOK, LocksOK, HoldersOK, all_players_done, Members
  <2>3. LobbyTimer' /\ TimerAlive'
    BY DEF TypeOK, HoldersOK, LobbyTimer, TimerAlive
  <2>4. StaleReset' /\ StaleMove'
    BY DEF TypeOK, LocksOK, HoldersOK, StaleReset, StaleMove, MovePositions
  <2> QED BY <2>1, <2>2, <2>3, <2>4
<1>6. ASSUME NEW c \in Conns, StartCheck(c) PROVE IInv'
  <2> USE <1>6 DEF StartCheck
  <2>1. TypeOK' /\ ListOK' /\ OneOwner'
    BY DEF TypeOK, ListOK, OneOwner, Members
  <2>2. LocksOK' /\ HoldersOK'
    BY NoneAssumption
    DEF TypeOK, LocksOK, HoldersOK, all_players_done, Members
  <2>3. LobbyTimer' /\ TimerAlive'
    BY DEF TypeOK, HoldersOK, LobbyTimer, TimerAlive
  <2>4. StaleReset' /\ StaleMove'
    BY DEF TypeOK, LocksOK, HoldersOK, StaleReset, StaleMove, MovePositions,
        OneOwner, ListOK, Members, all_non_owners_ready
  <2> QED BY <2>1, <2>2, <2>3, <2>4
<1>7. ASSUME NEW c \in Conns, StartSpawn(c) PROVE IInv'
  <2> USE <1>7 DEF StartSpawn, reset_client_for_lobby, Cleared, StartTimer
  <2>1. TypeOK' /\ ListOK' /\ OneOwner'
    BY DEF TypeOK, ListOK, OneOwner, Members
  <2>2. LocksOK' /\ HoldersOK'
    BY NoneAssumption
    DEF TypeOK, LocksOK, HoldersOK, all_players_done, Members
  <2>3. LobbyTimer' /\ TimerAlive'
    BY DEF TypeOK, HoldersOK, LobbyTimer, TimerAlive
  <2>4. StaleReset' /\ StaleMove'
    BY DEF TypeOK, LocksOK, HoldersOK, StaleReset, StaleMove, MovePositions
  <2> QED BY <2>1, <2>2, <2>3, <2>4
<1>8. ASSUME NEW c \in Conns, StartBcast(c) PROVE IInv'
  <2> USE <1>8 DEF StartBcast, client_list_broadcast
  <2>1. TypeOK' /\ ListOK' /\ OneOwner'
    BY DEF TypeOK, ListOK, OneOwner, Members
  <2>2. LocksOK' /\ HoldersOK'
    BY NoneAssumption
    DEF TypeOK, LocksOK, HoldersOK, all_players_done, Members
  <2>3. LobbyTimer' /\ TimerAlive'
    BY DEF TypeOK, HoldersOK, LobbyTimer, TimerAlive
  <2>4. StaleReset' /\ StaleMove'
    BY DEF TypeOK, LocksOK, HoldersOK, StaleReset, StaleMove, MovePositions
  <2> QED BY <2>1, <2>2, <2>3, <2>4
<1>9. ASSUME NEW c \in Conns, block_if_not_playing(c) PROVE IInv'
  <2> USE <1>9 DEF block_if_not_playing
  <2>1. TypeOK' /\ ListOK' /\ OneOwner'
    BY DEF TypeOK, ListOK, OneOwner, Members
  <2>2. LocksOK' /\ HoldersOK'
    BY NoneAssumption
    DEF TypeOK, LocksOK, HoldersOK, all_players_done, Members
  <2>3. LobbyTimer' /\ TimerAlive'
    BY DEF TypeOK, HoldersOK, LobbyTimer, TimerAlive
  <2>4. StaleReset' /\ StaleMove'
    BY DEF TypeOK, LocksOK, HoldersOK, StaleReset, StaleMove, MovePositions
  <2> QED BY <2>1, <2>2, <2>3, <2>4
<1>10. ASSUME NEW c \in Conns, MoveStep(c) PROVE IInv'
  <2> USE <1>10 DEF MoveStep
  <2>1. TypeOK' /\ ListOK' /\ OneOwner'
    BY DEF TypeOK, ListOK, OneOwner, Members
  <2>2. LocksOK' /\ HoldersOK'
    BY NoneAssumption
    DEF TypeOK, LocksOK, HoldersOK, all_players_done, Members
  <2>3. LobbyTimer' /\ TimerAlive'
    BY DEF TypeOK, HoldersOK, LobbyTimer, TimerAlive
  <2>4. StaleReset' /\ StaleMove'
    BY DEF TypeOK, LocksOK, HoldersOK, StaleReset, StaleMove, MovePositions
  <2> QED BY <2>1, <2>2, <2>3, <2>4
<1>11. ASSUME NEW c \in Conns, MoveExit(c) PROVE IInv'
  <2> USE <1>11 DEF MoveExit
  <2>1. TypeOK' /\ ListOK' /\ OneOwner'
    BY DEF TypeOK, ListOK, OneOwner, Members
  <2>2. LocksOK' /\ HoldersOK'
    BY NoneAssumption
    DEF TypeOK, LocksOK, HoldersOK, all_players_done, Members
  <2>3. LobbyTimer' /\ TimerAlive'
    BY DEF TypeOK, HoldersOK, LobbyTimer, TimerAlive
  <2>4. StaleReset' /\ StaleMove'
    BY DEF TypeOK, LocksOK, HoldersOK, StaleReset, StaleMove, MovePositions
  <2> QED BY <2>1, <2>2, <2>3, <2>4
<1>12. ASSUME NEW c \in Conns, MoveDone(c) PROVE IInv'
  <2> USE <1>12 DEF MoveDone
  <2>1. TypeOK' /\ ListOK' /\ OneOwner'
    BY DEF TypeOK, ListOK, OneOwner, Members
  <2>2. LocksOK' /\ HoldersOK'
    BY NoneAssumption
    DEF TypeOK, LocksOK, HoldersOK, all_players_done, Members
  <2>3. LobbyTimer' /\ TimerAlive'
    BY DEF TypeOK, HoldersOK, LobbyTimer, TimerAlive
  <2>4. StaleReset' /\ StaleMove'
    BY DEF TypeOK, LocksOK, HoldersOK, StaleReset, StaleMove, MovePositions
  <2> QED BY <2>1, <2>2, <2>3, <2>4
<1>13. ASSUME NEW c \in Conns, MoveFin(c) PROVE IInv'
  <2> USE <1>13 DEF MoveFin, Finish
  <2>1. TypeOK' /\ ListOK' /\ OneOwner'
    <3>1. TypeOK'
      BY DEF TypeOK
    <3>2. ListOK' /\ OneOwner'
      BY DEF TypeOK, ListOK, OneOwner, Members
    <3> QED BY <3>1, <3>2
  <2>2. LocksOK' /\ HoldersOK'
    BY NoneAssumption
    DEF TypeOK, LocksOK, HoldersOK, all_players_done, Members
  <2>3. LobbyTimer' /\ TimerAlive'
    BY DEF TypeOK, HoldersOK, LobbyTimer, TimerAlive
  <2>4. StaleReset' /\ StaleMove'
    BY DEF TypeOK, LocksOK, HoldersOK, StaleReset, StaleMove, MovePositions
  <2> QED BY <2>1, <2>2, <2>3, <2>4
<1>14. ASSUME NEW c \in Conns, MoveBcast(c) PROVE IInv'
  <2> USE <1>14 DEF MoveBcast, client_list_broadcast
  <2>1. TypeOK' /\ ListOK' /\ OneOwner'
    BY DEF TypeOK, ListOK, OneOwner, Members
  <2>2. LocksOK' /\ HoldersOK'
    BY NoneAssumption
    DEF TypeOK, LocksOK, HoldersOK, all_players_done, Members
  <2>3. LobbyTimer' /\ TimerAlive'
    BY DEF TypeOK, HoldersOK, LobbyTimer, TimerAlive
  <2>4. StaleReset' /\ StaleMove'
    BY DEF TypeOK, LocksOK, HoldersOK, StaleReset, StaleMove, MovePositions
  <2> QED BY <2>1, <2>2, <2>3, <2>4
<1>15. ASSUME NEW c \in Conns, ResetRead(c) PROVE IInv'
  <2> USE <1>15 DEF ResetRead
  <2>1. TypeOK' /\ ListOK' /\ OneOwner'
    BY DEF TypeOK, ListOK, OneOwner, Members
  <2>2. LocksOK' /\ HoldersOK'
    BY NoneAssumption
    DEF TypeOK, LocksOK, HoldersOK, all_players_done, Members
  <2>3. LobbyTimer' /\ TimerAlive'
    BY DEF TypeOK, HoldersOK, LobbyTimer, TimerAlive
  <2>4. StaleReset' /\ StaleMove'
    BY DEF TypeOK, LocksOK, HoldersOK, StaleReset, StaleMove, MovePositions
  <2> QED BY <2>1, <2>2, <2>3, <2>4
<1>16. ASSUME NEW c \in Conns, ResetOwner(c) PROVE IInv'
  <2> USE <1>16 DEF ResetOwner
  <2>1. TypeOK' /\ ListOK' /\ OneOwner'
    BY DEF TypeOK, ListOK, OneOwner, Members
  <2>2. LocksOK' /\ HoldersOK'
    BY NoneAssumption
    DEF TypeOK, LocksOK, HoldersOK, all_players_done, Members
  <2>3. LobbyTimer' /\ TimerAlive'
    BY DEF TypeOK, HoldersOK, LobbyTimer, TimerAlive
  <2>4. StaleReset' /\ StaleMove'
    BY DEF TypeOK, LocksOK, HoldersOK, StaleReset, StaleMove, MovePositions
  <2> QED BY <2>1, <2>2, <2>3, <2>4
<1>17. ASSUME NEW c \in Conns, ResetSet(c) PROVE IInv'
  <2> USE <1>17 DEF ResetSet
  <2>1. TypeOK' /\ ListOK' /\ OneOwner'
    BY DEF TypeOK, ListOK, OneOwner, Members
  <2>2. LocksOK' /\ HoldersOK'
    BY NoneAssumption
    DEF TypeOK, LocksOK, HoldersOK, all_players_done, Members
  <2>3. LobbyTimer' /\ TimerAlive'
    BY DEF TypeOK, HoldersOK, LobbyTimer, TimerAlive
  <2>4. StaleReset' /\ StaleMove'
    BY DEF TypeOK, LocksOK, HoldersOK, StaleReset, StaleMove, MovePositions
  <2> QED BY <2>1, <2>2, <2>3, <2>4
<1>18. ASSUME NEW c \in Conns, ResetClients(c) PROVE IInv'
  <2> USE <1>18 DEF ResetClients, reset_client_for_lobby, Cleared
  <2>1. TypeOK' /\ ListOK' /\ OneOwner'
    BY DEF TypeOK, ListOK, OneOwner, Members
  <2>2. LocksOK' /\ HoldersOK'
    BY NoneAssumption
    DEF TypeOK, LocksOK, HoldersOK, all_players_done, Members
  <2>3. LobbyTimer' /\ TimerAlive'
    BY DEF TypeOK, HoldersOK, LobbyTimer, TimerAlive
  <2>4. \A d \in Conns : pc[d] \in Listed => ~ready'[d]
    BY DEF ListOK
  <2>5. \A d \in Conns : d # c => pc'[d] = pc[d]
    BY DEF TypeOK
  <2>6. pc'[c] = "reset_bcast"
    BY DEF TypeOK
  <2>7. StaleReset'
    BY <2>4, <2>5, <2>6 DEF StaleReset
  <2>8. StaleMove'
    BY <2>4, <2>5, <2>6 DEF StaleMove, MovePositions
  <2> QED BY <2>1, <2>2, <2>3, <2>7, <2>8
<1>19. ASSUME NEW c \in Conns, ResetBcast(c) PROVE IInv'
  <2> USE <1>19 DEF ResetBcast, client_list_broadcast
  <2>1. TypeOK' /\ ListOK' /\ OneOwner'
    BY DEF TypeOK, ListOK, OneOwner, Members
  <2>2. LocksOK' /\ HoldersOK'
    BY NoneAssumption
    DEF TypeOK, LocksOK, HoldersOK, all_players_done, Members
  <2>3. LobbyTimer' /\ TimerAlive'
    BY DEF TypeOK, HoldersOK, LobbyTimer, TimerAlive
  <2>4. StaleReset' /\ StaleMove'
    BY DEF TypeOK, LocksOK, HoldersOK, StaleReset, StaleMove, MovePositions
  <2> QED BY <2>1, <2>2, <2>3, <2>4
<1>20. ASSUME NEW c \in Conns, Quit(c) PROVE IInv'
  <2> USE <1>20 DEF Quit
  <2>1. TypeOK' /\ ListOK' /\ OneOwner'
    BY DEF TypeOK, ListOK, OneOwner, Members
  <2>2. LocksOK' /\ HoldersOK'
    BY NoneAssumption
    DEF TypeOK, LocksOK, HoldersOK, all_players_done, Members
  <2>3. LobbyTimer' /\ TimerAlive'
    BY DEF TypeOK, HoldersOK, LobbyTimer, TimerAlive
  <2>4. StaleReset' /\ StaleMove'
    BY DEF TypeOK, LocksOK, HoldersOK, StaleReset, StaleMove, MovePositions
  <2> QED BY <2>1, <2>2, <2>3, <2>4
<1>21. ASSUME NEW c \in Conns, RemoveLast(c) PROVE IInv'
  <2> USE <1>21 DEF RemoveLast
  <2>1. TypeOK' /\ ListOK' /\ OneOwner'
    BY DEF TypeOK, ListOK, OneOwner, Members
  <2>2. LocksOK' /\ HoldersOK'
    BY NoneAssumption
    DEF TypeOK, LocksOK, HoldersOK, all_players_done, Members
  <2>3. LobbyTimer' /\ TimerAlive'
    BY DEF TypeOK, HoldersOK, LobbyTimer, TimerAlive
  <2>4. StaleReset' /\ StaleMove'
    BY DEF TypeOK, LocksOK, HoldersOK, StaleReset, StaleMove, MovePositions
  <2> QED BY <2>1, <2>2, <2>3, <2>4
<1>22. ASSUME NEW c \in Conns, Cleanup(c) PROVE IInv'
  <2> USE <1>22 DEF Cleanup, Finish
  <2>1. TypeOK' /\ ListOK' /\ OneOwner'
    <3>1. TypeOK'
      BY DEF TypeOK
    <3>2. ListOK' /\ OneOwner'
      BY DEF TypeOK, ListOK, OneOwner, Members
    <3> QED BY <3>1, <3>2
  <2>2. LocksOK' /\ HoldersOK'
    BY NoneAssumption
    DEF TypeOK, LocksOK, HoldersOK, all_players_done, Members
  <2>3. LobbyTimer' /\ TimerAlive'
    BY DEF TypeOK, HoldersOK, LobbyTimer, TimerAlive
  <2>4. StaleReset' /\ StaleMove'
    BY DEF TypeOK, LocksOK, HoldersOK, StaleReset, StaleMove, MovePositions
  <2> QED BY <2>1, <2>2, <2>3, <2>4
<1>23. ASSUME NEW c \in Conns, CleanupCheck(c) PROVE IInv'
  <2> USE <1>23 DEF CleanupCheck, Finish
  <2>1. TypeOK' /\ ListOK' /\ OneOwner'
    <3>1. TypeOK'
      BY DEF TypeOK
    <3>2. ListOK' /\ OneOwner'
      BY DEF TypeOK, ListOK, OneOwner, Members
    <3> QED BY <3>1, <3>2
  <2>2. LocksOK' /\ HoldersOK'
    BY NoneAssumption
    DEF TypeOK, LocksOK, HoldersOK, all_players_done, Members
  <2>3. LobbyTimer' /\ TimerAlive'
    BY DEF TypeOK, HoldersOK, LobbyTimer, TimerAlive
  <2>4. StaleReset' /\ StaleMove'
    BY DEF TypeOK, LocksOK, HoldersOK, StaleReset, StaleMove, MovePositions
  <2> QED BY <2>1, <2>2, <2>3, <2>4
<1>24. ASSUME NEW c \in Conns, CleanupBcast(c) PROVE IInv'
  <2> USE <1>24 DEF CleanupBcast, client_list_broadcast
  <2>1. TypeOK' /\ ListOK' /\ OneOwner'
    BY DEF TypeOK, ListOK, OneOwner, Members
  <2>2. LocksOK' /\ HoldersOK'
    BY NoneAssumption
    DEF TypeOK, LocksOK, HoldersOK, all_players_done, Members
  <2>3. LobbyTimer' /\ TimerAlive'
    BY DEF TypeOK, HoldersOK, LobbyTimer, TimerAlive
  <2>4. StaleReset' /\ StaleMove'
    BY DEF TypeOK, LocksOK, HoldersOK, StaleReset, StaleMove, MovePositions
  <2> QED BY <2>1, <2>2, <2>3, <2>4
<1>25. ASSUME NEW t \in Timers, TimerTick(t) PROVE IInv'
  <2> USE <1>25 DEF TimerTick, Finish
  <2>1. TypeOK' /\ ListOK' /\ OneOwner'
    BY DEF TypeOK, ListOK, OneOwner, Members
  <2>2. LocksOK' /\ HoldersOK'
    BY NoneAssumption
    DEF TypeOK, LocksOK, HoldersOK, all_players_done, Members
  <2>3. LobbyTimer' /\ TimerAlive'
    BY DEF TypeOK, HoldersOK, LobbyTimer, TimerAlive
  <2>4. StaleReset' /\ StaleMove'
    BY DEF TypeOK, LocksOK, HoldersOK, StaleReset, StaleMove, MovePositions
  <2> QED BY <2>1, <2>2, <2>3, <2>4
<1>26. ASSUME NEW t \in Timers, TimerBcast(t) PROVE IInv'
  <2> USE <1>26 DEF TimerBcast, client_list_broadcast
  <2>1. TypeOK' /\ ListOK' /\ OneOwner'
    BY DEF TypeOK, ListOK, OneOwner, Members
  <2>2. LocksOK' /\ HoldersOK'
    BY NoneAssumption
    DEF TypeOK, LocksOK, HoldersOK, all_players_done, Members
  <2>3. LobbyTimer' /\ TimerAlive'
    BY DEF TypeOK, HoldersOK, LobbyTimer, TimerAlive
  <2>4. StaleReset' /\ StaleMove'
    BY DEF TypeOK, LocksOK, HoldersOK, StaleReset, StaleMove, MovePositions
  <2> QED BY <2>1, <2>2, <2>3, <2>4
<1>27. ASSUME Clock PROVE IInv'
  <2> USE <1>27 DEF Clock
  <2>1. TypeOK' /\ ListOK' /\ OneOwner'
    BY DEF TypeOK, ListOK, OneOwner, Members
  <2>2. LocksOK' /\ HoldersOK'
    BY NoneAssumption
    DEF TypeOK, LocksOK, HoldersOK, all_players_done, Members
  <2>3. LobbyTimer' /\ TimerAlive'
    BY DEF TypeOK, HoldersOK, LobbyTimer, TimerAlive
  <2>4. StaleReset' /\ StaleMove'
    BY DEF TypeOK, LocksOK, HoldersOK, StaleReset, StaleMove, MovePositions
  <2> QED BY <2>1, <2>2, <2>3, <2>4
<1>28. ASSUME NEW c \in Conns, client_list_add(c) PROVE IInv'
  <2>1. /\ Members' = Members \cup {c} /\ c \notin Members
        /\ client_list' \in Seq(Conns) /\ ListOK' /\ OneOwner'
    BY <1>28, AddFacts
  <2> USE <1>28 DEF client_list_add
  <2>2. TypeOK'
    BY <2>1 DEF TypeOK
  <2>3. LocksOK' /\ HoldersOK'
    BY <2>1, NoneAssumption DEF TypeOK, ListOK, LocksOK, HoldersOK
  <2>4. LobbyTimer' /\ TimerAlive' /\ StaleReset' /\ StaleMove'
    BY <2>1 DEF TypeOK, ListOK, LobbyTimer, TimerAlive, StaleReset, StaleMove, MovePositions
  <2> QED BY <2>1, <2>2, <2>3, <2>4
<1>29. ASSUME NEW c \in Conns, client_list_remove(c) PROVE IInv'
  <2> DEFINE rest == ListWithout(c)
             own == OwnersAfter(c, rest)
  <2>1. /\ client_list' = rest /\ is_owner' = own
        /\ c \in Members /\ ClientFree
        /\ pc[c] \in {"remove", "failed"}
        /\ pc' \in [Conns -> Positions]
        /\ pc'[c] \in {"rm_last", "failed_last", "cleanup", "gone"}
        /\ \A d \in Conns : d # c => pc'[d] = pc[d]
        /\ UNCHANGED <<session_vars, ready, logged_in, exit_reached, lock_vars,
                       timer, view>>
    BY <1>29 DEF client_list_remove, Unlink, TypeOK, ListOK
  <2>2. /\ rest \in Seq(Conns)
        /\ IsInjective(rest)
        /\ ToSet(rest) = Members \ {c}
        /\ own \in [Conns -> BOOLEAN]
        /\ \A d \in Conns : own[d] => d \in ToSet(rest)
        /\ rest # << >> => \E d \in ToSet(rest) : own[d]
        /\ \A d, e \in ToSet(rest) : own[d] /\ own[e] => d = e
        /\ \A d \in Members \ {c} : is_owner[d] => own[d]
    BY <2>1, UnlinkFacts
  <2> HIDE DEF rest, own
  <2>3. Members' = Members \ {c}
    BY <2>1, <2>2 DEF Members
  <2>4. TypeOK'
    BY <2>1, <2>2 DEF TypeOK
  <2>5. ListOK' /\ OneOwner'
    BY <2>1, <2>2, <2>3 DEF ListOK, OneOwner
  <2>6. LocksOK'
    BY <2>1, NoneAssumption DEF LocksOK
  <2>7. HoldersOK' /\ StaleReset' /\ StaleMove'
    BY <2>1, <2>2 DEF HoldersOK, ListOK, StaleReset, StaleMove, MovePositions
  <2>8. LobbyTimer' /\ TimerAlive'
    BY <2>1 DEF LobbyTimer, TimerAlive
  <2> QED BY <2>4, <2>5, <2>6, <2>7, <2>8
<1> QED
  BY <1>1, <1>2, <1>3, <1>4, <1>5, <1>6, <1>7, <1>8, <1>9, <1>10, <1>11,
     <1>12, <1>13, <1>14, <1>15, <1>16, <1>17, <1>18, <1>19, <1>20, <1>21,
     <1>22, <1>23, <1>24, <1>25, <1>26, <1>27, <1>28, <1>29
  DEF Next, Issue, Serve

(* The invariant holds in every reachable state. *)
THEOREM Invariance == Spec => []IInv
<1>1. IInv /\ [Next]_vars => IInv'
  <2>1. ASSUME IInv, UNCHANGED vars PROVE IInv'
    BY <2>1 DEF IInv, vars, session_vars, client_vars, lock_vars, TypeOK,
       ListOK, OneOwner, LocksOK, HoldersOK, LobbyTimer, TimerAlive,
       StaleReset, StaleMove, MovePositions, Members, all_players_done
  <2> QED BY <2>1, StepInv
<1> QED BY InitInv, <1>1, PTL DEF Spec

(* Type correctness of the session. *)
THEOREM TypeCorrect == Spec => []TypeOK
BY Invariance, PTL DEF IInv

(* A session with clients has exactly one owner. *)
THEOREM OwnerUnique == Spec => []OneOwner
BY Invariance, PTL DEF IInv

(* The spawn of a match meets no MOVE or RESET of an earlier one: those    *)
(* that are delayed keep their client from being ready.                    *)
THEOREM SpawnUndisturbed == Spec => []SpawnAlone
<1>1. IInv => SpawnAlone
  <2> SUFFICES ASSUME IInv, NEW c \in Conns, NEW d \in Conns,
                      pc[d] = "start_spawn"
               PROVE  pc[c] \notin MovePositions \cup
                        {"reset_owner", "reset_set", "reset_clients"}
    BY DEF SpawnAlone, MovePositions
  <2>1. pc[c] \notin MovePositions \cup {"reset_owner", "reset_set"}
    BY DEF IInv, StaleMove, StaleReset
  <2>2. pc[c] # "reset_clients"
    BY DEF IInv, StaleReset, HoldersOK, ListOK, OneOwner
  <2> QED BY <2>1, <2>2
<1> QED BY Invariance, <1>1, PTL

(* A match never lacks a timer. *)
THEOREM TimerNeverMissing == Spec => []TimerAlive
BY Invariance, PTL DEF IInv

-----------------------------------------------------------------------------
(* What the clients were told stays true, given the invariant. *)
LEMMA StepTold ==
    ASSUME IInv, ToldInv, Next PROVE ToldInv'
<1> USE DEF session_vars, client_vars, lock_vars, At, Goto, Step, Command,
            SessionFree, ClientFree
<1>1. Members \subseteq Conns
  <2>1. \A k \in 1..Len(client_list) : client_list[k] \in Conns
    BY ElementOfSeq DEF IInv, TypeOK
  <2> QED BY <2>1, LenProperties DEF IInv, TypeOK, Members, ToSet
<1>2. ASSUME NEW c \in Conns, client_list_add(c) PROVE ToldInv'
  <2>1. Members' = Members \cup {c} /\ view[c] # "PLAYING"
    BY <1>2, AddFacts DEF IInv, client_list_add, ToldInv, ViewsOK
  <2>2. UNCHANGED <<session_vars, timer, view>>
        /\ pc[c] = "none" /\ pc' = [pc EXCEPT ![c] = "created"]
    BY <1>2 DEF client_list_add
  <2>3. ViewsOK'
    BY <2>2 DEF ToldInv, ViewsOK, IInv, TypeOK
  <2>4. EndHasTeller'
    BY <2>1, <2>2 DEF ToldInv, EndHasTeller, IInv, TypeOK
  <2> QED BY <2>3, <2>4 DEF ToldInv
<1>3. ASSUME NEW c \in Conns, Issue(c) PROVE ToldInv'
  <2>1. /\ UNCHANGED <<session_vars, client_list, timer, view>>
        /\ pc' = pc \/ (pc[c] = "idle" /\ \E to : /\ to \notin {"none", "start_bcast"}
                                                /\ pc' = [pc EXCEPT ![c] = to])
    BY <1>3 DEF Issue, handle_login, ReadyRead, StartTake,
                block_if_not_playing, ResetRead, Quit
  <2>2. ViewsOK'
    BY <2>1 DEF ToldInv, ViewsOK, IInv, TypeOK
  <2>3. EndHasTeller'
    BY <2>1 DEF ToldInv, EndHasTeller, IInv, TypeOK, Members
  <2> QED BY <2>2, <2>3 DEF ToldInv
<1>4. ASSUME NEW c \in Conns, client_list_broadcast("FINISHED"),
             UNCHANGED <<session_vars, client_list>>,
             pc' = [pc EXCEPT ![c] = "idle"] \/ pc' = [pc EXCEPT ![c] = "gone"]
               \/ pc' = pc
      PROVE  ToldInv'
  <2>1. \A d \in Conns : view'[d] = IF d \in Members THEN "FINISHED" ELSE view[d]
    BY <1>4 DEF client_list_broadcast
  <2>2. ViewsOK'
    BY <1>4, <2>1 DEF ToldInv, ViewsOK, IInv, TypeOK
  <2>3. EndHasTeller'
    BY <1>1, <1>4, <2>1 DEF EndHasTeller, Members
  <2> QED BY <2>2, <2>3 DEF ToldInv
<1>5. ASSUME NEW c \in Conns, Serve(c) PROVE ToldInv'
  <2>1. CASE StartSpawn(c)
    <3>1. /\ session_state' = "PLAYING" /\ view' = view
          /\ pc' = [pc EXCEPT ![c] = "start_bcast"]
      BY <2>1 DEF StartSpawn
    <3> QED BY <3>1 DEF ToldInv, ViewsOK, EndHasTeller, IInv, TypeOK
  <2>2. CASE StartBcast(c)
    <3>1. session_state = "PLAYING"
      BY <2>2 DEF StartBcast, ToldInv, ViewsOK
    <3>2. /\ UNCHANGED session_vars
          /\ pc' = [pc EXCEPT ![c] = "idle"]
          /\ \A d \in Conns : view'[d] = IF d \in Members THEN "PLAYING" ELSE view[d]
      BY <2>2 DEF StartBcast, client_list_broadcast
    <3>3. \A d \in Conns : pc[d] = "none" => d \notin Members
      BY DEF IInv, ListOK, Listed
    <3> QED BY <3>1, <3>2, <3>3 DEF ToldInv, ViewsOK, EndHasTeller, IInv, TypeOK
  <2>3. CASE ResetBcast(c)
    <3>1. /\ UNCHANGED <<session_vars, client_list, timer>>
          /\ pc[c] = "reset_bcast"
          /\ pc' = [pc EXCEPT ![c] = "idle"]
          /\ \A d \in Conns : view'[d] = IF d \in Members THEN "LOBBY" ELSE view[d]
      BY <2>3 DEF ResetBcast, client_list_broadcast
    <3> QED BY <1>1, <3>1 DEF ToldInv, ViewsOK, EndHasTeller, Members, IInv, TypeOK
  <2>4. CASE MoveBcast(c) \/ CleanupBcast(c)
    BY <2>4, <1>4 DEF MoveBcast, CleanupBcast
  <2>5. CASE MoveFin(c)
    <3>1. \A d \in Conns : pc[d] # "start_bcast"
      BY <2>5, NoneAssumption DEF MoveFin, IInv, LocksOK, HoldsSession
    <3>2. /\ view' = view /\ client_list' = client_list /\ timer' = timer
          /\ pc[c] = "move_fin"
          /\ \/ session_state' = "FINISHED" /\ pc' = [pc EXCEPT ![c] = "end_bcast"]
             \/ UNCHANGED session_vars /\ pc' = [pc EXCEPT ![c] = "idle"]
      BY <2>5 DEF MoveFin, Finish
    <3> QED BY <3>1, <3>2 DEF ToldInv, ViewsOK, EndHasTeller, Members, IInv, TypeOK
  <2>6. CASE CleanupCheck(c)
    <3>1. \A d \in Conns : pc[d] # "start_bcast"
      BY <2>6, NoneAssumption DEF CleanupCheck, IInv, LocksOK, HoldsSession, TypeOK
    <3>2. /\ view' = view /\ client_list' = client_list /\ timer' = timer
          /\ pc[c] = "cl_check"
          /\ \/ session_state' = "FINISHED" /\ pc' = [pc EXCEPT ![c] = "cl_bcast"]
             \/ UNCHANGED session_vars /\ pc' = [pc EXCEPT ![c] = "gone"]
      BY <2>6 DEF CleanupCheck, Finish
    <3> QED BY <3>1, <3>2 DEF ToldInv, ViewsOK, EndHasTeller, Members, IInv, TypeOK
  <2>7. CASE Cleanup(c)
    <3>1. \A d \in Conns : pc[d] # "start_bcast"
      BY <2>7, NoneAssumption DEF Cleanup, IInv, LocksOK, HoldsSession
    <3>2. /\ view' = view /\ client_list' = client_list /\ timer' = timer
          /\ pc[c] = "cleanup"
          /\ pc' = [pc EXCEPT ![c] = "gone"] \/ pc' = [pc EXCEPT ![c] = "cl_check"]
          /\ client_list = << >> \/ UNCHANGED session_vars
      BY <2>7 DEF Cleanup, Finish
    <3>3. client_list = << >> => Members = {}
      BY HeadFacts DEF IInv, TypeOK, Members
    <3> QED BY <3>1, <3>2, <3>3
        DEF ToldInv, ViewsOK, EndHasTeller, Members, IInv, TypeOK
  <2>8. CASE RemoveLast(c)
    <3>1. \A d \in Conns : pc[d] # "start_bcast"
      BY <2>8, NoneAssumption DEF RemoveLast, IInv, LocksOK, HoldsSession
    <3>2. /\ view' = view /\ client_list' = client_list /\ timer' = timer
          /\ pc[c] \in {"rm_last", "failed_last"}
          /\ pc' = [pc EXCEPT ![c] = "gone"] \/ pc' = [pc EXCEPT ![c] = "cleanup"]
          /\ unsaid' \/ UNCHANGED <<session_state, unsaid>>
      BY <2>8 DEF RemoveLast, IInv, TypeOK
    <3> QED BY <3>1, <3>2 DEF ToldInv, ViewsOK, EndHasTeller, Members, IInv, TypeOK
  <2>9. CASE ResetSet(c)
    <3>1. \A d \in Conns : pc[d] # "start_bcast"
      BY <2>9, NoneAssumption DEF ResetSet, IInv, LocksOK, HoldsSession
    <3>2. /\ view' = view /\ session_state' = "LOBBY"
          /\ pc' = [pc EXCEPT ![c] = "reset_clients"]
      BY <2>9 DEF ResetSet
    <3> QED BY <3>1, <3>2 DEF ToldInv, ViewsOK, EndHasTeller, IInv, TypeOK
  <2>10. CASE client_list_remove(c)
    <3>1. /\ UNCHANGED <<session_vars, timer, view>>
          /\ client_list' = ListWithout(c)
          /\ c \in Members
          /\ pc[c] \in {"remove", "failed"}
          /\ \E to \in {"rm_last", "failed_last", "cleanup", "gone"} :
                pc' = [pc EXCEPT ![c] = to]
      BY <2>10 DEF client_list_remove, Unlink, IInv, ListOK, Listed
    <3>2. Members' = Members \ {c}
      BY <3>1, UnlinkFacts DEF IInv, Members
    <3>3. ViewsOK'
      BY <3>1 DEF ToldInv, ViewsOK, IInv, TypeOK
    <3>4. EndHasTeller'
      BY <3>1, <3>2 DEF ToldInv, EndHasTeller, IInv, TypeOK
    <3> QED BY <3>3, <3>4 DEF ToldInv
  <2>11. CASE \/ CreateThread(c) \/ ReadySet(c) \/ StartCheck(c) \/ MoveStep(c)
              \/ MoveExit(c) \/ MoveDone(c) \/ ResetOwner(c) \/ ResetClients(c)
    <3>1. /\ UNCHANGED <<session_vars, client_list, timer, view>>
          /\ pc[c] \notin {"end_bcast", "cl_bcast"}
          /\ \E to \in Positions \ {"none", "start_bcast"} :
                pc' = [pc EXCEPT ![c] = to]
      BY <2>11 DEF CreateThread, ReadySet, StartCheck, MoveStep, MoveExit,
         MoveDone, ResetOwner, ResetClients, reset_client_for_lobby,
         Positions, Listed, Leaving
    <3>2. ViewsOK'
      BY <3>1 DEF ToldInv, ViewsOK, IInv, TypeOK
    <3>3. EndHasTeller'
      BY <3>1 DEF ToldInv, EndHasTeller, IInv, TypeOK, Members
    <3> QED BY <3>2, <3>3 DEF ToldInv
  <2> QED BY <1>5, <2>1, <2>2, <2>3, <2>4, <2>5, <2>6, <2>7, <2>8, <2>9, <2>10,
             <2>11 DEF Serve
<1>6. ASSUME NEW t \in Timers, TimerTick(t) PROVE ToldInv'
  <2>1. \A d \in Conns : pc[d] # "start_bcast"
    BY <1>6, NoneAssumption DEF TimerTick, IInv, LocksOK, HoldsSession
  <2>2. /\ UNCHANGED <<view, client_list, pc, unsaid>>
        /\ timer[t] = "sleep"
        /\ \/ session_state' = "FINISHED" /\ timer' = [timer EXCEPT ![t] = "bcast"]
           \/ UNCHANGED session_state /\ timer' = [timer EXCEPT ![t] = "off"]
    BY <1>6 DEF TimerTick, Finish
  <2>3. ViewsOK'
    BY <2>1, <2>2 DEF ToldInv, ViewsOK
  <2>4. EndHasTeller'
    BY <2>2 DEF ToldInv, EndHasTeller, Members, IInv, TypeOK
  <2> QED BY <2>3, <2>4 DEF ToldInv
<1>7. ASSUME NEW t \in Timers, TimerBcast(t) PROVE ToldInv'
  <2>1. /\ \A d \in Conns : view'[d] = IF d \in Members THEN "FINISHED" ELSE view[d]
        /\ UNCHANGED <<session_vars, client_list, pc>>
    BY <1>7 DEF TimerBcast, client_list_broadcast
  <2> QED BY <1>1, <2>1 DEF ToldInv, ViewsOK, EndHasTeller, Members
<1>8. ASSUME Clock PROVE ToldInv'
  BY <1>8 DEF Clock, ToldInv, ViewsOK, EndHasTeller, Members
<1> QED BY <1>2, <1>3, <1>5, <1>6, <1>7, <1>8 DEF Next

(* As long as a connected client believes in a match that is over, a       *)
(* thread is about to tell it, unless nobody announces that end.           *)
THEOREM EndsAreOwed == Spec => []EndHasTeller
<1>1. Init => ToldInv
  BY HeadFacts, EmptySeq DEF Init, ToldInv, ViewsOK, EndHasTeller
<1>2. IInv /\ ToldInv /\ [Next]_vars => ToldInv'
  <2>1. UNCHANGED vars /\ ToldInv => ToldInv'
    BY DEF vars, session_vars, client_vars, ToldInv, ViewsOK, EndHasTeller, Members
  <2> QED BY <2>1, StepTold
<1> QED BY Invariance, <1>1, <1>2, PTL DEF Spec, ToldInv

-----------------------------------------------------------------------------
(* What a step does to the phase, and who can have taken it. *)
LEMMA PhaseChange ==
    ASSUME IInv, Next, session_state' # session_state
    PROVE  \/ /\ session_state = "LOBBY" /\ session_state' = "PLAYING"
              /\ \E c \in Conns : is_owner[c]
           \/ /\ session_state = "PLAYING" /\ session_state' = "FINISHED"
              /\ EndStep
           \/ /\ session_state = "FINISHED" /\ session_state' = "LOBBY"
              /\ \E c \in Conns : is_owner[c]
<1> DEFINE Goal ==
        \/ /\ session_state = "LOBBY" /\ session_state' = "PLAYING"
           /\ \E c \in Conns : is_owner[c]
        \/ /\ session_state = "PLAYING" /\ session_state' = "FINISHED"
           /\ EndStep
        \/ /\ session_state = "FINISHED" /\ session_state' = "LOBBY"
           /\ \E c \in Conns : is_owner[c]
<1> USE DEF session_vars, client_vars, lock_vars, Goto, At, Step, Command
<1>1. ASSUME NEW c \in Conns, client_list_add(c) PROVE FALSE
  BY <1>1 DEF client_list_add
<1>2. ASSUME NEW c \in Conns, Issue(c) PROVE FALSE
  BY <1>2 DEF Issue, handle_login, ReadyRead, StartTake, block_if_not_playing,
              ResetRead, Quit
<1>3. ASSUME NEW c \in Conns, Serve(c) PROVE Goal
  <2>1. CASE StartSpawn(c)
    BY <2>1 DEF StartSpawn, IInv, HoldersOK
  <2>2. CASE ResetSet(c)
    BY <2>2 DEF ResetSet, IInv, StaleReset, TypeOK, Phases
  <2>3. CASE MoveFin(c)
    BY <2>3 DEF MoveFin, Finish, IInv, LocksOK, EndStep
  <2>4. CASE RemoveLast(c)
    BY <2>4 DEF RemoveLast, EndStep
  <2>5. CASE Cleanup(c)
    BY <2>5 DEF Cleanup, Finish, EndStep
  <2>6. CASE CleanupCheck(c)
    BY <2>6 DEF CleanupCheck, Finish, IInv, HoldersOK, EndStep
  <2>7. ASSUME \/ CreateThread(c) \/ ReadySet(c) \/ StartCheck(c)
               \/ StartBcast(c) \/ MoveStep(c) \/ MoveExit(c) \/ MoveDone(c)
               \/ MoveBcast(c) \/ ResetOwner(c) \/ ResetClients(c)
               \/ ResetBcast(c) \/ client_list_remove(c) \/ CleanupBcast(c)
        PROVE  FALSE
    BY <2>7 DEF CreateThread, ReadySet, StartCheck, StartBcast, MoveStep,
       MoveExit, MoveDone, MoveBcast, ResetOwner, ResetClients, ResetBcast,
       client_list_remove, Unlink, CleanupBcast
  <2> QED BY <1>3, <2>1, <2>2, <2>3, <2>4, <2>5, <2>6, <2>7 DEF Serve
<1>4. ASSUME NEW t \in Timers, TimerTick(t) \/ TimerBcast(t) PROVE Goal
  BY <1>4 DEF TimerTick, TimerBcast, Finish, EndStep
<1>5. ASSUME Clock PROVE FALSE
  BY <1>5 DEF Clock
<1> QED BY <1>1, <1>2, <1>3, <1>4, <1>5 DEF Next

(* The session goes round LOBBY, PLAYING, FINISHED, whatever the delays.   *)
THEOREM PhasesInOrder == Spec => PhaseOrder
<1>1. IInv /\ [Next]_vars => [PhaseStep]_vars
  BY PhaseChange DEF PhaseStep
<1> QED BY Invariance, <1>1, PTL DEF Spec, PhaseOrder

(* A match ends when it may, or by a thread that once removed the last     *)
(* client.                                                                 *)
THEOREM EndsHaveCauses == Spec => EndCause
<1>1. IInv /\ [Next]_vars => [EndStep]_vars
  <2>1. ASSUME IInv, Next PROVE EndStep
    <3>1. CASE session_state' = session_state
      BY <3>1 DEF EndStep
    <3>2. CASE session_state' # session_state
      BY <2>1, <3>2, PhaseChange DEF EndStep
    <3> QED BY <3>1, <3>2
  <2> QED BY <2>1
<1> QED BY Invariance, <1>1, PTL DEF Spec, EndCause

-----------------------------------------------------------------------------
(* The refinement mapping for ownership: who the owner is, and that there  *)
(* is none exactly when nobody is connected.                               *)
OwnerMap ==
    /\ Members \subseteq Conns
    /\ client_list = << >> <=> Members = {}
    /\ Members = {} => owner = None
    /\ Members # {} => owner \in Members /\ is_owner[owner]
    /\ \A c \in Conns : is_owner[c] => owner = c

LEMMA OwnerIs == IInv => OwnerMap
<1> SUFFICES ASSUME TypeOK, ListOK, OneOwner PROVE OwnerMap
  BY DEF IInv
<1>1. client_list = << >> <=> Members = {}
  BY HeadFacts DEF TypeOK, Members
<1>2. Members \subseteq Conns
  <2>1. \A k \in 1..Len(client_list) : client_list[k] \in Conns
    BY ElementOfSeq DEF TypeOK
  <2> QED BY <2>1, LenProperties DEF TypeOK, Members, ToSet
<1>3. Members = {} => owner = None
  BY <1>1 DEF owner
<1>4. Members # {} => owner \in Members /\ is_owner[owner]
  BY <1>1 DEF owner, OneOwner
<1>5. \A c \in Conns : is_owner[c] => owner = c
  BY <1>4 DEF ListOK, OneOwner
<1> QED BY <1>1, <1>2, <1>3, <1>4, <1>5 DEF OwnerMap

(* The steps that keep the list and who owns it. *)
LEMMA MembersKept ==
    ASSUME Next,
           \A c \in Conns : ~client_list_add(c) /\ ~client_list_remove(c)
    PROVE  Members' = Members /\ owner' = owner
<1>1. UNCHANGED <<client_list, is_owner>>
  <2> USE DEF client_vars, session_vars, reset_client_for_lobby
  <2>1. ASSUME NEW c \in Conns, Issue(c) PROVE UNCHANGED <<client_list, is_owner>>
    BY <2>1 DEF Issue, handle_login, ReadyRead, StartTake,
       block_if_not_playing, ResetRead, Quit
  <2>2. ASSUME NEW c \in Conns, Serve(c) PROVE UNCHANGED <<client_list, is_owner>>
    BY <2>2 DEF Serve, CreateThread, ReadySet, StartCheck, StartSpawn,
       StartBcast, MoveStep, MoveExit, MoveDone, MoveFin, MoveBcast,
       ResetOwner, ResetSet, ResetClients, ResetBcast, RemoveLast, Cleanup,
       CleanupCheck, CleanupBcast
  <2>3. ASSUME NEW t \in Timers, TimerTick(t) \/ TimerBcast(t)
        PROVE  UNCHANGED <<client_list, is_owner>>
    BY <2>3 DEF TimerTick, TimerBcast
  <2>4. ASSUME Clock PROVE UNCHANGED <<client_list, is_owner>>
    BY <2>4 DEF Clock
  <2> QED BY <2>1, <2>2, <2>3, <2>4 DEF Next
<1> QED BY <1>1 DEF Members, owner

(* The server implements the abstract session. *)
THEOREM Refinement == Spec => Implements
<1>1. Init => Abs!Init
  <2> SUFFICES ASSUME Init PROVE Abs!Init
    OBVIOUS
  <2>1. Members = {}
    BY HeadFacts, EmptySeq DEF Init, Members
  <2> QED BY <2>1 DEF Init, Abs!Init, owner
<1>2. IInv' => OwnerMap'
  BY OwnerIs, PTL
<1>3. ASSUME IInv, IInv', OwnerMap, OwnerMap', Next
      PROVE  [Abs!Next]_(Abs!vars)
  <2>1. ASSUME NEW c \in Conns, client_list_add(c) PROVE Abs!Join(c)
    <3>1. Members' = Members \cup {c} /\ c \notin Members
      BY <1>3, <2>1, AddFacts DEF IInv
    <3>2. session_state' = session_state
      BY <2>1 DEF client_list_add, session_vars
    <3>3. \A d \in Conns : is_owner'[d] = IF d = c THEN Members = {}
                                                   ELSE is_owner[d]
      BY <1>3, <2>1 DEF client_list_add, IInv, TypeOK, OwnerMap
    <3>4. owner' = IF Members = {} THEN c ELSE owner
      <4>1. CASE Members = {}
        BY <1>3, <4>1, <3>3 DEF OwnerMap
      <4>2. CASE Members # {}
        BY <1>3, <4>2, <3>1, <3>3 DEF OwnerMap
      <4> QED BY <4>1, <4>2
    <3> QED BY <3>1, <3>2, <3>4 DEF Abs!Join
  <2>2. ASSUME NEW c \in Conns, client_list_remove(c) PROVE Abs!Leave(c)
    <3> DEFINE rest == ListWithout(c)
               own == OwnersAfter(c, rest)
    <3>1. /\ client_list' = rest /\ is_owner' = own
          /\ c \in Members
          /\ session_state' = session_state
      BY <1>3, <2>2 DEF client_list_remove, Unlink, IInv, TypeOK, ListOK, At,
         Listed, session_vars
    <3>2. /\ ToSet(rest) = Members \ {c}
          /\ \A d \in Members \ {c} : is_owner[d] => own[d]
      BY <1>3, <3>1, UnlinkFacts DEF IInv
    <3> HIDE DEF rest, own
    <3>3. Members' = Members \ {c}
      BY <3>1, <3>2 DEF Members
    <3>4. c # owner => owner' = owner
      BY <1>3, <3>1, <3>2 DEF OwnerMap
    <3>5. Members' = {} => owner' = None
      BY <1>3 DEF OwnerMap
    <3>6. Members' # {} => owner' \in Members'
      BY <1>3 DEF OwnerMap
    <3> QED BY <3>1, <3>3, <3>4, <3>5, <3>6 DEF Abs!Leave
  <2>3. ASSUME \A c \in Conns : ~client_list_add(c) /\ ~client_list_remove(c)
        PROVE  Abs!Start \/ Abs!End \/ Abs!Reset \/ UNCHANGED Abs!vars
    <3>1. Members' = Members /\ owner' = owner
      BY <1>3, <2>3, MembersKept
    <3>2. (\E c \in Conns : is_owner[c]) => owner # None
      BY <1>3, NoneAssumption DEF OwnerMap
    <3>3. CASE session_state' = session_state
      BY <3>1, <3>3 DEF Abs!vars
    <3>4. CASE session_state' # session_state
      BY <1>3, <3>1, <3>2, <3>4, PhaseChange DEF Abs!Start, Abs!End, Abs!Reset
    <3> QED BY <3>3, <3>4
  <2> QED BY <1>3, <2>1, <2>2, <2>3 DEF Abs!Next
<1>4. UNCHANGED vars => UNCHANGED Abs!vars
  BY DEF vars, session_vars, client_vars, Abs!vars, Members, owner
<1>5. IInv /\ IInv' /\ [Next]_vars => [Abs!Next]_(Abs!vars)
  BY <1>2, <1>3, <1>4, OwnerIs
<1> QED BY Invariance, <1>1, <1>5, PTL DEF Spec, Implements, Abs!Spec
=============================================================================
