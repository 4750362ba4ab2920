------------------------------- MODULE Scores -------------------------------
(***************************************************************************)
(* The scores of server/server.c: the fields of a client that RANK shows,  *)
(* the table known_scores that keeps the results of clients that left, and *)
(* the commands of the handler threads that read and write them.           *)
(*                                                                         *)
(* RANK copies known_scores under score_mutex, then the clients one by one *)
(* under client_mutex, which a MOVE does not ask for, and sorts and prints *)
(* its own copy with no lock; RESET writes the state, the table and the    *)
(* clients in three sections; a client that leaves is unlinked in one      *)
(* section and remembered in another; a nickname is found free in one      *)
(* section and written after it.                                           *)
(*                                                                         *)
(* Abstracted, and modelled by Session: the readiness check and the spawn  *)
(* of START are one action, so are the checks of READY and RESET and their *)
(* writes; the owner is one variable (Session implements SessionAbs, which *)
(* has one).  LeaveEnd merges two sections that can both end a match, the  *)
(* tail of client_list_remove and that of handle_client, which Session has *)
(* apart: no property here speaks of who ends a match.  A connection       *)
(* stands for its descriptor, is accepted again after its client left, and *)
(* is also the guest name of that descriptor.                              *)
(***************************************************************************)
EXTENDS Integers, Sequences, SequencesExt

CONSTANTS
    Conns,          \* descriptors
    Nicks,          \* nicknames that LOGIN can give
    Anonymous,      \* the name of an entry copied before a nickname is set
    None,           \* no owner
    Capacity,       \* MAX_USERS_DISPLAY
    ObjectPoints,   \* what an object is worth in seconds (100)
    MaxObjects,     \* bound: objects in a maze
    MaxAccepts,     \* bound: clients accepted in a run
    MaxTime         \* bound: the clock

ASSUME NamesAssumption ==
    Anonymous \notin Conns \cup Nicks /\ Conns \cap Nicks = {} /\ None \notin Conns
ASSUME NumbersAssumption ==
    /\ Capacity \in Nat \ {0} /\ MaxTime \in Nat \ {0}
    /\ ObjectPoints \in Nat /\ MaxObjects \in Nat /\ MaxAccepts \in Nat

VARIABLES
    session_state, session_start_time,
    now,            \* time(NULL); 0 is the value of a time never written
    accepts,        \* clients accepted so far (for the bound only)
    client_list, owner,
    nickname, ready, objects_collected, exit_reached, exit_time,
    known_scores,
    pc,             \* where the thread of each connection is
    entries,        \* its array of score_entry_t: final_score or RANK's copy
    copied,         \* the clients' scores as its RANK found them, in turn
    sorted_at       \* the session_start_time that its qsort has read, or 0

session_vars == <<session_state, session_start_time>>
env_vars == <<now, accepts>>
list_vars == <<client_list, owner, nickname>>
score_vars == <<objects_collected, exit_reached, exit_time>>
rank_vars == <<entries, copied, sorted_at>>
client_vars == <<list_vars, ready, score_vars>>
vars == <<session_vars, env_vars, client_vars, known_scores, pc, rank_vars>>

Names == Conns \cup Nicks \cup {Anonymous}
Times == 0..MaxTime
ScoreEntry == [nickname : Names, objects_collected : 0..MaxObjects,
               exit_reached : 0..1, exit_time : Times]

Places == {"none", "created", "idle", "start_time",
           "move", "move_time", "move_done",
           "reset_scores", "reset_clients",
           "remember", "leave_end",
           "rank_list", "rank_next", "rank_sort", "rank_print"}

(* At position n, a nickname, a thread is about to write n. *)
Positions == Places \cup Nicks

ASSUME PlacesAssumption == Nicks \cap Places = {}

TypeOK ==
    /\ session_state \in {"LOBBY", "PLAYING", "FINISHED"}
    /\ session_start_time \in Times /\ now \in Times /\ accepts \in 0..MaxAccepts
    /\ client_list \in Seq(Conns) /\ owner \in Conns \cup {None}
    /\ nickname \in [Conns -> Names]
    /\ ready \in [Conns -> BOOLEAN]
    /\ objects_collected \in [Conns -> 0..MaxObjects]
    /\ exit_reached \in [Conns -> 0..1]
    /\ exit_time \in [Conns -> Times]
    /\ known_scores \in Seq(ScoreEntry)
    /\ pc \in [Conns -> Positions]
    /\ entries \in [Conns -> Seq(ScoreEntry)]
    /\ copied \in [Conns -> Seq(ScoreEntry)]
    /\ sorted_at \in [Conns -> Times]

-----------------------------------------------------------------------------
(* The score of an entry, its order in the ranking, and the table.         *)

elapsed(e, start) == IF e.exit_time < start THEN 0 ELSE e.exit_time - start

score_at(e, start) ==
    IF e.exit_reached = 1 /\ start > 0
    THEN e.objects_collected * ObjectPoints - elapsed(e, start) ELSE 0

(* Mutant of score_compare: time before the start is not cut off. *)
CompareUncut(a, b, start) ==
    IF a.exit_reached = 0 /\ b.exit_reached = 0
    THEN b.objects_collected - a.objects_collected
    ELSE IF a.exit_reached # b.exit_reached
    THEN b.exit_reached - a.exit_reached
    ELSE (b.objects_collected * ObjectPoints - b.exit_time)
         - (a.objects_collected * ObjectPoints - a.exit_time)

(* Negative when a comes first, as qsort expects. *)
score_compare(a, b, start) ==
    IF a.exit_reached = 0 /\ b.exit_reached = 0
    THEN b.objects_collected - a.objects_collected
    ELSE IF a.exit_reached # b.exit_reached
    THEN b.exit_reached - a.exit_reached
    ELSE score_at(b, start) - score_at(a, start)

(* What qsort may leave of es: any order of it that the comparator accepts. *)
Sorted(es, start) ==
    {s \in {[i \in DOMAIN es |-> es[p[i]]] : p \in Bijection(DOMAIN es, DOMAIN es)} :
        \A i \in DOMAIN s : i + 1 \in DOMAIN s =>
            score_compare(s[i], s[i + 1], start) <= 0}

(* Mutants of merge_score_entry: an entry is always appended; the first    *)
(* entry of a nickname is kept.                                            *)
MergeAppends(es, e) == IF Len(es) < Capacity THEN Append(es, e) ELSE es
MergeKeepsFirst(es, e) ==
    IF \E i \in DOMAIN es : es[i].nickname = e.nickname \/ Len(es) >= Capacity
    THEN es ELSE Append(es, e)

(* An entry with the same nickname is replaced, another appended while     *)
(* there is room.  remember_score has the same body.                       *)
merge_score_entry(es, e) ==
    IF \E i \in DOMAIN es : es[i].nickname = e.nickname
    THEN [i \in DOMAIN es |-> IF es[i].nickname = e.nickname THEN e ELSE es[i]]
    ELSE IF Len(es) < Capacity THEN Append(es, e) ELSE es

(* An array filled by merging the entries of a list in turn. *)
Merged(list) ==
    LET done[n \in 0..Len(list)] ==
            IF n = 0 THEN << >> ELSE merge_score_entry(done[n - 1], list[n])
    IN  done[Len(list)]

copy_client_score(c) ==
    [nickname |-> nickname[c], objects_collected |-> objects_collected[c],
     exit_reached |-> exit_reached[c], exit_time |-> exit_time[c]]

(* A line of the response to RANK. *)
RankLine(e) ==
    [nickname |-> e.nickname, objects |-> e.objects_collected,
     exited |-> e.exit_reached,
     elapsed |-> IF e.exit_reached = 1 /\ session_start_time > 0
                 THEN elapsed(e, session_start_time) ELSE 0,
     score |-> IF score_at(e, session_start_time) < 0
               THEN 0 ELSE score_at(e, session_start_time)]

-----------------------------------------------------------------------------
Members == ToSet(client_list)

At(c, from) == pc[c] = from
Goto(c, to) == pc' = [pc EXCEPT ![c] = to]
Step(c, from, to) == At(c, from) /\ Goto(c, to)

(* START keeps session_mutex until it has written the start time. *)
SessionFree == \A c \in Conns : ~At(c, "start_time")

(* RANK keeps client_mutex while it goes through the list. *)
ListFree == \A c \in Conns : ~At(c, "rank_next")

all_players_done ==
    client_list # << >> /\ \A c \in Members : exit_reached[c] = 1

all_non_owners_ready ==
    /\ Members \ {owner} # {}
    /\ \A c \in Members \ {owner} : nickname[c] \in Nicks /\ ready[c]

Finish == session_state' = "FINISHED" /\ UNCHANGED session_start_time

reset_client_for_lobby ==
    /\ ready' = [c \in Conns |-> ready[c] /\ c \notin Members]
    /\ objects_collected' =
         [c \in Conns |-> IF c \in Members THEN 0 ELSE objects_collected[c]]
    /\ exit_reached' = [c \in Conns |-> IF c \in Members THEN 0 ELSE exit_reached[c]]
    /\ exit_time' = [c \in Conns |-> IF c \in Members THEN 0 ELSE exit_time[c]]

Init ==
    /\ session_state = "LOBBY" /\ session_start_time = 0 /\ now = 1 /\ accepts = 0
    /\ client_list = << >> /\ owner = None
    /\ nickname = [c \in Conns |-> Anonymous]
    /\ ready = [c \in Conns |-> FALSE]
    /\ objects_collected = [c \in Conns |-> 0]
    /\ exit_reached = [c \in Conns |-> 0]
    /\ exit_time = [c \in Conns |-> 0]
    /\ known_scores = << >>
    /\ pc = [c \in Conns |-> "none"]
    /\ entries = [c \in Conns |-> << >>]
    /\ copied = [c \in Conns |-> << >>]
    /\ sorted_at = [c \in Conns |-> 0]

Tick ==
    /\ now < MaxTime
    /\ now' = now + 1
    /\ UNCHANGED <<accepts, session_vars, client_vars, known_scores, pc, rank_vars>>

(* main: calloc clears the fields (they are clear in a free client_t too,  *)
(* see client_list_remove), client_list_add chooses the owner.             *)
client_list_add(c) ==
    /\ ListFree
    /\ accepts < MaxAccepts
    /\ accepts' = accepts + 1
    /\ Step(c, "none", "created")
    /\ client_list' = <<c>> \o client_list
    /\ owner' = IF client_list = << >> THEN c ELSE owner
    /\ UNCHANGED <<session_vars, now, nickname, ready, score_vars,
                   known_scores, rank_vars>>

(* handle_client begins: the client is guest<fd>. *)
Greet(c) ==
    /\ Step(c, "created", "idle")
    /\ nickname' = [nickname EXCEPT ![c] = c]
    /\ UNCHANGED <<session_vars, env_vars, client_list, owner, ready, score_vars,
                   known_scores, rank_vars>>

(* LOGIN, and REGISTER: the nickname is found free under client_mutex,     *)
(* then it is written with no mutex.                                       *)
handle_login(c, n) ==
    /\ Step(c, "idle", n)
    /\ ListFree
    /\ \A d \in Members \ {c} : nickname[d] # n
    /\ UNCHANGED <<session_vars, env_vars, client_vars, known_scores, rank_vars>>

SetNickname(c, n) ==
    /\ Step(c, n, "idle")
    /\ nickname' = [nickname EXCEPT ![c] = n]
    /\ UNCHANGED <<session_vars, env_vars, client_list, owner, ready, score_vars,
                   known_scores, rank_vars>>

handle_ready(c) ==
    /\ At(c, "idle")
    /\ SessionFree
    /\ session_state = "LOBBY"
    /\ ready' = [ready EXCEPT ![c] = TRUE]
    /\ UNCHANGED <<session_vars, env_vars, list_vars, score_vars, known_scores, pc,
                   rank_vars>>

(* START: the clients are reset in the spawn section, then the state and   *)
(* the start time are written, which RANK reads without session_mutex.     *)
Start(c) ==
    /\ Step(c, "idle", "start_time")
    /\ SessionFree
    /\ ListFree
    /\ session_state = "LOBBY"
    /\ c = owner
    /\ all_non_owners_ready
    /\ reset_client_for_lobby
    /\ UNCHANGED <<session_vars, env_vars, list_vars, known_scores, rank_vars>>

StartTime(c) ==
    /\ Step(c, "start_time", "idle")
    /\ session_state' = "PLAYING"
    /\ session_start_time' = now
    /\ UNCHANGED <<env_vars, client_vars, known_scores, rank_vars>>

-----------------------------------------------------------------------------
(* MOVE: the state is read under session_mutex; the score fields are then  *)
(* written without a lock, exit_reached before exit_time.                  *)

block_if_not_playing(c) ==
    /\ Step(c, "idle", "move")
    /\ SessionFree
    /\ session_state = "PLAYING"
    /\ UNCHANGED <<session_vars, env_vars, client_vars, known_scores, rank_vars>>

MoveStep(c) ==
    /\ At(c, "move")
    /\ \/ /\ Goto(c, "idle")
          /\ UNCHANGED <<objects_collected, exit_reached>>
       \/ /\ exit_reached[c] = 0 /\ objects_collected[c] < MaxObjects
          /\ Goto(c, "idle")
          /\ objects_collected' = [objects_collected EXCEPT ![c] = @ + 1]
          /\ UNCHANGED exit_reached
       \/ /\ exit_reached[c] = 0
          /\ Goto(c, "move_time")
          /\ exit_reached' = [exit_reached EXCEPT ![c] = 1]
          /\ UNCHANGED objects_collected
    /\ UNCHANGED <<session_vars, env_vars, list_vars, ready, exit_time,
                   known_scores, rank_vars>>

MoveTime(c) ==
    /\ Step(c, "move_time", "move_done")
    /\ exit_time' = [exit_time EXCEPT ![c] = now]
    /\ UNCHANGED <<session_vars, env_vars, list_vars, ready, objects_collected,
                   exit_reached, known_scores, rank_vars>>

MoveDone(c) ==
    /\ Step(c, "move_done", "idle")
    /\ SessionFree
    /\ ListFree
    /\ IF all_players_done /\ session_state = "PLAYING"
       THEN Finish ELSE UNCHANGED session_vars
    /\ UNCHANGED <<env_vars, client_vars, known_scores, rank_vars>>

session_timer ==
    /\ SessionFree
    /\ session_state = "PLAYING"
    /\ Finish
    /\ UNCHANGED <<env_vars, client_vars, known_scores, pc, rank_vars>>

-----------------------------------------------------------------------------
(* RESET: reset_session_to_lobby. *)

handle_reset(c) ==
    /\ Step(c, "idle", "reset_scores")
    /\ SessionFree
    /\ c = owner
    /\ session_state = "FINISHED"
    /\ session_state' = "LOBBY"
    /\ UNCHANGED <<session_start_time, env_vars, client_vars, known_scores, rank_vars>>

clear_known_scores(c) ==
    /\ Step(c, "reset_scores", "reset_clients")
    /\ known_scores' = << >>
    /\ UNCHANGED <<session_vars, env_vars, client_vars, rank_vars>>

ResetClients(c) ==
    /\ Step(c, "reset_clients", "idle")
    /\ ListFree
    /\ reset_client_for_lobby
    /\ UNCHANGED <<session_vars, env_vars, list_vars, known_scores, rank_vars>>

-----------------------------------------------------------------------------
(* A client leaves: client_list_remove and the end of handle_client. *)

client_list_remove(c) ==
    /\ Step(c, "idle", "remember")
    /\ ListFree
    /\ entries' = [entries EXCEPT ![c] = <<copy_client_score(c)>>]
    /\ \E i \in DOMAIN client_list :
        client_list[i] = c /\ client_list' = RemoveAt(client_list, i)
    /\ owner' = IF owner # c THEN owner
                ELSE IF client_list' = << >> THEN None ELSE Head(client_list')
    /\ nickname' = [nickname EXCEPT ![c] = Anonymous]
    /\ ready' = [ready EXCEPT ![c] = FALSE]
    /\ objects_collected' = [objects_collected EXCEPT ![c] = 0]
    /\ exit_reached' = [exit_reached EXCEPT ![c] = 0]
    /\ exit_time' = [exit_time EXCEPT ![c] = 0]
    /\ UNCHANGED <<session_vars, env_vars, known_scores, copied, sorted_at>>

remember_score(c) ==
    /\ Step(c, "remember", "leave_end")
    /\ known_scores' = merge_score_entry(known_scores, entries[c][1])
    /\ entries' = [entries EXCEPT ![c] = << >>]
    /\ UNCHANGED <<session_vars, env_vars, client_vars, copied, sorted_at>>

LeaveEnd(c) ==
    /\ Step(c, "leave_end", "none")
    /\ SessionFree
    /\ ListFree
    /\ IF session_state = "PLAYING" /\ (client_list = << >> \/ all_players_done)
       THEN Finish ELSE UNCHANGED session_vars
    /\ UNCHANGED <<env_vars, client_vars, known_scores, rank_vars>>

-----------------------------------------------------------------------------
(* RANK *)

RankKnown(c) ==
    /\ Step(c, "idle", "rank_list")
    /\ entries' = [entries EXCEPT ![c] = Merged(known_scores)]
    /\ UNCHANGED <<session_vars, env_vars, client_vars, known_scores, copied, sorted_at>>

(* The next client of the list, which has at least the caller. *)
RankClient(c) ==
    LET e == copy_client_score(client_list[Len(copied[c]) + 1])
    IN  /\ entries' = [entries EXCEPT ![c] = merge_score_entry(@, e)]
        /\ copied' = [copied EXCEPT ![c] = Append(@, e)]
        /\ Goto(c, IF Len(copied[c]) + 1 = Len(client_list) THEN "rank_sort"
                                                           ELSE "rank_next")
        /\ UNCHANGED <<session_vars, env_vars, client_vars, known_scores, sorted_at>>

RankList(c) == At(c, "rank_list") /\ ListFree /\ RankClient(c)

RankNext(c) == At(c, "rank_next") /\ RankClient(c)

RankSort(c) ==
    /\ Step(c, "rank_sort", "rank_print")
    /\ \E s \in Sorted(entries[c], session_start_time) :
         entries' = [entries EXCEPT ![c] = s]
    /\ sorted_at' = [sorted_at EXCEPT ![c] = session_start_time]
    /\ UNCHANGED <<session_vars, env_vars, client_vars, known_scores, copied>>

RankPrint(c) ==
    /\ Step(c, "rank_print", "idle")
    /\ entries' = [entries EXCEPT ![c] = << >>]
    /\ copied' = [copied EXCEPT ![c] = << >>]
    /\ sorted_at' = [sorted_at EXCEPT ![c] = 0]
    /\ UNCHANGED <<session_vars, env_vars, client_vars, known_scores>>

-----------------------------------------------------------------------------
Handler(c) ==
    \/ Greet(c) \/ handle_ready(c)
    \/ \E n \in Nicks : handle_login(c, n) \/ SetNickname(c, n)
    \/ Start(c) \/ StartTime(c)
    \/ block_if_not_playing(c) \/ MoveStep(c) \/ MoveTime(c) \/ MoveDone(c)
    \/ handle_reset(c) \/ clear_known_scores(c) \/ ResetClients(c)
    \/ client_list_remove(c) \/ remember_score(c) \/ LeaveEnd(c)
    \/ RankKnown(c) \/ RankList(c) \/ RankNext(c) \/ RankSort(c) \/ RankPrint(c)

Next == Tick \/ session_timer \/ \E c \in Conns : client_list_add(c) \/ Handler(c)

Spec == Init /\ [][Next]_vars

-----------------------------------------------------------------------------
(* Properties. *)

OneEach(es) ==
    /\ Len(es) <= Capacity
    /\ \A i, j \in DOMAIN es : es[i].nickname = es[j].nickname => i = j

(* The table of remembered scores has at most one entry for a nickname and *)
(* never overflows, in whatever order clients leave, take the nicknames of *)
(* others again and leave once more (remember_score).                      *)
TableOnce == OneEach(known_scores)

(* So does every response to RANK, which merges the table with the clients *)
(* that are connected some time later (merge_score_entry).                 *)
RankOnce == \A c \in Conns : OneEach(entries[c])

(* With the types of the entries, which departures and RANK copy.          *)
RankInv == TypeOK /\ RankOnce

Ordered(a, b) ==
    \/ a.exited > b.exited
    \/ a.exited = 1 /\ b.exited = 1 /\ a.score >= b.score
    \/ a.exited = 0 /\ b.exited = 0 /\ a.objects >= b.objects

(* A printed ranking is in the documented order (protocol.md:341-343):     *)
(* those who reached the exit first, by the score on their line, then the  *)
(* others by objects, although the comparator and the line compute the     *)
(* score apart, and the table may hold exit times of before this match     *)
(* (a client that left while RESET ran).  That is so unless START writes a *)
(* new start time after qsort has read the old one.                        *)
RankOrder ==
    \A c \in Conns : At(c, "rank_print") /\ sorted_at[c] = session_start_time =>
        \A i \in DOMAIN entries[c] : i + 1 \in DOMAIN entries[c] =>
            Ordered(RankLine(entries[c][i]), RankLine(entries[c][i + 1]))

LeftOut(e, es) ==
    Len(es) = Capacity /\ \A f \in ToSet(es) : f.nickname # e.nickname

(* RANK shows every client it came to with what it had at that moment, and *)
(* not with an older result remembered for its nickname, whatever it       *)
(* copies after it and wherever qsort puts the line.  In a full array a    *)
(* client may have no line at all; and of two clients that share a         *)
(* nickname one takes the line of the other.                               *)
RankShowsCurrent ==
    \A c \in Conns : \A e \in ToSet(copied[c]) :
        \/ e \in ToSet(entries[c])
        \/ LeftOut(e, entries[c])
        \/ \E f \in ToSet(copied[c]) : f # e /\ f.nickname = e.nickname

(***************************************************************************)
(* The inductive invariant.                                                *)
(***************************************************************************)

(* The list holds each connection whose client has not left, once. *)
ListInv ==
    /\ IsInjective(client_list)
    /\ \A c \in Conns :
            c \in Members <=> pc[c] \notin {"none", "remember", "leave_end"}

(* RANK is somewhere in the list while it keeps it locked; a client that   *)
(* leaves has its score in hand.                                           *)
CopyInv == \A c \in Conns :
    /\ copied[c] # << >> => pc[c] \in {"rank_next", "rank_sort", "rank_print"}
    /\ At(c, "rank_next") => Len(copied[c]) < Len(client_list)
    /\ At(c, "remember") => Len(entries[c]) = 1

(* What is about to be printed is in the comparator's order for the start  *)
(* time that qsort has read.                                               *)
SortInv == \A c \in Conns : At(c, "rank_print") =>
    \A i \in 1..(Len(entries[c]) - 1) :
        score_compare(entries[c][i], entries[c][i + 1], sorted_at[c]) <= 0

IInv ==
    /\ TypeOK /\ ListInv /\ CopyInv /\ SortInv
    /\ TableOnce /\ RankOnce /\ RankShowsCurrent
=============================================================================
