------------------------------ MODULE Session ------------------------------
(***************************************************************************)
(* The session of server/server.c: the client list, the LOBBY / PLAYING /  *)
(* FINISHED state shared by every thread, and the threads that change it:  *)
(* the accept loop, one handler thread per connection (handle_client and   *)
(* the command handlers it calls) and the detached session timers.         *)
(*                                                                         *)
(* A step is what a thread does between two points where another thread    *)
(* may get in: a critical section under one mutex is one action that needs *)
(* the mutex to be free; a mutex kept across another acquisition is held   *)
(* in session_lock or client_lock; an unlocked write is a step of its own. *)
(* Values read under a lock and used after it (the session state of READY, *)
(* RESET and MOVE, the readiness checked by START, the count of remaining  *)
(* clients) are remembered by the position pc of the thread.               *)
(*                                                                         *)
(* Abstracted: nicknames, positions, the maze and the objects (a move      *)
(* either reaches the exit or not), replies and user lists (sending them   *)
(* changes nothing here), the descriptor (a connection has its own).       *)
(***************************************************************************)
EXTENDS Naturals, Sequences, SequencesExt

CONSTANTS
    Conns,      \* connections accepted in one run of the server
    Timers,     \* timer threads that can exist at one time (a bound)
    Commands,   \* commands the clients send; "QUIT" is also a lost connection
    Faults,     \* thread creations that may fail
    None        \* no thread: the value of a free mutex

ASSUME NoneAssumption == None \notin Conns
ASSUME CommandsAssumption ==
    Commands \subseteq {"LOGIN", "READY", "START", "RESET", "MOVE", "QUIT"}
ASSUME FaultsAssumption == Faults \subseteq {"timer_create", "client_create"}

VARIABLES
    session_state,  \* "LOBBY", "PLAYING" or "FINISHED", under session_mutex
    timer_started,  \* the flag START tests before it creates a timer
    expired,        \* SESSION_DURATION has passed since session_start_time
    client_list,    \* the linked list, head (newest connection) first
    is_owner, ready, logged_in, exit_reached,   \* the fields of client_t
    pc,             \* where the thread of each connection is
    timer,          \* where each timer thread is
    session_lock,   \* holder of session_mutex while it takes another mutex
    client_lock,    \* holder of client_mutex while it takes another mutex
    view,           \* the last SESSION line sent to each connection
    unsaid          \* history: the session is FINISHED by a thread that
                    \* tells nobody (the last section of client_list_remove)

session_vars == <<session_state, timer_started, expired, unsaid>>
client_vars == <<client_list, is_owner, ready, logged_in, exit_reached>>
lock_vars == <<session_lock, client_lock>>
vars == <<session_vars, client_vars, lock_vars, pc, timer, view>>

Phases == {"LOBBY", "PLAYING", "FINISHED"}

(***************************************************************************)
(* Positions of a connection.  "none": not accepted; "created": in the     *)
(* list, its thread not created yet; "idle": in recv_line; start_*: inside *)
(* handle_start with session_mutex held; cl_check: in the end of           *)
(* handle_client with session_mutex held; move_fin: in handle_move with    *)
(* client_mutex held.                                                      *)
(***************************************************************************)
Listed == {"created", "failed", "idle", "ready_set",
           "start_check", "start_spawn", "start_bcast",
           "move", "move_exit", "move_done", "move_fin", "end_bcast",
           "reset_owner", "reset_set", "reset_clients", "reset_bcast",
           "remove"}
Leaving == {"rm_last", "failed_last", "cleanup", "cl_check", "cl_bcast"}
Positions == {"none", "gone"} \cup Listed \cup Leaving

HoldsSession == {"start_check", "start_spawn", "start_bcast", "cl_check"}

TypeOK ==
    /\ session_state \in Phases
    /\ timer_started \in BOOLEAN
    /\ expired \in BOOLEAN
    /\ unsaid \in BOOLEAN
    /\ client_list \in Seq(Conns)
    /\ is_owner \in [Conns -> BOOLEAN]
    /\ ready \in [Conns -> BOOLEAN]
    /\ logged_in \in [Conns -> BOOLEAN]
    /\ exit_reached \in [Conns -> BOOLEAN]
    /\ pc \in [Conns -> Positions]
    /\ timer \in [Timers -> {"off", "sleep", "bcast"}]
    /\ session_lock \in Conns \cup {None}
    /\ client_lock \in Conns \cup {None}
    /\ view \in [Conns -> Phases]

-----------------------------------------------------------------------------
(* The client list. *)

Members == ToSet(client_list)

all_players_done ==
    /\ client_list # << >>
    /\ \A c \in Members : exit_reached[c]

(* Mutant of all_non_owners_ready: readiness is not required. *)
AnyoneLoggedIn ==
    /\ \E c \in Members : ~is_owner[c]
    /\ \A c \in Members : ~is_owner[c] => logged_in[c]

all_non_owners_ready ==
    /\ \E c \in Members : ~is_owner[c]
    /\ \A c \in Members : ~is_owner[c] => logged_in[c] /\ ready[c]

(* A flag of every listed client cleared, as reset_client_for_lobby does. *)
Cleared(flag) == [c \in Conns |-> flag[c] /\ c \notin Members]

(* Mutant of reset_client_for_lobby: it keeps readiness. *)
ResetKeepsReady ==
    /\ exit_reached' = Cleared(exit_reached)
    /\ UNCHANGED ready

reset_client_for_lobby ==
    /\ ready' = Cleared(ready)
    /\ exit_reached' = Cleared(exit_reached)

client_list_broadcast(phase) ==
    view' = [c \in Conns |-> IF c \in Members THEN phase ELSE view[c]]

(* The first critical section of client_list_remove: unlink and free the   *)
(* entry of c, and make the new head the owner if c was.                   *)
ListWithout(c) ==
    RemoveAt(client_list, CHOOSE i \in DOMAIN client_list : client_list[i] = c)

(* Mutant of OwnersAfter: nobody succeeds. *)
NobodySucceeds(c, rest) == [d \in Conns |-> is_owner[d] /\ d # c]

OwnersAfter(c, rest) ==
    [d \in Conns |->
        \/ is_owner[d] /\ d # c
        \/ is_owner[c] /\ rest # << >> /\ d = Head(rest)]

-----------------------------------------------------------------------------
(* Locks.  A critical section under one mutex needs it free. *)

SessionFree == session_lock = None
ClientFree == client_lock = None

At(c, from) == pc[c] = from
Goto(c, to) == pc' = [pc EXCEPT ![c] = to]
Step(c, from, to) == At(c, from) /\ Goto(c, to)
Command(c, cmd) == At(c, "idle") /\ cmd \in Commands

-----------------------------------------------------------------------------
Init ==
    /\ session_state = "LOBBY"
    /\ timer_started = FALSE
    /\ expired = FALSE
    /\ unsaid = FALSE
    /\ client_list = << >>
    /\ is_owner = [c \in Conns |-> FALSE]
    /\ ready = [c \in Conns |-> FALSE]
    /\ logged_in = [c \in Conns |-> FALSE]
    /\ exit_reached = [c \in Conns |-> FALSE]
    /\ pc = [c \in Conns |-> "none"]
    /\ timer = [t \in Timers |-> "off"]
    /\ session_lock = None
    /\ client_lock = None
    /\ view = [c \in Conns |-> "LOBBY"]

-----------------------------------------------------------------------------
(* The accept loop of main.  It is one thread: it is done with a           *)
(* connection, or with removing it, before it accepts the next.            *)

MainFree == \A c \in Conns : pc[c] \notin {"created", "failed", "failed_last"}

client_list_add(c) ==
    /\ MainFree
    /\ ClientFree
    /\ Step(c, "none", "created")
    /\ is_owner' = [is_owner EXCEPT ![c] = (client_list = << >>)]
    /\ client_list' = <<c>> \o client_list
    /\ UNCHANGED <<session_vars, ready, logged_in, exit_reached, lock_vars,
                   timer, view>>

CreateThread(c) ==
    /\ \/ Step(c, "created", "idle")
       \/ "client_create" \in Faults /\ Step(c, "created", "failed")
    /\ UNCHANGED <<session_vars, client_vars, lock_vars, timer, view>>

-----------------------------------------------------------------------------
(* LOGIN or REGISTER that succeeds; one that fails changes nothing here. *)

handle_login(c) ==
    /\ Command(c, "LOGIN")
    /\ ClientFree
    /\ logged_in' = [logged_in EXCEPT ![c] = TRUE]
    /\ UNCHANGED <<session_vars, client_list, is_owner, ready, exit_reached,
                   lock_vars, pc, timer, view>>

(* READY: the state is read under session_mutex, the flag set after it. *)

ReadyRead(c) ==
    /\ Command(c, "READY")
    /\ SessionFree
    /\ session_state = "LOBBY"
    /\ Goto(c, "ready_set")
    /\ UNCHANGED <<session_vars, client_vars, lock_vars, timer, view>>

ReadySet(c) ==
    /\ Step(c, "ready_set", "idle")
    /\ ready' = [ready EXCEPT ![c] = TRUE]
    /\ UNCHANGED <<session_vars, client_list, is_owner, logged_in,
                   exit_reached, lock_vars, timer, view>>

-----------------------------------------------------------------------------
(* START: session_mutex is held throughout, client_mutex is taken to check *)
(* readiness, released, and taken again to assign the spawn positions.     *)

StartTake(c) ==
    /\ Command(c, "START")
    /\ SessionFree
    /\ session_state = "LOBBY"
    /\ is_owner[c]
    /\ \E t \in Timers : timer[t] = "off"       \* the bound on timer threads
    /\ session_lock' = c
    /\ Goto(c, "start_check")
    /\ UNCHANGED <<session_vars, client_vars, client_lock, timer, view>>

StartCheck(c) ==
    /\ At(c, "start_check")
    /\ ClientFree
    /\ \/ /\ all_non_owners_ready
          /\ Goto(c, "start_spawn")
          /\ UNCHANGED session_lock
       \/ /\ ~all_non_owners_ready
          /\ Goto(c, "idle")
          /\ session_lock' = None
    /\ UNCHANGED <<session_vars, client_vars, client_lock, timer, view>>

(* Mutant of StartTimer: the flag stays set when no thread was created. *)
StartTimerFlagStays ==
    \/ timer_started /\ UNCHANGED <<timer_started, timer>>
    \/ /\ ~timer_started
       /\ timer_started' = TRUE
       /\ \/ \E t \in Timers :
                timer[t] = "off" /\ timer' = [timer EXCEPT ![t] = "sleep"]
          \/ "timer_create" \in Faults /\ UNCHANGED timer

(* What START does about the timer: none if the flag says one is running. *)
StartTimer ==
    \/ /\ timer_started
       /\ UNCHANGED <<timer_started, timer>>
    \/ /\ ~timer_started
       /\ timer_started' = TRUE
       /\ \E t \in Timers :
            timer[t] = "off" /\ timer' = [timer EXCEPT ![t] = "sleep"]
    \/ /\ ~timer_started
       /\ "timer_create" \in Faults
       /\ UNCHANGED <<timer_started, timer>>

(* The spawn section, and the writes to the session that follow it: no     *)
(* thread sees those before session_mutex is released.                     *)
StartSpawn(c) ==
    /\ Step(c, "start_spawn", "start_bcast")
    /\ ClientFree
    /\ reset_client_for_lobby
    /\ session_state' = "PLAYING"
    /\ expired' = FALSE
    /\ StartTimer
    /\ UNCHANGED <<unsaid, client_list, is_owner, logged_in, lock_vars, view>>

(* Mutant of StartBcast: it returns with session_mutex locked. *)
StartBcastNoUnlock(c) ==
    /\ Step(c, "start_bcast", "idle")
    /\ ClientFree
    /\ client_list_broadcast("PLAYING")
    /\ UNCHANGED <<session_vars, client_vars, lock_vars, timer>>

StartBcast(c) ==
    /\ Step(c, "start_bcast", "idle")
    /\ ClientFree
    /\ client_list_broadcast("PLAYING")
    /\ session_lock' = None
    /\ UNCHANGED <<session_vars, client_vars, client_lock, timer>>

-----------------------------------------------------------------------------
(* MOVE *)

block_if_not_playing(c) ==
    /\ Command(c, "MOVE")
    /\ SessionFree
    /\ session_state = "PLAYING"
    /\ Goto(c, "move")
    /\ UNCHANGED <<session_vars, client_vars, lock_vars, timer, view>>

(* A spectator's view, a blocked or ordinary move, or one onto the exit. *)
MoveStep(c) ==
    /\ At(c, "move")
    /\ ClientFree
    /\ \/ Goto(c, "idle")
       \/ ~exit_reached[c] /\ Goto(c, "move_exit")
    /\ UNCHANGED <<session_vars, client_vars, lock_vars, timer, view>>

MoveExit(c) ==
    /\ Step(c, "move_exit", "move_done")
    /\ exit_reached' = [exit_reached EXCEPT ![c] = TRUE]
    /\ UNCHANGED <<session_vars, client_list, is_owner, ready, logged_in,
                   lock_vars, timer, view>>

(* Mutant of MoveDone: the first player that is out ends the session. *)
MoveDoneFirst(c) ==
    /\ At(c, "move_done")
    /\ ClientFree
    /\ Goto(c, "move_fin")
    /\ client_lock' = c
    /\ UNCHANGED <<session_vars, client_vars, session_lock, timer, view>>

MoveDone(c) ==
    /\ At(c, "move_done")
    /\ ClientFree
    /\ \/ /\ all_players_done
          /\ Goto(c, "move_fin")
          /\ client_lock' = c
       \/ /\ ~all_players_done
          /\ Goto(c, "idle")
          /\ UNCHANGED client_lock
    /\ UNCHANGED <<session_vars, client_vars, session_lock, timer, view>>

(* The end of a session: what every branch that finishes it writes. *)
Finish ==
    /\ session_state' = "FINISHED"
    /\ timer_started' = FALSE
    /\ UNCHANGED <<expired, unsaid>>

(* Mutants of MoveFin: it announces the end without ending the session; it *)
(* tells nobody; it returns with client_mutex locked.                      *)
MoveFinNoEnd(c) ==
    /\ At(c, "move_fin")
    /\ SessionFree
    /\ client_lock' = None
    /\ Goto(c, IF session_state = "PLAYING" THEN "end_bcast" ELSE "idle")
    /\ UNCHANGED <<session_vars, client_vars, session_lock, timer, view>>
MoveFinSilent(c) ==
    /\ Step(c, "move_fin", "idle")
    /\ SessionFree
    /\ client_lock' = None
    /\ IF session_state = "PLAYING" THEN Finish ELSE UNCHANGED session_vars
    /\ UNCHANGED <<client_vars, session_lock, timer, view>>
MoveFinNoUnlock(c) ==
    /\ At(c, "move_fin")
    /\ SessionFree
    /\ \/ session_state = "PLAYING" /\ Finish /\ Goto(c, "end_bcast")
       \/ session_state # "PLAYING" /\ Goto(c, "idle") /\ UNCHANGED session_vars
    /\ UNCHANGED <<client_vars, lock_vars, timer, view>>

MoveFin(c) ==
    /\ At(c, "move_fin")
    /\ SessionFree
    /\ client_lock' = None
    /\ \/ session_state = "PLAYING" /\ Finish /\ Goto(c, "end_bcast")
       \/ session_state # "PLAYING" /\ Goto(c, "idle") /\ UNCHANGED session_vars
    /\ UNCHANGED <<client_vars, session_lock, timer, view>>

MoveBcast(c) ==
    /\ Step(c, "end_bcast", "idle")
    /\ ClientFree
    /\ client_list_broadcast("FINISHED")
    /\ UNCHANGED <<session_vars, client_vars, lock_vars, timer>>

-----------------------------------------------------------------------------
(* RESET: the state is read under session_mutex, ownership tested after    *)
(* it, and reset_session_to_lobby takes the mutexes one after the other.   *)

ResetRead(c) ==
    /\ Command(c, "RESET")
    /\ SessionFree
    /\ session_state = "FINISHED"
    /\ Goto(c, "reset_owner")
    /\ UNCHANGED <<session_vars, client_vars, lock_vars, timer, view>>

ResetOwner(c) ==
    /\ At(c, "reset_owner")
    /\ Goto(c, IF is_owner[c] THEN "reset_set" ELSE "idle")
    /\ UNCHANGED <<session_vars, client_vars, lock_vars, timer, view>>

ResetSet(c) ==
    /\ Step(c, "reset_set", "reset_clients")
    /\ SessionFree
    /\ session_state' = "LOBBY"
    /\ timer_started' = FALSE
    /\ unsaid' = FALSE
    /\ UNCHANGED <<expired, client_vars, lock_vars, timer, view>>

ResetClients(c) ==
    /\ Step(c, "reset_clients", "reset_bcast")
    /\ ClientFree
    /\ reset_client_for_lobby
    /\ UNCHANGED <<session_vars, client_list, is_owner, logged_in, lock_vars,
                   timer, view>>

ResetBcast(c) ==
    /\ Step(c, "reset_bcast", "idle")
    /\ ClientFree
    /\ client_list_broadcast("LOBBY")
    /\ UNCHANGED <<session_vars, client_vars, lock_vars, timer>>

-----------------------------------------------------------------------------
(* QUIT or a lost connection, and the end of handle_client. *)

Quit(c) ==
    /\ Command(c, "QUIT")
    /\ Goto(c, "remove")
    /\ UNCHANGED <<session_vars, client_vars, lock_vars, timer, view>>

(* The first section of client_list_remove, called by the handler thread   *)
(* or by main for a connection whose thread could not be created.          *)
Unlink(c, last, others) ==
    /\ ClientFree
    /\ LET rest == ListWithout(c)
       IN  /\ client_list' = rest
           /\ is_owner' = OwnersAfter(c, rest)
           /\ Goto(c, IF rest = << >> THEN last ELSE others)
    /\ UNCHANGED <<session_vars, ready, logged_in, exit_reached, lock_vars,
                   timer, view>>

client_list_remove(c) ==
    \/ At(c, "remove") /\ Unlink(c, "rm_last", "cleanup")
    \/ At(c, "failed") /\ Unlink(c, "failed_last", "gone")

(* Mutant of RemoveLast: the session ends whatever its state. *)
RemoveLastAlways(c) ==
    /\ \/ Step(c, "rm_last", "cleanup")
       \/ Step(c, "failed_last", "gone")
    /\ SessionFree
    /\ session_state' = "FINISHED"
    /\ unsaid' = (unsaid \/ session_state = "PLAYING")
    /\ UNCHANGED <<timer_started, expired, client_vars, lock_vars, timer, view>>

(* Its last section, entered when no client remained in the first. *)
RemoveLast(c) ==
    /\ \/ Step(c, "rm_last", "cleanup")
       \/ Step(c, "failed_last", "gone")
    /\ SessionFree
    /\ session_state' = IF session_state = "PLAYING" THEN "FINISHED"
                                                     ELSE session_state
    /\ unsaid' = (unsaid \/ session_state = "PLAYING")
    /\ UNCHANGED <<timer_started, expired, client_vars, lock_vars, timer, view>>

Cleanup(c) ==
    /\ At(c, "cleanup")
    /\ SessionFree
    /\ \/ /\ session_state = "PLAYING"
          /\ client_list = << >>
          /\ Finish
          /\ Goto(c, "gone")
          /\ UNCHANGED session_lock
       \/ /\ session_state = "PLAYING"
          /\ client_list # << >>
          /\ Goto(c, "cl_check")
          /\ session_lock' = c
          /\ UNCHANGED session_vars
       \/ /\ session_state # "PLAYING"
          /\ Goto(c, "gone")
          /\ UNCHANGED <<session_vars, session_lock>>
    /\ UNCHANGED <<client_vars, client_lock, timer, view>>

(* Mutant of CleanupCheck: it tells nobody. *)
CleanupCheckSilent(c) ==
    /\ Step(c, "cl_check", "gone")
    /\ ClientFree
    /\ session_lock' = None
    /\ IF all_players_done THEN Finish ELSE UNCHANGED session_vars
    /\ UNCHANGED <<client_vars, client_lock, timer, view>>

CleanupCheck(c) ==
    /\ At(c, "cl_check")
    /\ ClientFree
    /\ session_lock' = None
    /\ \/ all_players_done /\ Finish /\ Goto(c, "cl_bcast")
       \/ ~all_players_done /\ Goto(c, "gone") /\ UNCHANGED session_vars
    /\ UNCHANGED <<client_vars, client_lock, timer, view>>

CleanupBcast(c) ==
    /\ Step(c, "cl_bcast", "gone")
    /\ ClientFree
    /\ client_list_broadcast("FINISHED")
    /\ UNCHANGED <<session_vars, client_vars, lock_vars, timer>>

-----------------------------------------------------------------------------
(* The timer thread: each second it looks at the session. *)

TimerTick(t) ==
    /\ timer[t] = "sleep"
    /\ SessionFree
    /\ \/ /\ session_state # "PLAYING"
          /\ timer_started' = FALSE
          /\ timer' = [timer EXCEPT ![t] = "off"]
          /\ UNCHANGED <<session_state, expired, unsaid>>
       \/ /\ session_state = "PLAYING"
          /\ expired
          /\ Finish
          /\ timer' = [timer EXCEPT ![t] = "bcast"]
    /\ UNCHANGED <<client_vars, lock_vars, pc, view>>

TimerBcast(t) ==
    /\ timer[t] = "bcast"
    /\ ClientFree
    /\ client_list_broadcast("FINISHED")
    /\ timer' = [timer EXCEPT ![t] = "off"]
    /\ UNCHANGED <<session_vars, client_vars, lock_vars, pc>>

(* Time passes: SESSION_DURATION seconds since the last START. *)
Clock ==
    /\ session_state = "PLAYING"
    /\ ~expired
    /\ expired' = TRUE
    /\ UNCHANGED <<session_state, timer_started, unsaid, client_vars,
                   lock_vars, pc, timer, view>>

-----------------------------------------------------------------------------
(* What a client may do, and the steps its thread then has to take. *)

Issue(c) ==
    \/ handle_login(c) \/ ReadyRead(c) \/ StartTake(c)
    \/ block_if_not_playing(c) \/ ResetRead(c) \/ Quit(c)

Serve(c) ==
    \/ CreateThread(c) \/ ReadySet(c)
    \/ StartCheck(c) \/ StartSpawn(c) \/ StartBcast(c)
    \/ MoveStep(c) \/ MoveExit(c) \/ MoveDone(c) \/ MoveFin(c) \/ MoveBcast(c)
    \/ ResetOwner(c) \/ ResetSet(c) \/ ResetClients(c) \/ ResetBcast(c)
    \/ client_list_remove(c) \/ RemoveLast(c)
    \/ Cleanup(c) \/ CleanupCheck(c) \/ CleanupBcast(c)

Next ==
    \/ \E c \in Conns : client_list_add(c) \/ Issue(c) \/ Serve(c)
    \/ \E t \in Timers : TimerTick(t) \/ TimerBcast(t)
    \/ Clock

Spec == Init /\ [][Next]_vars

(* Threads that can run do run and mutexes are not starved; nothing makes  *)
(* a client connect or send a command, and no property waits for Clock.    *)
FairSpec ==
    /\ Spec
    /\ \A c \in Conns : WF_vars(Serve(c))
    /\ \A t \in Timers : WF_vars(TimerTick(t) \/ TimerBcast(t))

-----------------------------------------------------------------------------
(***************************************************************************)
(* Safety.                                                                 *)
(***************************************************************************)

(* A session with clients has exactly one owner, the only one who can      *)
(* START or RESET it: client_list_add and client_list_remove hand it over  *)
(* whatever the order of arrivals and departures.                          *)
OneOwner ==
    /\ client_list # << >> => \E c \in Members : is_owner[c]
    /\ \A c, d \in Members : is_owner[c] /\ is_owner[d] => c = d

(* A match never lacks the timer that will end it: the timer of an earlier *)
(* match that is still asleep, the flag it clears and the test START makes *)
(* of the flag never leave PLAYING without a timer, unless the thread could *)
(* not be created, and then the flag says so (server.c:865).               *)
TimerAlive ==
    /\ session_state = "PLAYING"
    /\ "timer_create" \in Faults => timer_started
    => \E t \in Timers : timer[t] = "sleep"

(* No MOVE or RESET that began in an earlier match is still under way when *)
(* START draws the maze and places the players (start_game_session): its   *)
(* unlocked writes to a position, a score or exit_reached never meet those *)
(* of the next match.                                                      *)
SpawnAlone ==
    \A c, d \in Conns :
        pc[d] = "start_spawn" =>
            pc[c] \notin {"move", "move_exit", "move_done", "move_fin",
                         "reset_owner", "reset_set", "reset_clients"}

(* The session goes round LOBBY, PLAYING, FINISHED and never the other way *)
(* or across, although handle_reset acts on a state it read earlier and    *)
(* client_list_remove and handle_client finish a session they looked at    *)
(* before.                                                                 *)
PhaseStep ==
    /\ session_state = "LOBBY" => session_state' # "FINISHED"
    /\ session_state = "PLAYING" => session_state' # "LOBBY"
    /\ session_state = "FINISHED" => session_state' # "PLAYING"

PhaseOrder == [][PhaseStep]_vars

(* Between the end of a match and its broadcast no thread forgets its      *)
(* duty: as long as a connected client was last told PLAYING, a thread     *)
(* that announces the end is about to, unless the session was finished by  *)
(* the last section of client_list_remove (server.c:457-462), which tells  *)
(* nobody.                                                                 *)
EndHasTeller ==
    session_state = "FINISHED" /\ ~unsaid =>
        \A c \in Members : view[c] = "PLAYING" =>
            \/ \E d \in Conns : pc[d] \in {"end_bcast", "cl_bcast"}
            \/ \E t \in Timers : timer[t] = "bcast"

(* A match ends for one of the three reasons of documentation.tex:297      *)
(* (time, everybody out, everybody gone) or because of a thread that once  *)
(* removed the last client and has not yet looked at the session: by then  *)
(* others may have come and started a match, which it ends untold.         *)
EndStep ==
    session_state = "PLAYING" /\ session_state' = "FINISHED" =>
        \/ expired
        \/ all_players_done
        \/ client_list = << >>
        \/ \E c \in Conns : pc[c] \in {"rm_last", "failed_last"}

EndCause == [][EndStep]_vars

(***************************************************************************)
(* The inductive invariant.                                                *)
(***************************************************************************)

(* The list holds each connection whose thread is not past its removal,    *)
(* once, and only listed connections own the session.                      *)
ListOK ==
    /\ IsInjective(client_list)
    /\ \A c \in Conns : c \in Members <=> pc[c] \in Listed
    /\ \A c \in Conns : is_owner[c] => c \in Members

(* A mutex is held by the thread whose position says so, and the list that *)
(* handle_move found all out stays so while it waits for session_mutex.    *)
LocksOK ==
    /\ \A c \in Conns : session_lock = c <=> pc[c] \in HoldsSession
    /\ \A c \in Conns : client_lock = c <=> pc[c] = "move_fin"
    /\ \A c \in Conns : pc[c] = "move_fin" => all_players_done

(* What a thread that holds session_mutex found stays true. *)
HoldersOK ==
    \A c \in Conns :
        /\ pc[c] \in {"start_check", "start_spawn"} =>
                session_state = "LOBBY" /\ is_owner[c]
        /\ pc[c] = "cl_check" => session_state = "PLAYING"

(* The lobby forgets the timer of the last match. *)
LobbyTimer == session_state = "LOBBY" => ~timer_started

(* A RESET that read FINISHED long ago cannot hit a match: its thread is   *)
(* not ready until it is done, so nobody can START.                        *)
StaleReset ==
    \A c \in Conns :
        /\ pc[c] \in {"reset_owner", "reset_set"} =>
              /\ session_state # "PLAYING"
              /\ session_state = "LOBBY" =>
                    \/ ~ready[c]
                    \/ \E p \in Conns : pc[p] = "reset_clients"
              /\ \A d \in Conns : pc[d] # "start_spawn"
        /\ pc[c] \in {"reset_set", "reset_clients"} => is_owner[c]

(* A thread in MOVE has read PLAYING.  It may be delayed until after the   *)
(* match and then write exit_reached, but it is not ready in the lobby     *)
(* (or RESET is about to make it so), and START waits for it.              *)
MovePositions == {"move", "move_exit", "move_done", "move_fin"}

StaleMove ==
    \A c \in Conns : pc[c] \in MovePositions =>
        /\ session_state = "LOBBY" =>
              \/ ~ready[c]
              \/ \E p \in Conns : pc[p] = "reset_clients"
        /\ \A d \in Conns : pc[d] # "start_spawn"

IInv ==
    /\ TypeOK
    /\ ListOK
    /\ OneOwner
    /\ LocksOK
    /\ HoldersOK
    /\ LobbyTimer
    /\ TimerAlive
    /\ StaleReset
    /\ StaleMove

(* A client is told of a match only while it is played, and not before it  *)
(* connects.                                                               *)
ViewsOK ==
    \A c \in Conns :
        /\ pc[c] = "start_bcast" => session_state = "PLAYING"
        /\ pc[c] = "none" => view[c] # "PLAYING"

(* What the clients were told; inductive together with IInv. *)
ToldInv == ViewsOK /\ EndHasTeller

(***************************************************************************)
(* The abstract session.                                                   *)
(***************************************************************************)

owner ==
    IF client_list = << >> THEN None ELSE CHOOSE c \in Members : is_owner[c]

Abs == INSTANCE SessionAbs
        WITH phase <- session_state, members <- Members, owner <- owner

(* The threads and locks of the server implement the abstract session. *)
Implements == Abs!Spec

(***************************************************************************)
(* Liveness.                                                               *)
(***************************************************************************)

(* handle_move takes session_mutex while it holds client_mutex and         *)
(* handle_client the reverse: when both have their first mutex, neither,   *)
(* and nobody who needs one of the two, ever goes on.                      *)
Jammed ==
    \E c, d \in Conns : pc[c] = "move_fin" /\ pc[d] = "cl_check"

(* When its time is over a match ends, as documentation.tex:297 says:      *)
(* nothing may keep the timer thread from it.  The code breaks this        *)
(* (Jammed).                                                               *)
TimeEndsMatch ==
    (session_state = "PLAYING" /\ expired) ~> session_state # "PLAYING"

(* When its time is over a match ends, whoever comes, leaves or starts     *)
(* another one meanwhile: nothing but that deadlock of the two mutexes     *)
(* ever keeps the timer thread from it.                                    *)
MatchEnds ==
    (session_state = "PLAYING" /\ expired) ~>
        (session_state # "PLAYING" \/ Jammed)

(* Without waiting for the timer, a match ends once everybody is out: one  *)
(* of the threads that set exit_reached, or that leave, finds it so,       *)
(* however they race; or two of them deadlock.                             *)
AllOutEnds ==
    (session_state = "PLAYING" /\ all_players_done) ~>
        (session_state # "PLAYING" \/ ~all_players_done \/ Jammed)

(* No command of a listed client, QUIT included, that has been begun is    *)
(* stuck on a mutex for ever, except by that deadlock.  A thread that has  *)
(* still to get its first mutex is idle here, and what follows the removal *)
(* of a leaving client is not claimed: it waits for session_mutex, which   *)
(* clients can keep taking with a START that is refused.                   *)
CommandsEnd ==
    \A c \in Conns :
        pc[c] \in Listed \ {"idle"} ~>
            (pc[c] = "idle" \/ pc[c] \notin Listed \/ Jammed)

(* A client told of a match is told of its end, or of the next phase, as   *)
(* long as it is connected and the end is one of those that are announced: *)
(* the timer's, the last player's at the exit and the clean-up's, in any   *)
(* order of their broadcasts.  The end that client_list_remove makes       *)
(* (server.c:457-462) is announced to nobody.                              *)
EndTold ==
    \A c \in Conns :
        (session_state = "FINISHED" /\ view[c] = "PLAYING" /\ c \in Members) ~>
            (view[c] # "PLAYING" \/ c \notin Members \/ unsaid)
=============================================================================
