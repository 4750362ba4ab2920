------------------------------- MODULE Client -------------------------------
(***************************************************************************)
(* One client (client/client.c, command.c, response.c, state.c) and the    *)
(* handler thread that serves it (server/server.c), with the two ordered   *)
(* streams of lines between them.  The user and every other thread of the  *)
(* server are the environment.                                             *)
(*                                                                         *)
(* The client is one loop: it takes a key or a message, and is done with   *)
(* it before the next.  The handler takes a command, sends what it answers *)
(* piece by piece (todo), and other threads send to the same client in     *)
(* between.  What a thread announces after it has released the lock under  *)
(* which it changed the session stays in untold or boss until it is sent.  *)
(*                                                                         *)
(* Abstracted: maps, rankings, the remaining time and the status line,     *)
(* which only fill the display, and so the answers that bring them; of a   *)
(* list of users only the owner's line; LOGIN and REGISTER, which look     *)
(* alike from here (Accounts takes them apart) and are one command.        *)
(***************************************************************************)
EXTENDS Naturals, Sequences, SequencesExt

CONSTANTS
    Nicks,      \* nicknames of accounts
    None,       \* no nickname
    Guest,      \* the name the server gives this client until it logs in
    Stranger,   \* the guest name of another client
    Me,         \* this client, as owner of the session
    Within,     \* <<a, b>>: nickname a occurs in the owner's line of b
    MaxOut, MaxIn,  \* commands and messages that may be on their way when
                \* the user or another thread begins something (bounds)
    MaxUntold   \* ends of matches not yet announced at one time (a bound)

ASSUME NamesAssumption ==
    /\ {None, Guest, Stranger, Me} \cap Nicks = {}
    /\ None \notin {Guest, Stranger, Me} /\ Guest # Stranger /\ Me \notin {Guest, Stranger}
ASSUME WithinAssumption ==
    /\ Within \subseteq Nicks \X (Nicks \cup {Guest, Stranger})
    /\ \A n \in Nicks : <<n, n>> \in Within
ASSUME BoundsAssumption == {MaxOut, MaxIn, MaxUntold} \subseteq Nat

VARIABLES
    state,          \* ClientState
    connected,      \* the loop of the client runs
    out, in,        \* commands to the server, messages to the client
    client,         \* the fields of client_t the handler keeps
    session_state,
    owner,          \* Me, or the name of another client
    pc, todo,       \* the handler: where it is, what it still has to send
    untold,         \* threads that have ended a match and not announced it
    boss,           \* where another owner's RESET is
    hasty,          \* history: a LOGIN was sent with an answer still to come
    mistaken,       \* history: the last list took another's line for its own
    unsaid          \* history: the last match was ended without a word

session_vars == <<session_state, unsaid, owner, untold, boss>>
client_side == <<state, connected, hasty, mistaken>>
handler == <<client, pc, todo>>
vars == <<client_side, out, in, handler, session_vars>>

Phases == {"LOBBY", "PLAYING", "FINISHED"}
Names == Nicks \cup {Guest, Stranger}

ClientState == [nickname : Nicks \cup {None}, pending_nickname : Nicks \cup {None},
                mode : {"MOVEMENT", "COMMAND"}, session_state : Phases,
                is_owner : BOOLEAN, exit_reached : BOOLEAN]
Client_t == [nickname : Nicks \cup {Guest}, ready : BOOLEAN, exit_reached : BOOLEAN]

(* An OK that says "owner" or "exit found" is a kind of its own.  A USERS  *)
(* without a name is a list that is built when it is sent.                 *)
Oks == {"OK", "OK owner", "OK exit found"}
Kinds == Oks \cup {"ERR", "STARTED", "ENDED", "LOBBY"}
Say(k) == [kind |-> k, name |-> None]
Messages == {Say(k) : k \in Kinds} \cup [kind : {"USERS"}, name : Names]
Pieces == Messages \cup {Say("USERS")}

Command(w) == [word |-> w, nick |-> None]
Login(n) == [word |-> "LOGIN", nick |-> n]
Typed == {"READY", "START", "RESET", "MOVE", "VIEW", "LIST", "RANK"}
Sent == {Command(w) : w \in Typed} \cup {Login(n) : n \in Nicks}

logged_in == state.nickname # None

(* The name that the client believes it has. *)
KnownAs == IF logged_in THEN state.nickname ELSE Guest

(* The values of the variables; the server lets no two clients have one    *)
(* nickname (two that take it together, NickShared, are not here), and     *)
(* only an idle owner is replaced; what was ended without a word stays     *)
(* finished until a RESET.                                                 *)
TypeOK ==
    /\ state \in ClientState
    /\ connected \in BOOLEAN
    /\ out \in Seq(Sent)
    /\ in \in Seq(Messages)
    /\ client \in Client_t
    /\ session_state \in Phases
    /\ owner \in Nicks \cup {Me, Stranger} /\ owner # client.nickname
    /\ pc \in {"greet", "idle", "ready_set", "reset_owner", "reset_clients",
               "move", "move_done"}
    /\ todo \in Seq(Pieces)
    /\ untold \in 0..MaxUntold
    /\ boss \in {"idle", "reset_clients", "reset_bcast"}
    /\ boss # "idle" => owner # Me
    /\ hasty \in BOOLEAN /\ mistaken \in BOOLEAN /\ unsaid \in BOOLEAN
    /\ unsaid => session_state = "FINISHED"

(* init_client_state; the client joins a session in any phase, and its     *)
(* entry is in the list before its thread greets it.                       *)
Init ==
    /\ state = [nickname |-> None, pending_nickname |-> None, mode |-> "COMMAND",
                session_state |-> "LOBBY", is_owner |-> FALSE, exit_reached |-> FALSE]
    /\ connected = TRUE
    /\ out = <<>> /\ in = <<>>
    /\ client = [nickname |-> Guest, ready |-> FALSE, exit_reached |-> FALSE]
    /\ session_state \in Phases
    /\ owner \in Nicks \cup {Me, Stranger}
    /\ pc = "greet" /\ todo = <<>>
    /\ untold \in 0..MaxUntold
    /\ boss = "idle"
    /\ hasty = FALSE /\ mistaken = FALSE /\ unsaid = FALSE

(* The bound on what the user and the other threads begin while messages   *)
(* and commands are on their way; what has begun goes on.                  *)
Room == Len(in) < MaxIn /\ Len(out) < MaxOut

-----------------------------------------------------------------------------
(***************************************************************************)
(* The client: keys.                                                       *)
(***************************************************************************)

(* What the client has sent or is to be told that an OK or an ERR answers. *)
Unanswered ==
    \/ pc # "idle"
    \/ \E i \in DOMAIN out : out[i].word \notin {"LIST", "RANK"}
    \/ \E i \in DOMAIN (todo \o in) : (todo \o in)[i].kind \in Oks \cup {"ERR"}

(* A line typed in command mode; without a login only LOGIN, REGISTER, help *)
(* and quit go further.  extract_auth_nickname finds the nickname of LOGIN. *)
(* Nothing holds the user back while an answer is still to come.           *)
send_user_command(cmd) ==
    /\ state.mode = "COMMAND"
    /\ logged_in \/ cmd.word = "LOGIN"
    /\ Room
    /\ state' = IF cmd.word = "LOGIN"
                THEN [state EXCEPT !.pending_nickname = cmd.nick] ELSE state
    /\ out' = Append(out, cmd)
    /\ hasty' = (hasty \/ (cmd.word = "LOGIN" /\ Unanswered))
    /\ UNCHANGED <<connected, mistaken, in, handler, session_vars>>

(* w, a, s, d and g, l in movement mode, whether logged in or not. *)
handle_movement_input(word) ==
    /\ state.mode = "MOVEMENT"
    /\ Room
    /\ out' = Append(out, Command(word))
    /\ UNCHANGED <<client_side, in, handler, session_vars>>

Tab ==
    /\ state' = [state EXCEPT !.mode = IF @ = "COMMAND" THEN "MOVEMENT" ELSE "COMMAND"]
    /\ UNCHANGED <<connected, hasty, mistaken, out, in, handler, session_vars>>

(* Q, quit, the end of the input, or the connection is lost: nothing that *)
(* is under way arrives.                                                   *)
Leave ==
    /\ connected' = FALSE
    /\ out' = <<>> /\ in' = <<>> /\ todo' = <<>>
    /\ UNCHANGED <<state, hasty, mistaken, client, pc, session_vars>>

User ==
    \/ \E cmd \in Sent : send_user_command(cmd)
    \/ \E word \in {"MOVE", "VIEW"} : handle_movement_input(word)
    \/ Tab
    \/ Leave

-----------------------------------------------------------------------------
(***************************************************************************)
(* The client: handle_server_message.                                      *)
(***************************************************************************)
Message == Head(in)

(* Mutant of confirm_auth: there need not be a pending nickname. *)
ConfirmAlways(s) == [s EXCEPT !.nickname = s.pending_nickname, !.pending_nickname = None]

confirm_auth(s) ==
    IF s.pending_nickname = None THEN s
    ELSE [s EXCEPT !.nickname = s.pending_nickname, !.pending_nickname = None]

HandleOK ==
    /\ Message.kind \in Oks
    /\ state' = confirm_auth([state EXCEPT
                    !.exit_reached = @ \/ Message.kind = "OK exit found",
                    !.is_owner = @ \/ Message.kind = "OK owner"])
    /\ UNCHANGED <<out, mistaken>>

clear_pending_auth(s) == [s EXCEPT !.pending_nickname = None]

HandleERR ==
    /\ Message.kind = "ERR"
    /\ state' = clear_pending_auth(state)
    /\ UNCHANGED <<out, mistaken>>

(* Mutant of HandleStarted: what the last match left is kept. *)
StartedKeepsExit ==
    /\ Message.kind = "STARTED"
    /\ state' = [state EXCEPT !.session_state = "PLAYING", !.mode = "MOVEMENT"]
    /\ UNCHANGED <<out, mistaken>>

HandleStarted ==
    /\ Message.kind = "STARTED"
    /\ state' = [state EXCEPT !.session_state = "PLAYING", !.mode = "MOVEMENT",
                              !.exit_reached = FALSE]
    /\ UNCHANGED <<out, mistaken>>

(* Mutant of HandleEnded: the ranking is asked for, the phase stays. *)
EndedOnlyRanks ==
    /\ Message.kind = "ENDED"
    /\ state' = [state EXCEPT !.mode = "COMMAND"]
    /\ out' = Append(out, Command("RANK"))
    /\ UNCHANGED mistaken

HandleEnded ==
    /\ Message.kind = "ENDED"
    /\ state' = [state EXCEPT !.session_state = "FINISHED", !.mode = "COMMAND"]
    /\ out' = Append(out, Command("RANK"))
    /\ UNCHANGED mistaken

(* With clear_session_display. *)
HandleLobby ==
    /\ Message.kind = "LOBBY"
    /\ state' = [state EXCEPT !.session_state = "LOBBY", !.mode = "COMMAND",
                              !.exit_reached = FALSE]
    /\ out' = Append(out, Command("LIST"))
    /\ UNCHANGED mistaken

(* Mutant of OwnLine: any line with the mark is taken for one's own. *)
OwnLineAny(name) == state.nickname # None

(* The line is taken for this client's own: strstr finds the nickname      *)
(* anywhere in it, in another's longer name or in a mark after it.         *)
OwnLine(name) == state.nickname # None /\ <<state.nickname, name>> \in Within

handle_users_message ==
    /\ Message.kind = "USERS"
    /\ state' = [state EXCEPT !.is_owner = OwnLine(Message.name)]
    /\ mistaken' = (<<state.nickname, Message.name>> \in Within /\ Message.name # state.nickname)
    /\ UNCHANGED out

handle_server_message ==
    /\ in # <<>>
    /\ in' = Tail(in)
    /\ \/ HandleOK \/ HandleERR
       \/ HandleStarted \/ HandleEnded \/ HandleLobby
       \/ handle_users_message
    /\ UNCHANGED <<connected, hasty, handler, session_vars>>

-----------------------------------------------------------------------------
(***************************************************************************)
(* The handler thread of the client.                                       *)
(***************************************************************************)

(* build_user_list_locked *)
UserList == [kind |-> "USERS", name |-> IF owner = Me THEN client.nickname ELSE owner]

Goto(to) == pc' = to
Answer(messages) == todo' = messages
Stay == UNCHANGED <<client_side, in, untold, boss>>

(* The next piece goes out. *)
SendNext ==
    /\ todo # <<>>
    /\ in' = Append(in, IF Head(todo) = Say("USERS") THEN UserList ELSE Head(todo))
    /\ todo' = Tail(todo)
    /\ UNCHANGED <<client_side, out, client, pc, session_vars>>

Greet ==
    /\ pc = "greet"
    /\ Goto("idle")
    /\ Answer(<<Say(IF owner = Me THEN "OK owner" ELSE "OK"), Say("USERS")>>)
    /\ UNCHANGED <<out, client, session_state, unsaid, owner>>

(* recv_line has the next command. *)
Receives(word) ==
    /\ pc = "idle"
    /\ out # <<>> /\ Head(out).word = word
    /\ out' = Tail(out)

Refuse == Goto("idle") /\ Answer(<<Say("ERR")>>)

(* handle_login, handle_register: Accounts says when they succeed. *)
handle_login ==
    /\ Receives("LOGIN")
    /\ \/ /\ Head(out).nick # owner
          /\ client' = [client EXCEPT !.nickname = Head(out).nick]
          /\ Answer(<<Say("OK"), Say("USERS")>>)
          /\ UNCHANGED pc
       \/ Refuse /\ UNCHANGED client
    /\ UNCHANGED <<session_state, unsaid, owner>>

ReadyRead ==
    /\ Receives("READY")
    /\ \/ session_state = "LOBBY" /\ Goto("ready_set") /\ UNCHANGED todo
       \/ session_state # "LOBBY" /\ Refuse
    /\ UNCHANGED <<client, session_state, unsaid, owner>>

ReadySet ==
    /\ pc = "ready_set"
    /\ client' = [client EXCEPT !.ready = TRUE]
    /\ Goto("idle")
    /\ Answer(<<Say("OK"), Say("USERS")>>)
    /\ UNCHANGED <<out, session_state, unsaid, owner>>

(* reset_client_for_lobby, from RESET and from START's spawn. *)
ForNextMatch == [client EXCEPT !.ready = FALSE, !.exit_reached = FALSE]

(* handle_start: the broadcast is made before session_mutex is released, so *)
(* it comes with the change.  The other clients are ready or not.           *)
handle_start ==
    /\ Receives("START")
    /\ \/ /\ session_state = "LOBBY" /\ owner = Me
          /\ session_state' = "PLAYING"
          /\ client' = ForNextMatch
          /\ in' = Append(in, Say("STARTED"))
          /\ UNCHANGED <<pc, todo>>
       \/ Refuse /\ UNCHANGED <<client, session_state, in>>
    /\ UNCHANGED <<unsaid, owner, client_side, untold, boss>>

ResetRead ==
    /\ Receives("RESET")
    /\ \/ session_state = "FINISHED" /\ Goto("reset_owner") /\ UNCHANGED todo
       \/ session_state # "FINISHED" /\ Refuse
    /\ UNCHANGED <<client, session_state, unsaid, owner>>

ResetOwner ==
    /\ pc = "reset_owner"
    /\ \/ /\ owner = Me
          /\ session_state' = "LOBBY" /\ unsaid' = FALSE
          /\ Goto("reset_clients")
          /\ UNCHANGED todo
       \/ owner # Me /\ Refuse /\ UNCHANGED <<session_state, unsaid>>
    /\ UNCHANGED <<out, client, owner>>

ResetClients ==
    /\ pc = "reset_clients"
    /\ client' = ForNextMatch
    /\ Goto("idle")
    /\ Answer(<<Say("LOBBY"), Say("USERS")>>)
    /\ UNCHANGED <<out, session_state, unsaid, owner>>

(* handle_move: block_if_not_playing. *)
MoveRead ==
    /\ Receives("MOVE")
    /\ \/ session_state = "PLAYING" /\ Goto("move") /\ UNCHANGED todo
       \/ session_state # "PLAYING" /\ Refuse
    /\ UNCHANGED <<client, session_state, unsaid, owner>>

(* A player who is out gets a map, a wrong move an error; a move may find  *)
(* an object and may be the first onto the exit.                           *)
Move ==
    /\ pc = "move"
    /\ \/ client.exit_reached /\ Goto("idle") /\ UNCHANGED <<client, todo>>
       \/ ~client.exit_reached /\ Refuse /\ UNCHANGED client
       \/ \E found \in {<<>>, <<Say("OK")>>} :
            /\ ~client.exit_reached
            /\ \/ Goto("idle") /\ Answer(found) /\ UNCHANGED client
               \/ /\ client' = [client EXCEPT !.exit_reached = TRUE]
                  /\ Goto("move_done")
                  /\ Answer(Append(found, Say("OK exit found")))
    /\ UNCHANGED <<out, session_state, unsaid, owner>>

(* The match ends if the others are out too, and another has not ended it. *)
MoveDone ==
    /\ pc = "move_done"
    /\ Goto("idle")
    /\ \/ /\ client.exit_reached /\ session_state = "PLAYING"
          /\ session_state' = "FINISHED"
          /\ Answer(<<Say("ENDED")>>)
       \/ UNCHANGED <<session_state, todo>>
    /\ UNCHANGED <<unsaid, out, client, owner>>

(* LOCAL, GLOBAL *)
View ==
    /\ Receives("VIEW")
    /\ \/ session_state = "PLAYING" /\ UNCHANGED <<pc, todo>>
       \/ session_state # "PLAYING" /\ Refuse
    /\ UNCHANGED <<client, session_state, unsaid, owner>>

(* The list is built under client_mutex and sent after it is released. *)
handle_list ==
    /\ Receives("LIST")
    /\ Answer(<<UserList>>)
    /\ UNCHANGED <<client, pc, session_state, unsaid, owner>>

handle_rank ==
    /\ Receives("RANK")
    /\ UNCHANGED <<handler, session_state, unsaid, owner>>

handle_client ==
    \/ SendNext
    \/ /\ todo = <<>>
       /\ \/ handle_start
          \/ /\ Stay
             /\ \/ Greet \/ handle_login \/ ReadyRead \/ ReadySet
                \/ ResetRead \/ ResetOwner \/ ResetClients
                \/ MoveRead \/ Move \/ MoveDone
                \/ View \/ handle_list \/ handle_rank

-----------------------------------------------------------------------------
(***************************************************************************)
(* The other threads of the server.                                        *)
(***************************************************************************)
Elsewhere == UNCHANGED <<client_side, out, pc, todo>>

(* broadcast_user_list, after a login, a READY or a departure. *)
BroadcastUsers ==
    /\ Room
    /\ in' = Append(in, UserList)
    /\ UNCHANGED <<client, session_vars>>

(* The owner leaves and another client follows, or it changes its name. *)
OwnerChanges ==
    /\ Room
    /\ owner # Me /\ boss = "idle"
    /\ owner' \in (Nicks \cup {Me, Stranger}) \ {owner, client.nickname}
    /\ UNCHANGED <<in, client, session_state, unsaid, untold, boss>>

(* Check and spawn in one step: no client joins between them here.         *)
OtherStart ==
    /\ Room
    /\ owner # Me /\ boss = "idle"
    /\ session_state = "LOBBY"
    /\ client.ready /\ client.nickname # Guest
    /\ session_state' = "PLAYING"
    /\ client' = ForNextMatch
    /\ in' = Append(in, Say("STARTED"))
    /\ UNCHANGED <<unsaid, owner, untold, boss>>

(* The timer, or another client that is the last to leave or to get out,   *)
(* ends the match and announces it later.                                  *)
End ==
    /\ Room
    /\ session_state = "PLAYING"
    /\ untold < MaxUntold
    /\ session_state' = "FINISHED"
    /\ untold' = untold + 1
    /\ UNCHANGED <<in, client, unsaid, owner, boss>>

(* A thread that emptied the list before this client came, and gets to     *)
(* session_mutex only now (client_list_remove): it announces nothing.  Any *)
(* number of threads may have done that, so nothing bounds it.             *)
EndUntold ==
    /\ Room
    /\ session_state = "PLAYING"
    /\ session_state' = "FINISHED" /\ unsaid' = TRUE
    /\ UNCHANGED <<in, client, owner, untold, boss>>

TellEnd ==
    /\ untold > 0
    /\ in' = Append(in, Say("ENDED"))
    /\ untold' = untold - 1
    /\ UNCHANGED <<client, session_state, unsaid, owner, boss>>

(* A delayed RESET may find the lobby (PhaseOrder of Session), no match. *)
OtherReset ==
    /\ Room
    /\ owner # Me /\ boss = "idle"
    /\ session_state # "PLAYING"
    /\ session_state' = "LOBBY" /\ unsaid' = FALSE
    /\ boss' = "reset_clients"
    /\ UNCHANGED <<in, client, owner, untold>>

OtherResetClients ==
    /\ boss = "reset_clients"
    /\ client' = ForNextMatch
    /\ boss' = "reset_bcast"
    /\ UNCHANGED <<in, session_state, unsaid, owner, untold>>

OtherResetBcast ==
    /\ boss = "reset_bcast"
    /\ in' = Append(in, Say("LOBBY"))
    /\ boss' = "idle"
    /\ UNCHANGED <<client, session_state, unsaid, owner, untold>>

Others ==
    /\ Elsewhere
    /\ \/ BroadcastUsers \/ OwnerChanges \/ OtherStart \/ End \/ EndUntold \/ TellEnd
       \/ OtherReset \/ OtherResetClients \/ OtherResetBcast

Next == connected /\ (User \/ handle_server_message \/ handle_client \/ Others)

Spec == Init /\ [][Next]_vars

-----------------------------------------------------------------------------
(***************************************************************************)
(* Properties.                                                             *)
(***************************************************************************)

(* As long as the user has never sent a LOGIN while an answer to something *)
(* else was still to come (hasty: that answer is then taken for the        *)
(* LOGIN's), the client that awaits no answer shows the nickname the       *)
(* server has for it (state.c:72 speaks of "a successful authentication    *)
(* response", response.c:308 takes any OK for one), and it never shows a   *)
(* login that the server does not know of.                                 *)
NickTruth ==
    hasty \/ /\ state.pending_nickname = None => client.nickname = KnownAs
             /\ client.nickname = Guest => ~logged_in

(* All that has happened has been announced, and all of it has arrived. *)
AllTold ==
    /\ connected
    /\ in = <<>> /\ todo = <<>>
    /\ pc \in {"idle", "ready_set", "move"}
    /\ untold = 0 /\ boss = "idle"

(* A client that shows itself as owner is the owner, once it has been told *)
(* everything (response.c:195), with two exceptions: the last list it got  *)
(* marks another client whose line contains its nickname (response.c:196), *)
(* or it may have a wrong nickname, as in NickTruth.  One that is the      *)
(* owner may fail to show it.                                              *)
OwnerClaim == AllTold /\ state.is_owner => owner = Me \/ mistaken \/ hasty

(* A client that has been told everything does not play a match that is    *)
(* over, whichever thread ended it and whenever it said so.  The one that  *)
(* says nothing is exempt until the next RESET: a removal that had emptied *)
(* the list before this client came (server.c:457).                        *)
PlayingIsTrue ==
    AllTold /\ state.session_state = "PLAYING" =>
        session_state = "PLAYING" \/ (session_state = "FINISHED" /\ unsaid)

(* With the types of both sides and of what is on its way between them.    *)
PlayInv == TypeOK /\ PlayingIsTrue

(* A client that has been told everything and plays shows the exit as      *)
(* found if and only if the server counts it as out of this match: no      *)
(* late "exit found" of an earlier one (response.c:299, server.c:1007).    *)
ExitTruth ==
    AllTold /\ state.session_state = "PLAYING" =>
        state.exit_reached = client.exit_reached

(***************************************************************************)
(* The inductive invariant.                                                *)
(***************************************************************************)

(* What the client is still to be told, in the order it will be told. *)
Stream == in \o todo
Answers == Oks \cup {"ERR"}
Changes == {"STARTED", "ENDED", "LOBBY"}

(* The i-th message of a stream s is the first that answers a command. *)
FirstAnswer(s, i) ==
    /\ i \in DOMAIN s /\ s[i].kind \in Answers
    /\ \A j \in DOMAIN s : s[j].kind \in Answers => i <= j

NoAnswer(s) == \A j \in DOMAIN s : s[j].kind \notin Answers

(* The lists of s after its i-th message name another owner than n. *)
NotNamed(s, i, n) ==
    \A j \in DOMAIN s : i < j /\ s[j].kind = "USERS" => s[j].name # n
ListAfter(s, i) == \E j \in DOMAIN s : i < j /\ s[j].kind = "USERS"

(* The commands o have no login, or that of n after what needs no OK.      *)
NoLogin(o) == \A i \in DOMAIN o : o[i].word # "LOGIN"
LoginIn(o, n) ==
    \E i \in DOMAIN o :
        /\ o[i] = Login(n)
        /\ \A j \in DOMAIN o : o[j].word = "LOGIN" => j = i
        /\ \A j \in DOMAIN o : j < i => o[j].word \in {"LIST", "RANK"}

(* A login that the handler has not come to: no other answer is expected.  *)
Asked ==
    /\ pc = "idle" /\ client.nickname = KnownAs
    /\ NoAnswer(Stream)
    /\ LoginIn(out, state.pending_nickname)

(* One that it has: its answer is the first to come. *)
AnswerIn(s) ==
    \E i \in DOMAIN s :
        /\ FirstAnswer(s, i)
        /\ client.nickname = IF s[i].kind = "ERR" THEN KnownAs ELSE state.pending_nickname

Answered == NoLogin(out) /\ AnswerIn(Stream)

AuthInv ==
    /\ NickTruth
    /\ connected /\ ~hasty =>
        IF state.pending_nickname = None THEN NoLogin(out) ELSE Asked \/ Answered

(* While another client owns the session, nothing to come makes this one   *)
(* the owner, or something after it takes that back: a list after the      *)
(* answer that gives it its nickname.                                      *)
NotOwner(s) ==
    /\ client.nickname = KnownAs
    /\ NotNamed(s, 0, client.nickname)
    /\ state.is_owner => ListAfter(s, 0) \/ mistaken

Renamed(s) ==
    /\ state.pending_nickname # None
    /\ \E i \in DOMAIN s :
        /\ FirstAnswer(s, i) /\ s[i].kind \in Oks
        /\ ListAfter(s, i)
        /\ NotNamed(s, i, client.nickname)

Disowned(s) ==
    /\ \A i \in DOMAIN s : s[i].kind # "OK owner"
    /\ NotOwner(s) \/ Renamed(s)

OwnerInv == connected /\ ~hasty /\ owner # Me => Disowned(Stream)

(* The last change of phase in a stream s is a start, or there is none.    *)
NoChange(s) == \A j \in DOMAIN s : s[j].kind \notin Changes
LastIs(s, kind) ==
    \E i \in DOMAIN s :
        /\ s[i].kind = kind
        /\ \A j \in DOMAIN s : s[j].kind \in Changes => j <= i

(* What a client in a phase, or one with the exit found or not, will show  *)
(* when it has been told all of s.                                         *)
Plays(s, phase) == LastIs(s, "STARTED") \/ (NoChange(s) /\ phase = "PLAYING")
Out(s, found) == LastIs(s, "OK exit found") \/ (NoChange(s) /\ found)

WillPlay == Plays(Stream, state.session_state)
WillBeOut == Out(Stream, state.exit_reached)

(* A RESET is under way that will announce the lobby. *)
Resetting == boss # "idle" \/ pc = "reset_clients"

PhaseInv ==
    connected /\ WillPlay =>
        session_state = "PLAYING" \/ untold > 0 \/ unsaid \/ Resetting

ExitInv ==
    connected /\ WillPlay /\ ~Resetting => (client.exit_reached <=> WillBeOut)

(* No MOVE of an earlier match is under way when this client is ready for  *)
(* the next; the start is announced by others, or before the next command. *)
MoveInv ==
    /\ client.ready /\ session_state = "LOBBY" /\ boss # "reset_clients"
            /\ pc # "reset_clients" =>
        /\ pc \notin {"move", "move_done"}
        /\ \A i \in DOMAIN todo : todo[i].kind # "OK exit found"
    /\ \A i \in DOMAIN todo : todo[i].kind # "STARTED"

PhasesInv == TypeOK /\ PhaseInv /\ ExitInv /\ MoveInv
NamesInv == AuthInv /\ OwnerInv
=============================================================================
