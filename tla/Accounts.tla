------------------------------ MODULE Accounts ------------------------------
(***************************************************************************)
(* LOGIN and REGISTER of server/server.c on the store of accounts.         *)
(*                                                                         *)
(* A handler thread sends one Redis command at a time under redis_mutex    *)
(* (redis_threadsafe.c), then looks for the nickname among the clients     *)
(* under client_mutex, and takes it after releasing that.  Each of these   *)
(* is an action; pc remembers how far the thread is and request what the   *)
(* client asked for.  The store is external: it answers each command at    *)
(* once, or, for those in Faults, hiredis may return no reply or an error  *)
(* (no reply, for the code and here, is the same).                        *)
(*                                                                         *)
(* Abstracted: the phase of the session, which neither command looks at;   *)
(* malformed commands and a server without a store, which only answer ERR; *)
(* the list, which here is the set of connected clients.                   *)
(***************************************************************************)
EXTENDS Naturals

CONSTANTS
    Conns,      \* descriptors; each names the guest that connects with it
    Nicks,      \* nicknames that do not begin with "guest"
    Passwords,
    Absent,     \* GET of an account that is not there
    Faults      \* commands that may get no reply: "GET", "EXISTS", "SET"

ASSUME AbsentAssumption == Absent \notin Passwords
ASSUME NicksAssumption == Conns \cap Nicks = {}
ASSUME FaultsAssumption == Faults \subseteq {"GET", "EXISTS", "SET"}

VARIABLES
    store,      \* the password of user:<nick>
    lost,       \* nicknames whose SET was once not carried out
    nickname, logged_in,
    request,    \* nickname and password of the command in hand
    pc,
    met,        \* history: <<c, d, n>>, d took n when c was about to
    outrun      \* history: threads on their way to SET whose EXISTS got no
                \* reply, or the account came to be after it

history == <<met, outrun>>
vars == <<store, lost, nickname, logged_in, request, pc, history>>

Request == [nick : Nicks, pass : Passwords]
NoRequest == <<>>

Connected == {c \in Conns : pc[c] # "none"}
Checked == {"check_nick", "set_nick"}

TypeOK ==
    /\ store \in [Nicks -> Passwords \cup {Absent}]
    /\ lost \subseteq Nicks
    /\ nickname \in [Conns -> Nicks \cup Conns]
    /\ logged_in \in [Conns -> BOOLEAN]
    /\ \A c \in Conns :
        /\ pc[c] \in {"none", "idle", "reg_set"} \cup Checked
        /\ pc[c] \in {"reg_set"} \cup Checked => request[c] \in Request
        /\ logged_in[c] <=> nickname[c] \in Nicks
    /\ met \subseteq Conns \X Conns \X Nicks
    /\ outrun \subseteq Conns

Goto(c, to) == pc' = [pc EXCEPT ![c] = to]
Forget(c) == request' = [request EXCEPT ![c] = NoRequest]
Refuse(c) == Goto(c, "idle") /\ Forget(c)
Accept(c, r, to) == Goto(c, to) /\ request' = [request EXCEPT ![c] = r]

Init ==
    /\ store = [n \in Nicks |-> Absent]
    /\ lost = {}
    /\ nickname = [c \in Conns |-> c]
    /\ logged_in = [c \in Conns |-> FALSE]
    /\ request = [c \in Conns |-> NoRequest]
    /\ pc = [c \in Conns |-> "none"]
    /\ met = {} /\ outrun = {}

Connect(c) ==
    /\ pc[c] = "none"
    /\ Goto(c, "idle")
    /\ UNCHANGED <<store, lost, nickname, logged_in, request, history>>

client_list_remove(c) ==
    /\ pc[c] = "idle"
    /\ Goto(c, "none")
    /\ nickname' = [nickname EXCEPT ![c] = c]
    /\ logged_in' = [logged_in EXCEPT ![c] = FALSE]
    /\ met' = {m \in met : m[1] # c /\ m[2] # c}
    /\ UNCHANGED <<store, lost, request, outrun>>

(* Mutant of LoginGet: a missing reply is taken for a right password. *)
LoginTrusts(c, r) ==
    /\ pc[c] = "idle"
    /\ IF store[r.nick] \in {r.pass, Absent}
       THEN Accept(c, r, "check_nick") ELSE Refuse(c)
    /\ UNCHANGED <<store, lost, nickname, logged_in, history>>

(* LOGIN: GET; an account that is not there, another password or no reply  *)
(* end it.                                                                 *)
LoginGet(c, r) ==
    /\ pc[c] = "idle"
    /\ \/ store[r.nick] = r.pass /\ Accept(c, r, "check_nick")
       \/ store[r.nick] # r.pass /\ Refuse(c)
       \/ "GET" \in Faults /\ Refuse(c)
    /\ UNCHANGED <<store, lost, nickname, logged_in, history>>

(* Mutant of RegisterExists: any reply is taken for 0. *)
RegisterBlindly(c, r) ==
    /\ pc[c] = "idle"
    /\ Accept(c, r, "reg_set")
    /\ UNCHANGED <<store, lost, nickname, logged_in, history>>

(* REGISTER: EXISTS; only the reply 1 ends it. *)
RegisterExists(c, r) ==
    /\ pc[c] = "idle"
    /\ \/ store[r.nick] # Absent /\ Refuse(c) /\ UNCHANGED outrun
       \/ store[r.nick] = Absent /\ Accept(c, r, "reg_set") /\ UNCHANGED outrun
       \/ /\ "EXISTS" \in Faults /\ Accept(c, r, "reg_set")
          /\ outrun' = outrun \cup {c}
    /\ UNCHANGED <<store, lost, nickname, logged_in, met>>

(* REGISTER: SET, whose reply is not looked at. *)
RegisterSet(c) ==
    /\ pc[c] = "reg_set"
    /\ Goto(c, "check_nick")
    /\ \/ /\ store' = [store EXCEPT ![request[c].nick] = request[c].pass]
          /\ outrun' = (outrun \ {c}) \cup
                {d \in Conns \ {c} :
                    pc[d] = "reg_set" /\ request[d].nick = request[c].nick}
          /\ UNCHANGED lost
       \/ /\ "SET" \in Faults
          /\ lost' = lost \cup {request[c].nick}
          /\ outrun' = outrun \ {c}
          /\ UNCHANGED store
    /\ UNCHANGED <<nickname, logged_in, request, met>>

is_nickname_taken(n, c) == \E d \in Connected \ {c} : nickname[d] = n

(* Mutant of CheckNick: only the account counts. *)
CheckNothing(c) ==
    /\ pc[c] = "check_nick" /\ Goto(c, "set_nick")
    /\ UNCHANGED <<store, lost, nickname, logged_in, request, history>>

CheckNick(c) ==
    /\ pc[c] = "check_nick"
    /\ \/ is_nickname_taken(request[c].nick, c) /\ Refuse(c)
       \/ ~is_nickname_taken(request[c].nick, c) /\ Goto(c, "set_nick")
                                                 /\ UNCHANGED request
    /\ UNCHANGED <<store, lost, nickname, logged_in, history>>

(* History: what is left of met when c gives up its nickname for another.  *)
Elsewhere(c) ==
    {m \in met : m[3] = nickname[c] /\ m[3] # request[c].nick => m[1] # c /\ m[2] # c}

(* OK authenticated *)
SetNick(c) ==
    /\ pc[c] = "set_nick"
    /\ nickname' = [nickname EXCEPT ![c] = request[c].nick]
    /\ logged_in' = [logged_in EXCEPT ![c] = TRUE]
    /\ Goto(c, "idle")
    /\ met' = Elsewhere(c) \cup
        {<<d, c, request[c].nick>> : d \in
            {e \in Conns \ {c} :
                pc[e] = "set_nick" /\ request[e].nick = request[c].nick}}
    /\ Forget(c)
    /\ UNCHANGED <<store, lost, outrun>>

Next ==
    \E c \in Conns :
        \/ Connect(c) \/ client_list_remove(c)
        \/ \E r \in Request : LoginGet(c, r) \/ RegisterExists(c, r)
        \/ RegisterSet(c) \/ CheckNick(c) \/ SetNick(c)

Spec == Init /\ [][Next]_vars

-----------------------------------------------------------------------------
(* Properties. *)

(* Whoever is authenticated has an account, unless a SET of that nickname  *)
(* was lost: the three commands of two threads interleave, GET and EXISTS  *)
(* may fail, and nothing guards the account between the command that found *)
(* or stored it and the moment the client takes the name.                  *)
AuthHasAccount ==
    \A c \in Conns :
        logged_in[c] /\ nickname[c] \notin lost => store[nickname[c]] # Absent

(* Its inductive form: the thread already knows of the account when it     *)
(* looks for the nickname.                                                 *)
AuthInv ==
    /\ TypeOK
    /\ DOMAIN pc = Conns /\ DOMAIN request = Conns
    /\ AuthHasAccount
    /\ \A c \in Conns :
        pc[c] \in Checked /\ request[c].nick \notin lost =>
            store[request[c].nick] # Absent

(* Two clients have one nickname only if the second looked for it among    *)
(* the clients before the first had taken it: is_nickname_taken keeps out  *)
(* every other, also after departures and new commands of either.          *)
NickShared ==
    \A c, d \in Conns :
        c # d /\ logged_in[c] /\ nickname[c] = nickname[d] =>
            <<c, d, nickname[c]>> \in met \/ <<d, c, nickname[c]>> \in met

(* Its inductive form, with the client that has looked and not yet taken.  *)
NickInv ==
    /\ NickShared
    /\ \A c \in Conns : pc[c] = "none" => ~logged_in[c]
    /\ \A c, d \in Conns :
        pc[c] = "set_nick" /\ c # d /\ nickname[d] = request[c].nick =>
            <<c, d, request[c].nick>> \in met

(* The password of an account is replaced only by a REGISTER that was told *)
(* the account was not there before it came to be, or was told nothing.    *)
PasswordReplaced ==
    [][\A n \in Nicks :
        store[n] # Absent /\ store'[n] # store[n] =>
            \E c \in outrun : pc[c] = "reg_set" /\ request[c].nick = n]_vars

(* Its inductive form.                                                     *)
OutrunInv ==
    \A c \in Conns :
        pc[c] = "reg_set" /\ c \notin outrun => store[request[c].nick] = Absent
=============================================================================
