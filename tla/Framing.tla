------------------------------ MODULE Framing ------------------------------
(***************************************************************************)
(* One connection, byte by byte (common/protocol.c): the threads of the    *)
(* server that send to one client, the bytes on their way, and the client  *)
(* that takes lines from them and lists from the lines (response.c).       *)
(*                                                                         *)
(* The thread that handles the client answers it without a mutex; every    *)
(* other thread reaches it by a broadcast, under client_mutex.  A send     *)
(* takes as many bytes as there is room for, and send_all goes on with the *)
(* rest: in between, another thread may send.                              *)
(*                                                                         *)
(* Bytes are tokens.  Of a list (USERS; RANK is read alike) a token stands *)
(* for its header with the number of entries, one for END, and "a" for the *)
(* letters of an entry; "k" is any other line.                             *)
(***************************************************************************)
EXTENDS Integers, Sequences

CONSTANTS
    Handler,        \* the thread that handles the client
    Others,         \* the threads that broadcast
    MaxClients,     \* clients at one time (a bound; the server has none)
    Lengths,        \* lengths of the line of a user
    BufferSize,     \* of the buffer a list is built in
    MaxMsg,         \* size of the buffer recv_line fills
    MAX_USERS_DISPLAY,
    Capacity        \* bytes the connection holds

Senders == Others \cup {Handler}
Nobody == "nobody"

ASSUME SendersAssumption == Handler \notin Others /\ Nobody \notin Senders
ASSUME SizesAssumption ==
    /\ MaxClients \in Nat /\ Lengths \subseteq Nat \ {0}
    /\ BufferSize \in Nat \ {0} /\ MaxMsg \in Nat \ {0, 1} /\ Capacity \in Nat
    /\ MAX_USERS_DISPLAY \in Nat

(* A nickname and what follows it are shorter than MAX_MSG, as is every    *)
(* other line of the server.                                               *)
ASSUME LinesAssumption == \A len \in Lengths \cup {1} : len < MaxMsg - 1

Char == [is : {"a", "k", "END", "newline", "header"}, n : Nat]

(* A byte on its way: its sender, its place in the message and whether it  *)
(* is the last of it, which only properties look at.                       *)
Byte == [by : Senders, c : Char, no : Nat \ {0}, last : BOOLEAN]
Token(t) == [is |-> t, n |-> 0]
Header(n) == [is |-> "header", n |-> n]
Newline == Token("newline")

VARIABLES
    client_mutex,
    buffer, total,      \* of the send_all a thread is in
    wire,               \* bytes on their way
    line,               \* what recv_line has read so far
    mode, left,         \* the client: in a list, entries still to come
    connected,
    due,                \* history: the place of the next byte of a sender
    torn,               \* history: a message was sent in the middle of another
    unfit               \* history: a list was cut, or had too many entries

client == <<line, mode, left, connected, due>>
vars == <<client_mutex, buffer, total, wire, client, torn, unfit>>

TypeOK ==
    /\ client_mutex \in Senders \cup {Nobody}
    /\ buffer \in [Senders -> Seq(Byte)]
    /\ \A s \in Senders : total[s] \in 0..Len(buffer[s])
    /\ wire \in Seq(Byte) /\ Len(wire) <= Capacity
    /\ line \in Seq(Byte) /\ Len(line) < MaxMsg - 1
    /\ mode \in {"top", "body"} /\ left \in 0..MAX_USERS_DISPLAY
    /\ {connected, torn, unfit} \subseteq BOOLEAN
    /\ due \in [Senders -> Nat \ {0}]

Init ==
    /\ client_mutex = Nobody
    /\ buffer = [s \in Senders |-> <<>>]
    /\ total = [s \in Senders |-> 0]
    /\ wire = <<>> /\ line = <<>>
    /\ mode = "top" /\ left = 0
    /\ connected = TRUE
    /\ due = [s \in Senders |-> 1]
    /\ torn = FALSE /\ unfit = FALSE

-----------------------------------------------------------------------------
(* What is sent. *)

Line(n) == [i \in 1..n |-> Token("a")] \o <<Newline>>

(* The list is gone through and the line of each client added. *)
Users(n, len) ==
    LET users[k \in 0..n] == IF k = 0 THEN << >> ELSE users[k - 1] \o Line(len)
    IN  users[n]

(* Mutant of Full: the header counts one client less. *)
FullMiscounts(n, len) ==
    <<Header(n - 1), Newline>> \o Users(n, len) \o <<Token("END"), Newline>>

Full(n, len) ==
    <<Header(n), Newline>> \o Users(n, len) \o <<Token("END"), Newline>>

(* snprintf stops at the end of the buffer, and nothing follows.  (All     *)
(* entries have one length here, and their number is any.)                 *)
build_user_list_locked(n, len) ==
    SubSeq(Full(n, len), 1,
           IF Len(Full(n, len)) < BufferSize THEN Len(Full(n, len))
                                             ELSE BufferSize - 1)

Unfit(n, len) == Len(Full(n, len)) >= BufferSize \/ n > MAX_USERS_DISPLAY

From(s, text) ==
    [i \in DOMAIN text |->
        [by |-> s, c |-> text[i], no |-> i, last |-> i = Len(text)]]

Idle(s) == buffer[s] = <<>>

(* send_all is called with the text of a message. *)
Begin(s, text) ==
    /\ Idle(s)
    /\ connected
    /\ buffer' = [buffer EXCEPT ![s] = From(s, text)]
    /\ total' = [total EXCEPT ![s] = 0]
    /\ UNCHANGED <<wire, client, torn>>

(* The handler answers: a line, or the list that it built under the mutex. *)
Answer ==
    /\ \/ Begin(Handler, <<Token("k"), Newline>>) /\ UNCHANGED unfit
       \/ \E n \in 1..MaxClients, len \in Lengths :
            /\ client_mutex = Nobody
            /\ Begin(Handler, build_user_list_locked(n, len))
            /\ unfit' = (unfit \/ Unfit(n, len))
    /\ UNCHANGED client_mutex

(* Mutant of broadcast_user_list: the list is sent after the unlock. *)
BroadcastAfterUnlock(s) ==
    /\ client_mutex = Nobody
    /\ \E n \in 1..MaxClients, len \in Lengths :
        /\ Begin(s, build_user_list_locked(n, len))
        /\ unfit' = (unfit \/ Unfit(n, len))
    /\ UNCHANGED client_mutex

broadcast_user_list(s) ==
    /\ client_mutex = Nobody
    /\ client_mutex' = s
    /\ \E n \in 1..MaxClients, len \in Lengths :
        /\ Begin(s, build_user_list_locked(n, len))
        /\ unfit' = (unfit \/ Unfit(n, len))

(* client_list_broadcast and periodic_global. *)
client_list_broadcast(s) ==
    /\ client_mutex = Nobody
    /\ client_mutex' = s
    /\ Begin(s, <<Token("k"), Newline>>)
    /\ UNCHANGED unfit

(* The broadcast goes on to other clients, and ends. *)
Unlock(s) ==
    /\ client_mutex = s
    /\ Idle(s)
    /\ client_mutex' = Nobody
    /\ UNCHANGED <<buffer, total, wire, client, torn, unfit>>

(* Another message of which a part was sent. *)
Middle(s) == 0 < total[s] /\ total[s] < Len(buffer[s])

Return(s) ==
    /\ buffer' = [buffer EXCEPT ![s] = <<>>]
    /\ total' = [total EXCEPT ![s] = 0]

(* send took n bytes. *)
Took(s, n) ==
    IF total[s] + n = Len(buffer[s]) THEN Return(s)
    ELSE total' = [total EXCEPT ![s] = @ + n] /\ UNCHANGED buffer

(* Mutant of Offered: after a partial send it begins again. *)
OfferedAgain(s) == SubSeq(buffer[s], 1, Len(buffer[s]) - total[s])

Offered(s) == SubSeq(buffer[s], total[s] + 1, Len(buffer[s]))

(* One send of what is left, of which the connection takes a part, or      *)
(* which fails.                                                            *)
send_all(s) ==
    /\ ~Idle(s)
    /\ \/ /\ connected
          /\ \E n \in 1..(Capacity - Len(wire)) :
                /\ n <= Len(Offered(s))
                /\ wire' = wire \o SubSeq(Offered(s), 1, n)
                /\ Took(s, n)
          /\ torn' = (torn \/ \E d \in Senders \ {s} : Middle(d))
       \/ /\ ~connected
          /\ Return(s)
          /\ UNCHANGED <<wire, torn>>
    /\ UNCHANGED <<client_mutex, client, unfit>>

-----------------------------------------------------------------------------
(* The client. *)

IsHeader(l) == l # <<>> /\ l[1].c.is = "header"
Entries(l) == l[1].c.n
IsEnd(l) == Len(l) = 1 /\ l[1].c.is = "END"

(* handle_server_message, handle_users_message and the loop of main: what  *)
(* is done with a line.                                                    *)
handle_server_message(l) ==
    \/ /\ mode = "top" /\ IsHeader(l)
       /\ IF Entries(l) > MAX_USERS_DISPLAY
          THEN connected' = FALSE /\ UNCHANGED <<mode, left>>
          ELSE mode' = "body" /\ left' = Entries(l) /\ UNCHANGED connected
    \/ /\ mode = "top" /\ ~IsHeader(l)
       /\ UNCHANGED <<mode, left, connected>>
    \/ /\ mode = "body" /\ left > 0
       /\ left' = left - 1
       /\ UNCHANGED <<mode, connected>>
    \/ /\ mode = "body" /\ left = 0
       /\ connected' = IsEnd(l)
       /\ mode' = "top"
       /\ UNCHANGED left

IsFull(l) == Len(l) = MaxMsg - 1

After(b) == IF b.last THEN 1 ELSE b.no + 1

(* recv_line, a byte at a time: a line ends at the newline, or when the    *)
(* buffer is full.                                                         *)
recv_line ==
    /\ connected
    /\ wire # <<>>
    /\ due' = [due EXCEPT ![Head(wire).by] = After(Head(wire))]
    /\ wire' = Tail(wire)
    /\ LET b == Head(wire)
           l == IF b.c = Newline THEN line ELSE Append(line, b)
       IN  \/ /\ b.c = Newline \/ IsFull(l)
              /\ line' = <<>>
              /\ handle_server_message(l)
           \/ /\ b.c # Newline /\ ~IsFull(l)
              /\ line' = l
              /\ UNCHANGED <<mode, left, connected>>
    /\ UNCHANGED <<client_mutex, buffer, total, torn, unfit>>

Next ==
    \/ Answer \/ recv_line
    \/ \E s \in Others :
        broadcast_user_list(s) \/ client_list_broadcast(s) \/ Unlock(s)
    \/ \E s \in Senders : send_all(s)

Spec == Init /\ [][Next]_vars

-----------------------------------------------------------------------------
(***************************************************************************)
(* Properties.                                                             *)
(***************************************************************************)

(* Nothing is lost, doubled or moved: of each thread the bytes on their    *)
(* way follow those read and are followed by those still to send, each in  *)
(* its place, however little each send took and whoever sent in between.   *)
Of(s) == {i \in DOMAIN wire : wire[i].by = s}
Upcoming(s) == IF Idle(s) THEN 1 ELSE total[s] + 1

InOrder ==
    connected => \A s \in Senders :
        /\ \A i \in Of(s) : (\A j \in Of(s) : i <= j) => wire[i].no = due[s]
        /\ \A i, k \in Of(s) :
              i < k /\ (\A j \in Of(s) : j <= i \/ k <= j) => wire[k].no = After(wire[i])
        /\ \A i \in Of(s) : (\A j \in Of(s) : j <= i) => After(wire[i]) = Upcoming(s)
        /\ Of(s) = {} => due[s] = Upcoming(s)

(* With the types, and the bounds of the connection and of the line.       *)
StreamInv == TypeOK /\ InOrder

(* Two broadcasts never mix: whenever two threads are in the middle of a   *)
(* message to one client, one of them handles that client.                 *)
TornByHandler ==
    \A s, d \in Senders : s # d /\ Middle(s) /\ Middle(d) => Handler \in {s, d}

(* The client stays in step with the server: it never takes an answer for  *)
(* a protocol error, and when nothing is on its way it waits for the first *)
(* line of a message, unless an answer was sent in the middle of a         *)
(* broadcast, or a list did not fit its buffer or the client's table.      *)
InStep ==
    ~torn /\ ~unfit =>
        /\ connected
        /\ wire = <<>> /\ (\A s \in Senders : Idle(s)) => mode = "top" /\ line = <<>>

(***************************************************************************)
(* The inductive invariants behind TornByHandler and StreamInv.            *)
(***************************************************************************)
BroadcastInv ==
    /\ DOMAIN buffer = Senders /\ total \in [Senders -> Nat]
    /\ \A s \in Others : ~Idle(s) => client_mutex = s

(* What a thread sends is numbered, and it has something left to send as   *)
(* long as it is in send_all.                                              *)
SendInv ==
    /\ total \in [Senders -> Nat]
    /\ \A s \in Senders : Idle(s) \/ total[s] < Len(buffer[s])
    /\ \A s \in Senders : \A i \in 1..Len(buffer[s]) :
        /\ buffer[s][i].by = s /\ buffer[s][i].no = i
        /\ buffer[s][i].last = (i = Len(buffer[s]))

IInv == TypeOK /\ SendInv /\ InOrder
=============================================================================
