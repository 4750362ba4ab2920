---------------------------- MODULE Connections ----------------------------
(***************************************************************************)
(* Descriptors, client_t blocks and broadcasts of server/server.c.         *)
(*                                                                         *)
(* A client is known by three things that live at different times: the     *)
(* connection (a peer), the descriptor accept gives it, and the block      *)
(* calloc gives it, which is what client_list links and what its handler   *)
(* thread points to.  close frees the descriptor, client_list_remove finds *)
(* the entry by descriptor and frees the block; both may be used again for *)
(* the next client, even while an older thread still holds them.           *)
(*                                                                         *)
(* A thread is named by the peer it was created for, or is Main (the       *)
(* accept loop) or Periodic (any thread that only broadcasts: the timer,   *)
(* the sender of maps).  Every send_all is a step; broadcasts send under   *)
(* client_mutex, which is client_lock, and replies without it.             *)
(*                                                                         *)
(* Abstracted: what a command does besides answering or broadcasting       *)
(* (Session, Scores, Accounts), and the bytes of a message (Framing).      *)
(***************************************************************************)
EXTENDS Integers, Sequences, SequencesExt

CONSTANTS
    Peers,       \* connections; each is made once
    Fds,         \* descriptors the process may have open for clients
    Blocks,      \* addresses calloc may return
    Main, Periodic, None,
    MaxCommands, \* bound: commands a peer sends
    MaxTicks,    \* bound: broadcasts of Periodic
    Faults       \* calls of main that may fail: "accept", "calloc",
                 \* "pthread_create"

Threads == Peers \cup {Main, Periodic}
Bad == -1        \* no descriptor, or the remains of one in a freed block

ASSUME FdsAssumption == Fds \subseteq Nat
ASSUME ThreadsAssumption ==
    Main \notin Peers /\ Periodic \notin Peers /\ Main # Periodic
ASSUME NoneAssumption == None \notin Peers \cup Blocks \cup Threads
ASSUME BoundsAssumption == MaxCommands \in Nat /\ MaxTicks \in Nat

VARIABLES
    server,      \* "running", "stopping" after a signal, "exited", "killed"
    wire,        \* state of each connection as the server's kernel has it
    table,       \* descriptor -> connection, or None
    heap,        \* "used" or "free"
    fd,          \* field fd of each block, freed ones included
    client_list, \* blocks, head first
    client_lock, \* holder of client_mutex
    pc, mine,    \* position of a thread and the block its c points to
    arg,         \* descriptor a thread removes by
    todo,        \* entries a broadcast has still to reach
    said,        \* commands each peer has sent, ticks of Periodic
    older,       \* history: broadcasts under way when that of a thread began
    overtaken,   \* history: <<t, p>>, p was sent a newer broadcast than t's
    reused,      \* history: a descriptor was given away while in the list
    late         \* history: clients accepted after the signal

sockets == <<server, wire, table>>
memory == <<heap, fd, client_list>>
local == <<pc, mine, arg>>
tell == <<todo, older, overtaken>>
history == <<reused, late>>
vars == <<sockets, memory, client_lock, local, tell, said, history>>

Up == server \in {"running", "stopping"}
Telling == {"hello", "say", "told", "last"}    \* positions that broadcast
Serving == {"greet", "hello", "loop", "say", "close", "closed", "remove"}
Positions ==
    {"none", "new", "test", "accept", "add", "create", "done"} \cup Telling \cup Serving

TypeOK ==
    /\ server \in {"running", "stopping", "exited", "killed"}
    /\ wire \in [Peers -> {"away", "open", "full", "gone", "reset", "closed"}]
    /\ table \in [Fds -> Peers \cup {None}]
    /\ heap \in [Blocks -> {"free", "used"}]
    /\ fd \in [Blocks -> Fds \cup {Bad}]
    /\ client_list \in Seq(Blocks)
    /\ client_lock \in Threads \cup {None}
    /\ pc \in [Threads -> Positions]
    /\ mine \in [Threads -> Blocks \cup {None}]
    /\ arg \in [Threads -> Fds \cup {Bad}]
    /\ todo \in [Threads -> Seq(Blocks)]
    /\ older \in [Threads -> SUBSET Threads]
    /\ overtaken \subseteq Threads \X Peers
    /\ said \in [Threads -> Nat]
    /\ reused \in BOOLEAN /\ late \in Nat

Init ==
    /\ server = "running"
    /\ wire = [p \in Peers |-> "away"]
    /\ table = [f \in Fds |-> None]
    /\ heap = [b \in Blocks |-> "free"]
    /\ fd = [b \in Blocks |-> Bad]
    /\ client_list = <<>>
    /\ client_lock = None
    /\ pc = [t \in Threads |->
                IF t = Main THEN "test" ELSE IF t = Periodic THEN "last" ELSE "none"]
    /\ mine = [t \in Threads |-> None]
    /\ arg = [t \in Threads |-> Bad]
    /\ todo = [t \in Threads |-> <<>>]
    /\ older = [t \in Threads |-> {}]
    /\ overtaken = {}
    /\ said = [t \in Threads |-> 0]
    /\ reused = FALSE
    /\ late = 0

Goto(t, to) == pc' = [pc EXCEPT ![t] = to]

-----------------------------------------------------------------------------
(* The network and the signals. *)

(* The peer reads what was waiting for it. *)
Drain(p) ==
    /\ Up /\ wire[p] = "full"
    /\ wire' = [wire EXCEPT ![p] = "open"]
    /\ UNCHANGED <<server, table, memory, client_lock, local, tell, said, history>>

(* The peer closes its end, or is lost. *)
PeerLeaves(p) ==
    /\ Up /\ wire[p] \in {"open", "full"}
    /\ wire' = [wire EXCEPT ![p] = "gone"]
    /\ UNCHANGED <<server, table, memory, client_lock, local, tell, said, history>>

(* SIGINT or SIGTERM: accept returns EINTR (under -std=c11 signal does not *)
(* restart it) and the loop begins again, but not if main has tested       *)
(* running and is only about to call it, or another thread is interrupted. *)
handle_signal ==
    /\ server = "running"
    /\ server' = "stopping"
    /\ \/ pc[Main] = "accept" /\ Goto(Main, "test")
       \/ UNCHANGED pc
    /\ UNCHANGED <<wire, table, memory, client_lock, mine, arg, tell, said, history>>

ConnectionOf(f) == IF f \in Fds THEN table[f] ELSE None

(* Mutant of Send: an error is tried again. *)
SendInsists(f) ==
    LET q == ConnectionOf(f) IN
    /\ q # None /\ wire[q] \in {"open", "gone"}
    /\ \E s \in {"full", "reset", wire[q]} : wire' = [wire EXCEPT ![q] = s]
    /\ UNCHANGED server

(* send on descriptor f.  It waits while the peer does not read; to a peer *)
(* that has gone it succeeds once and may bring back a reset, after which  *)
(* the next one raises SIGPIPE, which nobody ignores.                      *)
Send(f) ==
    LET q == ConnectionOf(f) IN
    \/ q = None /\ UNCHANGED <<server, wire>>
    \/ /\ q # None
       /\ \/ /\ wire[q] = "open"
             /\ \E s \in {"open", "full"} : wire' = [wire EXCEPT ![q] = s]
             /\ UNCHANGED server
          \/ /\ wire[q] = "gone"
             /\ \E s \in {"gone", "reset"} : wire' = [wire EXCEPT ![q] = s]
             /\ UNCHANGED server
          \/ wire[q] = "reset" /\ server' = "killed" /\ UNCHANGED wire

Close(f) ==
    IF ConnectionOf(f) = None
    THEN UNCHANGED <<wire, table>>
    ELSE /\ wire' = [wire EXCEPT ![table[f]] = "closed"]
         /\ table' = [table EXCEPT ![f] = None]

-----------------------------------------------------------------------------
(* Broadcasts: broadcast_user_list and client_list_broadcast. *)

(* Where a thread goes on when its broadcast is over; a handler tests      *)
(* running before it waits for the next command.                           *)
After(t) ==
    CASE t = Main -> "test"
      [] t = Periodic -> "last"
      [] t \in Peers /\ pc[t] = "told" -> "last"
      [] t \in Peers /\ pc[t] = "last" -> "done"
      [] OTHER -> IF server = "running" THEN "loop" ELSE "close"

(* Mutant of Lock: the list is copied under the lock and sent without it. *)
LockCopies(t) ==
    /\ Up /\ pc[t] \in Telling /\ client_lock = None /\ todo[t] = <<>>
    /\ client_list # <<>>
    /\ todo' = [todo EXCEPT ![t] = client_list]
    /\ older' = [older EXCEPT ![t] = {u \in Threads : todo[u] # <<>>}]
    /\ said' = IF t = Periodic THEN [said EXCEPT ![t] = @ + 1] ELSE said
    /\ t = Periodic => said[t] < MaxTicks
    /\ UNCHANGED <<sockets, memory, client_lock, local, overtaken, history>>

Lock(t) ==
    /\ Up /\ pc[t] \in Telling /\ client_lock = None /\ todo[t] = <<>>
    /\ client_list # <<>>
    /\ client_lock' = t
    /\ todo' = [todo EXCEPT ![t] = client_list]
    /\ older' = [older EXCEPT ![t] = {u \in Threads : todo[u] # <<>>}]
    /\ said' = IF t = Periodic THEN [said EXCEPT ![t] = @ + 1] ELSE said
    /\ t = Periodic => said[t] < MaxTicks
    /\ UNCHANGED <<sockets, memory, local, overtaken, history>>

(* Nobody is there to be told. *)
TellNobody(t) ==
    /\ Up /\ pc[t] \in Telling /\ client_lock = None /\ client_list = <<>>
    /\ t # Periodic
    /\ Goto(t, After(t))
    /\ UNCHANGED <<sockets, memory, client_lock, mine, arg, tell, said, history>>

(* The connection the next message of t reaches, and the older broadcasts  *)
(* that it overtakes there.                                                *)
Reaches(t, p) ==
    todo[t] # <<>> /\ ConnectionOf(fd[Head(todo[t])]) = p /\ wire[p] = "open"
Overtakes(t) ==
    overtaken \cup {x \in older[t] \X Peers : Reaches(t, x[2])}

(* The next entry is sent to, whatever became of its connection; the last  *)
(* one is followed by the release of the mutex.                            *)
SendNext(t) ==
    /\ Up /\ todo[t] # <<>>
    /\ Send(fd[Head(todo[t])])
    /\ todo' = [todo EXCEPT ![t] = Tail(@)]
    /\ IF Len(todo[t]) = 1
       THEN /\ client_lock' = IF client_lock = t THEN None ELSE client_lock
            /\ Goto(t, After(t))
            /\ older' = [u \in Threads |-> IF u = t THEN {} ELSE older[u] \ {t}]
            /\ overtaken' = {x \in Overtakes(t) : x[1] # t}
       ELSE /\ UNCHANGED <<client_lock, pc, older>>
            /\ overtaken' = Overtakes(t)
    /\ UNCHANGED <<table, memory, mine, arg, said, history>>

-----------------------------------------------------------------------------
(* Main: the accept loop. *)

TestRunning ==
    /\ Up /\ pc[Main] = "test"
    /\ IF server = "running"
       THEN Goto(Main, "accept") /\ UNCHANGED server
       ELSE server' = "exited" /\ UNCHANGED pc
    /\ UNCHANGED <<wire, table, memory, client_lock, mine, arg, tell, said, history>>

LowestFree(f) == table[f] = None /\ \A g \in Fds : table[g] = None => f <= g

(* accept has given descriptor f to p, and calloc block b. *)
Given(p, f) ==
    /\ LowestFree(f)
    /\ wire' = [wire EXCEPT ![p] = "open"]
    /\ table' = [table EXCEPT ![f] = p]
    /\ arg' = [arg EXCEPT ![Main] = f]
    /\ pc' = [pc EXCEPT ![Main] = "add", ![p] = "new"]
    /\ reused' = (reused \/ \E b \in ToSet(client_list) : fd[b] = f)
    /\ late' = IF server = "stopping" THEN late + 1 ELSE late
    /\ UNCHANGED <<server, client_list>>

(* accept and calloc.  The lowest descriptor that is free is used; without *)
(* memory it is closed again.  Any failure of accept but an interruption,  *)
(* such as no descriptor being left, ends the loop and the server.         *)
Accept(p) ==
    /\ Up /\ pc[Main] = "accept" /\ wire[p] = "away"
    /\ \/ \E f \in Fds, b \in Blocks :
            /\ Given(p, f) /\ heap[b] = "free"
            /\ heap' = [heap EXCEPT ![b] = "used"]
            /\ fd' = [fd EXCEPT ![b] = f]
            /\ mine' = [mine EXCEPT ![Main] = b]
       \/ /\ \E f \in Fds : table[f] = None
          /\ "calloc" \in Faults
          /\ wire' = [wire EXCEPT ![p] = "closed"]
          /\ Goto(Main, "test")
          /\ UNCHANGED <<server, table, memory, mine, arg, history>>
       \/ /\ "accept" \in Faults \/ \A f \in Fds : table[f] # None
          /\ server' = "exited"
          /\ UNCHANGED <<wire, table, memory, local, history>>
    /\ UNCHANGED <<client_lock, tell, said>>

client_list_add ==
    /\ Up /\ pc[Main] = "add" /\ client_lock = None
    /\ client_list' = <<mine[Main]>> \o client_list
    /\ Goto(Main, "create")
    /\ UNCHANGED <<sockets, heap, fd, client_lock, mine, arg, tell, said, history>>

(* pthread_create, and close when it fails.  Until then the position of    *)
(* the thread to be is "new".                                              *)
CreateThread(p) ==
    /\ Up /\ pc[Main] = "create" /\ pc[p] = "new"
    /\ \/ /\ pc' = [pc EXCEPT ![Main] = "test", ![p] = "greet"]
          /\ mine' = [mine EXCEPT ![Main] = None, ![p] = mine[Main]]
          /\ arg' = [arg EXCEPT ![Main] = Bad]
          /\ UNCHANGED sockets
       \/ /\ "pthread_create" \in Faults
          /\ Close(arg[Main])
          /\ pc' = [pc EXCEPT ![Main] = "remove", ![p] = "none"]
          /\ UNCHANGED <<server, mine, arg>>
    /\ UNCHANGED <<memory, client_lock, tell, said, history>>

-----------------------------------------------------------------------------
(* A handler thread: handle_client. *)

Greet(p) ==
    /\ Up /\ pc[p] = "greet"
    /\ Send(fd[mine[p]])
    /\ Goto(p, "hello")
    /\ UNCHANGED <<table, memory, client_lock, mine, arg, tell, said, history>>

(* Mutant of RecvFails: the end of a connection is not an error. *)
RecvGoesOn(p) ==
    /\ Up /\ pc[p] = "loop"
    /\ LET q == ConnectionOf(fd[mine[p]]) IN q # None => wire[q] = "reset"
    /\ Goto(p, "close")
    /\ UNCHANGED <<sockets, memory, client_lock, mine, arg, tell, said, history>>

(* recv_line finds no connection, or its end. *)
RecvFails(p) ==
    /\ Up /\ pc[p] = "loop"
    /\ LET q == ConnectionOf(fd[mine[p]]) IN
        q # None => wire[q] \in {"gone", "reset"}
    /\ Goto(p, "close")
    /\ UNCHANGED <<sockets, memory, client_lock, mine, arg, tell, said, history>>

(* A command is read and answered: one that is done with its answer, one   *)
(* that broadcasts as well, or QUIT.                                       *)
Command(p) ==
    /\ Up /\ pc[p] = "loop" /\ said[p] < MaxCommands
    /\ LET q == ConnectionOf(fd[mine[p]]) IN
        q # None /\ wire[q] \in {"open", "full", "gone"}
    /\ Send(fd[mine[p]])
    /\ \E to \in {IF server = "running" THEN "loop" ELSE "close", "say", "close"} :
        Goto(p, to)
    /\ said' = [said EXCEPT ![p] = @ + 1]
    /\ UNCHANGED <<table, memory, client_lock, mine, arg, tell, history>>

CloseSocket(p) ==
    /\ Up /\ pc[p] = "close"
    /\ Close(fd[mine[p]])
    /\ Goto(p, "closed")
    /\ UNCHANGED <<server, memory, client_lock, mine, arg, tell, said, history>>

(* What the entry is removed by is read from the block once more, before   *)
(* the mutex is waited for.                                                *)
ReadDescriptor(p) ==
    /\ Up /\ pc[p] = "closed"
    /\ arg' = [arg EXCEPT ![p] = fd[mine[p]]]
    /\ Goto(p, "remove")
    /\ UNCHANGED <<sockets, memory, client_lock, mine, tell, said, history>>

(* Mutant of FirstWith: the head, whatever its descriptor. *)
HeadOf(f, i) == i = 1 /\ f \in Fds /\ client_list # <<>>

(* The first entry with descriptor f. *)
FirstWith(f, i) ==
    /\ i \in DOMAIN client_list /\ fd[client_list[i]] = f
    /\ \A j \in DOMAIN client_list : fd[client_list[j]] = f => i <= j

(* Mutant of client_list_remove: the block is freed and stays linked. *)
RemoveKeepsLink(t) ==
    /\ Up /\ pc[t] = "remove" /\ client_lock = None
    /\ \E i \in DOMAIN client_list :
        /\ FirstWith(arg[t], i)
        /\ heap' = [heap EXCEPT ![client_list[i]] = "free"]
    /\ Goto(t, "told")
    /\ UNCHANGED <<fd, client_list, sockets, client_lock, mine, arg, tell, said, history>>

(* The entry is unlinked and freed; of its descriptor the allocator leaves *)
(* what it was or overwrites it.  The user list is sent to those who       *)
(* remain.                                                                 *)
client_list_remove(t) ==
    /\ Up /\ pc[t] = "remove" /\ client_lock = None
    /\ \/ \E i \in DOMAIN client_list :
            /\ FirstWith(arg[t], i)
            /\ client_list' = RemoveAt(client_list, i)
            /\ heap' = [heap EXCEPT ![client_list[i]] = "free"]
            /\ \E f \in {arg[t], Bad} : fd' = [fd EXCEPT ![client_list[i]] = f]
       \/ /\ \A i \in DOMAIN client_list : fd[client_list[i]] # arg[t]
          /\ UNCHANGED memory
    /\ Goto(t, IF client_list' # <<>> THEN "told" ELSE IF t = Main THEN "test" ELSE "last")
    /\ mine' = [mine EXCEPT ![t] = None]
    /\ arg' = [arg EXCEPT ![t] = Bad]
    /\ UNCHANGED <<sockets, client_lock, tell, said, history>>

-----------------------------------------------------------------------------
Handler(p) ==
    \/ Greet(p) \/ RecvFails(p) \/ Command(p) \/ CloseSocket(p)
    \/ ReadDescriptor(p) \/ client_list_remove(p) \/ Lock(p) \/ TellNobody(p) \/ SendNext(p)

MainStep ==
    \/ TestRunning \/ client_list_add \/ client_list_remove(Main)
    \/ Lock(Main) \/ TellNobody(Main) \/ SendNext(Main)
    \/ \E p \in Peers : Accept(p) \/ CreateThread(p)

PeriodicStep == Lock(Periodic) \/ SendNext(Periodic)

Next ==
    \/ MainStep \/ PeriodicStep \/ handle_signal
    \/ \E p \in Peers : Handler(p) \/ Drain(p) \/ PeerLeaves(p)

Spec == Init /\ [][Next]_vars

(* A thread that can take a step is scheduled and obtains a mutex that     *)
(* stays free; a client reads what it is sent (its loop is a select over   *)
(* keyboard and socket).  Nothing makes a client come, speak or leave.     *)
FairSpec ==
    /\ Spec
    /\ WF_vars(MainStep) /\ WF_vars(PeriodicStep)
    /\ \A p \in Peers :
        WF_vars(Handler(p)) /\ WF_vars(Drain(p))

-----------------------------------------------------------------------------
(* Properties. *)

Listed == ToSet(client_list)

(* A block is in use exactly while it is linked, or while main is about to *)
(* link it: no removal, not even one that takes the wrong entry, frees a   *)
(* block twice, loses one or leaves a freed one in the list.               *)
HeapSound ==
    /\ IsInjective(client_list)
    /\ \A b \in Blocks :
        heap[b] = "used" <=> b \in Listed \/ (pc[Main] = "add" /\ mine[Main] = b)

(* A broadcast under way only follows entries that are still linked, and   *)
(* so not freed, although clients leave meanwhile.                         *)
TraversalSafe == \A t \in Threads : ToSet(todo[t]) \subseteq Listed

(* Every client is sent the announcements in one and the same order,       *)
(* whatever threads make them and whoever comes and goes.                  *)
OrderAgreed ==
    [][\A t \in Threads, p \in Peers :
        Reaches(t, p) /\ todo'[t] # todo[t] => <<t, p>> \notin overtaken]_vars

(* Inductive form of the three: nobody broadcasts without the mutex, what  *)
(* main is about to link is new, and so no broadcast is ever overtaken.    *)
ListInv ==
    /\ TypeOK
    /\ HeapSound /\ TraversalSafe
    /\ \A t \in Threads : todo[t] # <<>> => client_lock = t /\ pc[t] \in Telling
    /\ \A t \in Threads :
        pc[t] \in Serving \cup {"add", "create"} => mine[t] \in Blocks
    /\ pc[Main] = "add" => mine[Main] \notin Listed
    /\ \A t \in Threads : older[t] = {}
    /\ overtaken = {}

(* A peer that has not come has no thread.                                 *)
AwayInv == \A p \in Peers : wire[p] = "away" => pc[p] = "none"

Before == Serving \ {"closed", "remove"}

(* As long as accept has not given away the descriptor of an entry that is *)
(* still linked, the entry of a client is there until its own thread takes *)
(* it out, and its descriptor leads to its connection.                     *)
EntryKept ==
    ~reused =>
        \A p \in Peers :
            /\ pc[p] \in Serving => mine[p] \in Listed
            /\ pc[p] \in Before => ConnectionOf(fd[mine[p]]) = p

Held == {"add", "create", "remove"}    \* main has a client in hand

(* Inductive form of EntryKept: descriptors tell the entries apart, the    *)
(* blocks of two threads differ, and a thread removes by the descriptor of *)
(* its own block.                                                          *)
KeptInv ==
    /\ EntryKept
    /\ ~reused =>
        /\ \A b, d \in Listed : fd[b] = fd[d] => b = d
        /\ \A p, q \in Peers :
            pc[p] \in Serving /\ pc[q] \in Serving /\ mine[p] = mine[q] => p = q
        /\ \A p \in Peers :
            /\ pc[p] = "remove" => arg[p] = fd[mine[p]]
            /\ pc[p] = "new" =>
                pc[Main] \in {"add", "create"} /\ ConnectionOf(arg[Main]) = p
        /\ pc[Main] \in Held =>
            /\ arg[Main] = fd[mine[Main]]
            /\ \A p \in Peers : pc[p] \in Serving => mine[p] # mine[Main]
        /\ pc[Main] = "add" => \A b \in Listed : fd[b] # arg[Main]
        /\ pc[Main] \in {"create", "remove"} => mine[Main] \in Listed

(* After a signal at most one more client is accepted: the one that comes  *)
(* when the signal fell between the test of running and accept.            *)
LateOnce == late <= 1

(* Its inductive form: the one more is accepted by a loop that had tested  *)
(* running before, and that does not wait for a client again.              *)
LateInv ==
    /\ late \in {0, 1}
    /\ server = "running" => late = 0
    /\ late = 1 => pc[Main] # "accept"

(* A broadcast comes to its end, and client_mutex with it, as long as      *)
(* clients read.                                                           *)
BroadcastEnds == client_lock # None ~> (client_lock = None \/ ~Up)

(* The connection of a client that is gone is closed, unless a descriptor  *)
(* was given away too early.                                               *)
LeaverClosed ==
    \A p \in Peers :
        wire[p] \in {"gone", "reset"} ~> (wire[p] = "closed" \/ reused \/ ~Up)

-----------------------------------------------------------------------------
(* Statements of the comments that the code does not keep. *)

(* "fd: socket descriptor identifying the client to remove" (server.c:399):*)
(* the entry of a client that is served is not taken out by another.       *)
OwnEntry == \A p \in Peers : pc[p] \in Before => mine[p] \in Listed

(* "Ignores individual send failures because disconnect cleanup is handled *)
(* elsewhere" (server.c:198): no departure ends the server.                *)
Survives == server # "killed"
=============================================================================
