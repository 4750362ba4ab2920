# Verification of the labyrinth game

TLA+ modules, TLC configurations and TLAPS proofs about the multiplayer
labyrinth of this repository: a threaded C server (`server/`), a terminal client
(`client/`) and the line protocol between them (`common/`, `docs/protocol.md`).

## 1. The system

| component | state it keeps | operations | interacts by |
|---|---|---|---|
| session and lobby (`server.c`) | `session_state`, `timer_started`, `session_start_time`; the linked list `client_list` with `is_owner`, `ready`, `logged_in`, `exit_reached` of each `client_t` | accept, READY, START, RESET, MOVE onto the exit, QUIT / lost connection, the timer's tick | `session_mutex`, `client_mutex`, broadcasts of `SESSION ...` lines |
| match (`server.c`, `game.c`) | `maze`, `pos`, `visible`, `objects_collected`, `exit_reached` | START's generation and spawn, MOVE, LOCAL, GLOBAL, RESET | `maze_mutex`, inside or after the session's locks; many fields are written without any |
| maze (`game.c`) | the cell matrix | recursive carving, exit placement, objects, views | called by START and MOVE |
| scores (`server.c`) | `known_scores` (64 entries) | remembered on disconnection, cleared by RESET, merged and sorted by RANK | `score_mutex`, then `client_mutex` |
| accounts (`server.c`, `redis_threadsafe.c`) | Redis keys `user:<nick>`, `nickname`, `logged_in` | REGISTER, LOGIN | `redis_mutex` per command, `client_mutex` for the nickname check |
| connections (`server.c`) | descriptors, `client_t` blocks, `running` | accept, close, removal by descriptor, broadcasts entry by entry, signals | kernel descriptor table, `client_mutex` |
| periodic maps (`server.c`) | none | every 5 s a map and the time to each client | reads everything, sends under `client_mutex` |
| framing (`common/protocol.c`) | none | `send_all`, `recv_line` | sockets shared by several sending threads |
| client (`client/*.c`) | session phase, input mode, pending authentication, map, users | one `select` loop over keyboard and socket | protocol lines |
| interface, log, build | screen, log file | drawing, appending | - |

What is hard in it: there is a thread per connection, one per timer, an accept
loop and a periodic sender, over four mutexes that are taken in different orders;
handlers read the session state under a lock and act on it after releasing it;
one broadcast is sent under the lock that orders the changes and the others are
not; a client can leave between any two steps.

What makes each component correct:

- *session*: one owner; phases in order; a match starts with everybody ready,
  always has an end, and ends only for a documented reason; everyone is told;
- *match*: nobody stands in a wall; an object is collected once, and counted for
  the match it was taken in; out of the match means on its exit;
- *maze*: every walkable cell and the exit are reachable from `(1,1)`;
- *scores*: a player who left stays in RANK, each nickname once, until RESET;
- *accounts*: a nickname is used by one client, an account is stored once;
- *connections*: the entry that is freed is that of the client that left; broadcasts
  end, and reach all clients in one order; a connection that is over is closed;
- *framing*: nothing is lost or doubled; two messages do not mix; a client reads
  the lists that were sent;
- *client*: its phase and authentication are those of the server once all
  messages have arrived.

## 2. The modules

| module | what it is |
|---|---|
| `Session` | the detailed model of session and lobby, its properties, its inductive invariant and the refinement mapping |
| `SessionAbs` | what the session promises: members, owner, phase, with neither threads nor locks |
| `Scores` | the score fields, the table of remembered scores, RANK, RESET and departures at their locks |
| `Accounts` | LOGIN and REGISTER, command by command of the store |
| `Match` | players in the maze: spawn, moves, objects, exits, discovered cells, the two maps |
| `Connections` | descriptors, blocks, the accept loop, the end of a connection, broadcasts send by send |
| `Framing` | one connection byte by byte: the sends of several threads, and the lines and lists the client makes of them |
| `Maze` | `game_init` with the recursion of `carve` as an explicit stack, and the objects a match collects |
| `Client` | one client, its handler thread and the two streams between them, among the announcements of the other threads |
| `GrowingTree` | what a generation promises: open cells grow by a room and a passage at a time |
| `MCSession`, `MCScores`, `MCAccounts`, `MCMaze`, `MCMatch`, `MCConnections`, `MCFraming`, `MCClient` | model values, instances of the constants and symmetry for TLC |
| `SessionProofs`, `ScoresProofs`, `AccountsProofs`, `MazeProofs`, `MatchProofs`, `ConnectionsProofs`, `FramingProofs`, `ClientProofs` | the theorems and their proofs |

`Session` instantiates `SessionAbs` and `Maze` instantiates `GrowingTree`, and each
is shown to implement it. `Scores`, `Accounts`, `Match` and `Client` take from the session only what
they read of it, and rely on what `Session` shows: that ownership is one value
(it refines `SessionAbs`, which has one owner), and that START meets no MOVE and no
RESET under way (`SpawnAlone`). `Match` plays in any maze with what `Maze` shows of
every generated one (`WellFormed`, `AllRoomsOpen`): that is `IsMaze`. `Framing` takes
from `Connections` that broadcasts are sent under `client_mutex` and answers are not.

### Session and the code

A step is what a thread does between two points where another may get in. A
critical section under one mutex is one action that needs the mutex free. A mutex
that is kept while another is taken is a variable holding its owner: `session_lock`
(START from line 888 to 920, the end of `handle_client` from 1424) and
`client_lock` (MOVE from 1011). An unlocked write (`c->ready = 1`,
`c->exit_reached = 1`) is a step of its own. The position `pc[c]` of a thread
remembers what it read before: `ready_set` has read LOBBY, `move` PLAYING,
`reset_owner` FINISHED, `start_spawn` that all are ready, `rm_last` that no client
remained.

| action | code |
|---|---|
| `client_list_add`, `CreateThread` | accept loop of `main`, 1558-1590; creation may fail (`Faults`) |
| `handle_login` | the effect of a successful LOGIN or REGISTER on `logged_in` |
| `ReadyRead`, `ReadySet` | `handle_ready` |
| `StartTake`, `StartCheck`, `StartSpawn`, `StartBcast` | `handle_start`, `start_game_session`, `assign_spawn_positions` |
| `block_if_not_playing`, `MoveStep`, `MoveExit`, `MoveDone`, `MoveFin`, `MoveBcast` | `handle_move` |
| `ResetRead`, `ResetOwner`, `ResetSet`, `ResetClients`, `ResetBcast` | `handle_reset`, `reset_session_to_lobby` |
| `Quit`, `client_list_remove`, `RemoveLast`, `Cleanup`, `CleanupCheck`, `CleanupBcast` | the end of `handle_client`, `client_list_remove`; `main` removes with the same actions a client whose thread it could not create |
| `TimerTick`, `TimerBcast`, `Clock` | `session_timer`; `Clock` is the passing of the 300 seconds |

Abstracted: a move either reaches the exit or not; nicknames, positions, objects
and user lists are not there; sending a reply or a user list changes nothing in
the model (so a thread that would block in `broadcast_user_list` is at its next
position already); the leaf locks `maze_mutex` and `score_mutex` are never kept
while another is taken and are left out. In `StartSpawn` the writes to the session
that follow the spawn section belong to the same action, because `session_mutex`
hides them until it is released. A connection is used once.

A client's `view` is the phase it was last told. `unsaid` is history: the session is
`FINISHED` by `RemoveLast`, the last section of `client_list_remove` (457-462), the one
end of a match that the code announces to nobody. It is there so that the properties can
exempt that end by name and no other. `Jammed` names the state of the deadlock: one thread
keeps `client_mutex` and waits for `session_mutex` (1013), another the reverse (1434).

### Scores and the code

A connection is its descriptor, used again after its client has left, and also the
guest name of that descriptor. `entries[c]` is the array of `score_entry_t` on the
stack of thread `c`: the result of a client that is leaving, or the array RANK fills
and sorts. `copied[c]` is kept beside it: the clients' scores in the order in which
RANK read them, whatever `merge_score_entry` then made of them.

| action | code |
|---|---|
| `client_list_add`, `Greet` | accept, the greeting that names the guest |
| `handle_login`, `SetNickname` | LOGIN or REGISTER: the nickname is found free under `client_mutex`, and written after it |
| `handle_ready`, `Start`, `StartTime` | READY; START, whose write of state and start time follows its reset of the clients |
| `block_if_not_playing`, `MoveStep`, `MoveTime`, `MoveDone` | `handle_move`, with `exit_reached` and `exit_time` written one after the other |
| `session_timer`, `handle_reset`, `clear_known_scores`, `ResetClients` | the end by time; RESET's three sections |
| `client_list_remove`, `remember_score`, `LeaveEnd` | a departure: unlinked, remembered, and the end of the match if it was the last (two sections that `Session` takes apart, here one) |
| `RankKnown`, `RankList`, `RankNext`, `RankSort`, `RankPrint` | `handle_rank`: the table, the first client, each of the others, `qsort`, the lines |

RANK goes through the list under `client_mutex` (`ListFree` says that nobody does), so
nobody is linked, unlinked or reset meanwhile; but a MOVE writes its score without that
mutex, between two clients of the list, which is why each client is a step.

`Sorted` is any order that the comparator accepts: `qsort` is not stable.
`RankOrder` is stated for a start time that does not change between `qsort` and the
printing of the lines: both read `session_start_time` without its mutex. The
comments at `server.c:1145-1146` and `server.c:1224` speak of exit times and then
objects; the comparator uses the score, as `protocol.md` does, and so does the property.

Two clients that were found free to take one nickname share it (the state is reached), and
of two entries of one nickname RANK keeps the later: that is an exception of
`RankShowsCurrent`. The other is a full array: there a client may have no line, but
never an older one.

### Accounts and the code

| action | code |
|---|---|
| `LoginGet` | `handle_login`, GET and the comparison with its answer |
| `RegisterExists`, `RegisterSet` | `handle_register`, EXISTS and SET |
| `CheckNick`, `SetNick` | `is_nickname_taken` under `client_mutex`, and the two unlocked writes after it |
| `Connect`, `client_list_remove` | a client comes and goes between commands |

The store is external: it carries out a command at once, or, when the command is
in `Faults`, there may be no reply. `lost` is a history variable: the nicknames of
which a SET was not carried out. REGISTER ignores that, so `AuthHasAccount`
exempts them. Two more say when the checks can fail, and that they fail in no other
way: `met` (a nickname was taken by one client while another had looked for it and
not yet taken it; `NickShared`) and `outrun` (an account came to be between the
EXISTS and the SET of a REGISTER, or EXISTS got no reply; `PasswordReplaced`).

### Match and the code

| action | code |
|---|---|
| `client_list_add`, `CreateThread` | `main` links a zeroed block and creates its thread, or cannot and removes it again |
| `BeginX`, `BeginY`, `BeginMark` | the thread begins: it writes each coordinate of (1, 1) and marks what lies around its client, with no mutex |
| `start_game_session`, `StartY`, `StartMark` | `game_init` and, for the listed clients together, the first coordinate of their rooms, the second, and the marks around where they then are; PLAYING |
| `MoveAsk`, `MoveSee`, `game_move`, `MoveMark`, `MoveCount`, `MoveOut`, `MoveDone` | `handle_move`: the test of PLAYING, of `exit_reached`, the two halves of the section under `maze_mutex`, the count after a send, the flag, the end of the match |
| `session_timer`, `ResetSet`, `reset_client_for_lobby`, `ResetClear`, `ResetMark` | the end by time; RESET sets the lobby, then puts the listed clients back, clears their `visible` and marks again |
| `client_list_remove`, `RemoveLast`, `Cleanup` | the end of a connection, with its two tests of what remains |
| `handle_local`, `handle_global` (no steps) | the maps, with `game_build_local_view`, `game_build_global_view`, `cell_char`, `get_other_positions` |

`carry` is what a MOVE keeps in local variables. `taken`, `lost` and `onexit` are
history: the objects counted for each client, those of clients that left, and
the clients that stand on the exit because their own thread put them there. START, RESET
and a thread that begins write one client's position and `visible` with no mutex in
common, so these writes are steps apart, and what is left is what their
order leaves: a client between a room and (1, 1), or marks around a place where it no
longer is. Clearing or marking a whole `visible` array is one step, for every client START
or RESET goes through. A RESET that meets the unlocked writes of a MOVE may leave either
value of each coordinate and of the count. The spawn is
by list order round the rooms, row by row (`documentation.tex:264` says at random;
the code does not). A player out of the match has its view centred at (-1, -1). A
player placed on an object does not collect it, which `Conserved` allows.

### Connections and the code

A thread is named by the connection it was made for; `Main` is the accept loop and
`Periodic` any thread that only broadcasts. `wire` is a connection as the kernel has
it, `table` the descriptors, `heap` and `fd` the blocks, freed ones included.

| action | code |
|---|---|
| `TestRunning`, `Accept`, `client_list_add`, `CreateThread` | the loop of `main`; `accept`, `calloc` and `pthread_create` may fail |
| `handle_signal` | SIGINT, SIGTERM: with `-std=c11` `signal` does not restart `accept` |
| `Greet`, `Command`, `RecvFails`, `CloseSocket`, `ReadDescriptor`, `client_list_remove` | `handle_client`, which reads `c->fd` once for `close` and again for the removal, and the removal by descriptor, at which the allocator may overwrite the block |
| `Lock`, `SendNext`, `TellNobody` | `broadcast_user_list`, `client_list_broadcast`, the sends of `periodic_global` |
| `Drain`, `PeerLeaves` | the other end: it reads, or goes |

`Send` waits while the peer's buffer is full, succeeds once to a peer that has gone, and
kills the process after a reset has come back. A second signal of a kind ends the
process and is not a step of its own.

### Framing and the code

| action | code |
|---|---|
| `Answer`, `broadcast_user_list`, `client_list_broadcast`, `Unlock` | what threads send, with and without `client_mutex`; lists are built as `build_user_list_locked` does, cut at `BufferSize` |
| `send_all(s)` | one `send` of what is left, of which any part is taken |
| `recv_line`, `handle_server_message` | the client's loop: a line ends at a newline or when the buffer is full; a list has a header, its entries and END (`response.c`) |

Bytes are tokens: one for a header, one for END, one for each letter of an entry.
`torn` and `unfit` are history: an answer was sent in the middle of a broadcast, or
the other way round; a list did not fit the buffer or the client's table. A byte
carries its sender and its place in the message, which only the properties look at:
`InOrder` says of each sender that the places of its bytes on their way go on from what
was read (`due`) up to what it has still to send (`Upcoming`). `LinesAssumption` is what
the lengths of nicknames and answers give: no line of the server fills `recv_line`'s
buffer.

### Maze and the code

| action | code |
|---|---|
| `game_init` | the loops that clear the matrix, and the call of `carve` |
| `carve(d)` | one turn of its loop: the room ahead is opened and the recursion entered, or it was open already |
| `carve_return` | a call of `carve` returns |
| `place_exit`, `place_object`, `objects_done` | the rest of `game_init` |
| `game_pickup(c)` | a MOVE of the match collects an object; the next `game_init` finds the matrix so |

A call on the stack has the directions it has not tried, so that every result of
`shuffle_directions` is covered by taking them in any order. A random cell that
does not suit changes nothing and is not a step.

### Client and the code

`state` holds the fields of `ClientState`, `client` those of `client_t` that the
handler keeps; `out` and `in` are the streams, `todo` the pieces of its answer
that the handler has still to send. Between two pieces other threads send. A list
of users is built when it is broadcast, but for LIST when the command is taken.

| action | code |
|---|---|
| `send_user_command`, `handle_movement_input`, `Tab`, `Leave` | the keys: `client.c`, with the test of `requires_login` in command mode only |
| `HandleOK` (`confirm_auth`), `HandleERR` (`clear_pending_auth`), `HandleStarted`, `HandleEnded`, `HandleLobby`, `handle_users_message` | `handle_server_message`; the end asks for RANK, the lobby for LIST |
| `Greet`, `handle_login`, `ReadyRead`, `ReadySet`, `handle_start`, `ResetRead` to `ResetClients`, `MoveRead` to `MoveDone`, `View`, `handle_list`, `handle_rank` | `handle_client` and the handlers, as `Session` takes them apart; `SendNext` is `send_all` |
| `OtherStart`, `OtherReset` to `OtherResetBcast`, `End`, `EndUntold`, `TellEnd`, `OwnerChanges`, `BroadcastUsers` | the other handler threads and the timer |

`OtherStart` needs this client's readiness, `End` is announced later by the thread
that made it (`untold`), `EndUntold` is the end by a thread that once removed the last
client, which nobody announces, and an owner in the middle of a RESET (`boss`) neither
leaves nor starts. The user sends what the client lets him send, at any time:
a LOGIN may follow a command whose answer is still to come. `Within` says which
nicknames occur in the owner's line of which names, since `response.c:196` looks with
`strstr`; it is any relation in which a nickname occurs in its own line.

Three history variables say when the code's shortcuts have been met, and the properties
name them as their only exceptions: `hasty` (a LOGIN was sent with another answer still to
come, which then confirms or refuses it: `response.c:308`), `mistaken` (the last list took
another's line for the client's own) and `unsaid` (the match was ended without a word).

Left out are a client that joins between the check of readiness and the spawn, and two clients
of one nickname (`NickShared` in `Accounts`). Maps, rankings, the time and the status
line only fill the display.

## 3. The runs

| run | instance | shows |
|---|---|---|
| `core` | 2 connections, 2 timers, all commands, threads that may not be created | `OneOwner`, `TimerAlive`, `SpawnAlone`, `EndHasTeller`, `PhaseOrder`, `EndCause`, refinement of `SessionAbs` |
| `live` | 2 connections that may leave, 2 timers, all commands, threads that can be created and are fair | `MatchEnds`, `AllOutEnds`, `CommandsEnd`, `EndTold` |
| `scores` | 2 descriptors, 3 clients in all, 2 nicknames, a table of 2, 2 instants after 0 | `TableOnce`, `RankInv`, `RankOrder`, `RankShowsCurrent` |
| `accounts` | 3 connections, 2 nicknames, 2 passwords, every command may get no reply | `AuthHasAccount`, `NickShared`, `PasswordReplaced` |
| `maze` | 5 by 7 cells, 2 objects, any number of matches | `Connected`, `AllRoomsOpen`, `WellFormed`, `Generated`, refinement of `GrowingTree` |
| `match` | 2 connections any number of times and a third that START places with them, 2 mazes of 5 by 5 | `InTheOpen`, `Conserved`, `ExitScored`, `InsideWalls`, `ViewsAgree`, no deadlock |
| `connections` | 2 connections, 2 descriptors, 2 blocks, a signal, all faults | `ListInv`, `EntryKept`, `OrderAgreed`, `BroadcastEnds`, `LeaverClosed` |
| `framing` | a handler, 2 broadcasting threads, 4 bytes on their way | `StreamInv`, `TornByHandler`, `InStep` |
| `client` | 1 client, 2 nicknames beside the guests, both of which occur in the line of one of them; one command and one message may be on their way when something begins | `NickTruth`, `OwnerClaim`, `PlayInv`, `ExitTruth` |
| `v_deadlock`, `v_removed`, `v_pipe` | the smallest instance that shows it | one statement each of the documentation or of a comment that the code does not keep |

The type invariants of `Scores`, `Client`, `Framing` and `Connections` are parts of
`RankInv`, `PlayInv`, `StreamInv` and `ListInv`; those of the other modules are proved
for all instances (section 4).

*Bounds.* Two connections suffice for every race of two handler threads, and the
proofs cover every number of connections and timers, three among them, where one comes
or goes in the middle of a race of two.
`Timers` bounds the timer threads that exist at one time: two let the timer of a
match sleep on through the next one. START waits for a free one in the model.
In `live` both may leave, and threads can always be created: with a creation that fails
`AllOutEnds` is false of the code (hazard at `server.c:1588`).
In `Scores`, `MaxAccepts`, `MaxObjects` and `MaxTime` bound a run: three accepts let
a descriptor and a nickname be used again and bring three names to a table of two, which
overflows (it has 64 entries in the code), and two instants after 0 let an exit be
older than the start of the match it is ranked in. `ObjectPoints` is 1 there (100
in the code) so that objects and time can outweigh each other in so short a time.
In `Maze`, 5 by 7 cells have six rooms, of which two have three neighbours, and
every way to carve them; larger matrices, the 21 by 21 of the code among them, are
covered by the proofs. In `Client` the user and the other threads begin something
only while no command and no message is on its way (`MaxOut` and `MaxIn` are 1);
what has begun goes on and is answered and announced piece by piece, so that the
messages of several threads still meet, and one end of a match may stay unannounced
while the session goes on (`MaxUntold`). A LOGIN typed while an answer is on its way is
among what one command (`MaxOut`) and a handler in the middle of its answer allow. In the
instance both nicknames occur in the line of the other client's guest name (`Within`), which
is every case `OwnerClaim` can tell apart. In `Match` the board is bounded: five
by five cells have four rooms, three with the exit left out, so that two players come
to share cells, objects and the exit, and one maze has its exit where newcomers are put.
The third connection is there because START gives the room that differs from (1, 1) in
both coordinates only to a third client of the list; `Bystander`, a constraint of `MCMatch`,
explores it while everybody comes, begins or is placed and no object has been taken, and the
two others without bound. In
`Connections` `MaxCommands` and `MaxTicks` bound what is said (one command each and one tick);
with as many blocks and descriptors as connections every reuse that matters happens:
a descriptor between `close` and removal, a block at once after `free`. In `Framing` a
message is never longer than `BufferSize`, lists have up to `MaxClients` users, and 4
bytes of room make every message be sent in pieces; a line fills the client's
buffer (`MaxMsg`) only when it is torn, as in the code. Two nicknames let the client change its own
while another takes it. Runs with QUIT do not check deadlock, because the server may
stop with every client gone (and because of the real one, run `v_deadlock`), nor do
those of `Scores` and `Connections`, which stop at their bounds or when the server has
ended, and of `Client` and `Framing`, where the client may leave.

*Fairness.* `Session!FairSpec` is weak fairness of each handler thread's next step
and of each timer's: a runnable thread is scheduled, and a mutex that stays free
is obtained. Nothing makes a client connect, send a command or leave, and no
fairness is asked of the clock: `MatchEnds` says that a match whose time is over
ends, unless two threads have deadlocked. `MatchEnds`, `AllOutEnds` and `CommandsEnd` exempt
the states of `Jammed` and nothing else, so that they say of every other wait that it
ends; that `Jammed` is reached, and what it costs, is the run `v_deadlock`.
`Maze!FairSpec` is weak fairness of `Generate`, the steps of a sequential
function: it runs on, and a random draw that can succeed does at last.
`Connections!FairSpec` is weak fairness of `main`, of each handler, of the periodic
sender, and of each client reading what it was sent (its loop is a `select` over
keyboard and socket): without the last a single client that does not read would
keep `client_mutex` taken for ever. Nothing makes a client come, speak or go.

*Findings.*

- `v_deadlock`: the lock orders of `handle_move` and of the end of `handle_client`
  are opposite, and the match of a player who reaches the exit while another leaves
  never ends.
- `v_removed`: `handle_client` closes the descriptor before it removes the entry by
  it. A client accepted in between gets the number, stands at the head of the list
  and is found first: its block is freed while its thread runs.
- `v_pipe`: nothing ignores SIGPIPE, so a second send to a client whose reset has
  arrived ends the server for everybody.

Also seen, and no longer kept as runs of their own: a match is ended by a thread that
found "nobody remains" before others joined and started it (the last case of
`EndCause`); a client may join between the check of readiness and the spawn; two
clients may take one nickname, and of two REGISTERs the second may replace the
password of the first (`NickShared` and `PasswordReplaced` say in which way only);
a user who logs in while an older answer is on its way sees that answer confirm the
login (`hasty`); a player `al` takes the line of `alice`, when she is the owner, for its
own (`mistaken`); the end of a match by `client_list_remove` is announced to nobody (`unsaid`).

Of the same kind, and harmless or without a statement to contradict: READY,
RESET and MOVE act on a phase read earlier (harmlessly: `PhaseOrder` and
`SpawnAlone` hold, because the thread in a delayed RESET has lost its readiness and
START is refused until it is done); the announcement of an end can arrive after
the one of the lobby, and the client obeys it; an old answer to LIST can overwrite
a newer list; a client that becomes owner by a departure that ends the match is
not told; keys of movement mode are sent before any login; the remembered result
of a guest is replaced by that of the next client with its descriptor; a RANK between a departure and its remembering misses the
player, and the next match may show it; a RANK between `exit_reached` and
`exit_time` prints a wrong time; the reply to SET is ignored; RESET's second section
clears a READY accepted after its first; a newcomer is not told the phase; REGISTER may
refuse the nickname after it stored the account; `accept` failing for want of a
descriptor ends the server; an answer can be sent in the middle of a broadcast; a list
longer than its buffer loses its END, and one of more than 64 users disconnects every
client; a newcomer can be put on the exit, where it does not count as out and can step
through the opening behind it; a periodic map can arrive after the end of the match.

## 4. The proofs

All theorems are proved from the named assumptions on the constants only.

`SessionProofs`, for any sets of connections and timers, commands and faults:

- `Invariance`: `Spec => []IInv`, by `InitInv` and `StepInv` (one step per action);
- `TypeCorrect`, `OwnerUnique`, `TimerNeverMissing`, `SpawnUndisturbed`: parts or
  consequences of it;
- `EndsAreOwed` (`EndHasTeller`): between the end of a match and its broadcast a thread
  still has it to say, unless the end was `unsaid`;
- `PhasesInOrder`, `EndsHaveCauses`: action properties, from `PhaseChange`, which
  says what any step may do to the phase;
- `Refinement`: `Spec => Abs!Spec`, with `OwnerMap` relating the flags `is_owner` to
  the abstract owner.

`IInv` is needed because none of the properties is inductive: that there is one
owner needs that the list holds exactly the live threads, once each (`ListOK`);
that a delayed RESET is harmless (`StaleReset`) needs one owner, the lock
discipline (`LocksOK`) and what a START that holds `session_mutex` has found
(`HoldersOK`); that a delayed MOVE is (`StaleMove`) needs that its thread is not
ready in the lobby; that a match has a timer needs that the lobby forgets the flag
of the last one (`LobbyTimer`); that MOVE ends a match only when all are out needs
that the list cannot change while it waits with `client_mutex`.

`ScoresProofs`, for any descriptors, nicknames, capacity, points and bounds:

- `ComparatorConsistent` (the comparator is antisymmetric and transitive, which `qsort`
  relies on) and `LinesFollowComparator` (entries in its order are printed in the
  documented order), for all entries and start times;
- `ScoresInv`: `Spec => []IInv`. `TableOnce` is preserved alone, and `MergedOnce` carries it to
  the copy of the table (an induction over the entries merged, by `UpTo`); that an
  array holds a nickname once survives each further merge (`MergeKeepsOnce`) and any
  outcome of `qsort` (`SortedFacts`: a permutation in an order the comparator accepts).
  `RankShowsCurrent` is preserved because a merge takes out only an entry of the same
  nickname (`RankFacts`); `CopyInv` and `ListInv` are needed for the walk through the list: RANK is within
  it as long as it keeps the mutex, and the client that leaves has its score in hand;
- `TableStaysOnce`, `ResponsesOnce`, `ResponsesCurrent`: parts of it. `ResponsesOrdered`
  (`RankOrder`) from `SortInv`, which says that the array is in the order of the start time
  `qsort` has read, and `LinesFollowComparator`.

`AccountsProofs`: `AuthenticatedHaveAccounts` (and `AccountsTyped`) from `AuthInv`, which adds to
`AuthHasAccount` what a thread on its way to the nickname already knows;
`SharedOnlyIfMet` from `NickInv`, which adds the client that has looked and not yet
taken; `ReplacedOnlyIfOutrun` from `OutrunInv`: a thread on its way to SET that was not
outrun still finds no account.

`MatchProofs`, for any connections, any sizes from 5 by 5 on, any radius and any set of
mazes: `MatchInv`, of which `Typed`, `Open`, `Objects`, `Exits` and `Inside` are parts. What
it says is split client by client (`PartsOfInv`): what holds of a player in the match, and what
its thread may be doing. A step of one thread leaves the parts of the others alone
(`AsideStep`), and there is one lemma for each group of actions. None
is inductive alone: that a player on the exit is out (`ExitScored`) needs what its MOVE
carries (`MoveInv`); that nobody leaves through the opening (`InsideWalls`) needs that
whoever is on the exit does not get past the test of `exit_reached`; that a late MOVE
brings nothing into the next match needs where a thread can be when START comes
(`ThreadInv`). `InTheOpen` needs that all four mixtures of (1, 1) and a room are rooms.
`Views` (`ViewsAgree`) follows from `ViewInv`: in a match the cells around a player are
marked by whichever of START, MOVE and the thread that begins wrote last, and RESET clears
them only when nobody plays. While START places the players (`StartInv`) nothing of this
is claimed, and its last step, which marks around every one of them, restores it.

`ConnectionsProofs`, for any peers, descriptors, blocks and faults: `ListAlways` (with `Sound`,
`Typed` and `Traversal`, its parts) and `Agreed`: a broadcast holds `client_mutex` from
its first send to its last, so its entries stay linked and no other overtakes it.
`Kept` needs in addition that descriptors tell the entries apart and blocks the threads
(`KeptInv`), which is true until `accept` gives away a descriptor in the list: the moment
`v_removed` is about. `Late`: at most one client is accepted after a signal.

`FramingProofs`, for any threads, sizes of buffers and of the connection, and lengths of lines:

- `TornOnlyByHandler` from `BroadcastInv`;
- `NothingLost` (`StreamInv`) from `IInv`, which adds that what a thread sends is numbered
  and that there is something left of it (`SendInv`). `InOrder` speaks of the first, the
  last and any two neighbouring bytes of a sender on the wire, so that a `send` of any part
  and the reading of one byte disturb only an end of it, and no induction over the
  sequence is needed;
- `ClientStaysInStep` (`InStep`) from `SyncInv`, stated in that module: as long as nothing was
  torn and every list fitted, one message at most is in the middle, and the bytes on
  their way, with what is left of that message, take the client from where it is (`Here`)
  back to the top. `Reads` is what the client does with one byte, `Run` a text every byte
  of which it reads as the server means it; `FullRun` shows by induction over the users that a
  list is such a text, `RunJoin` that two are one, `RunFirst` that one byte less still is.

`ClientProofs`, for any nicknames and bounds. All of it is about `Stream`, `in \o todo`: what the
client has not read and what the handler has still to send it. A step takes off its
first message, or puts a block of messages in: other threads send between the two
parts, the handler at the end. `Insertion` says where every message is then, and the
lemmas on it what becomes of "the first answer", "the last change of phase" and "a list
after it". The client's own reading moves a message from the stream into `state`.

- `PhasesAlways`: `Spec => []PhasesInv`, from which `EndsAreHeard` (`PlayInv`) and
  `ExitShown` (`ExitTruth`). Neither is inductive, because both speak of a moment at
  which all has arrived. `PhaseInv` and `ExitInv` say the same of every moment, with the
  last of SESSION STARTED, ENDED and LOBBY in the stream in place of the client's phase
  (`WillPlay`, `WillBeOut`): it is right, or an end is still unannounced (or will never be:
  `unsaid`), or a RESET that will announce the lobby is under way. An "exit found" of an earlier match would
  contradict `ExitInv` after the next start; `MoveInv` excludes it, since a client that
  is ready in the lobby has no MOVE under way and no such answer left to send.
- `NicknameShown` (`NickTruth`) from `AuthInv`: as long as the user was not hasty, a pending
  login is still to be taken by the handler and no answer is to come before its own
  (`Asked`), or has been taken and its answer is the first to come (`Answered`). Commands sent
  before the login that are answered by neither OK nor ERR (LIST, RANK) may precede it.
- `OwnershipShown` (`OwnerClaim`) from `OwnerInv` beside it. While another is the owner, no list to
  come names this client by the nickname it has by then, and if it shows itself as owner
  a list comes that takes that back, or the last list was mistaken (`Disowned`); a login that
  has been granted changes that nickname in the middle of the stream (`Renamed`), and the
  list that follows it names the owner anew. `Within` is any relation, so the theorem covers
  nicknames that occur in each other's lines.

No theorem of the client has a hypothesis: the exceptions are in the properties.

`MazeProofs`, for every odd size from 5 by 5 on and any number of objects:

- `MazeInvariant`: `Spec => []IInv`; `MazeTyped`, `MazeConnected`, `MazePerfect`,
  `MazeWellFormed` are parts of it, and `MazeImplements` is the refinement of `GrowingTree`;
- `MazeAllRoomsOpen`: when the stack is empty, `Explored` says that the open rooms
  cannot be left by a jump of `carve`, and `RoomsFilled` that such a set is all of
  them. `RoomsFilled` is an induction over the first row and then over the columns,
  done with the least missing room (`NatMin`, from the well-foundedness of `<`).

Reachability is not defined by paths: `Linked(W)` says that a part of `W` with the
start in it and no way out is `W`, which needs no induction and which `LinkedGrow`
preserves when a neighbouring cell is added. `Perfect` needs `BothEndsOpen`: a wall
between two rooms is opened only with both, so opening a new room always adds a new
passage, and a single one (`OneBetween`).

The lists that are built entry by entry (`Merged`, `Users`) are recursive functions over
`0..n`: that they are what they are defined to be is an induction of its own in each
proof (`PassesExist`, `AddsExist`), with the set of the numbers for which it holds (`UpTo`).

What holds of lists that lose an entry or get one at an end is stated in each module
that needs it, since the lists have different elements and orders of their own.

Every invariant that a passing run checks is also a theorem. Only model-checked: the liveness
properties `MatchEnds`, `AllOutEnds`, `CommandsEnd`, `EndTold`, `Generated`, `BroadcastEnds`
and `LeaverClosed` (fairness and ENABLED are outside the prover's reach), the
absence of deadlock in the runs `accounts`, `maze` and `match`, and every statement that fails. What a recursive list
computes for every input is proved only as far as an induction over `0..n` with a set
carries it.

## 5. Not modelled, and the plan

Left out for good: `ui.c` (drawing; no state a property is about), `log.c` (one write
under a mutex for each line), build and container files, `redis_threadsafe.c` beyond its
mutex per command. Of the client: what only fills the display (maps, rankings, the time,
the status line) and the text of the input line, so that a `SESSION STARTED` that
switches the mode in the middle of a typed command is not seen. Of the periodic
sender: its test of PLAYING; its sends are those of `Periodic` in `Connections` and of a
broadcasting thread in `Framing`, its maps those of `Match`. Of RANK: the text, whose
length can pass the buffer (`server.c:1281`).

What would be next: MAP and RANK beside USERS in `Framing`; a client's way back to the truth
after a hasty login; in `Client`, the player who joins between the check of readiness and the
spawn, and two clients of one nickname.
