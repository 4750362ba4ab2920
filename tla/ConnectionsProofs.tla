------------------------- MODULE ConnectionsProofs -------------------------
(***************************************************************************)
(* Theorems about Connections, for any peers, descriptors, blocks, bounds  *)
(* and faults.                                                             *)
(***************************************************************************)
EXTENDS Connections, Integers, SequencesExt, SequenceTheorems, TLAPS

(***************************************************************************)
(* Facts about lists.                                                      *)
(***************************************************************************)

(* What unlinking the i-th entry leaves of a list without repetitions. *)
LEMMA RemoveAtFacts ==
    ASSUME NEW S, NEW s \in Seq(S), NEW i \in 1..Len(s), IsInjective(s)
    PROVE  /\ RemoveAt(s, i) \in Seq(S)
           /\ IsInjective(RemoveAt(s, i))
           /\ ToSet(RemoveAt(s, i)) = ToSet(s) \ {s[i]}
<1> DEFINE r == RemoveAt(s, i)
           N == Len(s)
           a == SubSeq(s, 1, i - 1)
           b == SubSeq(s, i + 1, N)
<1>1. /\ a \in Seq(S) /\ Len(a) = i - 1 /\ \A j \in 1..(i - 1) : a[j] = s[j]
      /\ b \in Seq(S) /\ Len(b) = N - i /\ \A j \in 1..(N - i) : b[j] = s[i + j]
      /\ r = a \o b
  BY LenProperties, ElementOfSeq, SubSeqProperties DEF RemoveAt
<1>2. N \in Nat /\ i \in 1..N
  BY LenProperties
<1> HIDE DEF r, a, b, N
<1>3. /\ r \in Seq(S) /\ Len(r) = N - 1
      /\ \A j \in 1..(N - 1) : r[j] = IF j < i THEN s[j] ELSE s[j + 1]
  <2>1. /\ r \in Seq(S) /\ Len(r) = N - 1
        /\ \A j \in 1..(N - 1) : r[j] = IF j <= i - 1 THEN a[j] ELSE b[j - (i - 1)]
    BY <1>1, <1>2, ConcatProperties
  <2>2. ASSUME NEW j \in 1..(N - 1), j < i PROVE r[j] = s[j]
    BY <1>1, <1>2, <2>1, <2>2
  <2>3. ASSUME NEW j \in 1..(N - 1), ~(j < i) PROVE r[j] = s[j + 1]
    <3>1. /\ j - (i - 1) \in 1..(N - i) /\ i + (j - (i - 1)) = j + 1
          /\ ~(j <= i - 1)
      BY <1>2, <2>3
    <3> QED BY <1>1, <2>1, <3>1
  <2> QED BY <2>1, <2>2, <2>3
<1>4. DOMAIN s = 1..N /\ DOMAIN r = 1..(N - 1)
  BY <1>3, LenProperties DEF N
<1>5. \A j, k \in 1..N : s[j] = s[k] => j = k
  BY <1>4 DEF IsInjective
<1>6. IsInjective(r)
  BY <1>2, <1>3, <1>4, <1>5 DEF IsInjective
<1>7. ToSet(r) = ToSet(s) \ {s[i]}
  <2>1. ASSUME NEW k \in 1..N, k # i PROVE s[k] \in ToSet(r)
    <3>1. \E j \in 1..(N - 1) : r[j] = s[k]
      <4> DEFINE j == IF k < i THEN k ELSE k - 1
      <4>1. j \in 1..(N - 1) /\ r[j] = s[k]
        BY <1>2, <1>3, <2>1
      <4> QED BY <4>1
    <3> QED BY <1>4, <3>1 DEF ToSet
  <2>2. ASSUME NEW j \in 1..(N - 1) PROVE r[j] \in ToSet(s) /\ r[j] # s[i]
    BY <1>2, <1>3, <1>4, <1>5 DEF ToSet
  <2>3. \A j \in 1..N : j # i => s[j] # s[i]
    BY <1>2, <1>5
  <2>4. /\ ToSet(s) = {s[j] : j \in 1..N}
        /\ ToSet(r) = {r[j] : j \in 1..(N - 1)}
    BY <1>4 DEF ToSet
  <2>5. ToSet(r) \subseteq ToSet(s) \ {s[i]}
    BY <2>2, <2>4
  <2>6. ToSet(s) \ {s[i]} \subseteq ToSet(r)
    BY <2>1, <2>4
  <2> QED BY <2>5, <2>6
<1> QED BY <1>3, <1>6, <1>7 DEF r

(* A new entry at the head of a list it was not in. *)
LEMMA PushFacts ==
    ASSUME NEW S, NEW s \in Seq(S), NEW e \in S, e \notin ToSet(s), IsInjective(s)
    PROVE  /\ <<e>> \o s \in Seq(S)
           /\ <<e>> \o s # << >>
           /\ IsInjective(<<e>> \o s)
           /\ ToSet(<<e>> \o s) = ToSet(s) \cup {e}
<1> DEFINE r == <<e>> \o s
           N == Len(s)
<1>1. /\ r \in Seq(S) /\ Len(r) = N + 1 /\ N \in Nat /\ r # << >>
      /\ r[1] = e /\ \A j \in 1..N : r[j + 1] = s[j]
      /\ DOMAIN s = 1..N /\ DOMAIN r = 1..(N + 1)
  OBVIOUS
<1> HIDE DEF r
<1>2. \A j \in 1..(N + 1) : j = 1 \/ (j - 1 \in 1..N /\ r[j] = s[j - 1])
  BY <1>1
<1>3. \A j, k \in 1..N : s[j] # e /\ (s[j] = s[k] => j = k)
  BY <1>1 DEF IsInjective, ToSet
<1>4. \A j, k \in 1..(N + 1) : r[j] = r[k] => j = k
  BY <1>1, <1>2, <1>3
<1>5. \A j \in 1..N : s[j] \in ToSet(r)
  <2> SUFFICES ASSUME NEW j \in 1..N PROVE s[j] \in ToSet(r)
    OBVIOUS
  <2>1. j + 1 \in DOMAIN r
    BY <1>1
  <2> QED BY <1>1, <2>1 DEF ToSet
<1>6. ToSet(r) = ToSet(s) \cup {e}
  <2>1. e \in ToSet(r)
    BY <1>1 DEF ToSet
  <2>2. \A j \in 1..(N + 1) : r[j] = e \/ r[j] \in ToSet(s)
    BY <1>1, <1>2 DEF ToSet
  <2>3. ToSet(s) = {s[j] : j \in 1..N} /\ ToSet(r) = {r[j] : j \in 1..(N + 1)}
    BY <1>1 DEF ToSet
  <2> QED BY <1>5, <2>1, <2>2, <2>3
<1> QED BY <1>1, <1>4, <1>6 DEF r, IsInjective


(* What a broadcast does to the positions: a thread only comes to one of   *)
(* those that follow a broadcast.                                          *)
LEMMA AfterRange ==
    ASSUME NEW t \in Threads
    PROVE  After(t) \in {"test", "last", "done", "loop", "close"}
  BY DEF After

LEMMA MainAfter == After(Main) = "test"
  BY ThreadsAssumption DEF After

(* Linking a new block and unlinking one, as sets. *)
LEMMA EntriesFacts ==
    ASSUME TypeOK, IsInjective(client_list)
    PROVE  /\ \A i \in DOMAIN client_list : client_list[i] \in Listed
           /\ \A b \in Listed : \E i \in DOMAIN client_list : client_list[i] = b
           /\ Listed \subseteq Blocks
  BY LenProperties, ElementOfSeq DEF TypeOK, Listed, ToSet

LEMMA ListInit == Init => ListInv
<1> SUFFICES ASSUME Init PROVE ListInv
  OBVIOUS
<1> USE DEF Init
<1>1. TypeOK
  <2>1. pc \in [Threads -> Positions]
    BY DEF Positions, Telling, Serving
  <2>2. <<>> \in Seq(Blocks)
    OBVIOUS
  <2> QED BY <2>1, <2>2 DEF TypeOK, Bad
<1>2. Listed = {} /\ \A t \in Threads : ToSet(todo[t]) = {}
  BY DEF Listed, ToSet
<1>3. IsInjective(client_list)
  BY DEF IsInjective
<1>4. pc[Main] = "test"
  BY DEF Threads
<1>5. \A t \in Threads : pc[t] \notin Serving \cup {"add", "create"} /\ todo[t] = <<>>
  BY DEF Serving
<1> QED BY <1>1, <1>2, <1>3, <1>4, <1>5 DEF ListInv, HeapSound, TraversalSafe

(* A step that leaves list, heap and broadcasts alone. *)
LEMMA ListQuiet ==
    ASSUME ListInv, TypeOK',
           UNCHANGED <<heap, client_list, client_lock, todo, older, overtaken>>,
           pc'[Main] = "add" => pc[Main] = "add" /\ mine'[Main] = mine[Main],
           pc[Main] = "add" => pc'[Main] = "add",
           \A t \in Threads :
               pc'[t] \in Serving \cup {"add", "create"} => mine'[t] \in Blocks,
           \A t \in Threads : todo[t] # <<>> => pc'[t] \in Telling
    PROVE  ListInv'
  BY DEF ListInv, HeapSound, TraversalSafe, Listed

LEMMA PositionsAre ==
    /\ Telling \subseteq Positions /\ Serving \subseteq Positions
    /\ {"none", "new", "test", "accept", "add", "create", "done"} \subseteq Positions
    /\ Main \in Threads /\ Periodic \in Threads /\ Peers \subseteq Threads
    /\ "add" \notin Telling \cup Serving
  BY DEF Positions, Telling, Serving, Threads

(* A handler goes on with its block: only hello and say lead back to it.   *)
LEMMA AfterServing ==
    ASSUME ListInv, NEW t \in Threads, pc[t] \in Telling,
           After(t) \in Serving \cup {"add", "create"}
    PROVE  mine[t] \in Blocks
<1>1. After(t) \in {"loop", "close"}
  BY AfterRange DEF Serving
<1>2. t \in Peers /\ pc[t] \notin {"told", "last"}
  BY <1>1 DEF After, Threads
<1>3. pc[t] \in {"hello", "say"}
  BY <1>2 DEF Telling
<1> QED BY <1>3 DEF ListInv, Serving

(* What send and close do to connections and descriptors. *)
LEMMA SendType ==
    ASSUME TypeOK, NEW f, Send(f)
    PROVE  /\ server' \in {"running", "stopping", "exited", "killed"}
           /\ wire' \in [Peers -> {"away", "open", "full", "gone", "reset", "closed"}]
  BY DEF TypeOK, Send, ConnectionOf

LEMMA CloseType ==
    ASSUME TypeOK, NEW f, Close(f)
    PROVE  /\ wire' \in [Peers -> {"away", "open", "full", "gone", "reset", "closed"}]
           /\ table' \in [Fds -> Peers \cup {None}]
  BY DEF TypeOK, Close, ConnectionOf

LEMMA GreetList == ASSUME ListInv, NEW p \in Peers, Greet(p) PROVE ListInv'
<1>1. TypeOK'
  <2>1. pc' \in [Threads -> Positions]
    BY PositionsAre DEF Greet, Goto, ListInv, TypeOK, Serving
  <2> QED BY <2>1, SendType DEF Greet, ListInv, TypeOK, memory, tell, history
<1>2. \A t \in Threads :
        pc'[t] \in Serving \cup {"add", "create"} => mine'[t] \in Blocks
  BY DEF Greet, Goto, ListInv, TypeOK, Serving
<1>3. \A t \in Threads : todo[t] # <<>> => pc'[t] \in Telling
  BY DEF Greet, Goto, ListInv, TypeOK, Telling
<1> QED BY <1>1, <1>2, <1>3, ListQuiet, PositionsAre, ThreadsAssumption
        DEF Greet, Goto, memory, tell, ListInv, TypeOK

LEMMA DrainList == ASSUME ListInv, NEW p \in Peers, Drain(p) PROVE ListInv'
<1>1. TypeOK'
  <2>1. pc' \in [Threads -> Positions]
    BY PositionsAre DEF Drain, Goto, local, ListInv, TypeOK, Telling, Serving
  <2> QED BY <2>1, PositionsAre DEF Drain, ListInv, TypeOK, sockets, memory, local, tell, history
<1>2. \A t \in Threads :
        pc'[t] \in Serving \cup {"add", "create"} => mine'[t] \in Blocks
  BY DEF Drain, Goto, local, ListInv, TypeOK, Serving
<1>3. \A t \in Threads : todo[t] # <<>> => pc'[t] \in Telling
  BY DEF Drain, Goto, local, ListInv, TypeOK, Telling
<1> QED BY <1>1, <1>2, <1>3, ListQuiet, PositionsAre, ThreadsAssumption
        DEF Drain, Goto, memory, local, tell, ListInv, TypeOK

LEMMA PeerLeavesList == ASSUME ListInv, NEW p \in Peers, PeerLeaves(p) PROVE ListInv'
<1>1. TypeOK'
  <2>1. pc' \in [Threads -> Positions]
    BY PositionsAre DEF PeerLeaves, Goto, local, ListInv, TypeOK, Telling, Serving
  <2> QED BY <2>1, PositionsAre DEF PeerLeaves, ListInv, TypeOK, sockets, memory, local, tell, history
<1>2. \A t \in Threads :
        pc'[t] \in Serving \cup {"add", "create"} => mine'[t] \in Blocks
  BY DEF PeerLeaves, Goto, local, ListInv, TypeOK, Serving
<1>3. \A t \in Threads : todo[t] # <<>> => pc'[t] \in Telling
  BY DEF PeerLeaves, Goto, local, ListInv, TypeOK, Telling
<1> QED BY <1>1, <1>2, <1>3, ListQuiet, PositionsAre, ThreadsAssumption
        DEF PeerLeaves, Goto, memory, local, tell, ListInv, TypeOK

LEMMA handle_signalList == ASSUME ListInv, handle_signal PROVE ListInv'
<1>1. TypeOK'
  <2>1. pc' \in [Threads -> Positions]
    BY PositionsAre DEF handle_signal, Goto, local, ListInv, TypeOK, Telling, Serving
  <2> QED BY <2>1, PositionsAre DEF handle_signal, ListInv, TypeOK, sockets, memory, local, tell, history
<1>2. \A t \in Threads :
        pc'[t] \in Serving \cup {"add", "create"} => mine'[t] \in Blocks
  BY DEF handle_signal, Goto, local, ListInv, TypeOK, Serving
<1>3. \A t \in Threads : todo[t] # <<>> => pc'[t] \in Telling
  BY DEF handle_signal, Goto, local, ListInv, TypeOK, Telling
<1> QED BY <1>1, <1>2, <1>3, ListQuiet, PositionsAre, ThreadsAssumption
        DEF handle_signal, Goto, memory, local, tell, ListInv, TypeOK

LEMMA TestRunningList == ASSUME ListInv, TestRunning PROVE ListInv'
<1>1. TypeOK'
  <2>1. pc' \in [Threads -> Positions]
    BY PositionsAre DEF TestRunning, Goto, local, ListInv, TypeOK, Telling, Serving
  <2> QED BY <2>1, PositionsAre DEF TestRunning, ListInv, TypeOK, sockets, memory, local, tell, history
<1>2. \A t \in Threads :
        pc'[t] \in Serving \cup {"add", "create"} => mine'[t] \in Blocks
  BY DEF TestRunning, Goto, local, ListInv, TypeOK, Serving
<1>3. \A t \in Threads : todo[t] # <<>> => pc'[t] \in Telling
  BY DEF TestRunning, Goto, local, ListInv, TypeOK, Telling
<1> QED BY <1>1, <1>2, <1>3, ListQuiet, PositionsAre, ThreadsAssumption
        DEF TestRunning, Goto, memory, local, tell, ListInv, TypeOK

LEMMA RecvFailsList == ASSUME ListInv, NEW p \in Peers, RecvFails(p) PROVE ListInv'
<1>1. TypeOK'
  <2>1. pc' \in [Threads -> Positions]
    BY PositionsAre DEF RecvFails, Goto, local, ListInv, TypeOK, Telling, Serving
  <2> QED BY <2>1, PositionsAre DEF RecvFails, ListInv, TypeOK, sockets, memory, local, tell, history
<1>2. \A t \in Threads :
        pc'[t] \in Serving \cup {"add", "create"} => mine'[t] \in Blocks
  BY DEF RecvFails, Goto, local, ListInv, TypeOK, Serving
<1>3. \A t \in Threads : todo[t] # <<>> => pc'[t] \in Telling
  BY DEF RecvFails, Goto, local, ListInv, TypeOK, Telling
<1> QED BY <1>1, <1>2, <1>3, ListQuiet, PositionsAre, ThreadsAssumption
        DEF RecvFails, Goto, memory, local, tell, ListInv, TypeOK

LEMMA CommandList == ASSUME ListInv, NEW p \in Peers, Command(p) PROVE ListInv'
<1>0. PICK to \in Serving : pc' = [pc EXCEPT ![p] = to]
  BY DEF Command, Goto, Serving
<1>1. TypeOK'
  <2>1. pc' \in [Threads -> Positions]
    BY <1>0, PositionsAre DEF ListInv, TypeOK
  <2>2. said' \in [Threads -> Nat]
    BY PositionsAre DEF Command, ListInv, TypeOK
  <2> QED BY <2>1, <2>2, SendType DEF Command, ListInv, TypeOK, memory, tell, history
<1>2. \A t \in Threads :
        pc'[t] \in Serving \cup {"add", "create"} => mine'[t] \in Blocks
  BY <1>0 DEF Command, ListInv, TypeOK, Serving
<1>3. \A t \in Threads : todo[t] # <<>> => pc'[t] \in Telling
  BY <1>0 DEF Command, ListInv, TypeOK, Telling
<1>4. pc'[Main] = pc[Main]
  BY <1>0, ThreadsAssumption, PositionsAre DEF ListInv, TypeOK
<1>5. UNCHANGED <<heap, client_list, client_lock, todo, older, overtaken, mine>>
  BY DEF Command, memory, tell
<1> QED BY <1>1, <1>2, <1>3, <1>4, <1>5, ListQuiet

LEMMA CloseSocketList == ASSUME ListInv, NEW p \in Peers, CloseSocket(p) PROVE ListInv'
<1>1. TypeOK'
  <2>1. pc' \in [Threads -> Positions]
    BY PositionsAre DEF CloseSocket, Goto, ListInv, TypeOK, Serving
  <2> QED BY <2>1, CloseType
          DEF CloseSocket, ListInv, TypeOK, memory, tell, history
<1>2. \A t \in Threads :
        pc'[t] \in Serving \cup {"add", "create"} => mine'[t] \in Blocks
  BY DEF CloseSocket, Goto, ListInv, TypeOK, Serving
<1>3. \A t \in Threads : todo[t] # <<>> => pc'[t] \in Telling
  BY DEF CloseSocket, Goto, ListInv, TypeOK, Telling
<1> QED BY <1>1, <1>2, <1>3, ListQuiet, PositionsAre, ThreadsAssumption
        DEF CloseSocket, Goto, memory, tell, ListInv, TypeOK

LEMMA ReadDescriptorList ==
    ASSUME ListInv, NEW p \in Peers, ReadDescriptor(p) PROVE ListInv'
<1>1. TypeOK'
  <2>1. pc' \in [Threads -> Positions]
    BY PositionsAre DEF ReadDescriptor, Goto, ListInv, TypeOK, Serving
  <2>2. fd[mine[p]] \in Fds \cup {Bad}
    BY PositionsAre DEF ReadDescriptor, ListInv, TypeOK, Serving
  <2> QED BY <2>1, <2>2
          DEF ReadDescriptor, ListInv, TypeOK, sockets, memory, tell, history
<1>2. \A t \in Threads :
        pc'[t] \in Serving \cup {"add", "create"} => mine'[t] \in Blocks
  BY DEF ReadDescriptor, Goto, ListInv, TypeOK, Serving
<1>3. \A t \in Threads : todo[t] # <<>> => pc'[t] \in Telling
  BY DEF ReadDescriptor, Goto, ListInv, TypeOK, Telling
<1> QED BY <1>1, <1>2, <1>3, ListQuiet, PositionsAre, ThreadsAssumption
        DEF ReadDescriptor, Goto, memory, tell, ListInv, TypeOK

LEMMA TellNobodyList ==
    ASSUME ListInv, NEW t \in Threads, TellNobody(t) PROVE ListInv'
<1>0. After(t) \in Positions \ {"add"}
  BY AfterRange DEF Positions, Telling, Serving
<1>1. TypeOK'
  BY <1>0 DEF TellNobody, Goto, ListInv, TypeOK, sockets, memory, tell, history
<1>2. \A u \in Threads :
        pc'[u] \in Serving \cup {"add", "create"} => mine'[u] \in Blocks
  BY AfterServing, <1>0 DEF TellNobody, Goto, ListInv, TypeOK
<1>3. \A u \in Threads : todo[u] # <<>> => pc'[u] \in Telling
  BY NoneAssumption DEF TellNobody, Goto, ListInv, TypeOK
<1>4. UNCHANGED <<heap, client_list, client_lock, todo, older, overtaken>>
  BY DEF TellNobody, memory, tell
<1>5. pc'[Main] = "add" => pc[Main] = "add" /\ mine'[Main] = mine[Main]
  BY <1>0, PositionsAre DEF TellNobody, Goto, ListInv, TypeOK
<1>6. pc[Main] = "add" => pc'[Main] = "add"
  BY <1>0, PositionsAre DEF TellNobody, Goto, ListInv, TypeOK, Telling
<1> QED BY <1>1, <1>2, <1>3, <1>4, <1>5, <1>6, ListQuiet

LEMMA CreateThreadList ==
    ASSUME ListInv, NEW p \in Peers, CreateThread(p) PROVE ListInv'
<1>1. TypeOK'
  <2>1. pc' \in [Threads -> Positions]
    BY PositionsAre DEF CreateThread, Goto, ListInv, TypeOK, Serving
  <2> QED BY <2>1, PositionsAre, CloseType
          DEF CreateThread, ListInv, TypeOK, sockets, memory, tell, history, Bad
<1>2. \A t \in Threads :
        pc'[t] \in Serving \cup {"add", "create"} => mine'[t] \in Blocks
  <2>1. mine[Main] \in Blocks /\ p # Main
    BY PositionsAre, ThreadsAssumption DEF CreateThread, ListInv
  <2>2. CASE mine' = [mine EXCEPT ![Main] = None, ![p] = mine[Main]]
             /\ pc' = [pc EXCEPT ![Main] = "test", ![p] = "greet"]
    BY <2>1, <2>2, PositionsAre DEF ListInv, TypeOK, Serving
  <2>3. CASE mine' = mine /\ pc' = [pc EXCEPT ![Main] = "remove", ![p] = "none"]
    BY <2>1, <2>3, PositionsAre DEF ListInv, TypeOK, Serving
  <2> QED BY <2>2, <2>3 DEF CreateThread, Goto
<1>3. \A t \in Threads : todo[t] # <<>> => pc'[t] \in Telling
  BY DEF CreateThread, Goto, ListInv, TypeOK, Telling
<1> QED BY <1>1, <1>2, <1>3, ListQuiet, PositionsAre, ThreadsAssumption
        DEF CreateThread, Goto, memory, tell, ListInv, TypeOK, Serving

LEMMA LockList == ASSUME ListInv, NEW t \in Threads, Lock(t) PROVE ListInv'
<1>1. \A u \in Threads : todo[u] = <<>>
  BY NoneAssumption DEF ListInv, Lock
<1>2. older' = older
  BY <1>1 DEF ListInv, TypeOK, Lock
<1>3. TypeOK'
  BY <1>2 DEF ListInv, TypeOK, Lock, sockets, memory, local, history
<1>4. HeapSound'
  BY DEF ListInv, HeapSound, Listed, Lock, memory, local
<1>5. TraversalSafe'
  BY DEF ListInv, TypeOK, TraversalSafe, Listed, Lock, memory
<1> QED BY <1>1, <1>2, <1>3, <1>4, <1>5
        DEF ListInv, TypeOK, Lock, memory, local, Listed

LEMMA SendNextList == ASSUME ListInv, NEW t \in Threads, SendNext(t) PROVE ListInv'
<1>0. After(t) \in Positions \ {"add"}
  BY AfterRange DEF Positions, Telling, Serving
<1>1. Overtakes(t) = {}
  BY DEF ListInv, Overtakes
<1>2. /\ older' \in [Threads -> SUBSET Threads]
      /\ \A u \in Threads : older'[u] = {}
      /\ overtaken' = {}
  <2>1. overtaken' = {}
    BY <1>1 DEF ListInv, SendNext
  <2>2. CASE UNCHANGED older
    BY <2>1, <2>2 DEF ListInv, TypeOK
  <2>3. CASE older' = [u \in Threads |-> IF u = t THEN {} ELSE older[u] \ {t}]
    BY <2>1, <2>3 DEF ListInv
  <2> QED BY <2>2, <2>3 DEF SendNext
<1>3. /\ Tail(todo[t]) \in Seq(Blocks)
      /\ ToSet(Tail(todo[t])) \subseteq ToSet(todo[t])
      /\ Tail(todo[t]) = <<>> <=> Len(todo[t]) = 1
  <2>1. todo[t] \in Seq(Blocks) /\ todo[t] # <<>>
    BY DEF ListInv, TypeOK, SendNext
  <2>2. /\ Tail(todo[t]) \in Seq(Blocks) /\ Len(Tail(todo[t])) = Len(todo[t]) - 1
        /\ \A i \in 1..Len(Tail(todo[t])) : Tail(todo[t])[i] = todo[t][i + 1]
    BY <2>1, HeadTailProperties
  <2>3. /\ Len(todo[t]) \in Nat /\ DOMAIN todo[t] = 1..Len(todo[t])
        /\ DOMAIN Tail(todo[t]) = 1..Len(Tail(todo[t]))
    BY <2>1, <2>2, LenProperties
  <2>4. \A i \in DOMAIN Tail(todo[t]) :
            i + 1 \in DOMAIN todo[t] /\ Tail(todo[t])[i] = todo[t][i + 1]
    BY <2>2, <2>3
  <2>5. ToSet(Tail(todo[t])) \subseteq ToSet(todo[t])
    BY <2>4 DEF ToSet
  <2>6. Len(Tail(todo[t])) = 0 <=> Tail(todo[t]) = <<>>
    BY <2>2, EmptySeq
  <2> QED BY <2>2, <2>3, <2>5, <2>6
<1>4. TypeOK'
  <2>1. pc' \in [Threads -> Positions]
    BY <1>0 DEF ListInv, TypeOK, SendNext, Goto
  <2>2. client_lock' \in Threads \cup {None}
    BY DEF ListInv, TypeOK, SendNext
  <2> QED BY <2>1, <2>2, <1>2, <1>3, SendType
          DEF ListInv, TypeOK, SendNext, memory, history
<1>5. pc'[Main] = "add" <=> pc[Main] = "add"
  BY <1>0, PositionsAre DEF ListInv, TypeOK, SendNext, Goto
<1>6. HeapSound'
  BY <1>5 DEF ListInv, HeapSound, Listed, SendNext, memory
<1>7. TraversalSafe'
  BY <1>3 DEF ListInv, TypeOK, TraversalSafe, Listed, SendNext, memory
<1>8. \A u \in Threads : todo'[u] # <<>> => client_lock' = u /\ pc'[u] \in Telling
  BY <1>3, NoneAssumption DEF ListInv, TypeOK, SendNext
<1>9. \A u \in Threads :
        pc'[u] \in Serving \cup {"add", "create"} => mine'[u] \in Blocks
  BY AfterServing, <1>0 DEF ListInv, TypeOK, SendNext, Goto
<1> QED BY <1>2, <1>4, <1>5, <1>6, <1>7, <1>8, <1>9
        DEF ListInv, SendNext, memory, Listed

LEMMA AcceptList == ASSUME ListInv, AwayInv, NEW p \in Peers, Accept(p) PROVE ListInv'
<1>0. pc[Main] = "accept" /\ Main \in Threads /\ p \in Threads /\ p # Main
  BY ThreadsAssumption, PositionsAre DEF Accept
<1>1. CASE \E f \in Fds, b \in Blocks :
            /\ Given(p, f) /\ heap[b] = "free"
            /\ heap' = [heap EXCEPT ![b] = "used"]
            /\ fd' = [fd EXCEPT ![b] = f]
            /\ mine' = [mine EXCEPT ![Main] = b]
  <2> PICK f \in Fds, b \in Blocks :
            /\ Given(p, f) /\ heap[b] = "free"
            /\ heap' = [heap EXCEPT ![b] = "used"]
            /\ fd' = [fd EXCEPT ![b] = f]
            /\ mine' = [mine EXCEPT ![Main] = b]
    BY <1>1
  <2>1. pc' = [pc EXCEPT ![Main] = "add", ![p] = "new"]
    BY DEF Given
  <2>2. pc' \in [Threads -> Positions]
    BY <2>1, PositionsAre DEF ListInv, TypeOK
  <2>3. TypeOK'
    <3>1. reused' \in BOOLEAN
      BY Zenon DEF Given, ListInv, TypeOK
    <3>2. late' \in Nat
      BY DEF Given, ListInv, TypeOK
    <3>3. /\ wire' \in [Peers -> {"away", "open", "full", "gone", "reset", "closed"}]
          /\ table' \in [Fds -> Peers \cup {None}]
      BY DEF Given, ListInv, TypeOK
    <3>4. /\ fd' \in [Blocks -> Fds \cup {Bad}] /\ heap' \in [Blocks -> {"free", "used"}]
          /\ arg' \in [Threads -> Fds \cup {Bad}] /\ mine' \in [Threads -> Blocks \cup {None}]
      BY <1>0 DEF Given, ListInv, TypeOK
    <3> QED BY <2>2, <3>1, <3>2, <3>3, <3>4 DEF Accept, Given, ListInv, TypeOK, tell
  <2>4. UNCHANGED <<client_list, todo, older, overtaken, client_lock>>
    BY DEF Given, Accept, tell
  <2>5. b \notin Listed
    BY <1>0 DEF ListInv, HeapSound
  <2>6. pc'[Main] = "add" /\ mine'[Main] = b
    BY <1>0, <2>1 DEF ListInv, TypeOK
  <2>7. HeapSound'
    BY <1>0, <2>4, <2>6 DEF ListInv, TypeOK, HeapSound, Listed
  <2>8. \A t \in Threads :
            pc'[t] \in Serving \cup {"add", "create"} => mine'[t] \in Blocks
    BY <1>0, <2>1 DEF ListInv, TypeOK, Serving
  <2>9. \A t \in Threads : todo[t] # <<>> => pc'[t] \in Telling
    <3>1. pc[p] = "none"
      BY DEF Accept, AwayInv
    <3> QED BY <1>0, <2>1, <3>1 DEF ListInv, TypeOK, Telling
  <2> QED BY <2>3, <2>4, <2>5, <2>6, <2>7, <2>8, <2>9 DEF ListInv, TraversalSafe, Listed
<1>2. CASE /\ pc' = pc \/ pc' = [pc EXCEPT ![Main] = "test"]
           /\ UNCHANGED <<memory, mine, arg, history, client_lock, tell, said, table>>
           /\ server' \in {server, "exited"}
           /\ wire' \in {wire, [wire EXCEPT ![p] = "closed"]}
  <2>1. pc' \in [Threads -> Positions]
    BY <1>2, PositionsAre DEF ListInv, TypeOK
  <2>2. TypeOK'
    BY <1>2, <2>1 DEF ListInv, TypeOK, memory, tell, history
  <2>3. \A t \in Threads :
            pc'[t] \in Serving \cup {"add", "create"} => mine'[t] \in Blocks
    BY <1>0, <1>2 DEF ListInv, TypeOK, Serving
  <2>4. \A t \in Threads : todo[t] # <<>> => pc'[t] \in Telling
    BY <1>0, <1>2 DEF ListInv, TypeOK, Telling
  <2> QED BY <1>0, <1>2, <2>2, <2>3, <2>4, ListQuiet DEF memory, tell, ListInv, TypeOK
<1> QED BY <1>1, <1>2 DEF Accept, Goto, local

LEMMA client_list_addList == ASSUME ListInv, client_list_add PROVE ListInv'
<1>0. /\ pc[Main] = "add" /\ Main \in Threads
      /\ mine[Main] \in Blocks /\ mine[Main] \notin Listed
  BY PositionsAre DEF client_list_add, ListInv
<1>1. /\ client_list' \in Seq(Blocks) /\ IsInjective(client_list')
      /\ Listed' = Listed \cup {mine[Main]}
  BY <1>0, PushFacts DEF client_list_add, ListInv, TypeOK, HeapSound, Listed
<1>2. pc' \in [Threads -> Positions]
  BY PositionsAre DEF client_list_add, Goto, ListInv, TypeOK
<1>3. TypeOK'
  BY <1>1, <1>2 DEF client_list_add, ListInv, TypeOK, sockets, tell, history
<1>4. pc'[Main] = "create"
  BY <1>0 DEF client_list_add, Goto, ListInv, TypeOK
<1>5. HeapSound'
  BY <1>0, <1>1, <1>4 DEF client_list_add, ListInv, HeapSound
<1>6. \A t \in Threads : todo[t] = <<>> /\ todo'[t] = <<>>
  BY NoneAssumption DEF client_list_add, ListInv, tell
<1>7. TraversalSafe'
  BY <1>6 DEF TraversalSafe, ToSet
<1>8. \A t \in Threads :
        pc'[t] \in Serving \cup {"add", "create"} => mine'[t] \in Blocks
  BY <1>0 DEF client_list_add, Goto, ListInv, TypeOK
<1> QED BY <1>3, <1>4, <1>5, <1>6, <1>7, <1>8 DEF client_list_add, tell, ListInv

LEMMA client_list_removeList ==
    ASSUME ListInv, NEW t \in Threads, client_list_remove(t) PROVE ListInv'
<1>0. /\ pc[t] = "remove" /\ pc' \in {[pc EXCEPT ![t] = "told"],
                    [pc EXCEPT ![t] = "test"], [pc EXCEPT ![t] = "last"]}
      /\ mine' = [mine EXCEPT ![t] = None] /\ arg' = [arg EXCEPT ![t] = Bad]
      /\ UNCHANGED <<sockets, client_lock, tell, said, history>>
  BY DEF client_list_remove, Goto
<1>1. pc' \in [Threads -> Positions]
  BY <1>0, PositionsAre DEF ListInv, TypeOK, Telling
<1>2. pc[Main] = "add" <=> pc'[Main] = "add"
  BY <1>0, PositionsAre DEF ListInv, TypeOK
<1>3. pc'[Main] = "add" => mine'[Main] = mine[Main]
  BY <1>0, PositionsAre DEF ListInv, TypeOK
<1>4. \A u \in Threads : todo[u] = <<>> /\ todo'[u] = <<>>
  BY <1>0, NoneAssumption DEF client_list_remove, ListInv, tell
<1>5. \A u \in Threads :
        pc'[u] \in Serving \cup {"add", "create"} => mine'[u] \in Blocks
  BY <1>0 DEF ListInv, TypeOK, Serving
<1>6. TraversalSafe'
  BY <1>4 DEF TraversalSafe, ToSet
<1>7. TypeOK' /\ HeapSound' /\ Listed' \subseteq Listed
  <2>1. CASE \E i \in DOMAIN client_list :
            /\ FirstWith(arg[t], i)
            /\ client_list' = RemoveAt(client_list, i)
            /\ heap' = [heap EXCEPT ![client_list[i]] = "free"]
            /\ \E f \in {arg[t], Bad} : fd' = [fd EXCEPT ![client_list[i]] = f]
    <3> PICK i \in DOMAIN client_list :
            /\ FirstWith(arg[t], i)
            /\ client_list' = RemoveAt(client_list, i)
            /\ heap' = [heap EXCEPT ![client_list[i]] = "free"]
            /\ \E f \in {arg[t], Bad} : fd' = [fd EXCEPT ![client_list[i]] = f]
      BY <2>1
    <3>1. i \in 1..Len(client_list) /\ client_list[i] \in Blocks /\ client_list[i] \in Listed
      BY LenProperties, EntriesFacts DEF ListInv, TypeOK, HeapSound
    <3>2. /\ client_list' \in Seq(Blocks) /\ IsInjective(client_list')
          /\ Listed' = Listed \ {client_list[i]}
      BY <3>1, RemoveAtFacts DEF ListInv, TypeOK, HeapSound, Listed
    <3>3. TypeOK'
      BY <1>0, <1>1, <3>1, <3>2 DEF ListInv, TypeOK, sockets, tell, history
    <3>4. HeapSound'
      BY <1>2, <1>3, <3>1, <3>2 DEF ListInv, TypeOK, HeapSound
    <3> QED BY <3>2, <3>3, <3>4
  <2>2. CASE UNCHANGED memory
    <3>1. TypeOK'
      BY <1>0, <1>1, <2>2 DEF ListInv, TypeOK, sockets, tell, history, memory
    <3> QED BY <1>2, <1>3, <2>2, <3>1 DEF ListInv, HeapSound, Listed, memory
  <2> QED BY <2>1, <2>2 DEF client_list_remove
<1> QED BY <1>0, <1>2, <1>3, <1>4, <1>5, <1>6, <1>7 DEF ListInv, tell

(* Connections do not become new again, and threads do not vanish.         *)
LEMMA AwayQuiet ==
    ASSUME AwayInv,
           \A p \in Peers : wire'[p] = "away" => wire[p] = "away",
           \A p \in Peers : pc[p] = "none" => pc'[p] = "none"
    PROVE  AwayInv'
  BY DEF AwayInv

LEMMA AwaySend ==
    ASSUME TypeOK, NEW f, Send(f), NEW p \in Peers, wire'[p] = "away"
    PROVE  wire[p] = "away"
  BY DEF Send, ConnectionOf, TypeOK

LEMMA AwayClose ==
    ASSUME TypeOK, NEW f, Close(f), NEW p \in Peers, wire'[p] = "away"
    PROVE  wire[p] = "away"
  BY DEF Close, ConnectionOf, TypeOK

LEMMA AwaySendNext ==
    ASSUME ListInv, AwayInv, NEW t \in Threads, SendNext(t) PROVE AwayInv'
<1>1. pc[t] \in Telling
  BY DEF ListInv, SendNext
<1>2. \A p \in Peers : pc[p] = "none" => pc'[p] = "none"
  BY <1>1, PositionsAre DEF SendNext, Goto, ListInv, TypeOK, Telling
<1>3. ListInv => TypeOK
  BY DEF ListInv
<1> QED BY <1>2, <1>3, AwayQuiet, AwaySend DEF SendNext

LEMMA AwayShared ==
    ASSUME TypeOK, AwayInv, NEW t \in Threads,
           Lock(t) \/ TellNobody(t) \/ client_list_remove(t)
    PROVE  AwayInv'
<1>1. wire' = wire
  BY DEF Lock, TellNobody, client_list_remove, sockets
<1>2. CASE Lock(t)
  BY <1>1, <1>2, AwayQuiet DEF Lock, local
<1>3. CASE pc[t] # "none" /\ \E to \in Positions : pc' = [pc EXCEPT ![t] = to]
  <2>1. \A p \in Peers : pc[p] = "none" => pc'[p] = "none"
    BY <1>3, PositionsAre DEF TypeOK
  <2> QED BY <1>1, <2>1, AwayQuiet
<1>4. CASE TellNobody(t)
  <2>1. pc[t] # "none" /\ After(t) \in Positions
    BY <1>4, AfterRange, PositionsAre DEF TellNobody, Telling, Serving
  <2> QED BY <1>3, <1>4, <2>1 DEF TellNobody, Goto
<1>5. CASE client_list_remove(t)
  <2>1. \E to \in {"told", "test", "last"} : pc' = [pc EXCEPT ![t] = to]
    BY <1>5 DEF client_list_remove, Goto
  <2> QED BY <1>3, <1>5, <2>1, PositionsAre DEF client_list_remove, Telling
<1> QED BY <1>2, <1>4, <1>5

LEMMA AwayStep == ASSUME ListInv, AwayInv, [Next]_vars PROVE AwayInv'
<1>0. TypeOK
  BY DEF ListInv
<1>1. CASE MainStep
  <2>1. CASE TestRunning \/ client_list_add
    <3>1. wire' = wire
      BY <2>1 DEF TestRunning, client_list_add, sockets
    <3>2. \A p \in Peers : pc'[p] = pc[p]
      BY <1>0, <2>1, ThreadsAssumption, PositionsAre
      DEF TestRunning, client_list_add, Goto, TypeOK
    <3> QED BY <3>1, <3>2, AwayQuiet
  <2>2. ASSUME NEW p \in Peers, Accept(p) PROVE AwayInv'
    <3>1. wire[p] = "away" /\ p # Main /\ p \in Threads
      BY <2>2, ThreadsAssumption, PositionsAre DEF Accept
    <3>2. CASE pc' \in {pc, [pc EXCEPT ![Main] = "test"]}
      <4>1. \A q \in Peers : pc'[q] = pc[q]
        BY <1>0, <3>2, ThreadsAssumption, PositionsAre DEF TypeOK
      <4>2. \A q \in Peers : wire'[q] = "away" => wire[q] = "away"
        BY <1>0, <2>2, <3>1 DEF Accept, Given, TypeOK
      <4> QED BY <4>1, <4>2, AwayQuiet
    <3>3. CASE /\ pc' = [pc EXCEPT ![Main] = "add", ![p] = "new"]
               /\ wire' = [wire EXCEPT ![p] = "open"]
      BY <1>0, <3>1, <3>3, ThreadsAssumption, PositionsAre DEF AwayInv, TypeOK
    <3> QED BY <2>2, <3>2, <3>3 DEF Accept, Given, Goto, local
  <2>3. ASSUME NEW p \in Peers, CreateThread(p) PROVE AwayInv'
    <3>1. \A q \in Peers : pc[q] = "none" => pc'[q] = "none"
      BY <1>0, <2>3, ThreadsAssumption, PositionsAre DEF CreateThread, TypeOK
    <3>2. \A q \in Peers : wire'[q] = "away" => wire[q] = "away"
      BY <1>0, <2>3, AwayClose DEF CreateThread, sockets
    <3> QED BY <3>1, <3>2, AwayQuiet
  <2> QED BY <1>0, <1>1, <2>1, <2>2, <2>3, PositionsAre, AwayShared, AwaySendNext
          DEF MainStep
<1>2. CASE PeriodicStep
  BY <1>0, <1>2, PositionsAre, AwayShared, AwaySendNext DEF PeriodicStep
<1>3. ASSUME NEW p \in Peers, Handler(p) PROVE AwayInv'
  <2>0. p \in Threads
    BY PositionsAre
  <2>1. ASSUME pc[p] # "none", \E to \in Positions : pc' = [pc EXCEPT ![p] = to]
        PROVE  \A q \in Peers : pc[q] = "none" => pc'[q] = "none"
    BY <1>0, <2>1, PositionsAre DEF TypeOK
  <2>2. CASE Greet(p)
    BY <1>0, <2>2, <2>1, AwayQuiet, AwaySend, PositionsAre DEF Greet, Goto, Telling
  <2>3. CASE RecvFails(p)
    BY <2>3, <2>1, AwayQuiet, PositionsAre DEF RecvFails, Goto, Serving, sockets
  <2>4. CASE Command(p)
    <3>1. \A q \in Peers : pc[q] = "none" => pc'[q] = "none"
      BY <2>4, <2>1, PositionsAre DEF Command, Goto, Serving
    <3> QED BY <1>0, <2>4, <3>1, AwayQuiet, AwaySend DEF Command
  <2>5. CASE CloseSocket(p)
    <3>1. \A q \in Peers : pc[q] = "none" => pc'[q] = "none"
      BY <2>5, <2>1, PositionsAre DEF CloseSocket, Goto, Serving
    <3> QED BY <1>0, <2>5, <3>1, AwayQuiet, AwayClose DEF CloseSocket
  <2>6. CASE ReadDescriptor(p)
    BY <2>6, <2>1, AwayQuiet, PositionsAre DEF ReadDescriptor, Goto, Serving, sockets
  <2> QED BY <1>0, <1>3, <2>0, <2>2, <2>3, <2>4, <2>5, <2>6, AwayShared, AwaySendNext
          DEF Handler
<1>4. ASSUME NEW p \in Peers, Drain(p) \/ PeerLeaves(p) PROVE AwayInv'
  <2>1. pc' = pc
    BY <1>4 DEF Drain, PeerLeaves, local
  <2>2. \A q \in Peers : wire'[q] = "away" => wire[q] = "away"
    BY <1>0, <1>4 DEF Drain, PeerLeaves, TypeOK
  <2> QED BY <2>1, <2>2, AwayQuiet
<1>5. CASE handle_signal
  <2>1. wire' = wire
    BY <1>5 DEF handle_signal
  <2>2. \A p \in Peers : pc'[p] = pc[p]
    BY <1>0, <1>5, ThreadsAssumption, PositionsAre DEF handle_signal, Goto, TypeOK
  <2> QED BY <2>1, <2>2, AwayQuiet
<1>6. CASE UNCHANGED vars
  BY <1>6, AwayQuiet DEF vars, sockets, local
<1> QED BY <1>1, <1>2, <1>3, <1>4, <1>5, <1>6 DEF Next

LEMMA ListStep == ASSUME ListInv, AwayInv, [Next]_vars PROVE ListInv'
<1>1. CASE Next
  <2>1. CASE MainStep
    BY <2>1, PositionsAre, TestRunningList, client_list_addList, client_list_removeList,
       LockList, TellNobodyList, SendNextList, AcceptList, CreateThreadList DEF MainStep
  <2>2. CASE PeriodicStep
    BY <2>2, PositionsAre, LockList, SendNextList DEF PeriodicStep
  <2>3. CASE handle_signal
    BY <2>3, handle_signalList
  <2>4. ASSUME NEW p \in Peers, Handler(p) \/ Drain(p) \/ PeerLeaves(p) PROVE ListInv'
    <3>1. p \in Threads
      BY PositionsAre
    <3> QED BY <2>4, <3>1, DrainList, PeerLeavesList, GreetList, RecvFailsList, CommandList,
               CloseSocketList, ReadDescriptorList, client_list_removeList, LockList, TellNobodyList,
               SendNextList DEF Handler
  <2> QED BY <1>1, <2>1, <2>2, <2>3, <2>4 DEF Next
<1>2. CASE UNCHANGED vars
  BY <1>2 DEF ListInv, TypeOK, HeapSound, TraversalSafe, Listed, vars, sockets,
              memory, local, tell, history
<1> QED BY <1>1, <1>2

LEMMA ListAlways == Spec => [](ListInv /\ AwayInv)
<1>1. Init => AwayInv
  BY ThreadsAssumption DEF Init, AwayInv, Threads
<1> QED BY <1>1, ListInit, ListStep, AwayStep, PTL DEF Spec

(* In every behaviour the list is what client_list_add and                 *)
(* client_list_remove make of it: each block in use is linked once, unless *)
(* main is about to link it, and freed blocks are not.                     *)
THEOREM Sound == Spec => []HeapSound
<1>1. ListInv => HeapSound
  BY DEF ListInv
<1> QED BY ListAlways, <1>1, PTL

(* The positions and fields stay in their ranges.                          *)
THEOREM Typed == Spec => []TypeOK
<1>1. ListInv => TypeOK
  BY DEF ListInv
<1> QED BY ListAlways, <1>1, PTL

(* No broadcast of client_list_broadcast or broadcast_user_list follows an *)
(* entry that client_list_remove has freed.                                *)
THEOREM Traversal == Spec => []TraversalSafe
<1>1. ListInv => TraversalSafe
  BY DEF ListInv
<1> QED BY ListAlways, <1>1, PTL

(* All clients are sent the broadcasts in one order.                       *)
THEOREM Agreed == Spec => OrderAgreed
<1>1. ListInv /\ [Next]_vars =>
        [\A t \in Threads, p \in Peers :
            Reaches(t, p) /\ todo'[t] # todo[t] => <<t, p>> \notin overtaken]_vars
  BY DEF ListInv
<1> QED BY ListAlways, <1>1, PTL DEF Spec, OrderAgreed

-----------------------------------------------------------------------------
(* A step that leaves descriptors and entries alone, and in which a thread *)
(* only goes on serving, or to where it has no client.                     *)
LEMMA KeptQuiet ==
    ASSUME KeptInv,
           UNCHANGED <<table, fd, client_list, mine, arg, reused>>,
           \A p \in Peers :
               \/ pc'[p] = pc[p]
               \/ pc[p] \in Before /\ pc'[p] \in Before
               \/ pc'[p] \notin Serving \cup {"new"},
           \/ pc'[Main] = pc[Main]
           \/ pc[Main] \notin Held /\ pc'[Main] \notin Held
    PROVE  KeptInv'
<1> USE DEF KeptInv, Listed, ConnectionOf, Before, Serving, Held
<1>1. CASE ~reused
  <2>1. EntryKept'
    BY <1>1 DEF EntryKept
  <2>2. CASE pc'[Main] = pc[Main]
    BY <1>1, <2>1, <2>2 DEF EntryKept
  <2>3. CASE pc[Main] \notin Held /\ pc'[Main] \notin Held
    BY <1>1, <2>1, <2>3 DEF EntryKept
  <2> QED BY <2>2, <2>3
<1>2. CASE reused
  BY <1>2 DEF EntryKept
<1> QED BY <1>1, <1>2

(* Broadcasting: the handler goes on, main and the periodic thread go back.*)
LEMMA KeptTelling ==
    ASSUME ListInv, KeptInv, NEW t \in Threads,
           Lock(t) \/ TellNobody(t) \/ SendNext(t)
    PROVE  KeptInv'
<1>1. pc[t] \in Telling
  BY DEF ListInv, Lock, TellNobody, SendNext
<1>2. UNCHANGED <<table, fd, client_list, mine, arg, reused>>
  BY DEF Lock, TellNobody, SendNext, sockets, memory, local, history
<1>3. pc' = pc \/ pc' = [pc EXCEPT ![t] = After(t)]
  BY DEF Lock, TellNobody, SendNext, local, Goto
<1>4. CASE pc' = pc
  BY <1>2, <1>4, KeptQuiet
<1>5. CASE pc' = [pc EXCEPT ![t] = After(t)]
  <2>1. After(t) \notin Held \cup {"new"}
    BY AfterRange DEF Held
  <2>2. After(t) \in Serving => pc[t] \in Before /\ After(t) \in Before
    <3>1. SUFFICES ASSUME After(t) \in Serving
                   PROVE  pc[t] \in Before /\ After(t) \in Before
      OBVIOUS
    <3>2. After(t) \in {"loop", "close"}
      BY <3>1, AfterRange DEF Serving
    <3>3. t \in Peers /\ pc[t] \notin {"told", "last"}
      BY <3>2 DEF After, Threads
    <3> QED BY <1>1, <3>2, <3>3 DEF Telling, Before, Serving
  <2>3. \A p \in Threads \ {t} : pc'[p] = pc[p]
    BY <1>5 DEF ListInv, TypeOK
  <2>4. pc'[t] = After(t)
    BY <1>5 DEF ListInv, TypeOK
  <2>5. pc[t] \notin Held
    BY <1>1 DEF Telling, Held
  <2> QED BY <1>2, <2>1, <2>2, <2>3, <2>4, <2>5, KeptQuiet, PositionsAre
<1> QED BY <1>3, <1>4, <1>5

LEMMA KeptPlain ==
    ASSUME ListInv, KeptInv, NEW p \in Peers,
           \/ Greet(p) \/ RecvFails(p) \/ Command(p) \/ Drain(p) \/ PeerLeaves(p)
           \/ handle_signal \/ TestRunning \/ UNCHANGED vars
    PROVE  KeptInv'
<1>1. UNCHANGED <<table, fd, client_list, mine, arg, reused>>
  BY DEF Greet, RecvFails, Command, Drain, PeerLeaves, handle_signal, TestRunning,
         vars, sockets, memory, local, history
<1>2. CASE Drain(p) \/ PeerLeaves(p) \/ UNCHANGED vars
  BY <1>1, <1>2, KeptQuiet DEF Drain, PeerLeaves, vars, local
<1>3. CASE Greet(p) \/ RecvFails(p) \/ Command(p)
  <2>1. PICK to \in Before : pc[p] \in Before /\ pc' = [pc EXCEPT ![p] = to]
    BY <1>3 DEF Greet, RecvFails, Command, Goto, Before, Serving
  <2>2. p # Main /\ \A t \in Threads \ {p} : pc'[t] = pc[t]
    BY <2>1, ThreadsAssumption DEF ListInv, TypeOK
  <2>3. pc'[p] = to
    BY <2>1, PositionsAre DEF ListInv, TypeOK
  <2> QED BY <1>1, <2>1, <2>2, <2>3, KeptQuiet, PositionsAre
<1>4. CASE handle_signal \/ TestRunning
  <2>1. \/ pc' = pc
        \/ /\ pc[Main] \in {"test", "accept"}
           /\ pc' \in {[pc EXCEPT ![Main] = "test"], [pc EXCEPT ![Main] = "accept"]}
    BY <1>4 DEF handle_signal, TestRunning, Goto
  <2>2. \A q \in Peers : pc'[q] = pc[q]
    BY <2>1, ThreadsAssumption, PositionsAre DEF ListInv, TypeOK
  <2>3. pc'[Main] = pc[Main] \/ (pc[Main] \notin Held /\ pc'[Main] \notin Held)
    BY <2>1, PositionsAre DEF ListInv, TypeOK, Held
  <2> QED BY <1>1, <2>2, <2>3, KeptQuiet
<1> QED BY <1>2, <1>3, <1>4

LEMMA KeptClose ==
    ASSUME ListInv, KeptInv, NEW p \in Peers, CloseSocket(p) PROVE KeptInv'
<1>0. /\ p \in Threads /\ p # Main /\ Main \in Threads /\ Peers \subseteq Threads
      /\ None \notin Peers
  BY ThreadsAssumption, NoneAssumption, PositionsAre
<1>1. SUFFICES ASSUME ~reused PROVE KeptInv'
  BY DEF KeptInv, EntryKept, CloseSocket, history
<1>2. /\ pc[p] = "close" /\ UNCHANGED <<fd, client_list, mine, reused>>
      /\ pc'[p] = "closed" /\ \A t \in Threads \ {p} : pc'[t] = pc[t]
      /\ arg' = arg
  BY <1>0 DEF CloseSocket, Goto, memory, history, ListInv, TypeOK
<1>3. ConnectionOf(fd[mine[p]]) = p /\ mine[p] \in Listed
  BY <1>1, <1>2 DEF KeptInv, EntryKept, Before, Serving
<1>4. table' = [table EXCEPT ![fd[mine[p]]] = None] /\ fd[mine[p]] \in Fds
  BY <1>0, <1>3 DEF CloseSocket, Close, ConnectionOf
<1>5. ASSUME NEW f, ConnectionOf(f) \in Peers \ {p} PROVE ConnectionOf(f)' = ConnectionOf(f)
  BY <1>0, <1>3, <1>4, <1>5 DEF ConnectionOf, ListInv, TypeOK
<1>6. EntryKept'
  <2> SUFFICES ASSUME NEW q \in Peers
               PROVE  /\ pc'[q] \in Serving => mine'[q] \in Listed'
                      /\ pc'[q] \in Before => ConnectionOf(fd[mine[q]])' = q
    BY DEF EntryKept
  <2>1. CASE q = p
    BY <2>1, <1>2, <1>3 DEF Before, Listed
  <2>2. CASE q # p
    <3>1. pc'[q] = pc[q]
      BY <2>2, <1>0, <1>2
    <3>2. /\ pc[q] \in Serving => mine[q] \in Listed
          /\ pc[q] \in Before => ConnectionOf(fd[mine[q]]) = q
      BY <1>1 DEF KeptInv, EntryKept
    <3>3. pc[q] \in Before => ConnectionOf(fd[mine[q]])' = q
      BY <2>2, <3>2, <1>2, <1>5
    <3> QED BY <3>1, <3>2, <3>3, <1>2 DEF Listed
  <2> QED BY <2>1, <2>2
<1>7. ASSUME NEW q \in Peers, pc'[q] = "new"
      PROVE  pc'[Main] \in {"add", "create"} /\ ConnectionOf(arg[Main])' = q
  <2>1. q # p /\ pc[q] = "new"
    BY <1>0, <1>2, <1>7
  <2>2. pc[Main] \in {"add", "create"} /\ ConnectionOf(arg[Main]) = q
    BY <1>1, <2>1 DEF KeptInv
  <2>3. ConnectionOf(arg[Main])' = q
    BY <1>0, <1>2, <1>5, <2>1, <2>2 DEF ConnectionOf
  <2> QED BY <1>0, <1>2, <2>2, <2>3
<1>8. \A q \in Peers : pc'[q] = "remove" => arg'[q] = fd'[mine'[q]]
  BY <1>0, <1>1, <1>2 DEF KeptInv
<1>9. \A q \in Peers : pc'[q] \in Serving => pc[q] \in Serving
  BY <1>0, <1>2 DEF Serving
<1> QED BY <1>0, <1>1, <1>2, <1>6, <1>7, <1>8, <1>9 DEF KeptInv, Listed, Held

LEMMA KeptAccept ==
    ASSUME ListInv, KeptInv, NEW p \in Peers, Accept(p) PROVE KeptInv'
<1>0. /\ p \in Threads /\ p # Main /\ Main \in Threads /\ Peers \subseteq Threads
      /\ pc[Main] = "accept"
  BY ThreadsAssumption, PositionsAre DEF Accept
<1>1. CASE \E f \in Fds, b \in Blocks :
            /\ Given(p, f) /\ heap[b] = "free"
            /\ heap' = [heap EXCEPT ![b] = "used"]
            /\ fd' = [fd EXCEPT ![b] = f]
            /\ mine' = [mine EXCEPT ![Main] = b]
  <2> PICK f \in Fds, b \in Blocks :
            /\ Given(p, f) /\ heap[b] = "free"
            /\ fd' = [fd EXCEPT ![b] = f]
            /\ mine' = [mine EXCEPT ![Main] = b]
    BY <1>1
  <2>1. SUFFICES ASSUME ~reused' PROVE KeptInv'
    BY DEF KeptInv, EntryKept
  <2>2. ~reused /\ \A d \in Listed : fd[d] # f
    BY <2>1 DEF Given, Listed
  <2>3. /\ table' = [table EXCEPT ![f] = p] /\ table[f] = None
        /\ UNCHANGED client_list
        /\ arg' = [arg EXCEPT ![Main] = f]
        /\ pc' = [pc EXCEPT ![Main] = "add", ![p] = "new"]
    BY DEF Given, LowestFree
  <2>4. b \notin Listed
    BY <1>0 DEF ListInv, HeapSound
  <2>5. /\ pc'[Main] = "add" /\ pc'[p] = "new" /\ arg'[Main] = f /\ mine'[Main] = b
        /\ fd'[b] = f /\ ConnectionOf(f)' = p
        /\ \A q \in Peers \ {p} : pc'[q] = pc[q]
        /\ \A q \in Peers : arg'[q] = arg[q] /\ mine'[q] = mine[q]
        /\ \A d \in Listed : fd'[d] = fd[d]
    BY <1>0, <2>3, <2>4, ThreadsAssumption DEF ConnectionOf, ListInv, TypeOK
  <2>6. ASSUME NEW d \in Listed PROVE ConnectionOf(fd[d])' = ConnectionOf(fd[d])
    BY <2>2, <2>3, <2>5 DEF ConnectionOf, ListInv, TypeOK
  <2>7. ASSUME NEW q \in Peers, pc'[q] \in Serving
        PROVE  /\ q # p /\ pc[q] \in Serving /\ mine'[q] = mine[q] /\ mine[q] \in Listed
               /\ fd'[mine'[q]] = fd[mine[q]]
    <3>1. q # p
      BY <2>5, <2>7 DEF Serving
    <3>2. pc[q] \in Serving /\ mine[q] \in Listed
      BY <3>1, <2>2, <2>5, <2>7 DEF KeptInv, EntryKept
    <3> QED BY <3>1, <3>2, <2>5
  <2>8. EntryKept'
    <3> SUFFICES ASSUME NEW q \in Peers, pc'[q] \in Serving
                 PROVE  /\ mine'[q] \in Listed'
                        /\ pc'[q] \in Before => ConnectionOf(fd[mine[q]])' = q
      BY DEF EntryKept, Before
    <3>1. q # p /\ pc[q] \in Serving /\ mine'[q] = mine[q] /\ mine[q] \in Listed
      BY <2>7
    <3>2. pc'[q] \in Before => ConnectionOf(fd[mine[q]]) = q
      BY <2>2, <2>5, <3>1 DEF KeptInv, EntryKept
    <3>3. ConnectionOf(fd[mine[q]])' = ConnectionOf(fd[mine[q]])
      BY <2>6, <3>1 DEF ConnectionOf
    <3> QED BY <3>1, <3>2, <3>3, <2>3 DEF Listed
  <2>9. \A q \in Peers : pc'[q] = "new" => q = p
    BY <1>0, <2>2, <2>5 DEF KeptInv
  <2>10. ConnectionOf(arg[Main])' = p
    BY <2>5 DEF ConnectionOf
  <2>11. \A q \in Peers : pc'[q] = "remove" => arg'[q] = fd'[mine'[q]]
    <3> SUFFICES ASSUME NEW q \in Peers, pc'[q] = "remove" PROVE arg'[q] = fd'[mine'[q]]
      OBVIOUS
    <3>1. q # p /\ fd'[mine'[q]] = fd[mine[q]] /\ pc[q] = "remove"
      BY <2>5, <2>7 DEF Serving
    <3> QED BY <3>1, <2>2, <2>5 DEF KeptInv
  <2>12. /\ \A c, d \in Listed' : fd'[c] = fd'[d] => c = d
         /\ \A d \in Listed' : fd'[d] # arg'[Main]
    BY <2>2, <2>3, <2>5 DEF KeptInv, Listed
  <2>13. \A q, r \in Peers :
            pc'[q] \in Serving /\ pc'[r] \in Serving /\ mine'[q] = mine'[r] => q = r
    BY <2>2, <2>7 DEF KeptInv
  <2>14. \A q \in Peers : pc'[q] \in Serving => mine'[q] # mine'[Main]
    BY <2>4, <2>5, <2>7
  <2> QED BY <2>5, <2>8, <2>9, <2>10, <2>11, <2>12, <2>13, <2>14 DEF KeptInv
<1>2. CASE pc' \in {pc, [pc EXCEPT ![Main] = "test"]}
           /\ UNCHANGED <<memory, mine, arg, history, table>>
  <2>1. \A q \in Peers : pc'[q] = pc[q]
    BY <1>0, <1>2, ThreadsAssumption DEF ListInv, TypeOK
  <2>2. pc[Main] \notin Held /\ pc'[Main] \notin Held
    BY <1>0, <1>2 DEF ListInv, TypeOK, Held
  <2> QED BY <1>2, <2>1, <2>2, KeptQuiet DEF memory, history
<1> QED BY <1>1, <1>2 DEF Accept, Goto, local

LEMMA KeptAdd == ASSUME ListInv, KeptInv, client_list_add PROVE KeptInv'
<1>0. /\ pc[Main] = "add" /\ Main \in Threads /\ Peers \subseteq Threads
      /\ mine[Main] \in Blocks /\ mine[Main] \notin Listed
  BY PositionsAre DEF client_list_add, ListInv
<1>1. Listed' = Listed \cup {mine[Main]}
  BY <1>0, PushFacts DEF client_list_add, ListInv, TypeOK, HeapSound, Listed
<1>2. /\ UNCHANGED <<table, fd, mine, arg, reused>>
      /\ pc'[Main] = "create" /\ \A q \in Peers : pc'[q] = pc[q]
  BY <1>0, ThreadsAssumption
  DEF client_list_add, Goto, sockets, history, ListInv, TypeOK
<1>3. EntryKept'
  BY <1>1, <1>2 DEF KeptInv, EntryKept, ConnectionOf
<1>4. SUFFICES ASSUME ~reused PROVE KeptInv'
  BY <1>2 DEF KeptInv, EntryKept
<1>5. \A c, d \in Listed' : fd'[c] = fd'[d] => c = d
  BY <1>0, <1>1, <1>2, <1>4 DEF KeptInv, Held
<1>6. /\ arg'[Main] = fd'[mine'[Main]] /\ mine'[Main] \in Listed'
      /\ \A q \in Peers : pc'[q] \in Serving => mine'[q] # mine'[Main]
  BY <1>0, <1>1, <1>2, <1>4 DEF KeptInv, Held
<1>7. \A q, r \in Peers :
        pc'[q] \in Serving /\ pc'[r] \in Serving /\ mine'[q] = mine'[r] => q = r
  BY <1>2, <1>4 DEF KeptInv
<1>8. \A q \in Peers :
        /\ pc'[q] = "remove" => arg'[q] = fd'[mine'[q]]
        /\ pc'[q] = "new" => ConnectionOf(arg[Main])' = q
  BY <1>2, <1>4 DEF KeptInv, ConnectionOf
<1> QED BY <1>2, <1>3, <1>5, <1>6, <1>7, <1>8 DEF KeptInv

LEMMA KeptCreate ==
    ASSUME ListInv, KeptInv, NEW p \in Peers, CreateThread(p) PROVE KeptInv'
<1>0. /\ p \in Threads /\ p # Main /\ Main \in Threads /\ Peers \subseteq Threads
      /\ pc[Main] = "create" /\ pc[p] = "new" /\ None \notin Peers
      /\ UNCHANGED <<fd, client_list, reused>>
  BY ThreadsAssumption, NoneAssumption, PositionsAre DEF CreateThread, memory, history
<1>1. SUFFICES ASSUME ~reused PROVE KeptInv'
  BY <1>0 DEF KeptInv, EntryKept
<1>2. /\ ConnectionOf(arg[Main]) = p /\ arg[Main] = fd[mine[Main]]
      /\ mine[Main] \in Listed
      /\ \A q \in Peers : pc[q] \in Serving => mine[q] # mine[Main]
      /\ \A q \in Peers : pc[q] = "new" => q = p
  BY <1>0, <1>1 DEF KeptInv, Held
<1>3. Listed' = Listed
  BY <1>0 DEF Listed
<1>4. CASE /\ pc' = [pc EXCEPT ![Main] = "test", ![p] = "greet"]
           /\ mine' = [mine EXCEPT ![Main] = None, ![p] = mine[Main]]
           /\ arg' = [arg EXCEPT ![Main] = Bad]
           /\ UNCHANGED sockets
  <2>1. /\ pc'[Main] = "test" /\ pc'[p] = "greet" /\ mine'[p] = mine[Main]
        /\ \A q \in Peers \ {p} : pc'[q] = pc[q] /\ mine'[q] = mine[q]
        /\ \A q \in Peers : arg'[q] = arg[q]
        /\ table' = table
    BY <1>0, <1>4, ThreadsAssumption DEF ListInv, TypeOK, sockets
  <2>2. EntryKept'
    <3> SUFFICES ASSUME NEW q \in Peers
                 PROVE  /\ pc'[q] \in Serving => mine'[q] \in Listed'
                        /\ pc'[q] \in Before => ConnectionOf(fd[mine[q]])' = q
      BY DEF EntryKept
    <3>1. CASE q = p
      BY <3>1, <1>0, <1>2, <1>3, <2>1 DEF ConnectionOf
    <3>2. CASE q # p
      BY <3>2, <1>0, <1>1, <1>3, <2>1 DEF KeptInv, EntryKept, ConnectionOf
    <3> QED BY <3>1, <3>2
  <2>3. \A q, r \in Peers :
          pc'[q] \in Serving /\ pc'[r] \in Serving /\ mine'[q] = mine'[r] => q = r
    BY <1>1, <1>2, <2>1 DEF KeptInv
  <2>4. \A q \in Peers : pc'[q] # "new" /\ (pc'[q] = "remove" => pc[q] = "remove" /\ q # p)
    BY <1>2, <2>1
  <2>5. \A q \in Peers : pc'[q] = "remove" => arg'[q] = fd'[mine'[q]]
    BY <1>0, <1>1, <2>1, <2>4 DEF KeptInv
  <2>6. pc'[Main] \notin Held
    BY <2>1 DEF Held
  <2> QED BY <1>0, <1>1, <1>3, <2>2, <2>3, <2>4, <2>5, <2>6 DEF KeptInv, Held
<1>5. CASE /\ Close(arg[Main])
           /\ pc' = [pc EXCEPT ![Main] = "remove", ![p] = "none"]
           /\ UNCHANGED <<server, mine, arg>>
  <2>1. /\ pc'[Main] = "remove" /\ pc'[p] = "none"
        /\ \A q \in Peers \ {p} : pc'[q] = pc[q]
    BY <1>0, <1>5, ThreadsAssumption DEF ListInv, TypeOK
  <2>2. table' = [table EXCEPT ![arg[Main]] = None] /\ arg[Main] \in Fds
    BY <1>0, <1>2, <1>5 DEF Close, ConnectionOf
  <2>3. ASSUME NEW f, ConnectionOf(f) \in Peers \ {p}
        PROVE  ConnectionOf(f)' = ConnectionOf(f)
    BY <1>0, <1>2, <2>2, <2>3 DEF ConnectionOf, ListInv, TypeOK
  <2>4. \A q \in Peers : pc'[q] # "new" /\ (pc'[q] \in Serving => pc[q] = pc'[q] /\ q # p)
    BY <1>2, <2>1 DEF Serving
  <2>5. EntryKept'
    <3> SUFFICES ASSUME NEW q \in Peers, pc'[q] \in Serving
                 PROVE  /\ mine'[q] \in Listed'
                        /\ pc'[q] \in Before => ConnectionOf(fd[mine[q]])' = q
      BY DEF EntryKept, Before
    <3>1. pc[q] = pc'[q] /\ q # p
      BY <2>4
    <3>2. mine[q] \in Listed /\ (pc[q] \in Before => ConnectionOf(fd[mine[q]]) = q)
      BY <1>1, <3>1 DEF KeptInv, EntryKept
    <3>3. pc[q] \in Before => ConnectionOf(fd[mine[q]])' = q
      BY <1>0, <1>5, <2>3, <3>1, <3>2
    <3> QED BY <1>3, <1>5, <3>1, <3>2, <3>3
  <2>6. \A q \in Peers : pc'[q] = "remove" => arg'[q] = fd'[mine'[q]]
    BY <1>0, <1>1, <1>5, <2>4 DEF KeptInv, Serving
  <2>7. \A q, r \in Peers :
          pc'[q] \in Serving /\ pc'[r] \in Serving /\ mine'[q] = mine'[r] => q = r
    BY <1>1, <1>5, <2>4 DEF KeptInv
  <2>8. \A q \in Peers : pc'[q] \in Serving => mine'[q] # mine'[Main]
    BY <1>2, <1>5, <2>4
  <2> QED BY <1>0, <1>1, <1>2, <1>3, <1>5, <2>1, <2>4, <2>5, <2>6, <2>7, <2>8 DEF KeptInv
<1> QED BY <1>4, <1>5 DEF CreateThread

LEMMA KeptRemove ==
    ASSUME ListInv, KeptInv, NEW t \in Peers \cup {Main}, client_list_remove(t)
    PROVE  KeptInv'
<1>0. /\ t \in Threads /\ Main \in Threads /\ Peers \subseteq Threads
      /\ Main \notin Peers /\ pc[t] = "remove"
      /\ UNCHANGED <<table, reused>>
  BY ThreadsAssumption, PositionsAre DEF client_list_remove, sockets, history
<1>1. SUFFICES ASSUME ~reused PROVE KeptInv'
  BY <1>0 DEF KeptInv, EntryKept
<1>2. arg[t] = fd[mine[t]] /\ mine[t] \in Listed
  BY <1>0, <1>1 DEF KeptInv, EntryKept, Serving, Held
<1>3. PICK i \in DOMAIN client_list : client_list[i] = mine[t]
  BY <1>2, EntriesFacts DEF ListInv, HeapSound
<1>4. PICK j \in DOMAIN client_list :
        /\ FirstWith(arg[t], j)
        /\ client_list' = RemoveAt(client_list, j)
        /\ \E f \in {arg[t], Bad} : fd' = [fd EXCEPT ![client_list[j]] = f]
  BY <1>2, <1>3 DEF client_list_remove
<1>5. client_list[j] \in Listed /\ Listed \subseteq Blocks
  BY EntriesFacts DEF ListInv, HeapSound
<1>6. client_list[j] = mine[t]
  BY <1>1, <1>2, <1>4, <1>5 DEF FirstWith, KeptInv
<1>7. Listed' = Listed \ {mine[t]}
  <2>1. j \in 1..Len(client_list)
    BY LenProperties DEF ListInv, TypeOK
  <2> QED BY <1>4, <1>6, <2>1, RemoveAtFacts DEF ListInv, TypeOK, HeapSound, Listed
<1>8. \A d \in Listed' : fd'[d] = fd[d]
  BY <1>4, <1>5, <1>6, <1>7 DEF ListInv, TypeOK
<1>9. /\ pc'[t] \in {"told", "test", "last"} /\ mine'[t] = None
      /\ \A u \in Threads \ {t} : pc'[u] = pc[u] /\ mine'[u] = mine[u] /\ arg'[u] = arg[u]
  BY <1>0 DEF client_list_remove, Goto, ListInv, TypeOK
<1>10. ASSUME NEW q \in Peers, pc'[q] \in Serving
       PROVE  /\ q # t /\ pc[q] = pc'[q] /\ mine'[q] = mine[q] /\ mine[q] \in Listed'
              /\ arg'[q] = arg[q] /\ fd'[mine'[q]] = fd[mine[q]]
  <2>1. q # t
    BY <1>9, <1>10 DEF Serving
  <2>2. pc[q] = pc'[q] /\ mine'[q] = mine[q] /\ arg'[q] = arg[q]
    BY <1>0, <1>9, <2>1
  <2>3. mine[q] \in Listed
    BY <1>1, <1>10, <2>2 DEF KeptInv, EntryKept
  <2>4. mine[q] # mine[t]
    <3>1. CASE t = Main
      BY <3>1, <1>0, <1>1, <1>10, <2>2 DEF KeptInv, Held
    <3>2. CASE t \in Peers
      BY <3>2, <1>0, <1>1, <1>10, <2>1, <2>2 DEF KeptInv, Serving
    <3> QED BY <3>1, <3>2
  <2> QED BY <1>7, <1>8, <2>1, <2>2, <2>3, <2>4
<1>11. EntryKept'
  <2> SUFFICES ASSUME NEW q \in Peers, pc'[q] \in Serving
               PROVE  /\ mine'[q] \in Listed'
                      /\ pc'[q] \in Before => ConnectionOf(fd[mine[q]])' = q
    BY DEF EntryKept, Before
  <2>1. /\ pc[q] = pc'[q] /\ mine'[q] = mine[q] /\ mine[q] \in Listed'
        /\ fd'[mine'[q]] = fd[mine[q]]
    BY <1>10
  <2>2. pc[q] \in Before => ConnectionOf(fd[mine[q]]) = q
    BY <1>1, <2>1 DEF KeptInv, EntryKept
  <2> QED BY <1>0, <2>1, <2>2 DEF ConnectionOf
<1>12. CASE t = Main
  <2>1. pc'[Main] \notin Held
    BY <1>9, <1>12 DEF Held
  <2>2. \A q \in Peers : pc'[q] # "new"
    <3> SUFFICES ASSUME NEW q \in Peers, pc'[q] = "new" PROVE FALSE
      OBVIOUS
    <3>1. pc[q] = "new"
      BY <1>0, <1>9, <1>12
    <3> QED BY <1>0, <1>1, <1>12, <3>1 DEF KeptInv
  <2>3. \A q \in Peers : pc'[q] = "remove" => arg'[q] = fd'[mine'[q]]
    BY <1>1, <1>10 DEF KeptInv, Serving
  <2>4. \A c, d \in Listed' : fd'[c] = fd'[d] => c = d
    BY <1>1, <1>7, <1>8 DEF KeptInv
  <2>5. \A q, r \in Peers :
          pc'[q] \in Serving /\ pc'[r] \in Serving /\ mine'[q] = mine'[r] => q = r
    BY <1>1, <1>10 DEF KeptInv
  <2> QED BY <1>11, <2>1, <2>2, <2>3, <2>4, <2>5 DEF KeptInv, Held
<1>13. CASE t # Main
  <2>0. pc'[Main] = pc[Main] /\ mine'[Main] = mine[Main] /\ arg'[Main] = arg[Main]
    BY <1>0, <1>9, <1>13
  <2>1. pc[Main] \in Held => mine[Main] # mine[t]
    BY <1>0, <1>1, <1>13 DEF KeptInv, Serving
  <2>2. pc[Main] \in Held => fd'[mine[Main]] = fd[mine[Main]]
    <3>1. pc[Main] \in Held => mine[Main] \in Blocks
      BY <1>0 DEF ListInv, Held, Serving
    <3> QED BY <1>4, <1>5, <1>6, <2>1, <3>1 DEF ListInv, TypeOK
  <2>3. pc'[Main] \in Held =>
            /\ arg'[Main] = fd'[mine'[Main]]
            /\ \A q \in Peers : pc'[q] \in Serving => mine'[q] # mine'[Main]
    BY <1>1, <1>10, <2>0, <2>2 DEF KeptInv
  <2>4. /\ pc'[Main] = "add" => \A d \in Listed' : fd'[d] # arg'[Main]
        /\ pc'[Main] \in {"create", "remove"} => mine'[Main] \in Listed'
    BY <1>1, <1>7, <1>8, <2>0, <2>1 DEF KeptInv, Held
  <2>5. \A q \in Peers :
            /\ pc'[q] = "remove" => arg'[q] = fd'[mine'[q]]
            /\ pc'[q] = "new" =>
                pc'[Main] \in {"add", "create"} /\ ConnectionOf(arg[Main])' = q
    <3> SUFFICES ASSUME NEW q \in Peers
                 PROVE  /\ pc'[q] = "remove" => arg'[q] = fd'[mine'[q]]
                        /\ pc'[q] = "new" =>
                             pc'[Main] \in {"add", "create"} /\ ConnectionOf(arg[Main])' = q
      OBVIOUS
    <3>1. pc'[q] = "remove" => arg'[q] = fd'[mine'[q]]
      BY <1>1, <1>10 DEF KeptInv, Serving
    <3>2. pc'[q] = "new" => pc[q] = "new"
      BY <1>0, <1>9
    <3> QED BY <1>0, <1>1, <2>0, <3>1, <3>2 DEF KeptInv, ConnectionOf
  <2>6. \A c, d \in Listed' : fd'[c] = fd'[d] => c = d
    BY <1>1, <1>7, <1>8 DEF KeptInv
  <2>7. \A q, r \in Peers :
          pc'[q] \in Serving /\ pc'[r] \in Serving /\ mine'[q] = mine'[r] => q = r
    BY <1>1, <1>10 DEF KeptInv
  <2> QED BY <1>11, <2>3, <2>4, <2>5, <2>6, <2>7 DEF KeptInv
<1> QED BY <1>12, <1>13

LEMMA KeptRead ==
    ASSUME ListInv, KeptInv, NEW p \in Peers, ReadDescriptor(p) PROVE KeptInv'
<1>0. /\ p \in Threads /\ p # Main /\ Main \in Threads /\ Peers \subseteq Threads
  BY ThreadsAssumption, PositionsAre
<1>1. /\ UNCHANGED <<table, fd, client_list, mine, reused>>
      /\ pc[p] = "closed" /\ pc'[p] = "remove"
      /\ \A t \in Threads \ {p} : pc'[t] = pc[t]
      /\ arg'[p] = fd[mine[p]] /\ \A t \in Threads \ {p} : arg'[t] = arg[t]
  BY <1>0 DEF ReadDescriptor, Goto, sockets, memory, history, ListInv, TypeOK
<1>2. /\ pc'[Main] = pc[Main] /\ arg'[Main] = arg[Main] /\ Listed' = Listed
      /\ \A f : ConnectionOf(f)' = ConnectionOf(f)
  BY <1>0, <1>1 DEF Listed, ConnectionOf
<1>3. \A q \in Peers : /\ pc'[q] \in Serving => pc[q] \in Serving
                       /\ pc'[q] \in Before => pc[q] \in Before
                       /\ pc'[q] = "new" => pc[q] = "new"
  BY <1>0, <1>1 DEF Before, Serving
<1>4. EntryKept'
  BY <1>1, <1>2, <1>3 DEF KeptInv, EntryKept
<1>5. ASSUME ~reused, NEW q \in Peers, pc'[q] = "remove" PROVE arg'[q] = fd'[mine'[q]]
  BY <1>0, <1>1, <1>5 DEF KeptInv
<1> QED BY <1>1, <1>2, <1>3, <1>4, <1>5 DEF KeptInv

LEMMA KeptStep == ASSUME ListInv, KeptInv, [Next]_vars PROVE KeptInv'
<1>1. CASE MainStep
  <2>1. CASE TestRunning
    <3>1. CASE Peers = {}
      BY <2>1, <3>1, KeptQuiet, PositionsAre
      DEF TestRunning, Goto, memory, history, ListInv, TypeOK, Held
    <3>2. CASE \E p \in Peers : TRUE
      BY <2>1, <3>2, KeptPlain
    <3> QED BY <3>1, <3>2
  <2> QED BY <1>1, <2>1, KeptAdd, KeptRemove, KeptTelling, KeptAccept, KeptCreate,
             PositionsAre DEF MainStep
<1>2. CASE PeriodicStep
  BY <1>2, KeptTelling, PositionsAre DEF PeriodicStep
<1>3. ASSUME NEW p \in Peers, Handler(p) \/ Drain(p) \/ PeerLeaves(p) PROVE KeptInv'
  BY <1>3, KeptPlain, KeptTelling, KeptRemove, KeptClose, KeptRead, PositionsAre
  DEF Handler
<1>4. CASE handle_signal
  <2>1. CASE Peers = {}
    BY <1>4, <2>1, KeptQuiet, PositionsAre
    DEF handle_signal, Goto, memory, history, ListInv, TypeOK, Held
  <2>2. CASE \E p \in Peers : TRUE
    BY <1>4, <2>2, KeptPlain
  <2> QED BY <2>1, <2>2
<1>5. CASE UNCHANGED vars
  BY <1>5, KeptQuiet DEF vars, sockets, memory, local, history
<1> QED BY <1>1, <1>2, <1>3, <1>4, <1>5 DEF Next

(* Until a descriptor is given away while an entry still carries it, no    *)
(* client loses its entry or its connection to another client's departure. *)
THEOREM Kept == Spec => []EntryKept
<1>1. Init => KeptInv
  BY ThreadsAssumption, PositionsAre
  DEF Init, KeptInv, EntryKept, Listed, ToSet, Serving, Before, Held, Threads
<1>2. KeptInv => EntryKept
  BY DEF KeptInv
<1> QED BY <1>1, <1>2, KeptStep, ListAlways, PTL DEF Spec

(* A signal lets at most one more client in.                               *)
THEOREM Late == Spec => []LateOnce
<1>1. Init => LateInv
  BY PositionsAre DEF Init, LateInv
<1>2. ListInv /\ LateInv /\ [Next]_vars => LateInv'
  <2> SUFFICES ASSUME ListInv, LateInv, [Next]_vars PROVE LateInv'
    OBVIOUS
  <2> USE DEF LateInv
  <2>1. ASSUME NEW f, Send(f), server' = "running" PROVE server = "running"
    BY <2>1 DEF Send
  <2>2. ASSUME NEW t \in Threads, Lock(t) \/ TellNobody(t) \/ SendNext(t) PROVE LateInv'
    <3>1. late' = late /\ (pc'[Main] = "accept" => pc[Main] = "accept")
      BY <2>2, AfterRange, PositionsAre
      DEF Lock, TellNobody, SendNext, history, local, Goto, ListInv, TypeOK
    <3>2. server' = "running" => server = "running"
      BY <2>1, <2>2 DEF Lock, TellNobody, SendNext, sockets
    <3> QED BY <3>1, <3>2
  <2>3. ASSUME NEW t \in Threads, client_list_remove(t) PROVE LateInv'
    BY <2>3, PositionsAre DEF client_list_remove, history, sockets, Goto, ListInv, TypeOK
  <2>4. ASSUME NEW p \in Peers, Accept(p) PROVE LateInv'
    <3>1. pc[Main] = "accept" /\ p # Main /\ late = 0
      BY <2>4, ThreadsAssumption DEF Accept
    <3>2. CASE UNCHANGED history
      BY <2>4, <3>1, <3>2 DEF history, Accept, Given
    <3>3. CASE \E f \in Fds : Given(p, f)
      BY <3>1, <3>3, PositionsAre DEF Given, ListInv, TypeOK
    <3> QED BY <2>4, <3>2, <3>3 DEF Accept
  <2>5. ASSUME NEW p \in Peers, CreateThread(p) PROVE LateInv'
    BY <2>5, PositionsAre, ThreadsAssumption
    DEF CreateThread, history, sockets, ListInv, TypeOK
  <2>6. ASSUME NEW p \in Peers,
               \/ Greet(p) \/ RecvFails(p) \/ Command(p)
               \/ CloseSocket(p) \/ ReadDescriptor(p)
        PROVE  LateInv'
    <3>1. pc'[Main] = pc[Main] /\ late' = late
      BY <2>6, PositionsAre, ThreadsAssumption
      DEF Greet, RecvFails, Command, CloseSocket, ReadDescriptor, Goto, history,
          ListInv, TypeOK
    <3>2. server' = "running" => server = "running"
      BY <2>1, <2>6 DEF Greet, RecvFails, Command, CloseSocket, ReadDescriptor, sockets
    <3> QED BY <3>1, <3>2
  <2>7. ASSUME NEW p \in Peers, Drain(p) \/ PeerLeaves(p) PROVE LateInv'
    BY <2>7 DEF Drain, PeerLeaves, history, local
  <2>8. CASE TestRunning \/ client_list_add \/ handle_signal
    BY <2>8, PositionsAre
    DEF TestRunning, client_list_add, handle_signal, Goto, history, sockets, ListInv, TypeOK
  <2>9. CASE UNCHANGED vars
    BY <2>9 DEF vars, sockets, history, local
  <2> QED BY <2>2, <2>3, <2>4, <2>5, <2>6, <2>7, <2>8, <2>9, PositionsAre
          DEF Next, MainStep, PeriodicStep, Handler
<1>3. LateInv => LateOnce
  BY DEF LateInv, LateOnce
<1> QED BY <1>1, <1>2, <1>3, ListAlways, PTL DEF Spec

=============================================================================
