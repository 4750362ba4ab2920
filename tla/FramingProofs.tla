--------------------------- MODULE FramingProofs ---------------------------
(***************************************************************************)
(* Theorems about Framing, for any threads, sizes and lengths.               *)
(***************************************************************************)
EXTENDS Framing, Integers, SequencesExt, SequenceTheorems, WellFoundedInduction, TLAPS

(***************************************************************************)
(* Facts about lists and numbers.                                          *)
(***************************************************************************)
(* A non-empty set of natural numbers has a least element. *)
LEMMA NatMin ==
    ASSUME NEW T \in SUBSET Nat, T # {}
    PROVE  \E x \in T : \A y \in T : x <= y
  <1> DEFINE R == OpToRel(<, Nat)
  <1>1. IsWellFoundedOn(R, Nat)
    BY NatLessThanWellFounded
  <1>2. \A x, y \in Nat : y < x => <<y, x>> \in R
    BY DEF OpToRel
  <1> HIDE DEF R
  <1>3. PICK x \in T : \A y \in T : ~(<<y, x>> \in R)
    BY <1>1, WFMin
  <1>4. ASSUME NEW y \in T
        PROVE  x <= y
    <2>1. x \in Nat /\ y \in Nat
      OBVIOUS
    <2>2. ~(y < x)
      BY <2>1, <1>2, <1>3
    <2> QED
      BY <2>1, <2>2
  <1> QED
    BY <1>4

(* Induction: a set of numbers that holds 0, and n + 1 with every n. *)
LEMMA UpTo ==
    ASSUME NEW n \in Nat, NEW T, 0 \in T,
           \A k \in 0..(n - 1) : k \in T => k + 1 \in T
    PROVE  \A k \in 0..n : k \in T
<1> DEFINE Out == {k \in 0..n : k \notin T}
<1> SUFFICES ASSUME Out # {} PROVE FALSE
  OBVIOUS
<1>1. PICK k \in Out : \A j \in Out : k <= j
  <2>1. Out \in SUBSET Nat
    OBVIOUS
  <2> QED BY <2>1, NatMin
<1>2. k - 1 \in 0..(n - 1) /\ k - 1 \notin Out
  BY <1>1
<1>3. k \in T
  BY <1>2
<1> QED BY <1>1, <1>3

(* A list with one more entry. *)
LEMMA AppendFacts ==
    ASSUME NEW S, NEW s \in Seq(S), NEW e \in S
    PROVE  /\ Append(s, e) \in Seq(S) /\ Len(Append(s, e)) = Len(s) + 1
           /\ \A i \in 1..Len(s) : Append(s, e)[i] = s[i]
           /\ Append(s, e)[Len(s) + 1] = e
           /\ ToSet(Append(s, e)) = ToSet(s) \cup {e}
<1> DEFINE r == Append(s, e)
<1>1. /\ r \in Seq(S) /\ Len(r) = Len(s) + 1
      /\ \A i \in 1..Len(s) : r[i] = s[i]
      /\ r[Len(s) + 1] = e
  BY AppendProperties
<1> HIDE DEF r
<1>2. Len(s) \in Nat /\ DOMAIN s = 1..Len(s) /\ DOMAIN r = 1..(Len(s) + 1)
  BY <1>1, LenProperties
<1>3. ToSet(r) \subseteq ToSet(s) \cup {e}
  <2> SUFFICES ASSUME NEW i \in 1..(Len(s) + 1) PROVE r[i] \in ToSet(s) \cup {e}
    BY <1>2 DEF ToSet
  <2>1. CASE i \in 1..Len(s)
    BY <2>1, <1>1, <1>2 DEF ToSet
  <2>2. CASE i = Len(s) + 1
    BY <2>2, <1>1
  <2> QED BY <2>1, <2>2, <1>2
<1>4. ToSet(s) \subseteq ToSet(r)
  BY <1>1, <1>2 DEF ToSet
<1>5. e \in ToSet(r)
  BY <1>1, <1>2 DEF ToSet
<1> QED BY <1>1, <1>3, <1>4, <1>5 DEF r


LEMMA SendersApart == Handler \in Senders /\ Others \subseteq Senders /\ Nobody \notin Others
  BY SendersAssumption DEF Senders

(* A thread in a broadcast holds client_mutex until it has sent it all.    *)
LEMMA BroadcastStep == BroadcastInv /\ [Next]_vars => BroadcastInv'
<1> SUFFICES ASSUME BroadcastInv, [Next]_vars PROVE BroadcastInv'
  OBVIOUS
<1> USE SendersApart DEF BroadcastInv, Idle
<1>1. ASSUME NEW s \in Senders, NEW text, Begin(s, text),
             \/ s = Handler /\ UNCHANGED client_mutex
             \/ client_mutex = Nobody /\ client_mutex' = s
      PROVE  BroadcastInv'
  <2>1. /\ DOMAIN buffer' = Senders /\ total' \in [Senders -> Nat]
        /\ \A d \in Senders : d # s => buffer'[d] = buffer[d]
    BY <1>1 DEF Begin
  <2>2. s \in Others => client_mutex' = s
    BY <1>1, SendersAssumption
  <2>3. \A d \in Others : d # s /\ ~Idle(d) => client_mutex = d /\ client_mutex' = d
    BY <1>1
  <2> QED BY <2>1, <2>2, <2>3
<1>2. CASE Answer
  <2>1. /\ UNCHANGED client_mutex
        /\ \E text : Begin(Handler, text)
    BY <1>2 DEF Answer
  <2> QED BY <1>1, <2>1
<1>3. ASSUME NEW s \in Others, broadcast_user_list(s) PROVE BroadcastInv'
  BY <1>1, <1>3 DEF broadcast_user_list
<1>4. ASSUME NEW s \in Others, client_list_broadcast(s) PROVE BroadcastInv'
  BY <1>1, <1>4 DEF client_list_broadcast
<1>5. ASSUME NEW s \in Others, Unlock(s) PROVE BroadcastInv'
  BY <1>5 DEF Unlock
<1>6. ASSUME NEW s \in Senders, send_all(s) PROVE BroadcastInv'
  <2>1. Return(s) => DOMAIN buffer' = Senders /\ total' \in [Senders -> Nat]
            /\ \A d \in Senders : buffer'[d] # <<>> => buffer[d] # <<>>
    BY DEF Return
  <2>2. ASSUME NEW n \in 1..(Capacity - Len(wire)), Took(s, n)
        PROVE  /\ DOMAIN buffer' = Senders /\ total' \in [Senders -> Nat]
               /\ \A d \in Senders : buffer'[d] # <<>> => buffer[d] # <<>>
    <3>1. n \in Nat
      OBVIOUS
    <3> QED BY <2>1, <2>2, <3>1 DEF Took
  <2>3. client_mutex' = client_mutex
    BY <1>6 DEF send_all
  <2> QED BY <1>6, <2>1, <2>2, <2>3 DEF send_all
<1>7. CASE recv_line
  BY <1>7 DEF recv_line
<1>8. CASE UNCHANGED vars
  BY <1>8 DEF vars
<1> QED BY <1>2, <1>3, <1>4, <1>5, <1>6, <1>7, <1>8 DEF Next

(* Two broadcasts never mix on a connection: only the answers of its own   *)
(* handler can be torn, or tear a broadcast.                               *)
THEOREM TornOnlyByHandler == Spec => []TornByHandler
<1>1. Init => BroadcastInv
  BY SendersApart DEF Init, BroadcastInv, Idle
<1>2. BroadcastInv => TornByHandler
  <2> SUFFICES ASSUME BroadcastInv, NEW s \in Senders, NEW d \in Senders, s # d,
                      Middle(s), Middle(d), Handler \notin {s, d}
               PROVE  FALSE
    BY DEF TornByHandler
  <2>1. s \in Others /\ d \in Others
    BY DEF Senders
  <2>2. ~Idle(s) /\ ~Idle(d)
    <3>1. total[s] \in Nat /\ total[d] \in Nat /\ Len(<<>>) = 0
      BY DEF BroadcastInv
    <3> QED BY <3>1 DEF Middle, Idle
  <2> QED BY <2>1, <2>2 DEF BroadcastInv
<1> QED BY <1>1, <1>2, BroadcastStep, PTL DEF Spec

-----------------------------------------------------------------------------
(* The text of a list, added up a user at a time. *)
Adds(r, n, len) ==
    r = [k \in 0..n |-> IF k = 0 THEN << >> ELSE r[k - 1] \o Line(len)]

LEMMA AddsExist ==
    ASSUME NEW n \in Nat, NEW len
    PROVE  \E r : Adds(r, n, len)
<1> DEFINE T == {m \in Nat : \E r : Adds(r, m, len)}
<1>1. 0 \in T
  <2> DEFINE r == [k \in 0..0 |-> << >>]
  <2>1. Adds(r, 0, len)
    BY DEF Adds
  <2> QED BY <2>1
<1>2. ASSUME NEW m \in 0..(n - 1), m \in T PROVE m + 1 \in T
  <2>0. m \in Nat
    OBVIOUS
  <2>1. PICK r : Adds(r, m, len)
    BY <1>2
  <2> DEFINE q == [k \in 0..(m + 1) |-> IF k = m + 1 THEN r[m] \o Line(len) ELSE r[k]]
  <2>2. \A k \in 0..m : q[k] = r[k]
    BY <2>0
  <2>3. ASSUME NEW k \in 0..(m + 1)
        PROVE  q[k] = IF k = 0 THEN << >> ELSE q[k - 1] \o Line(len)
    <3>1. CASE k = m + 1
      <4>1. k # 0 /\ k - 1 = m /\ m \in 0..m
        BY <2>0, <3>1
      <4> QED BY <3>1, <4>1, <2>2
    <3>2. CASE k # m + 1
      <4>1. k \in 0..m /\ (k # 0 => k - 1 \in 0..m)
        BY <2>0, <3>2
      <4>2. r[k] = IF k = 0 THEN << >> ELSE r[k - 1] \o Line(len)
        BY <2>1, <4>1 DEF Adds
      <4> QED BY <4>1, <4>2, <2>2
    <3> QED BY <3>1, <3>2
  <2>4. Adds(q, m + 1, len)
    BY <2>3 DEF Adds
  <2> QED BY <2>0, <2>4
<1> HIDE DEF T
<1>3. \A k \in 0..n : k \in T
  BY <1>1, <1>2, UpTo
<1>4. n \in T
  BY <1>3
<1> QED BY <1>4 DEF T

LEMMA UsersAdded ==
    ASSUME NEW n \in Nat, NEW len
    PROVE  \E r : /\ r[0] = << >> /\ r[n] = Users(n, len)
                  /\ \A k \in 0..(n - 1) : r[k + 1] = r[k] \o Line(len)
<1> DEFINE r == CHOOSE r : Adds(r, n, len)
<1>1. Adds(r, n, len)
  BY AddsExist
<1>2. Users(n, len) = r[n]
  BY DEF Users, Adds
<1> HIDE DEF r
<1>3. \A k \in 0..n : r[k] = IF k = 0 THEN << >> ELSE r[k - 1] \o Line(len)
  BY <1>1 DEF Adds
<1>4. r[0] = << >>
  BY <1>3
<1>5. ASSUME NEW k \in 0..(n - 1) PROVE r[k + 1] = r[k] \o Line(len)
  <2>1. k + 1 \in 0..n /\ k + 1 # 0 /\ (k + 1) - 1 = k
    OBVIOUS
  <2> QED BY <1>3, <2>1
<1> QED BY <1>2, <1>4, <1>5

LEMMA TokensTyped ==
    /\ \A t \in {"a", "k", "END", "newline"} : Token(t) \in Char
    /\ \A n \in Nat : Header(n) \in Char
    /\ Newline \in Char
  BY DEF Token, Header, Newline, Char

LEMMA LineTyped ==
    ASSUME NEW len \in Nat
    PROVE  Line(len) \in Seq(Char)
<1>1. [i \in 1..len |-> Token("a")] \in Seq(Char)
  BY TokensTyped
<1>2. <<Newline>> \in Seq(Char)
  BY TokensTyped
<1> QED BY <1>1, <1>2, ConcatProperties DEF Line

LEMMA ListTyped ==
    ASSUME NEW n \in Nat, NEW len \in Nat
    PROVE  /\ Users(n, len) \in Seq(Char) /\ Full(n, len) \in Seq(Char)
           /\ build_user_list_locked(n, len) \in Seq(Char)
<1>1. PICK r : /\ r[0] = << >> /\ r[n] = Users(n, len)
               /\ \A k \in 0..(n - 1) : r[k + 1] = r[k] \o Line(len)
  BY UsersAdded
<1> DEFINE T == {k \in Nat : r[k] \in Seq(Char)}
<1>2. 0 \in T
  <2>1. << >> \in Seq(Char)
    OBVIOUS
  <2> QED BY <1>1, <2>1
<1>3. ASSUME NEW k \in 0..(n - 1), k \in T PROVE k + 1 \in T
  <2>1. r[k] \o Line(len) \in Seq(Char)
    BY <1>3, LineTyped, ConcatProperties
  <2>2. r[k + 1] = r[k] \o Line(len) /\ k + 1 \in Nat
    BY <1>1
  <2>3. r[k + 1] \in Seq(Char)
    BY <2>1, <2>2
  <2> QED BY <2>2, <2>3
<1> HIDE DEF T
<1>4. \A k \in 0..n : k \in T
  BY <1>2, <1>3, UpTo
<1>5. Users(n, len) \in Seq(Char)
  BY <1>1, <1>4 DEF T
<1>6. <<Header(n), Newline>> \in Seq(Char) /\ <<Token("END"), Newline>> \in Seq(Char)
  BY TokensTyped
<1>7. Full(n, len) \in Seq(Char)
  BY <1>5, <1>6, ConcatProperties DEF Full
<1>8. build_user_list_locked(n, len) \in Seq(Char)
  <2>1. Len(Full(n, len)) \in Nat /\ BufferSize \in Nat \ {0}
    BY <1>7, SizesAssumption, LenProperties
  <2> DEFINE f == Full(n, len)
             m == IF Len(f) < BufferSize THEN Len(f) ELSE BufferSize - 1
  <2>2. m \in 0..Len(f)
    BY <2>1
  <2> HIDE DEF m, f
  <2>3. ASSUME NEW i \in 1..m PROVE f[i] \in Char
    <3>1. i \in 1..Len(f)
      BY <2>1, <2>2 DEF f
    <3> QED BY <1>7, <3>1, ElementOfSeq DEF f
  <2>4. SubSeq(f, 1, m) \in Seq(Char)
    BY <2>1, <2>2, <2>3, <1>7, SubSeqProperties DEF f
  <2> QED BY <2>4 DEF build_user_list_locked, m, f
<1> QED BY <1>5, <1>7, <1>8

-----------------------------------------------------------------------------
LEMMA FromFacts ==
    ASSUME NEW s \in Senders, NEW text \in Seq(Char)
    PROVE  /\ From(s, text) \in Seq(Byte) /\ Len(From(s, text)) = Len(text)
           /\ \A i \in 1..Len(text) :
                /\ From(s, text)[i].by = s /\ From(s, text)[i].no = i
                /\ From(s, text)[i].last = (i = Len(text))
                /\ From(s, text)[i].c = text[i]
<1>1. Len(text) \in Nat /\ DOMAIN text = 1..Len(text)
  BY LenProperties
<1>2. \A i \in 1..Len(text) : text[i] \in Char
  BY ElementOfSeq
<1>3. From(s, text) = [i \in 1..Len(text) |->
          [by |-> s, c |-> text[i], no |-> i, last |-> i = Len(text)]]
  BY <1>1 DEF From
<1>4. \A i \in 1..Len(text) : From(s, text)[i] \in Byte
  BY <1>1, <1>2, <1>3 DEF Byte
<1>5. From(s, text) \in Seq(Byte) /\ Len(From(s, text)) = Len(text)
  <2> DEFINE f == From(s, text)
  <2>1. f \in [1..Len(text) -> Byte]
    BY <1>3, <1>4
  <2> HIDE DEF f
  <2> QED BY <1>1, <2>1 DEF f
<1> QED BY <1>3, <1>5

LEMMA SliceFacts ==
    ASSUME NEW S, NEW q, NEW m \in Int, NEW k \in Int, m <= k,
           \A i \in m..k : q[i] \in S
    PROVE  /\ SubSeq(q, m, k) \in Seq(S)
           /\ Len(SubSeq(q, m, k)) = k - m + 1
           /\ \A i \in 1..(k - m + 1) : SubSeq(q, m, k)[i] = q[m + i - 1]
  BY SubSeqProperties

(* The pieces of a message that is being sent. *)
LEMMA PieceFacts ==
    ASSUME TypeOK, SendInv, NEW s \in Senders, ~Idle(s),
           NEW n \in 1..(Capacity - Len(wire)), n <= Len(Offered(s))
    PROVE  /\ Len(Offered(s)) = Len(buffer[s]) - total[s]
           /\ Offered(s) \in Seq(Byte)
           /\ SubSeq(Offered(s), 1, n) \in Seq(Byte)
           /\ Len(SubSeq(Offered(s), 1, n)) = n
           /\ \A i \in 1..n : SubSeq(Offered(s), 1, n)[i] = buffer[s][total[s] + i]
<1> DEFINE b == buffer[s]
           t == total[s]
           o == Offered(s)
<1>1. /\ b \in Seq(Byte) /\ Len(b) \in Nat /\ t \in Nat /\ t < Len(b)
  BY LenProperties DEF TypeOK, SendInv
<1>2. /\ o \in Seq(Byte) /\ Len(o) = Len(b) - t
      /\ \A i \in 1..(Len(b) - t) : o[i] = b[t + i]
  <2>1. \A i \in (t + 1)..Len(b) : b[i] \in Byte
    <3>1. \A i \in (t + 1)..Len(b) : i \in 1..Len(b)
      BY <1>1
    <3> QED BY <1>1, <3>1, ElementOfSeq
  <2>2. /\ SubSeq(b, t + 1, Len(b)) \in Seq(Byte)
        /\ Len(SubSeq(b, t + 1, Len(b))) = (Len(b) - (t + 1)) + 1
        /\ \A i \in 1..((Len(b) - (t + 1)) + 1) :
              SubSeq(b, t + 1, Len(b))[i] = b[(t + 1) + i - 1]
    <3>1. t + 1 \in Int /\ Len(b) \in Int /\ t + 1 <= Len(b)
      BY <1>1
    <3> HIDE DEF b, t
    <3> QED BY <2>1, <3>1, SubSeqProperties
  <2>3. (Len(b) - (t + 1)) + 1 = Len(b) - t
    BY <1>1
  <2>4. \A i \in 1..(Len(b) - t) : (t + 1) + i - 1 = t + i
    BY <1>1
  <2> QED BY <2>2, <2>3, <2>4 DEF Offered
<1>3. n \in Nat \ {0} /\ n <= Len(b) - t
  BY <1>2
<1> HIDE DEF o
<1>4. /\ SubSeq(o, 1, n) \in Seq(Byte) /\ Len(SubSeq(o, 1, n)) = n
      /\ \A i \in 1..n : SubSeq(o, 1, n)[i] = o[i]
  <2>1. \A i \in 1..n : o[i] \in Byte
    <3>1. \A i \in 1..n : i \in 1..Len(o)
      BY <1>1, <1>2, <1>3
    <3> QED BY <1>2, <3>1, ElementOfSeq
  <2> QED BY <1>1, <1>2, <1>3, <2>1, SubSeqProperties
<1>5. \A i \in 1..n : i \in 1..(Len(b) - t)
  BY <1>1, <1>3
<1>6. \A i \in 1..n : SubSeq(o, 1, n)[i] = b[t + i]
  BY <1>2, <1>4, <1>5
<1> QED BY <1>2, <1>4, <1>6 DEF o

LEMMA InitStream == Init => IInv
<1> SUFFICES ASSUME Init PROVE IInv
  OBVIOUS
<1>1. TypeOK
  <2>1. << >> \in Seq(Byte) /\ Len(<< >>) = 0 /\ 0 < MaxMsg - 1 /\ 0 <= Capacity
        /\ 0 \in 0..MAX_USERS_DISPLAY
    BY SizesAssumption
  <2>2. /\ buffer \in [Senders -> Seq(Byte)]
        /\ \A s \in Senders : total[s] \in 0..Len(buffer[s])
        /\ due \in [Senders -> Nat \ {0}]
    BY <2>1 DEF Init
  <2>3. client_mutex \in Senders \cup {Nobody} /\ {connected, torn, unfit} \subseteq BOOLEAN
    BY DEF Init
  <2> QED BY <2>1, <2>2, <2>3 DEF Init, TypeOK
<1>2. SendInv
  <2>1. Len(<< >>) = 0
    OBVIOUS
  <2> QED BY <2>1 DEF Init, SendInv, Idle
<1>3. InOrder
  <2>1. DOMAIN << >> = {}
    OBVIOUS
  <2> QED BY <2>1 DEF Init, InOrder, Of, Upcoming, Idle
<1> QED BY <1>1, <1>2, <1>3 DEF IInv

(* A message begins: its sender was idle, its first byte comes next. *)
LEMMA BeginStream ==
    ASSUME IInv, NEW s \in Senders, NEW text \in Seq(Char), Begin(s, text),
           client_mutex' \in Senders \cup {Nobody}, unfit' \in BOOLEAN
    PROVE  IInv'
<1> USE DEF IInv
<1>0. /\ buffer' = [buffer EXCEPT ![s] = From(s, text)]
      /\ total' = [total EXCEPT ![s] = 0]
      /\ UNCHANGED <<wire, line, mode, left, connected, due, torn>>
  BY DEF Begin, client
<1>1. /\ From(s, text) \in Seq(Byte) /\ Len(From(s, text)) = Len(text)
      /\ Len(text) \in Nat
      /\ \A i \in 1..Len(text) :
            /\ From(s, text)[i].by = s /\ From(s, text)[i].no = i
            /\ From(s, text)[i].last = (i = Len(text))
  BY FromFacts, LenProperties
<1>2. buffer'[s] = From(s, text) /\ total'[s] = 0
  BY <1>0 DEF TypeOK, SendInv
<1>3. \A d \in Senders \ {s} : buffer'[d] = buffer[d] /\ total'[d] = total[d]
  BY <1>0 DEF TypeOK, SendInv
<1>4. TypeOK'
  <2>1. buffer' \in [Senders -> Seq(Byte)]
    BY <1>0, <1>1 DEF TypeOK
  <2>2. ASSUME NEW d \in Senders PROVE total'[d] \in 0..Len(buffer'[d])
    <3>1. CASE d = s
      BY <1>1, <1>2, <3>1
    <3>2. CASE d # s
      BY <1>3, <3>2 DEF TypeOK
    <3> QED BY <3>1, <3>2
  <2> QED BY <1>0, <2>1, <2>2 DEF TypeOK
<1>5. SendInv'
  <2>1. total' \in [Senders -> Nat]
    BY <1>0 DEF SendInv
  <2>2. Idle(s)' \/ total'[s] < Len(buffer'[s])
    <3>1. From(s, text) = << >> \/ Len(From(s, text)) > 0
      BY <1>1
    <3> QED BY <1>2, <3>1 DEF Idle
  <2>3. \A i \in 1..Len(buffer'[s]) :
          /\ buffer'[s][i].by = s /\ buffer'[s][i].no = i
          /\ buffer'[s][i].last = (i = Len(buffer'[s]))
    BY <1>1, <1>2
  <2>4. ASSUME NEW d \in Senders \ {s}
        PROVE  /\ Idle(d)' \/ total'[d] < Len(buffer'[d])
               /\ \A i \in 1..Len(buffer'[d]) :
                    /\ buffer'[d][i].by = d /\ buffer'[d][i].no = i
                    /\ buffer'[d][i].last = (i = Len(buffer'[d]))
    BY <1>3 DEF SendInv, Idle
  <2>5. ASSUME NEW d \in Senders
        PROVE  /\ Idle(d)' \/ total'[d] < Len(buffer'[d])
               /\ \A i \in 1..Len(buffer'[d]) :
                    /\ buffer'[d][i].by = d /\ buffer'[d][i].no = i
                    /\ buffer'[d][i].last = (i = Len(buffer'[d]))
    <3>1. CASE d = s
      BY <2>2, <2>3, <3>1
    <3>2. CASE d # s
      BY <2>4, <3>2
    <3> QED BY <3>1, <3>2
  <2> QED BY <2>1, <2>5 DEF SendInv
<1>6. InOrder'
  <2>1. \A d \in Senders : Upcoming(d)' = Upcoming(d)
    <3>1. Upcoming(s)' = 1 /\ Upcoming(s) = 1
      BY <1>2 DEF Upcoming, Begin, Idle
    <3>2. \A d \in Senders \ {s} : Upcoming(d)' = Upcoming(d)
      BY <1>3 DEF Upcoming, Idle
    <3> QED BY <3>1, <3>2
  <2>2. \A d \in Senders : Of(d)' = Of(d)
    BY <1>0 DEF Of
  <2> QED BY <1>0, <2>1, <2>2 DEF InOrder
<1> QED BY <1>4, <1>5, <1>6

(* send took n bytes: they follow what was sent, and are followed by what  *)
(* is left of the message, or by the next one.                             *)
LEMMA TakenOrder ==
    ASSUME IInv, NEW s \in Senders, ~Idle(s), connected,
           NEW n \in 1..(Capacity - Len(wire)), n <= Len(Offered(s)),
           wire' = wire \o SubSeq(Offered(s), 1, n), Took(s, n),
           UNCHANGED due
    PROVE  InOrder'
<1> USE DEF IInv
<1> DEFINE W == Len(wire)
           t == total[s]
           L == Len(buffer[s])
           piece == SubSeq(Offered(s), 1, n)
<1>1. /\ piece \in Seq(Byte) /\ Len(piece) = n
      /\ \A i \in 1..n : piece[i] = buffer[s][t + i]
      /\ n <= L - t
  BY PieceFacts
<1>2. /\ wire \in Seq(Byte) /\ W \in Nat /\ DOMAIN wire = 1..W
      /\ L \in Nat /\ t \in Nat /\ n \in Nat \ {0}
  BY LenProperties DEF TypeOK, SendInv
<1>3. /\ wire' \in Seq(Byte) /\ Len(wire') = W + n
      /\ \A i \in 1..(W + n) : wire'[i] = IF i <= W THEN wire[i] ELSE piece[i - W]
  <2> HIDE DEF piece
  <2> QED BY <1>1, <1>2, ConcatProperties DEF piece
<1>4. DOMAIN wire' = 1..(W + n)
  BY <1>3, LenProperties
<1>5. \A i \in 1..W : wire'[i] = wire[i]
  BY <1>2, <1>3
<1>6. ASSUME NEW i \in (W + 1)..(W + n)
      PROVE  /\ wire'[i].by = s /\ wire'[i].no = t + (i - W)
             /\ wire'[i].last = (t + (i - W) = L)
  <2>1. i \in 1..(W + n) /\ ~(i <= W) /\ i - W \in 1..n /\ t + (i - W) \in 1..L
    <3>1. W \in Nat /\ L \in Nat /\ t \in Nat /\ n \in Nat /\ n <= L - t
      BY <1>1, <1>2
    <3> HIDE DEF W, t, L
    <3> QED BY <3>1
  <2>2. wire'[i] = buffer[s][t + (i - W)]
    BY <1>1, <1>3, <2>1
  <2>3. \A j \in 1..L : /\ buffer[s][j].by = s /\ buffer[s][j].no = j
                         /\ buffer[s][j].last = (j = L)
    BY DEF SendInv
  <2> HIDE DEF W, t, L
  <2> QED BY <2>1, <2>2, <2>3
<1>7. \A d \in Senders \ {s} : Upcoming(d)' = Upcoming(d)
  <2>1. \A d \in Senders \ {s} : buffer'[d] = buffer[d] /\ total'[d] = total[d]
    BY DEF Took, Return, TypeOK, SendInv
  <2> QED BY <2>1 DEF Upcoming, Idle
<1>8. Upcoming(s) = t + 1
  BY DEF Upcoming
<1>9. Upcoming(s)' = IF t + n = L THEN 1 ELSE t + n + 1
  <2>1. CASE t + n = L
    BY <2>1 DEF Took, Return, Upcoming, Idle, TypeOK
  <2>2. CASE t + n # L
    <3>1. total'[s] = t + n /\ buffer' = buffer
      BY <2>2 DEF Took, SendInv
    <3> QED BY <2>2, <3>1 DEF Upcoming, Idle
  <2> QED BY <2>1, <2>2
<1>10. \A d \in Senders \ {s} : Of(d)' = Of(d)
  <2> SUFFICES ASSUME NEW d \in Senders \ {s}, NEW i \in 1..(W + n)
               PROVE  wire'[i].by = d <=> i \in 1..W /\ wire[i].by = d
    BY <1>2, <1>4 DEF Of
  <2>1. CASE i <= W
    BY <1>2, <1>5, <2>1
  <2>2. CASE ~(i <= W)
    <3>1. i \in (W + 1)..(W + n)
      BY <1>2, <2>2
    <3> QED BY <1>2, <1>6, <2>2, <3>1
  <2> QED BY <2>1, <2>2
<1>11. Of(s)' = Of(s) \cup (W + 1)..(W + n)
  <2>1. 1..(W + n) = 1..W \cup (W + 1)..(W + n)
    BY <1>2
  <2>2. \A i \in 1..W : wire'[i].by = s <=> wire[i].by = s
    BY <1>5
  <2> QED BY <1>2, <1>4, <1>6, <2>1, <2>2 DEF Of
<1>12. \A d \in Senders : Of(d) \subseteq 1..W
  BY <1>2 DEF Of
<1> HIDE DEF W, L, t, piece
<1> DEFINE Right(d) ==
        /\ \A i \in Of(d)' : (\A j \in Of(d)' : i <= j) => wire'[i].no = due[d]
        /\ \A i, k \in Of(d)' :
              i < k /\ (\A j \in Of(d)' : j <= i \/ k <= j) => wire'[k].no = After(wire'[i])
        /\ \A i \in Of(d)' : (\A j \in Of(d)' : j <= i) => After(wire'[i]) = Upcoming(d)'
        /\ Of(d)' = {} => due[d] = Upcoming(d)'
<1>13. ASSUME NEW d \in Senders \ {s} PROVE Right(d)
  <2>1. \A i \in Of(d) : wire'[i] = wire[i]
    BY <1>5, <1>12
  <2>2. Of(d)' = Of(d) /\ Upcoming(d)' = Upcoming(d)
    BY <1>7, <1>10
  <2>3. /\ \A i \in Of(d) : (\A j \in Of(d) : i <= j) => wire[i].no = due[d]
        /\ \A i, k \in Of(d) :
              i < k /\ (\A j \in Of(d) : j <= i \/ k <= j) => wire[k].no = After(wire[i])
        /\ \A i \in Of(d) : (\A j \in Of(d) : j <= i) => After(wire[i]) = Upcoming(d)
        /\ Of(d) = {} => due[d] = Upcoming(d)
    BY DEF InOrder
  <2> QED BY <2>1, <2>2, <2>3
<1>14. Right(s)
  <2>0. /\ \A i \in Of(s) : i \in 1..W /\ wire'[i] = wire[i]
        /\ W \in Nat /\ n \in Nat \ {0}
    BY <1>2, <1>5, <1>12
  <2>1. ASSUME NEW i \in Of(s)', \A j \in Of(s)' : i <= j
        PROVE  wire'[i].no = due[s]
    <3>1. CASE i \in Of(s)
      BY <1>11, <2>0, <2>1, <3>1 DEF InOrder
    <3>2. CASE i \notin Of(s)
      <4>1. W + 1 \in Of(s)' /\ i \in (W + 1)..(W + n)
        BY <1>11, <2>0, <3>2
      <4>2. i = W + 1
        BY <2>0, <2>1, <4>1
      <4>3. Of(s) = {}
        BY <1>11, <2>0, <2>1, <4>2
      <4>4. due[s] = t + 1
        BY <1>8, <4>3 DEF InOrder
      <4>5. wire'[i].no = t + (i - W)
        BY <1>6, <4>1
      <4> QED BY <1>2, <2>0, <4>2, <4>4, <4>5
    <3> QED BY <3>1, <3>2
  <2>2. ASSUME NEW i \in Of(s)', NEW k \in Of(s)', i < k,
               \A j \in Of(s)' : j <= i \/ k <= j
        PROVE  wire'[k].no = After(wire'[i])
    <3>1. CASE k \in Of(s)
      <4>1. i \in Of(s)
        BY <1>11, <2>0, <2>2, <3>1
      <4>2. \A j \in Of(s) : j <= i \/ k <= j
        BY <1>11, <2>2
      <4> QED BY <2>0, <2>2, <3>1, <4>1, <4>2 DEF InOrder
    <3>2. CASE i \in Of(s) /\ k \notin Of(s)
      <4>1. k \in (W + 1)..(W + n) /\ W + 1 \in Of(s)' /\ i \in 1..W
        BY <1>11, <2>0, <3>2
      <4>2. k = W + 1
        BY <2>0, <2>2, <4>1
      <4>3. \A j \in Of(s) : j <= i
        BY <1>11, <2>0, <2>2, <4>2
      <4>4. After(wire'[i]) = t + 1
        BY <1>8, <2>0, <3>2, <4>3 DEF InOrder
      <4>5. wire'[k].no = t + (k - W)
        BY <1>6, <4>1
      <4>6. t + (k - W) = t + 1
        BY <1>2, <2>0, <4>2
      <4> QED BY <4>4, <4>5, <4>6
    <3>3. CASE i \notin Of(s)
      <4>1. i \in (W + 1)..(W + n) /\ k \in (W + 1)..(W + n)
        BY <1>11, <2>0, <2>2, <3>3
      <4>2. i + 1 \in (W + 1)..(W + n)
        BY <2>0, <2>2, <4>1
      <4>3. k = i + 1
        <5>1. i + 1 \in Of(s)'
          BY <1>11, <4>2
        <5>2. i + 1 <= i \/ k <= i + 1
          BY <2>2, <5>1
        <5> QED BY <2>0, <2>2, <4>1, <5>2
      <4>4. /\ wire'[i].no = t + (i - W) /\ wire'[i].last = (t + (i - W) = L)
            /\ wire'[k].no = t + (k - W)
        BY <1>6, <4>1
      <4>5. t + (i - W) # L /\ t + (k - W) = t + (i - W) + 1
        BY <1>1, <1>2, <2>0, <4>1, <4>2, <4>3
      <4> QED BY <4>4, <4>5 DEF After
    <3> QED BY <1>11, <3>1, <3>2, <3>3
  <2>3. ASSUME NEW i \in Of(s)', \A j \in Of(s)' : j <= i
        PROVE  After(wire'[i]) = Upcoming(s)'
    <3>1. W + n \in Of(s)' /\ W + n \in (W + 1)..(W + n)
      BY <1>11, <2>0
    <3>2. i = W + n
      <4>1. i \in 1..(W + n)
        BY <1>11, <2>0
      <4>2. W + n <= i
        BY <2>3, <3>1
      <4> QED BY <2>0, <4>1, <4>2
    <3>3. wire'[i].no = t + (i - W) /\ wire'[i].last = (t + (i - W) = L)
      BY <1>6, <3>1, <3>2
    <3>4. t + (i - W) = t + n
      BY <1>2, <2>0, <3>2
    <3> QED BY <1>9, <3>3, <3>4 DEF After
  <2>4. Of(s)' # {}
    <3>1. W + n \in (W + 1)..(W + n)
      BY <2>0
    <3> QED BY <1>11, <3>1
  <2> QED BY <2>1, <2>2, <2>3, <2>4
<1> QED BY <1>13, <1>14 DEF InOrder

(* One send, which takes some bytes or fails. *)
LEMMA SendStream ==
    ASSUME IInv, NEW s \in Senders, send_all(s)
    PROVE  IInv'
<1> USE DEF IInv
<1>0. /\ ~Idle(s)
      /\ UNCHANGED <<client_mutex, line, mode, left, connected, due, unfit>>
  BY DEF send_all, client
<1>1. ASSUME Return(s) PROVE buffer' \in [Senders -> Seq(Byte)] /\ SendInv'
  <2>1. buffer' \in [Senders -> Seq(Byte)] /\ total' \in [Senders -> Nat]
    BY <1>1 DEF Return, TypeOK, SendInv
  <2>2. buffer'[s] = << >>
    BY <1>1 DEF Return, TypeOK
  <2>3. \A d \in Senders \ {s} : buffer'[d] = buffer[d] /\ total'[d] = total[d]
    BY <1>1 DEF Return, TypeOK, SendInv
  <2>4. ASSUME NEW d \in Senders
        PROVE  /\ Idle(d)' \/ total'[d] < Len(buffer'[d])
               /\ \A i \in 1..Len(buffer'[d]) :
                    /\ buffer'[d][i].by = d /\ buffer'[d][i].no = i
                    /\ buffer'[d][i].last = (i = Len(buffer'[d]))
    <3>1. CASE d = s
      BY <2>2, <3>1 DEF Idle
    <3>2. CASE d # s
      BY <2>3, <3>2 DEF Idle, SendInv
    <3> QED BY <3>1, <3>2
  <2> QED BY <2>1, <2>4 DEF SendInv
<1>2. ASSUME buffer' \in [Senders -> Seq(Byte)], SendInv',
             wire' \in Seq(Byte), Len(wire') <= Capacity, torn' \in BOOLEAN,
             \A d \in Senders : total'[d] = 0 \/ ~Idle(d)'
      PROVE  TypeOK'
  <2>1. ASSUME NEW d \in Senders PROVE total'[d] \in 0..Len(buffer'[d])
    <3>1. total'[d] \in Nat /\ Len(buffer'[d]) \in Nat
      BY <1>2, LenProperties DEF SendInv
    <3>2. total'[d] = 0 \/ total'[d] < Len(buffer'[d])
      BY <1>2 DEF SendInv
    <3> QED BY <3>1, <3>2
  <2> QED BY <1>0, <1>2, <2>1 DEF TypeOK
<1>3. \A d \in Senders : total[d] = 0 \/ ~Idle(d)
  BY DEF TypeOK, Idle
<1>4. ASSUME connected,
             NEW n \in 1..(Capacity - Len(wire)), n <= Len(Offered(s)),
             wire' = wire \o SubSeq(Offered(s), 1, n), Took(s, n),
             torn' = (torn \/ \E d \in Senders \ {s} : Middle(d))
      PROVE  IInv'
  <2>1. /\ SubSeq(Offered(s), 1, n) \in Seq(Byte)
        /\ Len(SubSeq(Offered(s), 1, n)) = n
        /\ Len(Offered(s)) = Len(buffer[s]) - total[s]
    BY <1>0, <1>4, PieceFacts
  <2>2. wire \in Seq(Byte) /\ Len(wire) \in Nat /\ Len(buffer[s]) \in Nat
        /\ Len(wire) <= Capacity /\ total[s] \in Nat /\ n \in Nat
    BY LenProperties DEF TypeOK, SendInv
  <2>3. wire' \in Seq(Byte) /\ Len(wire') = Len(wire) + n
    BY <1>4, <2>1, <2>2, ConcatProperties
  <2>4. Len(wire') <= Capacity
    BY <2>2, <2>3, SizesAssumption
  <2>5. torn' \in BOOLEAN
    BY <1>4 DEF TypeOK
  <2>6. /\ buffer' \in [Senders -> Seq(Byte)] /\ SendInv'
        /\ \A d \in Senders : total'[d] = 0 \/ ~Idle(d)'
    <3>1. CASE total[s] + n = Len(buffer[s])
      <4>1. Return(s)
        BY <1>4, <3>1 DEF Took
      <4>2. \A d \in Senders : total'[d] = 0 \/ ~Idle(d)'
        BY <1>3, <4>1 DEF Return, Idle, TypeOK, SendInv
      <4> QED BY <1>1, <4>1, <4>2
    <3>2. CASE total[s] + n # Len(buffer[s])
      <4>1. total' = [total EXCEPT ![s] = total[s] + n] /\ buffer' = buffer
        BY <1>4, <3>2 DEF Took
      <4>2. total[s] + n < Len(buffer[s])
        BY <1>4, <2>1, <2>2, <3>2
      <4>3. /\ total' \in [Senders -> Nat] /\ total'[s] = total[s] + n
            /\ \A d \in Senders \ {s} : total'[d] = total[d]
        BY <2>2, <4>1 DEF SendInv
      <4>4. \A d \in Senders : Idle(d)' \/ total'[d] < Len(buffer'[d])
        BY <4>1, <4>2, <4>3 DEF SendInv, Idle
      <4>5. SendInv'
        BY <4>1, <4>3, <4>4 DEF SendInv
      <4>6. \A d \in Senders : total'[d] = 0 \/ ~Idle(d)'
        BY <1>0, <1>3, <4>1, <4>3 DEF Idle
      <4> QED BY <4>1, <4>5, <4>6 DEF TypeOK
    <3> QED BY <3>1, <3>2
  <2>7. InOrder'
    BY <1>0, <1>4, TakenOrder
  <2> QED BY <1>2, <2>3, <2>4, <2>5, <2>6, <2>7
<1>5. ASSUME ~connected, Return(s), UNCHANGED <<wire, torn>>
      PROVE  IInv'
  <2>1. \A d \in Senders : total'[d] = 0 \/ ~Idle(d)'
    BY <1>3, <1>5 DEF Return, Idle, TypeOK, SendInv
  <2>2. InOrder'
    BY <1>0, <1>5 DEF InOrder
  <2>3. wire' \in Seq(Byte) /\ Len(wire') <= Capacity /\ torn' \in BOOLEAN
    BY <1>5 DEF TypeOK
  <2> QED BY <1>1, <1>2, <1>5, <2>1, <2>2, <2>3
<1> QED BY <1>4, <1>5 DEF send_all

(* A byte is read: the one that was expected of its sender. *)
LEMMA ReadOrder ==
    ASSUME IInv, recv_line
    PROVE  InOrder'
<1> USE DEF IInv
<1> DEFINE W == Len(wire)
           b == Head(wire)
<1>0. /\ connected /\ wire # << >> /\ wire' = Tail(wire)
      /\ due' = [due EXCEPT ![b.by] = After(b)]
      /\ UNCHANGED <<buffer, total>>
  BY DEF recv_line
<1>1. /\ wire \in Seq(Byte) /\ W \in Nat \ {0} /\ DOMAIN wire = 1..W
      /\ b = wire[1] /\ b \in Byte
  <2>1. wire \in Seq(Byte)
    BY DEF TypeOK
  <2> QED BY <1>0, <2>1, HeadTailProperties, LenProperties, EmptySeq
<1>2. /\ wire' \in Seq(Byte) /\ Len(wire') = W - 1
      /\ \A i \in 1..(W - 1) : wire'[i] = wire[i + 1]
  BY <1>0, <1>1, HeadTailProperties
<1>3. DOMAIN wire' = 1..(W - 1)
  BY <1>2, LenProperties
<1>4. b.by \in Senders /\ due'[b.by] = After(b)
      /\ \A d \in Senders \ {b.by} : due'[d] = due[d]
  BY <1>0, <1>1 DEF Byte, TypeOK
<1>5. \A d \in Senders : Upcoming(d)' = Upcoming(d)
  BY <1>0 DEF Upcoming, Idle
<1>6. \A d \in Senders : \A i \in 1..(W - 1) : i \in Of(d)' <=> i + 1 \in Of(d)
  <2>1. \A i \in 1..(W - 1) : i + 1 \in 1..W
    BY <1>1
  <2> QED BY <1>1, <1>2, <1>3, <2>1 DEF Of
<1>7. \A d \in Senders : Of(d) \subseteq 1..W /\ Of(d)' \subseteq 1..(W - 1)
  BY <1>1, <1>3 DEF Of
<1>8. \A d \in Senders : 1 \in Of(d) <=> d = b.by
  BY <1>1 DEF Of
<1> HIDE DEF W, b
<1> SUFFICES ASSUME NEW d \in Senders
             PROVE  /\ \A i \in Of(d)' : (\A j \in Of(d)' : i <= j) => wire'[i].no = due'[d]
                    /\ \A i, k \in Of(d)' :
                          i < k /\ (\A j \in Of(d)' : j <= i \/ k <= j)
                          => wire'[k].no = After(wire'[i])
                    /\ \A i \in Of(d)' :
                          (\A j \in Of(d)' : j <= i) => After(wire'[i]) = Upcoming(d)'
                    /\ Of(d)' = {} => due'[d] = Upcoming(d)'
  BY DEF InOrder
<1>9. /\ \A i \in Of(d) : (\A j \in Of(d) : i <= j) => wire[i].no = due[d]
      /\ \A i, k \in Of(d) :
            i < k /\ (\A j \in Of(d) : j <= i \/ k <= j) => wire[k].no = After(wire[i])
      /\ \A i \in Of(d) : (\A j \in Of(d) : j <= i) => After(wire[i]) = Upcoming(d)
      /\ Of(d) = {} => due[d] = Upcoming(d)
  BY <1>0 DEF InOrder
<1>10. \A i \in Of(d)' : /\ i \in 1..(W - 1) /\ i + 1 \in Of(d) /\ wire'[i] = wire[i + 1]
  BY <1>2, <1>6, <1>7
<1>11. \A j \in Of(d) : j = 1 \/ (j - 1 \in 1..(W - 1) /\ j - 1 \in Of(d)')
  <2> SUFFICES ASSUME NEW j \in Of(d), j # 1
               PROVE  j - 1 \in 1..(W - 1) /\ j - 1 \in Of(d)'
    OBVIOUS
  <2>1. j \in 1..W /\ W \in Nat
    BY <1>1, <1>7
  <2>2. j - 1 \in 1..(W - 1) /\ (j - 1) + 1 = j
    BY <2>1
  <2> QED BY <1>6, <2>2
<1>12. W \in Nat
  BY <1>1
<1>13. ASSUME NEW i \in Of(d)', \A j \in Of(d)' : i <= j
       PROVE  wire'[i].no = due'[d]
  <2>1. i \in 1..(W - 1) /\ i + 1 \in Of(d) /\ wire'[i] = wire[i + 1]
    BY <1>10
  <2>2. \A j \in Of(d) : j = 1 \/ i + 1 <= j
    <3> TAKE j \in Of(d)
    <3>1. j \in 1..W
      BY <1>7
    <3>2. j = 1 \/ i <= j - 1
      BY <1>11, <1>13
    <3> QED BY <1>12, <2>1, <3>1, <3>2
  <2>3. CASE 1 \in Of(d)
    <3>1. \A j \in Of(d) : j <= 1 \/ i + 1 <= j
      BY <2>2
    <3>2. wire[i + 1].no = After(wire[1])
      <4>1. 1 < i + 1
        BY <2>1
      <4> QED BY <1>9, <2>1, <2>3, <3>1, <4>1
    <3> QED BY <1>1, <1>4, <1>8, <2>1, <2>3, <3>2
  <2>4. CASE 1 \notin Of(d)
    <3>1. \A j \in Of(d) : i + 1 <= j
      BY <2>2, <2>4
    <3> QED BY <1>4, <1>8, <1>9, <2>1, <2>4, <3>1
  <2> QED BY <2>3, <2>4
<1>14. ASSUME NEW i \in Of(d)', NEW k \in Of(d)', i < k,
              \A j \in Of(d)' : j <= i \/ k <= j
       PROVE  wire'[k].no = After(wire'[i])
  <2>1. /\ i \in 1..(W - 1) /\ i + 1 \in Of(d) /\ wire'[i] = wire[i + 1]
        /\ k \in 1..(W - 1) /\ k + 1 \in Of(d) /\ wire'[k] = wire[k + 1]
    BY <1>10
  <2>2. \A j \in Of(d) : j <= i + 1 \/ k + 1 <= j
    <3> TAKE j \in Of(d)
    <3>1. j \in 1..W
      BY <1>7
    <3>2. j = 1 \/ j - 1 <= i \/ k <= j - 1
      BY <1>11, <1>14
    <3> QED BY <1>12, <2>1, <3>1, <3>2
  <2>3. i + 1 < k + 1
    BY <1>14, <2>1
  <2> QED BY <1>9, <2>1, <2>2, <2>3
<1>15. ASSUME NEW i \in Of(d)', \A j \in Of(d)' : j <= i
       PROVE  After(wire'[i]) = Upcoming(d)'
  <2>1. i \in 1..(W - 1) /\ i + 1 \in Of(d) /\ wire'[i] = wire[i + 1]
    BY <1>10
  <2>2. \A j \in Of(d) : j <= i + 1
    <3> TAKE j \in Of(d)
    <3>1. j \in 1..W
      BY <1>7
    <3>2. j = 1 \/ j - 1 <= i
      BY <1>11, <1>15
    <3> QED BY <1>12, <2>1, <3>1, <3>2
  <2> QED BY <1>5, <1>9, <2>1, <2>2
<1>16. ASSUME Of(d)' = {} PROVE due'[d] = Upcoming(d)'
  <2>1. \A j \in Of(d) : j = 1
    BY <1>11, <1>16
  <2>2. CASE 1 \in Of(d)
    <3>1. \A j \in Of(d) : j <= 1
      BY <2>1
    <3>2. After(wire[1]) = Upcoming(d)
      BY <1>9, <2>2, <3>1
    <3> QED BY <1>1, <1>4, <1>5, <1>8, <2>2, <3>2
  <2>3. CASE 1 \notin Of(d)
    <3>1. Of(d) = {}
      BY <2>1, <2>3
    <3> QED BY <1>4, <1>5, <1>8, <1>9, <2>3, <3>1
  <2> QED BY <2>2, <2>3
<1> QED BY <1>13, <1>14, <1>15, <1>16

LEMMA ReadTypes ==
    ASSUME IInv, recv_line
    PROVE  TypeOK' /\ SendInv'
<1> USE DEF IInv
<1> DEFINE b == Head(wire)
           l == IF b.c = Newline THEN line ELSE Append(line, b)
<1>0. /\ wire # << >> /\ wire' = Tail(wire)
      /\ due' = [due EXCEPT ![b.by] = After(b)]
      /\ UNCHANGED <<client_mutex, buffer, total, torn, unfit>>
  BY DEF recv_line
<1>1. b \in Byte /\ wire' \in Seq(Byte) /\ Len(wire') = Len(wire) - 1
  <2>1. wire \in Seq(Byte)
    BY DEF TypeOK
  <2> QED BY <1>0, <2>1, HeadTailProperties
<1>2. Len(wire') <= Capacity
  <2>1. Len(wire) <= Capacity /\ Len(wire) \in Nat
    BY LenProperties DEF TypeOK
  <2> QED BY <1>1, <2>1, SizesAssumption
<1>3. After(b) \in Nat \ {0}
  BY <1>1 DEF After, Byte
<1>4. due' \in [Senders -> Nat \ {0}]
  BY <1>0, <1>1, <1>3 DEF TypeOK, Byte
<1>5. line \in Seq(Byte) /\ Len(line) \in Nat /\ Len(line) < MaxMsg - 1 /\ MaxMsg \in Nat
  BY LenProperties, SizesAssumption DEF TypeOK
<1>6. l \in Seq(Byte) /\ (b.c = Newline \/ Len(l) = Len(line) + 1)
  <2>1. Append(line, b) \in Seq(Byte) /\ Len(Append(line, b)) = Len(line) + 1
    BY <1>1, <1>5, AppendFacts
  <2> QED BY <1>5, <2>1
<1> HIDE DEF l, b
<1>7. ASSUME handle_server_message(l)
      PROVE  mode' \in {"top", "body"} /\ left' \in 0..MAX_USERS_DISPLAY /\ connected' \in BOOLEAN
  <2>1. mode \in {"top", "body"} /\ left \in 0..MAX_USERS_DISPLAY /\ connected \in BOOLEAN
    BY DEF TypeOK
  <2>2. CASE mode = "top" /\ IsHeader(l)
    <3>1. Entries(l) \in Nat
      <4>1. l[1] \in Byte
        BY <1>6, <2>2, HeadTailProperties DEF IsHeader
      <4> QED BY <4>1 DEF Entries, Byte, Char
    <3>2. ~(Entries(l) > MAX_USERS_DISPLAY) => Entries(l) \in 0..MAX_USERS_DISPLAY
      BY <3>1, SizesAssumption
    <3>3. \/ connected' = FALSE /\ UNCHANGED <<mode, left>>
          \/ /\ ~(Entries(l) > MAX_USERS_DISPLAY)
             /\ mode' = "body" /\ left' = Entries(l) /\ UNCHANGED connected
      BY <1>7, <2>2 DEF handle_server_message
    <3> QED BY <2>1, <3>2, <3>3
  <2>3. CASE mode = "top" /\ ~IsHeader(l)
    BY <1>7, <2>1, <2>3 DEF handle_server_message
  <2>4. CASE mode = "body" /\ left > 0
    <3>1. left' = left - 1 /\ UNCHANGED <<mode, connected>>
      BY <1>7, <2>4 DEF handle_server_message
    <3> QED BY <2>1, <2>4, <3>1, SizesAssumption
  <2>5. CASE mode = "body" /\ left = 0
    <3>1. connected' = IsEnd(l) /\ mode' = "top" /\ UNCHANGED left
      BY <1>7, <2>5 DEF handle_server_message
    <3> QED BY <2>1, <3>1 DEF IsEnd
  <2> QED BY <1>7, <2>2, <2>3, <2>4, <2>5 DEF handle_server_message
<1>8. /\ line' \in Seq(Byte) /\ Len(line') < MaxMsg - 1
      /\ mode' \in {"top", "body"} /\ left' \in 0..MAX_USERS_DISPLAY
      /\ connected' \in BOOLEAN
  <2>1. CASE line' = << >> /\ handle_server_message(l)
    <3>1. << >> \in Seq(Byte) /\ Len(<< >>) < MaxMsg - 1
      BY <1>5
    <3> QED BY <1>7, <2>1, <3>1
  <2>2. CASE b.c # Newline /\ ~IsFull(l) /\ line' = l /\ UNCHANGED <<mode, left, connected>>
    <3>1. Len(l) < MaxMsg - 1
      BY <1>5, <1>6, <2>2 DEF IsFull
    <3> QED BY <1>6, <2>2, <3>1 DEF TypeOK
  <2> QED BY <2>1, <2>2 DEF recv_line, l, b
<1>9. SendInv'
  BY <1>0 DEF SendInv, Idle
<1>10. /\ client_mutex' \in Senders \cup {Nobody}
       /\ buffer' \in [Senders -> Seq(Byte)]
       /\ \A s \in Senders : total'[s] \in 0..Len(buffer'[s])
       /\ torn' \in BOOLEAN /\ unfit' \in BOOLEAN
  BY <1>0 DEF TypeOK
<1> QED BY <1>1, <1>2, <1>4, <1>8, <1>9, <1>10 DEF TypeOK

(* What a step other than a send or a read does: a message begins, of a    *)
(* text that fits if it is a list that fits, or nothing but client_mutex   *)
(* changes.                                                                *)
LEMMA StepCases ==
    ASSUME IInv, [Next]_vars
    PROVE  \/ \E s \in Senders, text \in Seq(Char) :
                /\ Begin(s, text)
                /\ client_mutex' \in Senders \cup {Nobody} /\ unfit' \in BOOLEAN
                /\ unfit => unfit'
                /\ \/ text = <<Token("k"), Newline>>
                   \/ \E n \in Nat, len \in Lengths :
                        text = build_user_list_locked(n, len) /\ (Unfit(n, len) => unfit')
           \/ /\ UNCHANGED <<buffer, total, wire, client, torn, unfit>>
              /\ client_mutex' \in Senders \cup {Nobody}
           \/ \E s \in Senders : send_all(s)
           \/ recv_line
<1>1. ASSUME NEW n \in 1..MaxClients, NEW len \in Lengths
      PROVE  n \in Nat /\ build_user_list_locked(n, len) \in Seq(Char)
  <2>1. n \in Nat /\ len \in Nat
    BY SizesAssumption
  <2> QED BY <2>1, ListTyped
<1>2. <<Token("k"), Newline>> \in Seq(Char)
  BY DEF Token, Newline, Char
<1>3. /\ client_mutex \in Senders \cup {Nobody} /\ unfit \in BOOLEAN
      /\ Others \subseteq Senders /\ Handler \in Senders
  BY SendersApart DEF IInv, TypeOK
<1> DEFINE Fits(text) ==
        \/ text = <<Token("k"), Newline>>
        \/ \E n \in Nat, len \in Lengths :
             text = build_user_list_locked(n, len) /\ (Unfit(n, len) => unfit')
<1>4. ASSUME NEW s \in Senders, NEW n \in 1..MaxClients, NEW len \in Lengths,
             unfit' = (unfit \/ Unfit(n, len))
      PROVE  /\ build_user_list_locked(n, len) \in Seq(Char)
             /\ Fits(build_user_list_locked(n, len))
             /\ unfit => unfit'
             /\ unfit' \in BOOLEAN
  <2>1. unfit' \in BOOLEAN /\ (unfit => unfit') /\ (Unfit(n, len) => unfit')
    BY <1>4
  <2> QED BY <1>1, <2>1
<1> HIDE DEF Fits
<1>5. Fits(<<Token("k"), Newline>>)
  BY DEF Fits
<1>6. CASE Answer
  <2>1. UNCHANGED client_mutex
    BY <1>6 DEF Answer
  <2>2. \E text \in Seq(Char) :
           Begin(Handler, text) /\ unfit' \in BOOLEAN /\ (unfit => unfit') /\ Fits(text)
    BY <1>2, <1>3, <1>4, <1>5, <1>6 DEF Answer
  <2> QED BY <1>3, <2>1, <2>2 DEF Fits
<1>7. ASSUME NEW s \in Others, broadcast_user_list(s) \/ client_list_broadcast(s)
      PROVE  \E text \in Seq(Char) :
                /\ Begin(s, text) /\ client_mutex' \in Senders \cup {Nobody}
                /\ unfit' \in BOOLEAN /\ (unfit => unfit') /\ Fits(text)
  BY <1>2, <1>3, <1>4, <1>5, <1>7 DEF broadcast_user_list, client_list_broadcast
<1>8. ASSUME NEW s \in Others, Unlock(s)
      PROVE  /\ UNCHANGED <<buffer, total, wire, client, torn, unfit>>
             /\ client_mutex' \in Senders \cup {Nobody}
  BY <1>8 DEF Unlock
<1>9. CASE UNCHANGED vars
  BY <1>3, <1>9 DEF vars
<1> QED BY <1>3, <1>6, <1>7, <1>8, <1>9 DEF Next, Fits

LEMMA StreamStep ==
    ASSUME IInv, [Next]_vars
    PROVE  IInv'
<1>1. ASSUME UNCHANGED <<buffer, total, wire, client, torn, unfit>>,
             client_mutex' \in Senders \cup {Nobody}
      PROVE  IInv'
  <2>1. TypeOK'
    BY <1>1 DEF IInv, TypeOK, client
  <2>2. SendInv'
    BY <1>1 DEF IInv, SendInv, Idle
  <2>3. InOrder'
    BY <1>1 DEF IInv, InOrder, Of, Upcoming, Idle, client
  <2> QED BY <2>1, <2>2, <2>3 DEF IInv
<1>2. CASE recv_line
  BY <1>2, ReadOrder, ReadTypes DEF IInv
<1> QED BY <1>1, <1>2, StepCases, BeginStream, SendStream

(* Nothing that is sent is lost, doubled or moved on its way, however      *)
(* little each send takes and whichever threads send on the same socket    *)
(* without a common lock (protocol.c:22-36, 55-79).                        *)
THEOREM NothingLost == Spec => []StreamInv
<1>1. Init => IInv
  BY InitStream
<1>2. IInv /\ [Next]_vars => IInv'
  BY StreamStep
<1>3. IInv => StreamInv
  BY DEF IInv, StreamInv
<1> QED BY <1>1, <1>2, <1>3, PTL DEF Spec

-----------------------------------------------------------------------------
(***************************************************************************)
(* The client in step with the server.  What it does with a byte depends   *)
(* on its state and the byte only; a run is a text that takes it from one  *)
(* state to another as the server means it to.                             *)
(***************************************************************************)
State(m, l, t) == [mode |-> m, left |-> l, text |-> t]
Top == State("top", 0, << >>)
Body(l) == State("body", l, << >>)

Chars(bs) == [i \in DOMAIN bs |-> bs[i].c]
Here == State(mode, left, Chars(line))

Starts(t) == t # << >> /\ t[1].is = "header"

Reads(p, c, q) ==
    \/ /\ c # Newline /\ Len(p.text) + 1 < MaxMsg - 1
       /\ q = State(p.mode, p.left, Append(p.text, c))
    \/ /\ c = Newline
       /\ \/ /\ p.mode = "top" /\ Starts(p.text)
             /\ p.text[1].n <= MAX_USERS_DISPLAY /\ q = Body(p.text[1].n)
          \/ /\ p.mode = "top" /\ ~Starts(p.text)
             /\ q = State("top", p.left, << >>)
          \/ /\ p.mode = "body" /\ p.left > 0
             /\ q = Body(p.left - 1)
          \/ /\ p.mode = "body" /\ p.left = 0
             /\ Len(p.text) = 1 /\ p.text[1].is = "END"
             /\ q = Top

Run(text, p, q) ==
    \E r : /\ r[0] = p /\ r[Len(text)] = q
           /\ \A i \in 1..Len(text) : Reads(r[i - 1], text[i], r[i])

LEMMA RunNothing ==
    ASSUME NEW p, NEW q
    PROVE  Run(<< >>, p, q) <=> p = q
<1>1. ASSUME Run(<< >>, p, q) PROVE p = q
  BY <1>1 DEF Run
<1>2. ASSUME p = q PROVE Run(<< >>, p, q)
  <2> DEFINE r == [i \in {0} |-> p]
  <2>1. r[0] = p /\ r[Len(<< >>)] = q
    BY <1>2
  <2>2. \A i \in 1..Len(<< >>) : Reads(r[i - 1], << >>[i], r[i])
    OBVIOUS
  <2> HIDE DEF r
  <2> QED BY <2>1, <2>2 DEF Run
<1> QED BY <1>1, <1>2

LEMMA RunChar ==
    ASSUME NEW p, NEW c, NEW q, Reads(p, c, q)
    PROVE  Run(<<c>>, p, q)
<1> DEFINE r == [i \in 0..1 |-> IF i = 0 THEN p ELSE q]
<1>1. r[0] = p /\ r[1] = q /\ Len(<<c>>) = 1 /\ <<c>>[1] = c
  OBVIOUS
<1> HIDE DEF r
<1>2. \A i \in 1..1 : i = 1 /\ i - 1 = 0
  OBVIOUS
<1>3. \A i \in 1..Len(<<c>>) : Reads(r[i - 1], <<c>>[i], r[i])
  BY <1>1, <1>2
<1> QED BY <1>1, <1>3 DEF Run

LEMMA RunJoin ==
    ASSUME NEW a \in Seq(Char), NEW b \in Seq(Char), NEW p, NEW m, NEW q,
           Run(a, p, m), Run(b, m, q)
    PROVE  Run(a \o b, p, q)
<1>1. PICK f : /\ f[0] = p /\ f[Len(a)] = m
               /\ \A i \in 1..Len(a) : Reads(f[i - 1], a[i], f[i])
  BY DEF Run
<1>2. PICK g : /\ g[0] = m /\ g[Len(b)] = q
               /\ \A i \in 1..Len(b) : Reads(g[i - 1], b[i], g[i])
  BY DEF Run
<1>3. Len(a) \in Nat /\ Len(b) \in Nat
  BY LenProperties
<1>4. /\ Len(a \o b) = Len(a) + Len(b)
      /\ \A i \in 1..(Len(a) + Len(b)) :
            (a \o b)[i] = IF i <= Len(a) THEN a[i] ELSE b[i - Len(a)]
  BY ConcatProperties
<1> DEFINE A == Len(a)
           B == Len(b)
           t == a \o b
           r == [i \in 0..(A + B) |-> IF i <= A THEN f[i] ELSE g[i - A]]
<1>5. A \in Nat /\ B \in Nat
  BY <1>3
<1>6. Len(t) = A + B /\ \A i \in 1..(A + B) : t[i] = IF i <= A THEN a[i] ELSE b[i - A]
  BY <1>4
<1>7. \A i \in 0..(A + B) : r[i] = IF i <= A THEN f[i] ELSE g[i - A]
  OBVIOUS
<1>8. /\ f[0] = p /\ f[A] = m /\ \A i \in 1..A : Reads(f[i - 1], a[i], f[i])
      /\ g[0] = m /\ g[B] = q /\ \A i \in 1..B : Reads(g[i - 1], b[i], g[i])
  BY <1>1, <1>2
<1> HIDE DEF A, B, t, r
<1>9. r[0] = p
  <2>1. 0 \in 0..(A + B) /\ 0 <= A
    BY <1>5
  <2> QED BY <1>7, <1>8, <2>1
<1>10. r[A + B] = q
  <2>1. A + B \in 0..(A + B) /\ (A + B <= A => B = 0 /\ A + B = A) /\ (A + B) - A = B
    BY <1>5
  <2> QED BY <1>7, <1>8, <2>1
<1>11. ASSUME NEW i \in 1..(A + B) PROVE Reads(r[i - 1], t[i], r[i])
  <2>1. i \in 0..(A + B) /\ i - 1 \in 0..(A + B)
    BY <1>5
  <2>2. CASE i <= A
    <3>1. i \in 1..A /\ i - 1 <= A
      BY <1>5, <2>2
    <3> QED BY <1>6, <1>7, <1>8, <2>1, <2>2, <3>1
  <2>3. CASE ~(i <= A)
    <3>1. i - A \in 1..B /\ (i - 1) - A = (i - A) - 1
      BY <1>5, <2>3
    <3>2. r[i] = g[i - A] /\ t[i] = b[i - A]
      BY <1>6, <1>7, <2>1, <2>3
    <3>3. r[i - 1] = g[(i - A) - 1]
      <4>1. CASE i - 1 <= A
        <5>1. i - 1 = A /\ (i - A) - 1 = 0
          BY <1>5, <2>3, <4>1
        <5> QED BY <1>7, <1>8, <2>1, <4>1, <5>1
      <4>2. CASE ~(i - 1 <= A)
        BY <1>7, <2>1, <3>1, <4>2
      <4> QED BY <4>1, <4>2
    <3> QED BY <1>8, <3>1, <3>2, <3>3
  <2> QED BY <2>2, <2>3
<1>12. Run(t, p, q)
  BY <1>6, <1>9, <1>10, <1>11 DEF Run
<1> QED BY <1>12 DEF t

LEMMA HeadTailConcat ==
    ASSUME NEW S, NEW a \in Seq(S), NEW b \in Seq(S), a # << >>
    PROVE  /\ a \o b \in Seq(S) /\ a \o b # << >>
           /\ Head(a \o b) = Head(a) /\ Tail(a \o b) = Tail(a) \o b
<1>1. /\ Len(a) \in Nat \ {0} /\ Len(b) \in Nat
      /\ Head(a) = a[1] /\ Tail(a) \in Seq(S) /\ Len(Tail(a)) = Len(a) - 1
      /\ \A i \in 1..(Len(a) - 1) : Tail(a)[i] = a[i + 1]
  BY HeadTailProperties, EmptySeq, LenProperties
<1> DEFINE t == a \o b
           v == Tail(a)
           u == v \o b
<1>2. /\ t \in Seq(S) /\ Len(t) = Len(a) + Len(b)
      /\ \A i \in 1..(Len(a) + Len(b)) : t[i] = IF i <= Len(a) THEN a[i] ELSE b[i - Len(a)]
  BY ConcatProperties
<1>3. v \in Seq(S) /\ Len(v) = Len(a) - 1 /\ \A i \in 1..(Len(a) - 1) : v[i] = a[i + 1]
  BY <1>1
<1> HIDE DEF t, v
<1>4. /\ u \in Seq(S) /\ Len(u) = Len(v) + Len(b)
      /\ \A i \in 1..(Len(v) + Len(b)) : u[i] = IF i <= Len(v) THEN v[i] ELSE b[i - Len(v)]
  BY <1>3, ConcatProperties
<1> HIDE DEF u
<1>5. t # << >>
  <2>1. Len(<< >>) = 0
    OBVIOUS
  <2> QED BY <1>1, <1>2, <2>1
<1>6. /\ Head(t) = t[1] /\ Tail(t) \in Seq(S) /\ Len(Tail(t)) = Len(t) - 1
      /\ \A i \in 1..(Len(t) - 1) : Tail(t)[i] = t[i + 1]
  BY <1>2, <1>5, HeadTailProperties
<1>7. Head(t) = Head(a)
  <2>1. 1 \in 1..(Len(a) + Len(b)) /\ 1 <= Len(a)
    BY <1>1
  <2> QED BY <1>1, <1>2, <1>6, <2>1
<1>8. ASSUME NEW i \in 1..(Len(t) - 1) PROVE Tail(t)[i] = u[i]
  <2>1. /\ i + 1 \in 1..(Len(a) + Len(b)) /\ i \in 1..(Len(v) + Len(b))
        /\ (i + 1) - Len(a) = i - Len(v) /\ (i + 1 <= Len(a) <=> i <= Len(v))
        /\ (i <= Len(v) => i \in 1..(Len(a) - 1))
    BY <1>1, <1>2, <1>3
  <2>2. Tail(t)[i] = t[i + 1]
    BY <1>6
  <2> QED BY <1>2, <1>3, <1>4, <2>1, <2>2
<1>9. Len(t) - 1 = Len(u)
  BY <1>1, <1>2, <1>3, <1>4
<1>10. Tail(t) = u
  BY <1>4, <1>6, <1>8, <1>9, SeqEqual
<1> QED BY <1>2, <1>5, <1>7, <1>10 DEF t, u, v

LEMMA RunFirst ==
    ASSUME NEW t \in Seq(Char), t # << >>, NEW p, NEW q, Run(t, p, q)
    PROVE  \E m : Reads(p, Head(t), m) /\ Run(Tail(t), m, q)
<1>1. PICK r : /\ r[0] = p /\ r[Len(t)] = q
               /\ \A i \in 1..Len(t) : Reads(r[i - 1], t[i], r[i])
  BY DEF Run
<1>2. /\ Len(t) \in Nat \ {0} /\ Len(Tail(t)) = Len(t) - 1 /\ Head(t) = t[1]
      /\ \A i \in 1..(Len(t) - 1) : Tail(t)[i] = t[i + 1]
  BY HeadTailProperties, EmptySeq
<1> DEFINE L == Len(t)
           u == Tail(t)
           f == [i \in 0..(L - 1) |-> r[i + 1]]
<1>3. L \in Nat \ {0} /\ Len(u) = L - 1 /\ \A i \in 1..(L - 1) : u[i] = t[i + 1]
  BY <1>2
<1>4. \A i \in 0..(L - 1) : f[i] = r[i + 1]
  OBVIOUS
<1>5. r[L] = q /\ \A i \in 1..L : Reads(r[i - 1], t[i], r[i])
  BY <1>1
<1> HIDE DEF L, u, f
<1>6. f[0] = r[1] /\ f[L - 1] = q
  <2>1. 0 \in 0..(L - 1) /\ L - 1 \in 0..(L - 1) /\ 0 + 1 = 1 /\ (L - 1) + 1 = L
    BY <1>3
  <2> QED BY <1>4, <1>5, <2>1
<1>7. ASSUME NEW i \in 1..(L - 1) PROVE Reads(f[i - 1], u[i], f[i])
  <2>1. /\ i \in 0..(L - 1) /\ i - 1 \in 0..(L - 1) /\ (i - 1) + 1 = (i + 1) - 1
        /\ i + 1 \in 1..L
    BY <1>3
  <2> QED BY <1>3, <1>4, <1>5, <2>1
<1>8. Run(u, r[1], q)
  BY <1>3, <1>6, <1>7 DEF Run
<1>9. Reads(p, Head(t), r[1])
  <2>1. 1 \in 1..L /\ 1 - 1 = 0
    BY <1>3
  <2> QED BY <1>1, <1>2, <1>5, <2>1
<1> QED BY <1>8, <1>9 DEF u

-----------------------------------------------------------------------------
(* The texts of the server are runs from the top to the top. *)

LEMMA PairFacts ==
    ASSUME NEW x \in Char, NEW y \in Char
    PROVE  /\ <<x>> \in Seq(Char) /\ <<y>> \in Seq(Char) /\ <<x, y>> \in Seq(Char)
           /\ <<x>> \o <<y>> = <<x, y>>
<1>1. <<x>> \in Seq(Char) /\ <<y>> \in Seq(Char) /\ <<x, y>> \in Seq(Char)
  OBVIOUS
<1>2. /\ <<x>> \o <<y>> \in Seq(Char) /\ Len(<<x>> \o <<y>>) = 2
      /\ (<<x>> \o <<y>>)[1] = x /\ (<<x>> \o <<y>>)[2] = y
  OBVIOUS
<1>3. Len(<<x, y>>) = 2 /\ <<x, y>>[1] = x /\ <<x, y>>[2] = y
  OBVIOUS
<1>4. \A i \in 1..2 : i = 1 \/ i = 2
  OBVIOUS
<1>5. \A i \in 1..2 : (<<x>> \o <<y>>)[i] = <<x, y>>[i]
  BY <1>2, <1>3, <1>4
<1> QED BY <1>1, <1>2, <1>3, <1>5, SeqEqual

LEMMA TokensApart ==
    /\ Token("a") # Newline /\ Token("k") # Newline /\ Token("END") # Newline
    /\ \A n \in Nat : Header(n) # Newline
  BY DEF Token, Header, Newline

LEMMA UserRun ==
    ASSUME NEW len \in Lengths, NEW l \in Nat \ {0}
    PROVE  Run(Line(len), Body(l), Body(l - 1))
<1>0. len \in Nat \ {0} /\ len < MaxMsg - 1 /\ MaxMsg \in Nat
  BY SizesAssumption, LinesAssumption
<1> DEFINE name(i) == [j \in 1..i |-> Token("a")]
           r == [i \in 0..len |-> State("body", l, name(i))]
<1>1. /\ name(len) \in Seq(Char) /\ Len(name(len)) = len
      /\ \A i \in 1..len : name(len)[i] = Token("a")
  BY <1>0, TokensTyped
<1>2. ASSUME NEW i \in 1..len PROVE Reads(r[i - 1], Token("a"), r[i])
  <2>1. i - 1 \in 0..len /\ i \in 0..len /\ i - 1 \in Nat /\ i \in Nat
    BY <1>0
  <2>2. r[i - 1] = State("body", l, name(i - 1)) /\ r[i] = State("body", l, name(i))
    BY <2>1
  <2>3. name(i - 1) \in Seq(Char) /\ Len(name(i - 1)) = i - 1
    BY <2>1, TokensTyped
  <2>4. Append(name(i - 1), Token("a")) = name(i)
    <3>1. name(i) \in Seq(Char) /\ Len(name(i)) = i
      BY <2>1, TokensTyped
    <3>2. /\ Append(name(i - 1), Token("a")) \in Seq(Char)
          /\ Len(Append(name(i - 1), Token("a"))) = (i - 1) + 1
          /\ \A j \in 1..(i - 1) : Append(name(i - 1), Token("a"))[j] = name(i - 1)[j]
          /\ Append(name(i - 1), Token("a"))[(i - 1) + 1] = Token("a")
      BY <2>3, TokensTyped, AppendProperties
    <3>3. \A j \in 1..i : Append(name(i - 1), Token("a"))[j] = name(i)[j]
      <4> TAKE j \in 1..i
      <4>1. name(i)[j] = Token("a")
        OBVIOUS
      <4>2. CASE j = i
        BY <2>1, <3>2, <4>1, <4>2
      <4>3. CASE j # i
        <5>1. j \in 1..(i - 1)
          BY <2>1, <4>3
        <5>2. name(i - 1)[j] = Token("a")
          BY <5>1
        <5> QED BY <3>2, <4>1, <5>1, <5>2
      <4> QED BY <4>2, <4>3
    <3>4. (i - 1) + 1 = i
      BY <2>1
    <3> QED BY <3>1, <3>2, <3>3, <3>4, SeqEqual
  <2>5. (i - 1) + 1 < MaxMsg - 1
    BY <1>0
  <2> HIDE DEF r, name
  <2> QED BY <2>2, <2>3, <2>4, <2>5, TokensApart DEF Reads, State
<1>3. r[0] = Body(l) /\ r[len] = State("body", l, name(len))
  <2>1. 0 \in 0..len /\ len \in 0..len
    BY <1>0
  <2>2. name(0) = << >>
    OBVIOUS
  <2> QED BY <2>1, <2>2 DEF Body
<1>4. Run(name(len), Body(l), State("body", l, name(len)))
  <2> HIDE DEF r, name
  <2> QED BY <1>1, <1>2, <1>3 DEF Run
<1>5. Run(<<Newline>>, State("body", l, name(len)), Body(l - 1))
  <2> HIDE DEF name
  <2>1. Reads(State("body", l, name(len)), Newline, Body(l - 1))
    BY DEF Reads, State
  <2> QED BY <2>1, RunChar
<1>6. <<Newline>> \in Seq(Char)
  BY TokensTyped
<1>7. Line(len) = name(len) \o <<Newline>>
  BY DEF Line
<1> HIDE DEF name, r
<1> QED BY <1>1, <1>4, <1>5, <1>6, <1>7, RunJoin

LEMMA UsersRun ==
    ASSUME NEW n \in Nat, NEW len \in Lengths
    PROVE  Run(Users(n, len), Body(n), Body(0))
<1>0. len \in Nat
  BY SizesAssumption
<1>1. PICK r : /\ r[0] = << >> /\ r[n] = Users(n, len)
               /\ \A k \in 0..(n - 1) : r[k + 1] = r[k] \o Line(len)
  BY UsersAdded
<1> DEFINE T == {k \in Nat : r[k] \in Seq(Char) /\ Run(r[k], Body(n), Body(n - k))}
<1>2. 0 \in T
  <2>1. << >> \in Seq(Char) /\ n - 0 = n
    OBVIOUS
  <2> QED BY <1>1, <2>1, RunNothing
<1>3. ASSUME NEW k \in 0..(n - 1), k \in T PROVE k + 1 \in T
  <2>1. k \in Nat /\ k + 1 \in Nat /\ n - k \in Nat \ {0} /\ (n - k) - 1 = n - (k + 1)
    OBVIOUS
  <2>2. r[k] \in Seq(Char) /\ Run(r[k], Body(n), Body(n - k))
    BY <1>3
  <2>3. Line(len) \in Seq(Char) /\ Run(Line(len), Body(n - k), Body(n - (k + 1)))
    <3>1. Run(Line(len), Body(n - k), Body((n - k) - 1))
      BY <2>1, UserRun
    <3> QED BY <1>0, <2>1, <3>1, LineTyped
  <2>4. Run(r[k] \o Line(len), Body(n), Body(n - (k + 1)))
    BY <2>2, <2>3, RunJoin
  <2>5. r[k] \o Line(len) \in Seq(Char)
    BY <2>2, <2>3, ConcatProperties
  <2>6. r[k + 1] = r[k] \o Line(len)
    BY <1>1
  <2>7. r[k + 1] \in Seq(Char) /\ Run(r[k + 1], Body(n), Body(n - (k + 1)))
    BY <2>4, <2>5, <2>6
  <2> QED BY <2>1, <2>7
<1> HIDE DEF T
<1>4. \A k \in 0..n : k \in T
  BY <1>2, <1>3, UpTo
<1>5. n \in T /\ n - n = 0
  BY <1>4
<1> QED BY <1>1, <1>5 DEF T

LEMMA FullRun ==
    ASSUME NEW n \in Nat, n <= MAX_USERS_DISPLAY, NEW len \in Lengths
    PROVE  Run(Full(n, len), Top, Top)
<1>0. len \in Nat /\ 0 + 1 < MaxMsg - 1
  <2>1. 1 < MaxMsg - 1 /\ len \in Nat
    BY SizesAssumption, LinesAssumption
  <2> QED BY <2>1
<1>1. Reads(Top, Header(n), State("top", 0, <<Header(n)>>))
  <2>1. Append(<< >>, Header(n)) = <<Header(n)>> /\ Len(<< >>) = 0
    OBVIOUS
  <2> QED BY <1>0, <2>1, TokensApart DEF Reads, Top, State
<1>2. Reads(State("top", 0, <<Header(n)>>), Newline, Body(n))
  <2>1. <<Header(n)>>[1] = Header(n) /\ <<Header(n)>> # << >>
    OBVIOUS
  <2>2. Header(n).n = n /\ Header(n).is = "header"
    BY DEF Header
  <2> QED BY <2>1, <2>2 DEF Reads, State, Starts
<1>3. Reads(Body(0), Token("END"), State("body", 0, <<Token("END")>>))
  <2>1. Append(<< >>, Token("END")) = <<Token("END")>> /\ Len(<< >>) = 0
    OBVIOUS
  <2> QED BY <1>0, <2>1, TokensApart DEF Reads, Body, State
<1>4. Reads(State("body", 0, <<Token("END")>>), Newline, Top)
  <2>1. <<Token("END")>>[1] = Token("END") /\ Len(<<Token("END")>>) = 1
    OBVIOUS
  <2>2. Token("END").is = "END"
    BY DEF Token
  <2> QED BY <2>1, <2>2 DEF Reads, State
<1>5. /\ <<Header(n)>> \in Seq(Char) /\ <<Newline>> \in Seq(Char)
      /\ <<Token("END")>> \in Seq(Char)
      /\ <<Header(n)>> \o <<Newline>> = <<Header(n), Newline>>
      /\ <<Token("END")>> \o <<Newline>> = <<Token("END"), Newline>>
      /\ <<Header(n), Newline>> \in Seq(Char) /\ <<Token("END"), Newline>> \in Seq(Char)
  BY TokensTyped, PairFacts
<1>6. Run(<<Header(n), Newline>>, Top, Body(n))
  BY <1>1, <1>2, <1>5, RunChar, RunJoin
<1>7. Run(<<Token("END"), Newline>>, Body(0), Top)
  BY <1>3, <1>4, <1>5, RunChar, RunJoin
<1>8. Users(n, len) \in Seq(Char) /\ Run(Users(n, len), Body(n), Body(0))
  BY <1>0, ListTyped, UsersRun
<1>9. /\ <<Header(n), Newline>> \o Users(n, len) \in Seq(Char)
      /\ Run(<<Header(n), Newline>> \o Users(n, len), Top, Body(0))
  BY <1>5, <1>6, <1>8, RunJoin, ConcatProperties
<1>10. Run((<<Header(n), Newline>> \o Users(n, len)) \o <<Token("END"), Newline>>, Top, Top)
  BY <1>5, <1>7, <1>9, RunJoin
<1> QED BY <1>10 DEF Full

(* A list that fits its buffer is sent as a whole. *)
LEMMA ListRun ==
    ASSUME NEW n \in Nat, NEW len \in Lengths, ~Unfit(n, len)
    PROVE  Run(build_user_list_locked(n, len), Top, Top)
<1>0. len \in Nat
  BY SizesAssumption
<1>1. Full(n, len) \in Seq(Char) /\ Len(Full(n, len)) \in Nat
  BY <1>0, ListTyped, LenProperties
<1>2. Len(Full(n, len)) < BufferSize /\ n <= MAX_USERS_DISPLAY
  BY <1>1, SizesAssumption DEF Unfit
<1>3. build_user_list_locked(n, len) = SubSeq(Full(n, len), 1, Len(Full(n, len)))
  BY <1>2 DEF build_user_list_locked
<1>4. build_user_list_locked(n, len) = Full(n, len)
  BY <1>1, <1>3, SubSeqFull
<1> QED BY <1>2, <1>4, FullRun

LEMMA OtherLineRun == Run(<<Token("k"), Newline>>, Top, Top)
<1>0. 0 + 1 < MaxMsg - 1
  <2>1. 1 < MaxMsg - 1
    BY LinesAssumption
  <2> QED BY <2>1
<1>1. Reads(Top, Token("k"), State("top", 0, <<Token("k")>>))
  <2>1. Append(<< >>, Token("k")) = <<Token("k")>> /\ Len(<< >>) = 0
    OBVIOUS
  <2> QED BY <1>0, <2>1, TokensApart DEF Reads, Top, State
<1>2. Reads(State("top", 0, <<Token("k")>>), Newline, Top)
  <2>1. <<Token("k")>>[1] = Token("k")
    OBVIOUS
  <2>2. Token("k").is = "k"
    BY DEF Token
  <2> QED BY <2>1, <2>2 DEF Reads, State, Starts, Top
<1>3. /\ <<Token("k")>> \in Seq(Char) /\ <<Newline>> \in Seq(Char)
      /\ <<Token("k")>> \o <<Newline>> = <<Token("k"), Newline>>
  BY TokensTyped, PairFacts
<1> QED BY <1>1, <1>2, <1>3, RunChar, RunJoin

-----------------------------------------------------------------------------
(* While no message was torn and no list cut or too long, what is on its   *)
(* way, with what is left of the message that is being sent, takes the     *)
(* client back to the top, and so does every message not yet begun.        *)
SyncInv ==
    ~torn /\ ~unfit =>
        /\ connected
        /\ \A s \in Senders : ~Idle(s) /\ total[s] = 0 => Run(Chars(buffer[s]), Top, Top)
        /\ \A s, d \in Senders : Middle(s) /\ Middle(d) => s = d
        /\ (\A s \in Senders : ~Middle(s)) => Run(Chars(wire), Here, Top)
        /\ \A s \in Senders : Middle(s) => Run(Chars(wire \o Offered(s)), Here, Top)

LEMMA CharsFacts ==
    ASSUME NEW bs \in Seq(Byte)
    PROVE  /\ Chars(bs) \in Seq(Char) /\ Len(Chars(bs)) = Len(bs)
           /\ \A i \in 1..Len(bs) : Chars(bs)[i] = bs[i].c
<1>1. Len(bs) \in Nat /\ DOMAIN bs = 1..Len(bs)
  BY LenProperties
<1>2. Chars(bs) = [i \in 1..Len(bs) |-> bs[i].c]
  BY <1>1 DEF Chars
<1>3. \A i \in 1..Len(bs) : bs[i].c \in Char
  <2> TAKE i \in 1..Len(bs)
  <2>1. bs[i] \in Byte
    BY ElementOfSeq
  <2> QED BY <2>1 DEF Byte
<1>4. Chars(bs) \in [1..Len(bs) -> Char]
  BY <1>2, <1>3
<1> QED BY <1>1, <1>2, <1>4

LEMMA CharsJoin ==
    ASSUME NEW a \in Seq(Byte), NEW b \in Seq(Byte)
    PROVE  Chars(a \o b) = Chars(a) \o Chars(b)
<1> DEFINE x == Chars(a \o b)
           y == Chars(a) \o Chars(b)
<1>1. /\ a \o b \in Seq(Byte) /\ Len(a \o b) = Len(a) + Len(b)
      /\ \A i \in 1..(Len(a) + Len(b)) :
            (a \o b)[i] = IF i <= Len(a) THEN a[i] ELSE b[i - Len(a)]
  BY ConcatProperties
<1>2. /\ Chars(a) \in Seq(Char) /\ Len(Chars(a)) = Len(a)
      /\ \A i \in 1..Len(a) : Chars(a)[i] = a[i].c
      /\ Chars(b) \in Seq(Char) /\ Len(Chars(b)) = Len(b)
      /\ \A i \in 1..Len(b) : Chars(b)[i] = b[i].c
  BY CharsFacts
<1>3. x \in Seq(Char) /\ Len(x) = Len(a) + Len(b)
      /\ \A i \in 1..(Len(a) + Len(b)) : x[i] = (a \o b)[i].c
  BY <1>1, CharsFacts
<1>4. y \in Seq(Char) /\ Len(y) = Len(a) + Len(b)
      /\ \A i \in 1..(Len(a) + Len(b)) :
            y[i] = IF i <= Len(a) THEN Chars(a)[i] ELSE Chars(b)[i - Len(a)]
  <2>1. /\ y \in Seq(Char) /\ Len(y) = Len(Chars(a)) + Len(Chars(b))
        /\ \A i \in 1..(Len(Chars(a)) + Len(Chars(b))) :
              y[i] = IF i <= Len(Chars(a)) THEN Chars(a)[i]
                     ELSE Chars(b)[i - Len(Chars(a))]
    <3> DEFINE ca == Chars(a)
               cb == Chars(b)
    <3>1. ca \in Seq(Char) /\ cb \in Seq(Char) /\ y = ca \o cb
      BY <1>2
    <3> HIDE DEF ca, cb, y
    <3>2. /\ y \in Seq(Char) /\ Len(y) = Len(ca) + Len(cb)
          /\ \A i \in 1..(Len(ca) + Len(cb)) :
                y[i] = IF i <= Len(ca) THEN ca[i] ELSE cb[i - Len(ca)]
      BY <3>1, ConcatProperties
    <3> QED BY <3>2 DEF ca, cb
  <2> HIDE DEF y
  <2> QED BY <1>2, <2>1
<1>5. Len(a) \in Nat /\ Len(b) \in Nat
  BY LenProperties
<1> HIDE DEF x, y
<1>6. ASSUME NEW i \in 1..(Len(a) + Len(b)) PROVE x[i] = y[i]
  <2>1. CASE i <= Len(a)
    <3>1. i \in 1..Len(a)
      BY <1>5, <2>1
    <3> QED BY <1>1, <1>2, <1>3, <1>4, <2>1, <3>1
  <2>2. CASE ~(i <= Len(a))
    <3>1. i - Len(a) \in 1..Len(b)
      BY <1>5, <2>2
    <3> QED BY <1>1, <1>2, <1>3, <1>4, <2>2, <3>1
  <2> QED BY <2>1, <2>2
<1>7. x = y
  BY <1>3, <1>4, <1>6, SeqEqual
<1> QED BY <1>7 DEF x, y

(* What is left to send comes next. *)
LEMMA PieceJoin ==
    ASSUME IInv, NEW s \in Senders, ~Idle(s),
           NEW n \in 1..(Capacity - Len(wire)), n <= Len(Offered(s)),
           wire' = wire \o SubSeq(Offered(s), 1, n), Took(s, n)
    PROVE  /\ ~Middle(s)' => wire' = wire \o Offered(s)
           /\ Middle(s)' => wire' \o Offered(s)' = wire \o Offered(s)
<1> USE DEF IInv
<1> DEFINE b == buffer[s]
           t == total[s]
           o == Offered(s)
<1>1. /\ o \in Seq(Byte) /\ Len(o) = Len(b) - t /\ o = SubSeq(b, t + 1, Len(b))
      /\ SubSeq(o, 1, n) \in Seq(Byte)
  BY PieceFacts DEF Offered
<1>2. /\ wire \in Seq(Byte) /\ b \in Seq(Byte) /\ Len(b) \in Nat /\ t \in Nat
      /\ t < Len(b) /\ n \in Nat \ {0} /\ t + n <= Len(b)
  <2>1. /\ wire \in Seq(Byte) /\ b \in Seq(Byte) /\ Len(b) \in Nat /\ t \in Nat
        /\ t < Len(b) /\ Len(wire) \in Nat
    BY LenProperties DEF TypeOK, SendInv
  <2>2. n \in Nat \ {0} /\ n <= Len(b) - t
    BY <1>1
  <2> HIDE DEF b, t, o
  <2> QED BY <2>1, <2>2
<1>3. CASE t + n = Len(b)
  <2>1. Len(o) = n
    BY <1>1, <1>2, <1>3
  <2>2. SubSeq(o, 1, n) = o
    <3> HIDE DEF o
    <3> QED BY <1>1, <2>1, SubSeqFull
  <2>3. buffer'[s] = << >>
    BY <1>3 DEF Took, Return, TypeOK
  <2>4. ~Middle(s)'
    <3>1. Len(buffer'[s]) = 0 /\ total'[s] = 0
      BY <1>3, <2>3 DEF Took, Return, SendInv
    <3> QED BY <3>1 DEF Middle
  <2> QED BY <2>2, <2>4
<1>4. CASE t + n # Len(b)
  <2>1. total'[s] = t + n /\ buffer' = buffer
    BY <1>4 DEF Took, SendInv
  <2>2. Middle(s)'
    <3>1. 0 < t + n /\ t + n < Len(b)
      <4> HIDE DEF b, t, o
      <4> QED BY <1>2, <1>4
    <3> QED BY <2>1, <3>1 DEF Middle
  <2>3. Offered(s)' = SubSeq(b, (t + n) + 1, Len(b))
    BY <2>1 DEF Offered
  <2>4. SubSeq(o, 1, n) = SubSeq(b, t + 1, t + n)
    <3>1. /\ SubSeq(o, 1, n) \in Seq(Byte) /\ Len(SubSeq(o, 1, n)) = n
          /\ \A i \in 1..n : SubSeq(o, 1, n)[i] = b[t + i]
      BY PieceFacts
    <3>2. /\ t + 1 \in Int /\ t + n \in Int /\ t + 1 <= t + n
          /\ (t + n) - (t + 1) + 1 = n
          /\ \A i \in (t + 1)..(t + n) : i \in 1..Len(b)
          /\ \A i \in 1..n : (t + 1) + i - 1 = t + i
      <4> HIDE DEF b, t, o
      <4> QED BY <1>2
    <3>3. \A i \in (t + 1)..(t + n) : b[i] \in Byte
      BY <1>2, <3>2, ElementOfSeq
    <3> HIDE DEF b, t, o
    <3>4. /\ SubSeq(b, t + 1, t + n) \in Seq(Byte) /\ Len(SubSeq(b, t + 1, t + n)) = n
          /\ \A i \in 1..n : SubSeq(b, t + 1, t + n)[i] = b[t + i]
      <4> DEFINE m == t + 1
                 k == t + n
      <4>1. /\ m \in Int /\ k \in Int /\ m <= k
            /\ \A i \in m..k : b[i] \in Byte
        BY <3>2, <3>3
      <4>2. k - m + 1 = n /\ \A i \in 1..n : m + i - 1 = t + i
        BY <3>2
      <4> HIDE DEF m, k
      <4>3. /\ SubSeq(b, m, k) \in Seq(Byte) /\ Len(SubSeq(b, m, k)) = k - m + 1
            /\ \A i \in 1..(k - m + 1) : SubSeq(b, m, k)[i] = b[m + i - 1]
        BY <4>1, SliceFacts
      <4>4. /\ SubSeq(b, m, k) \in Seq(Byte) /\ Len(SubSeq(b, m, k)) = n
            /\ \A i \in 1..n : SubSeq(b, m, k)[i] = b[t + i]
        BY <4>2, <4>3
      <4> QED BY <4>4 DEF m, k
    <3> QED BY <3>1, <3>4, SeqEqual
  <2>5. SubSeq(b, t + 1, t + n) \o SubSeq(b, (t + n) + 1, Len(b)) = SubSeq(b, t + 1, Len(b))
    <3>1. /\ t + 1 \in 1..(Len(b) + 1) /\ t + n \in ((t + 1) - 1)..Len(b)
          /\ Len(b) \in (t + n)..Len(b)
      <4>1. /\ Len(b) \in Nat /\ t \in Nat /\ t < Len(b)
            /\ n \in Nat \ {0} /\ t + n <= Len(b)
        BY <1>2
      <4> HIDE DEF b, t, o
      <4> QED BY <4>1
    <3> HIDE DEF b, t
    <3> QED BY <1>2, <3>1, ConcatAdjacentSubSeq
  <2>6. Offered(s)' \in Seq(Byte)
    <3>1. /\ (t + n) + 1 \in Int /\ Len(b) \in Int
          /\ \A i \in ((t + n) + 1)..Len(b) : i \in 1..Len(b)
      BY <1>2
    <3>2. \A i \in ((t + n) + 1)..Len(b) : b[i] \in Byte
      BY <1>2, <3>1, ElementOfSeq
    <3>3. SubSeq(b, (t + n) + 1, Len(b)) \in Seq(Byte)
      <4> HIDE DEF b, t
      <4> QED BY <3>1, <3>2, SubSeqProperties
    <3> QED BY <2>3, <3>3
  <2>7. SubSeq(o, 1, n) \o Offered(s)' = o
    BY <1>1, <2>3, <2>4, <2>5
  <2>8. (wire \o SubSeq(o, 1, n)) \o Offered(s)' = wire \o (SubSeq(o, 1, n) \o Offered(s)')
    <3> DEFINE x == SubSeq(o, 1, n)
               y == Offered(s)'
    <3>1. x \in Seq(Byte)
      BY <1>1
    <3>2. y \in Seq(Byte)
      BY <2>6
    <3>3. wire \in Seq(Byte)
      BY <1>2
    <3> HIDE DEF x, y
    <3>4. (wire \o x) \o y = wire \o (x \o y)
      BY <3>1, <3>2, <3>3, ConcatAssociative, SMTT(30)
    <3> QED BY <3>4 DEF x, y
  <2> QED BY <2>2, <2>7, <2>8
<1> QED BY <1>3, <1>4

-----------------------------------------------------------------------------
LEMMA InitSync == Init => SyncInv
<1> SUFFICES ASSUME Init PROVE SyncInv
  OBVIOUS
<1>1. \A s \in Senders : Idle(s) /\ ~Middle(s)
  BY DEF Init, Idle, Middle
<1>2. Chars(<< >>) = << >>
  BY DEF Chars
<1>3. Here = Top
  BY <1>2 DEF Init, Here, Top
<1>4. Run(Chars(wire), Here, Top)
  BY <1>2, <1>3, RunNothing DEF Init
<1> QED BY <1>1, <1>4 DEF SyncInv, Init

(* A message that fits begins: its text leads from the top to the top. *)
LEMMA BeginSync ==
    ASSUME IInv, SyncInv, NEW s \in Senders, NEW text \in Seq(Char), Begin(s, text),
           unfit \/ unfit' \/ Run(text, Top, Top), unfit => unfit'
    PROVE  SyncInv'
<1> USE DEF IInv
<1> SUFFICES ASSUME ~torn', ~unfit'
             PROVE  /\ connected'
                    /\ \A d \in Senders : ~Idle(d)' /\ total'[d] = 0
                                          => Run(Chars(buffer'[d]), Top, Top)
                    /\ \A d, e \in Senders : Middle(d)' /\ Middle(e)' => d = e
                    /\ (\A d \in Senders : ~Middle(d)') => Run(Chars(wire'), Here', Top)
                    /\ \A d \in Senders : Middle(d)' =>
                          Run(Chars(wire' \o Offered(d)'), Here', Top)
  BY DEF SyncInv, Top
<1>0. /\ buffer' = [buffer EXCEPT ![s] = From(s, text)]
      /\ total' = [total EXCEPT ![s] = 0]
      /\ UNCHANGED <<wire, line, mode, left, connected, due, torn>> /\ Idle(s)
  BY DEF Begin, client
<1>1. ~torn /\ ~unfit /\ Run(text, Top, Top)
  BY <1>0
<1>2. buffer'[s] = From(s, text) /\ total'[s] = 0
  BY <1>0 DEF TypeOK, SendInv
<1>3. \A d \in Senders \ {s} : buffer'[d] = buffer[d] /\ total'[d] = total[d]
  BY <1>0 DEF TypeOK, SendInv
<1>4. Chars(From(s, text)) = text
  <2>1. /\ From(s, text) \in Seq(Byte) /\ Len(From(s, text)) = Len(text)
        /\ \A i \in 1..Len(text) : From(s, text)[i].c = text[i]
    BY FromFacts
  <2> DEFINE bs == From(s, text)
  <2> HIDE DEF bs
  <2>2. /\ Chars(bs) \in Seq(Char) /\ Len(Chars(bs)) = Len(text)
        /\ \A i \in 1..Len(text) : Chars(bs)[i] = text[i]
    BY <2>1, CharsFacts DEF bs
  <2>3. Chars(bs) = text
    BY <2>2, SeqEqual
  <2> QED BY <2>3 DEF bs
<1>5. ~Middle(s) /\ ~Middle(s)'
  <2>1. total[s] = 0
    BY <1>0 DEF TypeOK, Idle
  <2> QED BY <1>2, <2>1 DEF Middle
<1>6. \A d \in Senders : /\ Middle(d)' <=> Middle(d)
                         /\ Middle(d) => Offered(d)' = Offered(d)
  BY <1>3, <1>5 DEF Middle, Offered
<1>7. Here' = Here /\ wire' = wire
  BY <1>0 DEF Here
<1>8. ASSUME NEW d \in Senders, ~Idle(d)', total'[d] = 0
      PROVE  Run(Chars(buffer'[d]), Top, Top)
  <2>1. CASE d = s
    BY <1>1, <1>2, <1>4, <2>1
  <2>2. CASE d # s
    BY <1>1, <1>3, <1>8, <2>2 DEF SyncInv, Idle
  <2> QED BY <2>1, <2>2
<1>9. /\ connected
      /\ \A d, e \in Senders : Middle(d) /\ Middle(e) => d = e
      /\ (\A d \in Senders : ~Middle(d)) => Run(Chars(wire), Here, Top)
      /\ \A d \in Senders : Middle(d) => Run(Chars(wire \o Offered(d)), Here, Top)
  BY <1>1 DEF SyncInv
<1> QED BY <1>0, <1>6, <1>7, <1>8, <1>9

LEMMA SendSync ==
    ASSUME IInv, SyncInv, NEW s \in Senders, send_all(s)
    PROVE  SyncInv'
<1> USE DEF IInv
<1> SUFFICES ASSUME ~torn', ~unfit'
             PROVE  /\ connected'
                    /\ \A d \in Senders : ~Idle(d)' /\ total'[d] = 0
                                          => Run(Chars(buffer'[d]), Top, Top)
                    /\ \A d, e \in Senders : Middle(d)' /\ Middle(e)' => d = e
                    /\ (\A d \in Senders : ~Middle(d)') => Run(Chars(wire'), Here', Top)
                    /\ \A d \in Senders : Middle(d)' =>
                          Run(Chars(wire' \o Offered(d)'), Here', Top)
  BY DEF SyncInv, Top
<1>0. /\ ~Idle(s) /\ ~torn /\ ~unfit
      /\ UNCHANGED <<line, mode, left, connected, unfit>>
  BY DEF send_all, client, TypeOK
<1>1. /\ connected
      /\ \A d \in Senders : ~Idle(d) /\ total[d] = 0 => Run(Chars(buffer[d]), Top, Top)
      /\ (\A d \in Senders : ~Middle(d)) => Run(Chars(wire), Here, Top)
      /\ \A d \in Senders : Middle(d) => Run(Chars(wire \o Offered(d)), Here, Top)
  BY <1>0 DEF SyncInv
<1>2. PICK n \in 1..(Capacity - Len(wire)) :
         /\ n <= Len(Offered(s))
         /\ wire' = wire \o SubSeq(Offered(s), 1, n)
         /\ Took(s, n)
  BY <1>1 DEF send_all
<1>3. \A d \in Senders \ {s} : ~Middle(d)
  BY <1>1 DEF send_all
<1>4. Here' = Here /\ connected'
  BY <1>0, <1>1 DEF Here
<1>5. \A d \in Senders \ {s} : buffer'[d] = buffer[d] /\ total'[d] = total[d]
  BY <1>2 DEF Took, Return, TypeOK, SendInv
<1>6. \A d \in Senders \ {s} : ~Middle(d)'
  BY <1>3, <1>5 DEF Middle
<1>7. Run(Chars(wire \o Offered(s)), Here, Top)
  <2>1. CASE Middle(s)
    BY <1>1, <2>1
  <2>2. CASE ~Middle(s)
    <3>1. total[s] = 0
      <4>1. total[s] \in Nat /\ total[s] < Len(buffer[s])
        BY <1>0 DEF SendInv
      <4> QED BY <2>2, <4>1 DEF Middle
    <3>2. buffer[s] \in Seq(Byte) /\ wire \in Seq(Byte)
      BY DEF TypeOK
    <3>3. Offered(s) = buffer[s]
      BY <3>1, <3>2, SubSeqFull DEF Offered
    <3>4. Run(Chars(wire), Here, Top) /\ Run(Chars(buffer[s]), Top, Top)
      BY <1>0, <1>1, <1>3, <2>2, <3>1
    <3>5. Chars(wire) \in Seq(Char) /\ Chars(buffer[s]) \in Seq(Char)
      BY <3>2, CharsFacts
    <3>6. Run(Chars(wire) \o Chars(buffer[s]), Here, Top)
      BY <3>4, <3>5, RunJoin
    <3> QED BY <3>2, <3>3, <3>6, CharsJoin
  <2> QED BY <2>1, <2>2
<1>8. /\ ~Middle(s)' => wire' = wire \o Offered(s)
      /\ Middle(s)' => wire' \o Offered(s)' = wire \o Offered(s)
  BY <1>0, <1>2, PieceJoin
<1>9. ASSUME NEW d \in Senders, ~Idle(d)', total'[d] = 0
      PROVE  Run(Chars(buffer'[d]), Top, Top)
  <2>1. CASE d = s
    <3>1. total'[s] # 0 \/ buffer'[s] = << >>
      <4>1. n \in Nat \ {0} /\ total[s] \in Nat
        BY DEF SendInv
      <4> QED BY <1>2, <4>1 DEF Took, Return, TypeOK, SendInv
    <3> QED BY <1>9, <2>1, <3>1 DEF Idle
  <2>2. CASE d # s
    BY <1>1, <1>5, <1>9, <2>2 DEF Idle
  <2> QED BY <2>1, <2>2
<1>10. \A d, e \in Senders : Middle(d)' /\ Middle(e)' => d = e
  BY <1>6
<1>11. (\A d \in Senders : ~Middle(d)') => Run(Chars(wire'), Here', Top)
  BY <1>4, <1>7, <1>8
<1>12. \A d \in Senders : Middle(d)' => Run(Chars(wire' \o Offered(d)'), Here', Top)
  BY <1>4, <1>6, <1>7, <1>8
<1> QED BY <1>4, <1>9, <1>10, <1>11, <1>12

(* What a byte of a run does to the client. *)
LEMMA ReadsHere ==
    ASSUME IInv, recv_line, NEW q, Reads(Here, Head(wire).c, q)
    PROVE  connected' /\ Here' = q
<1> USE DEF IInv
<1> DEFINE b == Head(wire)
           l == IF b.c = Newline THEN line ELSE Append(line, b)
<1>0. b \in Byte /\ line \in Seq(Byte) /\ Len(line) \in Nat /\ connected
  <2>1. wire \in Seq(Byte) /\ line \in Seq(Byte) /\ wire # << >> /\ connected
    BY DEF TypeOK, recv_line
  <2> QED BY <2>1, HeadTailProperties, LenProperties
<1>1. /\ Chars(line) \in Seq(Char) /\ Len(Chars(line)) = Len(line)
      /\ \A i \in 1..Len(line) : Chars(line)[i] = line[i].c
  BY <1>0, CharsFacts
<1>2. Here.mode = mode /\ Here.left = left /\ Here.text = Chars(line)
  BY DEF Here, State
<1>c. Chars(<< >>) = << >>
  BY DEF Chars
<1>3. CASE b.c # Newline /\ Len(Chars(line)) + 1 < MaxMsg - 1
           /\ q = State(mode, left, Append(Chars(line), b.c))
  <2>1. /\ l \in Seq(Byte) /\ Len(l) = Len(line) + 1
        /\ \A i \in 1..Len(line) : l[i] = line[i]
        /\ l[Len(line) + 1] = b
    BY <1>0, <1>3, AppendProperties
  <2>2. ~IsFull(l)
    BY <1>0, <1>1, <1>3, <2>1, SizesAssumption DEF IsFull
  <2>3. line' = l /\ UNCHANGED <<mode, left, connected>>
    BY <1>3, <2>2 DEF recv_line
  <2>4. Chars(l) = Append(Chars(line), b.c)
    <3>1. b.c \in Char
      BY <1>0 DEF Byte
    <3>2. /\ Append(Chars(line), b.c) \in Seq(Char)
          /\ Len(Append(Chars(line), b.c)) = Len(line) + 1
          /\ \A i \in 1..Len(line) : Append(Chars(line), b.c)[i] = line[i].c
          /\ Append(Chars(line), b.c)[Len(line) + 1] = b.c
      BY <1>1, <3>1, AppendProperties
    <3> HIDE DEF l
    <3>3. /\ Chars(l) \in Seq(Char) /\ Len(Chars(l)) = Len(line) + 1
          /\ \A i \in 1..(Len(line) + 1) : Chars(l)[i] = l[i].c
      BY <2>1, CharsFacts
    <3>4. \A i \in 1..(Len(line) + 1) : i \in 1..Len(line) \/ i = Len(line) + 1
      BY <1>0
    <3>5. \A i \in 1..(Len(line) + 1) : Chars(l)[i] = Append(Chars(line), b.c)[i]
      <4> TAKE i \in 1..(Len(line) + 1)
      <4>1. CASE i \in 1..Len(line)
        BY <2>1, <3>2, <3>3, <4>1
      <4>2. CASE i = Len(line) + 1
        BY <2>1, <3>2, <3>3, <4>2
      <4> QED BY <3>4, <4>1, <4>2
    <3> QED BY <3>2, <3>3, <3>5, SeqEqual
  <2> HIDE DEF l
  <2> QED BY <1>0, <1>3, <2>3, <2>4 DEF Here
<1>4. CASE /\ b.c = Newline
           /\ \/ /\ mode = "top" /\ Starts(Chars(line))
                 /\ Chars(line)[1].n <= MAX_USERS_DISPLAY /\ q = Body(Chars(line)[1].n)
              \/ /\ mode = "top" /\ ~Starts(Chars(line))
                 /\ q = State("top", left, << >>)
              \/ /\ mode = "body" /\ left > 0
                 /\ q = Body(left - 1)
              \/ /\ mode = "body" /\ left = 0
                 /\ Len(Chars(line)) = 1 /\ Chars(line)[1].is = "END"
                 /\ q = Top
  <2>1. line' = << >> /\ handle_server_message(line)
    BY <1>4 DEF recv_line
  <2>2. Starts(Chars(line)) <=> IsHeader(line)
    <3>1. Chars(line) = << >> <=> line = << >>
      <4>1. line # << >> => Len(line) \in Nat \ {0}
        BY <1>0, EmptySeq
      <4>2. Chars(line) # << >> => Len(Chars(line)) \in Nat \ {0}
        BY <1>1, EmptySeq
      <4>3. Len(<< >>) = 0
        OBVIOUS
      <4> QED BY <1>1, <4>1, <4>2, <4>3
    <3>2. line # << >> => Chars(line)[1] = line[1].c
      <4>1. line # << >> => 1 \in 1..Len(line)
        BY <1>0, EmptySeq
      <4> QED BY <1>1, <4>1
    <3> QED BY <3>1, <3>2 DEF Starts, IsHeader
  <2>3. line # << >> => Chars(line)[1] = line[1].c
    <3>1. line # << >> => 1 \in 1..Len(line)
      BY <1>0, EmptySeq
    <3> QED BY <1>1, <3>1
  <2>4. Here' = State(mode', left', << >>)
    BY <2>1, <1>c DEF Here
  <2>5. CASE mode = "top" /\ Starts(Chars(line))
    <3>1. Entries(line) = Chars(line)[1].n /\ IsHeader(line)
      BY <2>2, <2>3, <2>5 DEF Entries, IsHeader
    <3>2. ~(Entries(line) > MAX_USERS_DISPLAY)
      <4>1. Chars(line)[1].n <= MAX_USERS_DISPLAY
        BY <1>4, <2>5
      <4>2. Chars(line)[1].n \in Nat
        <5>1. Chars(line) # << >>
          BY <2>5 DEF Starts
        <5>2. 1 \in 1..Len(Chars(line))
          BY <1>1, <5>1, EmptySeq
        <5>3. Chars(line)[1] \in Char
          BY <1>1, <5>2, ElementOfSeq
        <5> QED BY <5>3 DEF Char
      <4> QED BY <3>1, <4>1, <4>2, SizesAssumption
    <3>3. mode' = "body" /\ left' = Entries(line) /\ connected' = connected
      BY <2>1, <2>5, <3>1, <3>2 DEF handle_server_message
    <3>4. q = Body(Chars(line)[1].n)
      BY <1>4, <2>5
    <3> QED BY <1>0, <2>4, <3>1, <3>3, <3>4 DEF Body
  <2>6. CASE mode = "top" /\ ~Starts(Chars(line))
    BY <1>0, <1>4, <2>1, <2>2, <2>4, <2>6 DEF handle_server_message
  <2>7. CASE mode = "body" /\ left > 0
    <3>1. left \in Nat
      BY SizesAssumption DEF TypeOK
    <3>2. left' = left - 1 /\ mode' = mode /\ connected' = connected
      BY <2>1, <2>7, <3>1 DEF handle_server_message
    <3>3. q = Body(left - 1)
      BY <1>4, <2>7, <3>1
    <3> QED BY <1>0, <2>4, <2>7, <3>2, <3>3 DEF Body
  <2>8. CASE mode = "body" /\ left = 0
    <3>1. Len(Chars(line)) = 1 /\ Chars(line)[1].is = "END" /\ q = Top
      BY <1>4, <2>8
    <3>2. IsEnd(line)
      <4>1. 1 \in 1..Len(line)
        BY <1>1, <3>1
      <4> QED BY <1>1, <3>1, <4>1 DEF IsEnd
    <3>3. mode' = "top" /\ left' = 0 /\ connected'
      BY <2>1, <2>8, <3>2 DEF handle_server_message
    <3> QED BY <2>4, <3>1, <3>3 DEF Top
  <2> QED BY <1>4, <2>5, <2>6, <2>7, <2>8
<1> QED BY <1>2, <1>3, <1>4 DEF Reads

LEMMA ReadSync ==
    ASSUME IInv, SyncInv, recv_line
    PROVE  SyncInv'
<1> USE DEF IInv
<1> SUFFICES ASSUME ~torn', ~unfit'
             PROVE  /\ connected'
                    /\ \A d \in Senders : ~Idle(d)' /\ total'[d] = 0
                                          => Run(Chars(buffer'[d]), Top, Top)
                    /\ \A d, e \in Senders : Middle(d)' /\ Middle(e)' => d = e
                    /\ (\A d \in Senders : ~Middle(d)') => Run(Chars(wire'), Here', Top)
                    /\ \A d \in Senders : Middle(d)' =>
                          Run(Chars(wire' \o Offered(d)'), Here', Top)
  BY DEF SyncInv, Top
<1>0. /\ wire # << >> /\ wire' = Tail(wire) /\ UNCHANGED <<buffer, total, torn, unfit>>
  BY DEF recv_line
<1>1. /\ connected
      /\ \A d \in Senders : ~Idle(d) /\ total[d] = 0 => Run(Chars(buffer[d]), Top, Top)
      /\ \A d, e \in Senders : Middle(d) /\ Middle(e) => d = e
      /\ (\A d \in Senders : ~Middle(d)) => Run(Chars(wire), Here, Top)
      /\ \A d \in Senders : Middle(d) => Run(Chars(wire \o Offered(d)), Here, Top)
  BY <1>0 DEF SyncInv
<1>2. \A d \in Senders : /\ Middle(d)' <=> Middle(d)
                         /\ Offered(d)' = Offered(d)
                         /\ Idle(d)' <=> Idle(d)
  BY <1>0 DEF Middle, Offered, Idle
<1>3. ASSUME NEW x \in Seq(Byte), Run(Chars(wire \o x), Here, Top)
      PROVE  connected' /\ Run(Chars(wire' \o x), Here', Top)
  <2> DEFINE t == Chars(wire \o x)
  <2>1. /\ wire \in Seq(Byte) /\ Tail(wire) \in Seq(Byte) /\ Len(wire) \in Nat \ {0}
        /\ Len(Tail(wire)) = Len(wire) - 1 /\ Len(x) \in Nat
        /\ Head(wire) = wire[1]
        /\ \A i \in 1..(Len(wire) - 1) : Tail(wire)[i] = wire[i + 1]
    <3>1. wire \in Seq(Byte)
      BY DEF TypeOK
    <3> QED BY <1>0, <3>1, HeadTailProperties, EmptySeq, LenProperties
  <2>2. t = Chars(wire) \o Chars(x) /\ Chars(Tail(wire) \o x) = Chars(Tail(wire)) \o Chars(x)
    BY <2>1, CharsJoin
  <2>3. /\ Chars(wire) \in Seq(Char) /\ Chars(x) \in Seq(Char)
        /\ Chars(wire) # << >>
        /\ Head(Chars(wire)) = Head(wire).c /\ Tail(Chars(wire)) = Chars(Tail(wire))
    <3>1. /\ Chars(wire) \in Seq(Char) /\ Len(Chars(wire)) = Len(wire)
          /\ \A i \in 1..Len(wire) : Chars(wire)[i] = wire[i].c
          /\ Chars(Tail(wire)) \in Seq(Char) /\ Len(Chars(Tail(wire))) = Len(wire) - 1
          /\ \A i \in 1..(Len(wire) - 1) : Chars(Tail(wire))[i] = Tail(wire)[i].c
          /\ Chars(x) \in Seq(Char)
      BY <2>1, CharsFacts
    <3>2. Chars(wire) # << >>
      <4>1. Len(<< >>) = 0
        OBVIOUS
      <4> QED BY <2>1, <3>1, <4>1
    <3>3. /\ Tail(Chars(wire)) \in Seq(Char) /\ Len(Tail(Chars(wire))) = Len(wire) - 1
          /\ \A i \in 1..(Len(wire) - 1) : Tail(Chars(wire))[i] = Chars(wire)[i + 1]
          /\ Head(Chars(wire)) = Chars(wire)[1]
      BY <3>1, <3>2, HeadTailProperties
    <3>4. \A i \in 1..(Len(wire) - 1) : i + 1 \in 1..Len(wire)
      BY <2>1
    <3>5. \A i \in 1..(Len(wire) - 1) : Tail(Chars(wire))[i] = Chars(Tail(wire))[i]
      BY <2>1, <3>1, <3>3, <3>4
    <3>6. Tail(Chars(wire)) = Chars(Tail(wire))
      BY <3>1, <3>3, <3>5, SeqEqual
    <3>7. 1 \in 1..Len(wire)
      BY <2>1
    <3> QED BY <2>1, <3>1, <3>2, <3>3, <3>6, <3>7
  <2>4. /\ t \in Seq(Char) /\ t # << >> /\ Head(t) = Head(wire).c
        /\ Tail(t) = Chars(Tail(wire) \o x)
    <3> DEFINE w == Chars(wire)
               y == Chars(x)
    <3>1. w \in Seq(Char) /\ y \in Seq(Char) /\ w # << >>
      BY <2>3
    <3> HIDE DEF w, y
    <3>2. /\ w \o y \in Seq(Char) /\ w \o y # << >> /\ Head(w \o y) = Head(w)
          /\ Tail(w \o y) = Tail(w) \o y
      BY <3>1, HeadTailConcat
    <3> HIDE DEF t
    <3> QED BY <2>2, <2>3, <3>2 DEF w, y
  <2> HIDE DEF t
  <2>5. PICK m : Reads(Here, Head(t), m) /\ Run(Tail(t), m, Top)
    BY <1>3, <2>4, RunFirst DEF t
  <2>6. connected' /\ Here' = m
    BY <2>4, <2>5, ReadsHere
  <2> QED BY <1>0, <2>4, <2>5, <2>6
<1>4. CASE \A d \in Senders : ~Middle(d)
  <2>1. wire \in Seq(Byte) /\ wire' \in Seq(Byte) /\ << >> \in Seq(Byte)
    BY <1>0, HeadTailProperties DEF TypeOK
  <2>2. wire \o << >> = wire /\ wire' \o << >> = wire'
    BY <2>1, ConcatEmptySeq
  <2>3. connected' /\ Run(Chars(wire'), Here', Top)
    <3>1. Run(Chars(wire \o << >>), Here, Top)
      BY <1>1, <1>4, <2>2
    <3>2. connected' /\ Run(Chars(wire' \o << >>), Here', Top)
      BY <1>3, <2>1, <3>1
    <3> QED BY <2>2, <3>2
  <2> QED BY <1>0, <1>1, <1>2, <1>4, <2>3
<1>5. CASE \E d \in Senders : Middle(d)
  <2>1. PICK d \in Senders : Middle(d)
    BY <1>5
  <2>2. Offered(d) \in Seq(Byte)
    <3> DEFINE c == buffer[d]
               m == total[d] + 1
    <3>1. /\ c \in Seq(Byte) /\ Len(c) \in Nat /\ m \in Nat \ {0}
      BY LenProperties DEF TypeOK, SendInv
    <3> HIDE DEF c, m
    <3>2. m \in Int /\ Len(c) \in Int /\ \A i \in m..Len(c) : i \in 1..Len(c)
      BY <3>1
    <3>3. \A i \in m..Len(c) : c[i] \in Byte
      BY <3>1, <3>2, ElementOfSeq
    <3>4. SubSeq(c, m, Len(c)) \in Seq(Byte)
      BY <3>2, <3>3, SubSeqProperties
    <3> QED BY <3>4 DEF Offered, c, m
  <2>3. connected' /\ Run(Chars(wire' \o Offered(d)), Here', Top)
    BY <1>1, <1>3, <2>1, <2>2
  <2>4. \A e \in Senders : Middle(e)' => e = d /\ Offered(e)' = Offered(d)
    BY <1>1, <1>2, <2>1
  <2>5. \A e \in Senders : Middle(e)' => Run(Chars(wire' \o Offered(e)'), Here', Top)
    BY <2>3, <2>4
  <2>6. ~(\A e \in Senders : ~Middle(e)')
    BY <1>2, <2>1
  <2>7. \A e \in Senders : ~Idle(e)' /\ total'[e] = 0 => Run(Chars(buffer'[e]), Top, Top)
    BY <1>0, <1>1, <1>2
  <2> QED BY <2>3, <2>4, <2>5, <2>6, <2>7
<1> QED BY <1>4, <1>5

(* The client never takes an answer for a protocol error, and waits for    *)
(* the first line of a message whenever nothing is on its way, unless an   *)
(* answer was sent in the middle of a broadcast or a list did not fit: by  *)
(* SyncInv, whatever the number of users, the lengths of their lines and   *)
(* the way the sends are cut (protocol.c:22-79, response.c:168-215).       *)
THEOREM ClientStaysInStep == Spec => []InStep
<1>1. Init => IInv /\ SyncInv
  BY InitStream, InitSync
<1>2. IInv /\ SyncInv /\ [Next]_vars => (IInv /\ SyncInv)'
  <2> SUFFICES ASSUME IInv, SyncInv, [Next]_vars PROVE IInv' /\ SyncInv'
    OBVIOUS
  <2>1. ASSUME NEW s \in Senders, NEW text \in Seq(Char), Begin(s, text), unfit => unfit',
               \/ text = <<Token("k"), Newline>>
               \/ \E n \in Nat, len \in Lengths :
                    text = build_user_list_locked(n, len) /\ (Unfit(n, len) => unfit')
        PROVE  SyncInv'
    <3>1. unfit' \/ Run(text, Top, Top)
      BY <2>1, OtherLineRun, ListRun
    <3> QED BY <2>1, <3>1, BeginSync
  <2>2. ASSUME UNCHANGED <<buffer, total, wire, client, torn, unfit>>
        PROVE  SyncInv'
    BY <2>2 DEF SyncInv, Here, Top, Middle, Offered, Idle, client
  <2> QED BY <2>1, <2>2, StepCases, StreamStep, SendSync, ReadSync
<1>3. IInv /\ SyncInv => InStep
  <2> SUFFICES ASSUME IInv, SyncInv, ~torn, ~unfit
               PROVE  /\ connected
                      /\ wire = << >> /\ (\A s \in Senders : Idle(s))
                         => mode = "top" /\ line = << >>
    BY DEF InStep
  <2>1. connected /\ ((\A s \in Senders : ~Middle(s)) => Run(Chars(wire), Here, Top))
    BY DEF SyncInv
  <2>2. ASSUME wire = << >>, \A s \in Senders : Idle(s)
        PROVE  mode = "top" /\ line = << >>
    <3>1. \A s \in Senders : ~Middle(s)
      <4>1. \A s \in Senders : total[s] = 0
        BY <2>2 DEF IInv, TypeOK, Idle
      <4> QED BY <4>1 DEF Middle
    <3>2. Chars(wire) = << >>
      BY <2>2 DEF Chars
    <3>3. Here = Top
      BY <2>1, <3>1, <3>2, RunNothing
    <3>4. mode = "top" /\ Chars(line) = << >>
      BY <3>3 DEF Here, Top, State
    <3>5. Len(line) = 0
      <4>1. line \in Seq(Byte)
        BY DEF IInv, TypeOK
      <4>2. Len(Chars(line)) = Len(line) /\ Len(<< >>) = 0
        BY <4>1, CharsFacts
      <4> QED BY <3>4, <4>2
    <3>6. line = << >>
      <4>1. line \in Seq(Byte)
        BY DEF IInv, TypeOK
      <4> QED BY <3>5, <4>1, EmptySeq
    <3> QED BY <3>4, <3>6
  <2> QED BY <2>1, <2>2
<1> QED BY <1>1, <1>2, <1>3, PTL DEF Spec

=============================================================================
