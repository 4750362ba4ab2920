---------------------------- MODULE ClientProofs ----------------------------
(***************************************************************************)
(* Proofs about Client, for every set of nicknames and every bound.        *)
(***************************************************************************)
EXTENDS Client, Integers, SequenceTheorems, TLAPS

(***************************************************************************)
(* How a stream of messages changes, and what that does to what is read in *)
(* it.  The stream s has N messages.                                       *)
(***************************************************************************)

(* What a block of messages brings.                                        *)
Has(b, kinds) == \E l \in DOMAIN b : b[l].kind \in kinds
Lacks(b, kinds) == \A l \in DOMAIN b : b[l].kind \notin kinds
Spares(b, name) == \A l \in DOMAIN b : b[l].kind = "USERS" => b[l].name # name

(* Where the i-th message of a stream and the l-th of a block are when the *)
(* block has come before the k-th message.                                 *)
Up(k, b, i) == IF i < k THEN i ELSE i + Len(b)
At(k, l) == k + l - 1

(* r is s with the block b before its k-th message. *)
Inserted(s, r, k, b) ==
    /\ DOMAIN s \subseteq Nat /\ DOMAIN r \subseteq Nat
    /\ \A i \in DOMAIN s : /\ Up(k, b, i) \in DOMAIN r /\ r[Up(k, b, i)] = s[i]
                           /\ 0 < i /\ 0 < Up(k, b, i)
    /\ \A l \in DOMAIN b : At(k, l) \in DOMAIN r /\ r[At(k, l)] = b[l]
    /\ \A i \in DOMAIN s, l \in DOMAIN b :
        At(k, l) # Up(k, b, i) /\ (Up(k, b, i) < At(k, l) <=> i < k)
    /\ \A i, j \in DOMAIN s : i <= j <=> Up(k, b, i) <= Up(k, b, j)
    /\ \A j \in DOMAIN r : \/ \E l \in DOMAIN b : j = At(k, l)
                           \/ \E i \in DOMAIN s : j = Up(k, b, i)
    /\ \A l \in DOMAIN b : 1 \in DOMAIN b /\ At(k, 1) <= At(k, l)

(* The messages of s from the k-th on are none of some kinds. *)
LacksFrom(s, k, kinds) == \A i \in DOMAIN s : s[i].kind \in kinds => i < k

LEMMA Insertion ==
    ASSUME NEW s, NEW r, NEW b, NEW N \in Nat, NEW n \in Nat, NEW k \in 1..(N + 1),
           DOMAIN s = 1..N, DOMAIN b = 1..n, Len(b) = n, DOMAIN r = 1..(N + n),
           \A i \in 1..N : r[Up(k, b, i)] = s[i],
           \A l \in 1..n : r[At(k, l)] = b[l]
    PROVE  Inserted(s, r, k, b)
<1>1. ASSUME NEW j \in 1..(N + n), \A l \in 1..n : j # At(k, l)
      PROVE  \E i \in 1..N : j = Up(k, b, i)
  <2> DEFINE i == IF j < k THEN j ELSE j - n
  <2>1. CASE j < k
    BY <2>1 DEF Up
  <2>2. CASE ~(j < k)
    <3>1. j - (k - 1) \in 1..n => j = At(k, j - (k - 1))
      BY DEF At
    <3>2. j - (k - 1) \notin 1..n
      BY <1>1, <3>1
    <3>3. i \in 1..N /\ j = Up(k, b, i)
      BY <2>2, <3>2 DEF Up
    <3> QED BY <3>3
  <2> QED BY <2>1, <2>2
<1>2. \A i \in 1..N : Up(k, b, i) \in 1..(N + n) /\ 0 < i /\ 0 < Up(k, b, i)
  BY DEF Up
<1>3. \A l \in 1..n : At(k, l) \in 1..(N + n) /\ At(k, 1) <= At(k, l) /\ 1 \in 1..n
  BY DEF At
<1>4. /\ \A i, j \in 1..N : i <= j <=> Up(k, b, i) <= Up(k, b, j)
      /\ \A i \in 1..N, l \in 1..n :
            At(k, l) # Up(k, b, i) /\ (Up(k, b, i) < At(k, l) <=> i < k)
  BY DEF Up, At
<1>5. 1..N \subseteq Nat /\ 1..(N + n) \subseteq Nat
  OBVIOUS
<1> QED BY <1>1, <1>2, <1>3, <1>4, <1>5 DEF Inserted

(* The first answer stays so unless another comes before it. *)
LEMMA InsertAnswers ==
    ASSUME NEW s, NEW r, NEW k, NEW b, Inserted(s, r, k, b)
    PROVE  /\ NoAnswer(s) /\ Lacks(b, Answers) => NoAnswer(r)
           /\ NoAnswer(s) /\ 1 \in DOMAIN b /\ b[1].kind \in Answers
                => FirstAnswer(r, At(k, 1))
           /\ \A i \in DOMAIN s :
                FirstAnswer(s, i) /\ (i < k \/ Lacks(b, Answers))
                    => FirstAnswer(r, Up(k, b, i))
<1>1. NoAnswer(s) /\ Lacks(b, Answers) => NoAnswer(r)
  BY DEF Inserted, NoAnswer, Lacks
<1>2. ASSUME NoAnswer(s), 1 \in DOMAIN b, b[1].kind \in Answers
      PROVE  FirstAnswer(r, At(k, 1))
  <2>1. \A j \in DOMAIN r : r[j].kind \in Answers => \E l \in DOMAIN b : j = At(k, l)
    BY <1>2 DEF Inserted, NoAnswer
  <2>2. At(k, 1) \in DOMAIN r /\ r[At(k, 1)] = b[1]
    BY <1>2 DEF Inserted
  <2> QED BY <1>2, <2>1, <2>2 DEF Inserted, FirstAnswer
<1>3. ASSUME NEW i \in DOMAIN s, FirstAnswer(s, i), i < k \/ Lacks(b, Answers)
      PROVE  FirstAnswer(r, Up(k, b, i))
  <2>1. \A l \in DOMAIN b : b[l].kind \in Answers => Up(k, b, i) <= At(k, l)
    BY <1>3 DEF Inserted, Lacks
  <2>2. \A j \in DOMAIN s : s[j].kind \in Answers => Up(k, b, i) <= Up(k, b, j)
    BY <1>3 DEF Inserted, FirstAnswer
  <2> QED BY <1>3, <2>1, <2>2 DEF Inserted, FirstAnswer
<1> QED BY <1>1, <1>2, <1>3

(* Lists that name another owner do no harm. *)
LEMMA InsertLists ==
    ASSUME NEW s, NEW r, NEW k, NEW b, NEW name, Inserted(s, r, k, b), Spares(b, name)
    PROVE  /\ NotNamed(s, 0, name) => NotNamed(r, 0, name)
           /\ ListAfter(s, 0) => ListAfter(r, 0)
           /\ \A i \in DOMAIN s :
                /\ NotNamed(s, i, name) => NotNamed(r, Up(k, b, i), name)
                /\ ListAfter(s, i) => ListAfter(r, Up(k, b, i))
<1>1. NotNamed(s, 0, name) => NotNamed(r, 0, name)
  BY DEF Inserted, NotNamed, Spares
<1>2. ListAfter(s, 0) => ListAfter(r, 0)
  BY DEF Inserted, ListAfter
<1>3. ASSUME NEW i \in DOMAIN s
      PROVE  /\ NotNamed(s, i, name) => NotNamed(r, Up(k, b, i), name)
             /\ ListAfter(s, i) => ListAfter(r, Up(k, b, i))
  <2>1. \A j \in DOMAIN s : i < j <=> Up(k, b, i) < Up(k, b, j)
    BY DEF Inserted
  <2> QED BY <2>1 DEF Inserted, NotNamed, ListAfter, Spares
<1> QED BY <1>1, <1>2, <1>3

(* What is shown in the end: only a change of phase, or an exit found,     *)
(* makes a difference.                                                     *)
LEMMA InsertShows ==
    ASSUME NEW s, NEW r, NEW k, NEW b, Inserted(s, r, k, b), NEW p, NEW x \in BOOLEAN
    PROVE  /\ Lacks(b, Changes) => (Plays(r, p) <=> Plays(s, p))
           /\ Lacks(b, Changes) /\ Lacks(b, {"OK exit found"}) => (Out(r, x) <=> Out(s, x))
           /\ Has(b, Changes) /\ Lacks(b, {"STARTED"}) /\ LacksFrom(s, k, {"STARTED"})
                => ~Plays(r, p)
           /\ /\ Has(b, Changes) /\ Lacks(b, {"OK exit found"})
              /\ LacksFrom(s, k, {"OK exit found"})
              => ~Out(r, x)
           /\ Has(b, {"OK exit found"}) /\ Lacks(b, Changes) /\ LacksFrom(s, k, Changes)
                => Out(r, x)
<1>1. Lacks(b, Changes) => (NoChange(r) <=> NoChange(s))
  BY DEF Inserted, NoChange, Lacks
<1>2. ASSUME NEW kind, Lacks(b, Changes), Lacks(b, {kind})
      PROVE  LastIs(r, kind) <=> LastIs(s, kind)
  <2>1. ASSUME NEW i \in DOMAIN s
        PROVE  (\A j \in DOMAIN s : s[j].kind \in Changes => j <= i)
                 <=> \A j \in DOMAIN r : r[j].kind \in Changes => j <= Up(k, b, i)
    BY <1>2 DEF Inserted, Lacks
  <2> QED BY <1>2, <2>1 DEF Inserted, LastIs, Lacks
<1>3. Has(b, Changes) => ~NoChange(r)
  BY DEF Inserted, NoChange, Has
<1>4. ASSUME NEW kind, Has(b, Changes), Lacks(b, {kind}), LacksFrom(s, k, {kind})
      PROVE  ~LastIs(r, kind)
  <2> SUFFICES ASSUME NEW j \in DOMAIN r, r[j].kind = kind,
                      \A i \in DOMAIN r : r[i].kind \in Changes => i <= j
               PROVE  FALSE
    BY DEF LastIs
  <2>1. PICK l \in DOMAIN b : b[l].kind \in Changes
    BY <1>4 DEF Has
  <2>2. PICK i \in DOMAIN s : j = Up(k, b, i) /\ s[i].kind = kind
    BY <1>4 DEF Inserted, Lacks
  <2>3. j < At(k, l)
    BY <1>4, <2>2 DEF Inserted, LacksFrom
  <2>4. At(k, l) <= j /\ j \in Nat /\ At(k, l) \in Nat
    BY <2>1 DEF Inserted
  <2> QED BY <2>3, <2>4
<1>5. ASSUME Has(b, {"OK exit found"}), Lacks(b, Changes), LacksFrom(s, k, Changes)
      PROVE  LastIs(r, "OK exit found")
  <2>1. PICK l \in DOMAIN b : b[l].kind = "OK exit found"
    BY <1>5 DEF Has
  <2>2. At(k, l) \in DOMAIN r /\ r[At(k, l)] = b[l] /\ DOMAIN r \subseteq Nat
    BY DEF Inserted
  <2>3. \A i \in DOMAIN r : r[i].kind \in Changes => i < At(k, l)
    BY <1>5 DEF Inserted, LacksFrom, Lacks
  <2>4. \A i \in DOMAIN r : r[i].kind \in Changes => i <= At(k, l)
    BY <2>2, <2>3
  <2> QED BY <2>1, <2>2, <2>4 DEF LastIs
<1>6. Lacks(b, Changes) => (Plays(r, p) <=> Plays(s, p))
  <2> SUFFICES ASSUME Lacks(b, Changes) PROVE Plays(r, p) <=> Plays(s, p)
    OBVIOUS
  <2>1. Lacks(b, {"STARTED"})
    BY DEF Lacks, Changes
  <2> QED BY <1>1, <1>2, <2>1 DEF Plays
<1>7. Lacks(b, Changes) /\ Lacks(b, {"OK exit found"}) => (Out(r, x) <=> Out(s, x))
  BY <1>1, <1>2 DEF Out
<1> QED BY <1>3, <1>4, <1>5, <1>6, <1>7 DEF Plays, Out

(* r is s without its first message. *)
Taken(s, r) ==
    /\ DOMAIN s \subseteq Nat /\ DOMAIN r \subseteq Nat /\ 1 \in DOMAIN s
    /\ \A j \in DOMAIN r : j + 1 \in DOMAIN s /\ r[j] = s[j + 1] /\ 0 < j
    /\ \A i \in DOMAIN s :
        0 < i /\ (i = 1 \/ (i - 1 \in DOMAIN r /\ r[i - 1] = s[i]))

LEMMA TakenAnswers ==
    ASSUME NEW s, NEW r, Taken(s, r)
    PROVE  /\ NoAnswer(s) => NoAnswer(r) /\ s[1].kind \notin Answers
           /\ \A i \in DOMAIN s : FirstAnswer(s, i) =>
                IF s[1].kind \in Answers THEN i = 1
                ELSE i # 1 /\ i - 1 \in DOMAIN r /\ r[i - 1] = s[i]
                     /\ FirstAnswer(r, i - 1)
<1>1. NoAnswer(s) => NoAnswer(r) /\ s[1].kind \notin Answers
  BY DEF Taken, NoAnswer
<1>2. ASSUME NEW i \in DOMAIN s, FirstAnswer(s, i), s[1].kind \in Answers
      PROVE  i = 1
  BY <1>2 DEF Taken, FirstAnswer
<1>3. ASSUME NEW i \in DOMAIN s, FirstAnswer(s, i), s[1].kind \notin Answers
      PROVE  i # 1 /\ i - 1 \in DOMAIN r /\ r[i - 1] = s[i] /\ FirstAnswer(r, i - 1)
  <2>1. i # 1 /\ i - 1 \in DOMAIN r /\ r[i - 1] = s[i]
    BY <1>3 DEF Taken, FirstAnswer
  <2>2. \A j \in DOMAIN r : r[j].kind \in Answers => i <= j + 1
    BY <1>3 DEF Taken, FirstAnswer
  <2>3. \A j \in DOMAIN r : r[j].kind \in Answers => i - 1 <= j
    BY <2>2 DEF Taken
  <2> QED BY <1>3, <2>1, <2>3 DEF FirstAnswer
<1> QED BY <1>1, <1>2, <1>3

LEMMA TakenLists ==
    ASSUME NEW s, NEW r, NEW n, Taken(s, r)
    PROVE  /\ NotNamed(s, 0, n) => NotNamed(r, 0, n)
           /\ NotNamed(s, 0, n) /\ s[1].kind = "USERS" => s[1].name # n
           /\ ListAfter(s, 0) /\ s[1].kind # "USERS" => ListAfter(r, 0)
           /\ \A i \in DOMAIN s :
                /\ NotNamed(s, i, n) => NotNamed(r, i - 1, n)
                /\ ListAfter(s, i) => ListAfter(r, i - 1)
<1>1. /\ NotNamed(s, 0, n) => NotNamed(r, 0, n)
      /\ NotNamed(s, 0, n) /\ s[1].kind = "USERS" => s[1].name # n
  BY DEF Taken, NotNamed
<1>2. ListAfter(s, 0) /\ s[1].kind # "USERS" => ListAfter(r, 0)
  BY DEF Taken, ListAfter
<1>3. ASSUME NEW i \in DOMAIN s
      PROVE  /\ NotNamed(s, i, n) => NotNamed(r, i - 1, n)
             /\ ListAfter(s, i) => ListAfter(r, i - 1)
  <2>1. \A j \in DOMAIN r : i - 1 < j <=> i < j + 1
    BY DEF Taken
  <2>2. \A j \in DOMAIN s : i < j => i - 1 < j - 1 /\ j # 1
    BY DEF Taken
  <2>3. NotNamed(s, i, n) => NotNamed(r, i - 1, n)
    BY <2>1 DEF Taken, NotNamed
  <2>4. ListAfter(s, i) => ListAfter(r, i - 1)
    BY <2>2 DEF Taken, ListAfter
  <2> QED BY <2>3, <2>4
<1> QED BY <1>1, <1>2, <1>3

(* A client that takes a change of phase shows the new one. *)
LEMMA TakenShows ==
    ASSUME NEW s, NEW r, NEW p, NEW q, NEW x \in BOOLEAN, Taken(s, r)
    PROVE  /\ s[1].kind \notin Changes => (Plays(r, p) <=> Plays(s, p))
           /\ s[1].kind \in Changes /\ (q = "PLAYING" <=> s[1].kind = "STARTED")
                => (Plays(r, q) <=> Plays(s, p))
           /\ s[1].kind \notin Changes \cup {"OK exit found"}
                => (Out(r, x) <=> Out(s, x))
           /\ s[1].kind = "OK exit found" => (Out(r, TRUE) <=> Out(s, x))
           /\ s[1].kind \in Changes => (Out(r, FALSE) <=> Out(s, x))
<1>1. s[1].kind \notin Changes => (NoChange(r) <=> NoChange(s))
  BY DEF Taken, NoChange
<1>2. s[1].kind \in Changes => ~NoChange(s)
  BY DEF Taken, NoChange
<1>3. ASSUME NEW kind
      PROVE  /\ LastIs(r, kind) => LastIs(s, kind)
             /\ LastIs(s, kind) => LastIs(r, kind) \/ (NoChange(r) /\ s[1].kind = kind)
             /\ NoChange(r) /\ s[1].kind = kind => LastIs(s, kind)
  <2>1. ASSUME NEW i \in DOMAIN r, r[i].kind = kind,
               \A j \in DOMAIN r : r[j].kind \in Changes => j <= i
        PROVE  LastIs(s, kind)
    <3>1. i + 1 \in DOMAIN s /\ s[i + 1].kind = kind
      BY <2>1 DEF Taken
    <3>2. \A j \in DOMAIN s : s[j].kind \in Changes => j = 1 \/ j - 1 <= i
      BY <2>1 DEF Taken
    <3>3. \A j \in DOMAIN s : s[j].kind \in Changes => j <= i + 1
      BY <3>2 DEF Taken
    <3> QED BY <3>1, <3>3 DEF LastIs
  <2>2. ASSUME NEW i \in DOMAIN s, s[i].kind = kind,
               \A j \in DOMAIN s : s[j].kind \in Changes => j <= i
        PROVE  LastIs(r, kind) \/ (NoChange(r) /\ s[1].kind = kind)
    <3>1. CASE i = 1
      <4>1. \A j \in DOMAIN r : r[j].kind \in Changes => j + 1 <= 1
        BY <2>2, <3>1 DEF Taken
      <4>2. NoChange(r)
        BY <4>1 DEF Taken, NoChange
      <4> QED BY <2>2, <3>1, <4>2
    <3>2. CASE i # 1
      <4>1. i - 1 \in DOMAIN r /\ r[i - 1].kind = kind
        BY <2>2, <3>2 DEF Taken
      <4>2. \A j \in DOMAIN r : r[j].kind \in Changes => j + 1 <= i
        BY <2>2 DEF Taken
      <4>3. \A j \in DOMAIN r : r[j].kind \in Changes => j <= i - 1
        BY <4>2 DEF Taken
      <4> QED BY <4>1, <4>3 DEF LastIs
    <3> QED BY <3>1, <3>2
  <2>3. NoChange(r) /\ s[1].kind = kind => LastIs(s, kind)
    <3> SUFFICES ASSUME NoChange(r), s[1].kind = kind PROVE LastIs(s, kind)
      OBVIOUS
    <3>1. \A j \in DOMAIN s : s[j].kind \in Changes => j <= 1
      BY DEF Taken, NoChange
    <3> QED BY <3>1 DEF Taken, LastIs
  <2> QED BY <2>1, <2>2, <2>3 DEF LastIs
<1>4. /\ s[1].kind \notin Changes => (Plays(r, p) <=> Plays(s, p))
      /\ s[1].kind \in Changes /\ (q = "PLAYING" <=> s[1].kind = "STARTED")
           => (Plays(r, q) <=> Plays(s, p))
  BY <1>1, <1>2, <1>3 DEF Plays, Changes
<1>5. /\ s[1].kind \notin Changes \cup {"OK exit found"}
           => (Out(r, x) <=> Out(s, x))
      /\ s[1].kind = "OK exit found" => (Out(r, TRUE) <=> Out(s, x))
      /\ s[1].kind \in Changes => (Out(r, FALSE) <=> Out(s, x))
  <2> DEFINE exit == "OK exit found"
  <2>1. /\ LastIs(r, exit) => LastIs(s, exit)
        /\ LastIs(s, exit) => LastIs(r, exit) \/ (NoChange(r) /\ s[1].kind = exit)
        /\ NoChange(r) /\ s[1].kind = exit => LastIs(s, exit)
    BY <1>3
  <2>2. s[1].kind = exit => s[1].kind \notin Changes
    BY DEF Changes
  <2> QED BY <1>1, <1>2, <2>1, <2>2 DEF Out
<1> QED BY <1>4, <1>5

(* Where there is a change of phase to come, the exit shown now does not   *)
(* matter.                                                                 *)
LEMMA OutUnlessPlaying ==
    ASSUME NEW s, NEW p, p # "PLAYING", Plays(s, p),
           NEW x \in BOOLEAN, NEW y \in BOOLEAN
    PROVE  Out(s, x) <=> Out(s, y)
<1>1. ~NoChange(s)
  BY DEF Plays, LastIs, NoChange, Changes
<1> QED BY <1>1 DEF Out

(* r is s with other names in some of its lists. *)
Retold(s, r) == DOMAIN r = DOMAIN s /\ \A j \in DOMAIN s : r[j].kind = s[j].kind

LEMMA RetoldFacts ==
    ASSUME NEW s, NEW r, Retold(s, r)
    PROVE  /\ NoAnswer(r) <=> NoAnswer(s)
           /\ \A i : FirstAnswer(r, i) <=> FirstAnswer(s, i)
           /\ \A i : ListAfter(r, i) <=> ListAfter(s, i)
           /\ \A p : Plays(r, p) <=> Plays(s, p)
           /\ \A x \in BOOLEAN : Out(r, x) <=> Out(s, x)
           /\ \A i, n : /\ \A j \in DOMAIN s : r[j] = s[j] \/ r[j].name # n
                        /\ NotNamed(s, i, n)
                        => NotNamed(r, i, n)
  BY DEF Retold, NoAnswer, FirstAnswer, ListAfter, Plays, Out, LastIs, NoChange,
         NotNamed

(* A stream is what has been sent and what the handler is about to send.   *)
LEMMA Joined ==
    ASSUME NEW M, NEW a \in Seq(M), NEW b \in Seq(M)
    PROVE  /\ a \o b \in Seq(M) /\ DOMAIN (a \o b) = 1..(Len(a) + Len(b))
           /\ Len(a) \in Nat /\ DOMAIN a = 1..Len(a)
           /\ Len(b) \in Nat /\ DOMAIN b = 1..Len(b)
           /\ \A i \in 1..Len(a) : (a \o b)[i] = a[i]
           /\ \A i \in 1..Len(b) : (a \o b)[Len(a) + i] = b[i]
<1>1. Len(a) \in Nat /\ DOMAIN a = 1..Len(a) /\ Len(b) \in Nat /\ DOMAIN b = 1..Len(b)
  BY LenProperties
<1>2. /\ a \o b \in Seq(M) /\ DOMAIN (a \o b) = 1..(Len(a) + Len(b))
      /\ \A i \in 1..(Len(a) + Len(b)) :
            (a \o b)[i] = IF i <= Len(a) THEN a[i] ELSE b[i - Len(a)]
  BY ConcatProperties, LenProperties
<1>3. \A i \in 1..Len(a) : (a \o b)[i] = a[i]
  BY <1>1, <1>2
<1>4. ASSUME NEW i \in 1..Len(b)
      PROVE  (a \o b)[Len(a) + i] = b[i]
  <2>1. /\ Len(a) + i \in 1..(Len(a) + Len(b))
        /\ ~(Len(a) + i <= Len(a)) /\ (Len(a) + i) - Len(a) = i
    BY <1>1
  <2> QED BY <1>2, <2>1
<1> QED BY <1>1, <1>2, <1>3, <1>4

(* Another thread sends a message: before what the handler is to send. *)
LEMMA Says ==
    ASSUME NEW M, NEW a \in Seq(M), NEW b \in Seq(M), NEW m \in M,
           NEW s, NEW r, s = a \o b, r = Append(a, m) \o b
    PROVE  /\ Inserted(s, r, Len(a) + 1, <<m>>)
           /\ \A kinds : Lacks(b, kinds) => LacksFrom(s, Len(a) + 1, kinds)
<1> DEFINE c == Append(a, m)
           k == Len(a) + 1
<1>0. r = c \o b
  OBVIOUS
<1>1. /\ c \in Seq(M) /\ Len(c) = Len(a) + 1 /\ c[Len(a) + 1] = m
      /\ \A i \in 1..Len(a) : c[i] = a[i]
  BY AppendProperties
<1> HIDE DEF c
<1>2. /\ DOMAIN s = 1..(Len(a) + Len(b)) /\ Len(a) \in Nat
      /\ Len(b) \in Nat /\ DOMAIN b = 1..Len(b)
      /\ \A i \in 1..Len(a) : s[i] = a[i]
      /\ \A i \in 1..Len(b) : s[Len(a) + i] = b[i]
  BY Joined
<1>3. /\ DOMAIN r = 1..(Len(c) + Len(b))
      /\ \A i \in 1..Len(c) : r[i] = c[i]
      /\ \A i \in 1..Len(b) : r[Len(c) + i] = b[i]
  <2>1. c \in Seq(M)
    BY <1>1
  <2> QED BY <1>0, <2>1, Joined
<1>4. \A i \in 1..(Len(a) + Len(b)) : i \in 1..Len(a) \/ \E j \in 1..Len(b) : i = Len(a) + j
  <2> SUFFICES ASSUME NEW i \in 1..(Len(a) + Len(b)), i \notin 1..Len(a)
               PROVE  \E j \in 1..Len(b) : i = Len(a) + j
    OBVIOUS
  <2>1. i - Len(a) \in 1..Len(b) /\ i = Len(a) + (i - Len(a))
    BY <1>2
  <2> QED BY <2>1
<1>5. DOMAIN <<m>> = 1..1 /\ Len(<<m>>) = 1 /\ <<m>>[1] = m
  OBVIOUS
<1>6. ASSUME NEW i \in 1..(Len(a) + Len(b))
      PROVE  r[Up(k, <<m>>, i)] = s[i]
  <2>1. CASE i \in 1..Len(a)
    BY <1>1, <1>2, <1>3, <2>1 DEF Up
  <2>2. CASE \E j \in 1..Len(b) : i = Len(a) + j
    <3>1. PICK j \in 1..Len(b) : i = Len(a) + j
      BY <2>2
    <3>2. Up(k, <<m>>, i) = (Len(a) + 1) + j
      BY <1>2, <1>5, <3>1 DEF Up
    <3>3. r[Len(c) + j] = b[j] /\ s[Len(a) + j] = b[j]
      BY <1>2, <1>3
    <3> QED BY <1>1, <3>1, <3>2, <3>3
  <2> QED BY <1>4, <2>1, <2>2
<1>7. Inserted(s, r, k, <<m>>)
  <2> DEFINE N == Len(a) + Len(b)
  <2>1. /\ N \in Nat /\ k \in 1..(N + 1) /\ 1 \in Nat
        /\ DOMAIN s = 1..N /\ DOMAIN r = 1..(N + 1)
    BY <1>1, <1>2, <1>3
  <2>2. \A l \in 1..1 : r[At(k, l)] = <<m>>[l]
    BY <1>1, <1>2, <1>3, <1>5 DEF At
  <2>3. \A i \in 1..N : r[Up(k, <<m>>, i)] = s[i]
    BY <1>6
  <2> HIDE DEF N, k
  <2> QED BY <1>5, <2>1, <2>2, <2>3, Insertion
<1>8. ASSUME NEW kinds, Lacks(b, kinds)
      PROVE  LacksFrom(s, k, kinds)
  <2>1. \A j \in 1..Len(b) : s[Len(a) + j].kind \notin kinds
    BY <1>2, <1>8 DEF Lacks
  <2>2. \A i \in 1..(Len(a) + Len(b)) : s[i].kind \in kinds => i \in 1..Len(a)
    BY <1>4, <2>1
  <2> QED BY <1>2, <2>2 DEF LacksFrom
<1> QED BY <1>7, <1>8

(* The handler, with nothing more to send, answers a command. *)
LEMMA AnswersIt ==
    ASSUME NEW M, NEW a \in Seq(M), NEW b \in Seq(M),
           NEW s, NEW r, s = a \o <<>>, r = a \o b
    PROVE  /\ Inserted(s, r, Len(a) + 1, b)
           /\ \A i \in DOMAIN s : i < Len(a) + 1
<1> DEFINE N == Len(a)
<1>1. s = a
  BY ConcatEmptySeq
<1>2. /\ DOMAIN r = 1..(N + Len(b))
      /\ N \in Nat /\ DOMAIN a = 1..N /\ Len(b) \in Nat /\ DOMAIN b = 1..Len(b)
      /\ \A i \in 1..N : r[i] = a[i]
      /\ \A i \in 1..Len(b) : r[N + i] = b[i]
  BY Joined
<1> HIDE DEF N
<1>3. Inserted(s, r, N + 1, b)
  <2>1. N + 1 \in 1..(N + 1) /\ DOMAIN s = 1..N
    BY <1>1, <1>2
  <2>2. \A i \in 1..N : r[Up(N + 1, b, i)] = s[i]
    BY <1>1, <1>2 DEF Up
  <2>3. \A l \in 1..Len(b) : r[At(N + 1, l)] = b[l]
    <3>1. \A l \in 1..Len(b) : At(N + 1, l) = N + l
      BY <1>2 DEF At
    <3> QED BY <1>2, <3>1
  <2> QED BY <1>2, <2>1, <2>2, <2>3, Insertion
<1>4. \A i \in DOMAIN s : i < N + 1
  BY <1>1, <1>2
<1> QED BY <1>3, <1>4 DEF N

(* The client takes a message. *)
LEMMA Takes ==
    ASSUME NEW M, NEW a \in Seq(M), NEW b \in Seq(M), a # <<>>
    PROVE  Taken(a \o b, Tail(a) \o b) /\ (a \o b)[1] = Head(a)
<1> DEFINE s == a \o b
           c == Tail(a)
           r == c \o b
<1>1. /\ c \in Seq(M) /\ Len(c) = Len(a) - 1 /\ Len(a) \in Nat \ {0} /\ Head(a) = a[1]
      /\ \A i \in 1..(Len(a) - 1) : c[i] = a[i + 1]
  BY HeadTailProperties, EmptySeq, LenProperties
<1> HIDE DEF c
<1>2. /\ DOMAIN s = 1..(Len(a) + Len(b))
      /\ Len(b) \in Nat /\ DOMAIN b = 1..Len(b)
      /\ \A i \in 1..Len(a) : s[i] = a[i]
      /\ \A i \in 1..Len(b) : s[Len(a) + i] = b[i]
  BY Joined
<1>3. /\ DOMAIN r = 1..(Len(c) + Len(b))
      /\ \A i \in 1..Len(c) : r[i] = c[i]
      /\ \A i \in 1..Len(b) : r[Len(c) + i] = b[i]
  <2>1. c \in Seq(M)
    BY <1>1
  <2> QED BY <2>1, Joined
<1> HIDE DEF s, r
<1>4. ASSUME NEW j \in 1..(Len(c) + Len(b))
      PROVE  j + 1 \in DOMAIN s /\ r[j] = s[j + 1] /\ 0 < j
  <2>1. CASE j \in 1..Len(c)
    BY <1>1, <1>2, <1>3, <2>1
  <2>2. CASE j \notin 1..Len(c)
    <3> DEFINE l == j - Len(c)
    <3>1. l \in 1..Len(b) /\ j = Len(c) + l /\ j + 1 = Len(a) + l
      BY <1>1, <1>2, <2>2
    <3> HIDE DEF l
    <3>2. r[j] = b[l] /\ s[j + 1] = b[l]
      BY <1>2, <1>3, <3>1
    <3>3. j + 1 \in 1..(Len(a) + Len(b))
      BY <1>1, <1>2
    <3> QED BY <1>2, <3>2, <3>3
  <2> QED BY <2>1, <2>2
<1>5. \A i \in DOMAIN s : 0 < i /\ (i = 1 \/ (i - 1 \in DOMAIN r /\ r[i - 1] = s[i]))
  <2> SUFFICES ASSUME NEW i \in DOMAIN s, i # 1
               PROVE  i - 1 \in DOMAIN r /\ r[i - 1] = s[i]
    BY <1>2
  <2>1. i - 1 \in 1..(Len(c) + Len(b)) /\ (i - 1) + 1 = i
    BY <1>1, <1>2
  <2> QED BY <1>3, <1>4, <2>1
<1>6. 1 \in DOMAIN s /\ s[1] = Head(a)
  BY <1>1, <1>2
<1>7. DOMAIN s \subseteq Nat /\ DOMAIN r \subseteq Nat
  BY <1>1, <1>2, <1>3
<1>8. Taken(s, r)
  BY <1>3, <1>4, <1>5, <1>6, <1>7 DEF Taken
<1> QED BY <1>6, <1>8 DEF s, r, c

(* The handler sends the next piece of its answer. *)
LEMMA Sends ==
    ASSUME NEW M, NEW a \in Seq(M), NEW b \in Seq(M), b # <<>>, NEW m \in M,
           NEW s, NEW r, s = a \o b, r = Append(a, m) \o Tail(b)
    PROVE  /\ DOMAIN r = DOMAIN s
           /\ Len(a) + 1 \in DOMAIN s
           /\ s[Len(a) + 1] = Head(b) /\ r[Len(a) + 1] = m
           /\ \A i \in DOMAIN s : i # Len(a) + 1 => r[i] = s[i]
<1> DEFINE c == Append(a, m)
           d == Tail(b)
<1>0. r = c \o d
  OBVIOUS
<1>1. /\ c \in Seq(M) /\ Len(c) = Len(a) + 1 /\ c[Len(a) + 1] = m
      /\ \A i \in 1..Len(a) : c[i] = a[i]
  BY AppendProperties
<1>2. /\ d \in Seq(M) /\ Len(d) = Len(b) - 1 /\ Len(b) \in Nat \ {0} /\ Head(b) = b[1]
      /\ \A i \in 1..(Len(b) - 1) : d[i] = b[i + 1]
  BY HeadTailProperties, EmptySeq, LenProperties
<1> HIDE DEF c, d
<1>3. /\ DOMAIN s = 1..(Len(a) + Len(b)) /\ Len(a) \in Nat
      /\ \A i \in 1..Len(a) : s[i] = a[i]
      /\ \A i \in 1..Len(b) : s[Len(a) + i] = b[i]
  BY Joined
<1>4. /\ DOMAIN r = 1..(Len(c) + Len(d))
      /\ \A i \in 1..Len(c) : r[i] = c[i]
      /\ \A i \in 1..Len(d) : r[Len(c) + i] = d[i]
  <2>1. c \in Seq(M) /\ d \in Seq(M)
    BY <1>1, <1>2
  <2>2. /\ DOMAIN (c \o d) = 1..(Len(c) + Len(d))
        /\ \A i \in 1..Len(c) : (c \o d)[i] = c[i]
        /\ \A i \in 1..Len(d) : (c \o d)[Len(c) + i] = d[i]
    BY <2>1, Joined
  <2> QED BY <1>0, <2>2
<1>5. DOMAIN r = DOMAIN s /\ Len(a) + 1 \in DOMAIN s
  BY <1>1, <1>2, <1>3, <1>4
<1>6. s[Len(a) + 1] = Head(b) /\ r[Len(a) + 1] = m
  BY <1>1, <1>2, <1>3, <1>4
<1>7. ASSUME NEW i \in DOMAIN s, i # Len(a) + 1
      PROVE  r[i] = s[i]
  <2>1. CASE i \in 1..Len(a)
    BY <1>1, <1>3, <1>4, <2>1
  <2>2. CASE i \notin 1..Len(a)
    <3> DEFINE l == i - Len(c)
    <3>1. l \in 1..Len(d) /\ i = Len(c) + l /\ l + 1 \in 1..Len(b) /\ i = Len(a) + (l + 1)
      BY <1>1, <1>2, <1>3, <1>7, <2>2
    <3> HIDE DEF l
    <3>2. r[i] = d[l] /\ s[i] = b[l + 1]
      BY <1>3, <1>4, <3>1
    <3> QED BY <1>2, <3>1, <3>2
  <2> QED BY <2>1, <2>2
<1> QED BY <1>5, <1>6, <1>7

(***************************************************************************)
(* Types.                                                                  *)
(***************************************************************************)
LEMMA Vocabulary ==
    /\ Kinds = {"OK", "OK owner", "OK exit found", "ERR", "STARTED", "ENDED", "LOBBY"}
    /\ \A k : Say(k).kind = k /\ Say(k).name = None
    /\ \A k \in Kinds : Say(k) \in Messages
    /\ Say("USERS") \in Pieces /\ Messages \subseteq Pieces
    /\ \A n \in Names : [kind |-> "USERS", name |-> n] \in Messages
<1>1. Kinds = {"OK", "OK owner", "OK exit found", "ERR", "STARTED", "ENDED", "LOBBY"}
  BY DEF Kinds, Oks
<1>2. \A k : Say(k).kind = k /\ Say(k).name = None
  BY DEF Say
<1> QED BY <1>1, <1>2 DEF Messages, Pieces

(* What a command can be, and what is left when one has been received. *)
LEMMA Commands ==
    /\ \A w \in Typed : Command(w) \in Sent /\ Command(w).word = w
    /\ \A n \in Nicks : Login(n) \in Sent /\ Login(n).word = "LOGIN" /\ Login(n).nick = n
    /\ \A c \in Sent : \/ c.word \in Typed /\ c.word # "LOGIN"
                       \/ c.word = "LOGIN" /\ c.nick \in Nicks /\ c = Login(c.nick)
<1>1. \A w \in Typed : Command(w) \in Sent /\ Command(w).word = w
  BY DEF Sent, Command
<1>2. \A n \in Nicks : Login(n) \in Sent /\ Login(n).word = "LOGIN" /\ Login(n).nick = n
  BY DEF Sent, Login
<1>3. "LOGIN" \notin Typed
  BY DEF Typed
<1> QED BY <1>1, <1>2, <1>3 DEF Sent

LEMMA Received ==
    ASSUME TypeOK, NEW w, Receives(w)
    PROVE  /\ pc = "idle" /\ out # <<>> /\ out' \in Seq(Sent)
           /\ Head(out) \in Sent /\ Head(out).word = w
  BY HeadTailProperties DEF TypeOK, Receives

(* The answers there are. *)
LEMMA Replies ==
    /\ <<>> \in Seq(Pieces)
    /\ \A m \in Pieces : <<m>> \in Seq(Pieces)
    /\ \A m, l \in Pieces : <<m, l>> \in Seq(Pieces)
    /\ \A k \in {"OK", "OK owner", "OK exit found", "ERR", "STARTED", "ENDED", "LOBBY"} :
        Say(k) \in Pieces /\ Say(k) \in Messages
    /\ Say("USERS") \in Pieces
<1>1. \A m \in Pieces : <<m>> \in Seq(Pieces)
  OBVIOUS
<1>2. \A m, l \in Pieces : <<m, l>> \in Seq(Pieces)
  OBVIOUS
<1>3. <<>> \in Seq(Pieces)
  OBVIOUS
<1>4. \A k \in Kinds : Say(k) \in Pieces /\ Say(k) \in Messages
  BY Vocabulary
<1>5. Say("USERS") \in Pieces
  BY Vocabulary
<1>6. Kinds = {"OK", "OK owner", "OK exit found", "ERR", "STARTED", "ENDED", "LOBBY"}
  BY Vocabulary
<1> QED BY <1>1, <1>2, <1>3, <1>4, <1>5, <1>6

LEMMA UserListIsMessage ==
    TypeOK => UserList \in Messages
  BY Vocabulary DEF TypeOK, UserList, Names, Client_t

LEMMA TypeStep == ASSUME TypeOK, [Next]_vars PROVE TypeOK'
<1> USE DEF TypeOK, client_side, handler, session_vars
<1>1. ASSUME NEW cmd \in Sent, send_user_command(cmd) PROVE TypeOK'
  <2>1. hasty' \in BOOLEAN
    BY <1>1 DEF send_user_command
  <2>2. state' \in ClientState /\ out' \in Seq(Sent)
    BY <1>1, AppendProperties, Commands DEF send_user_command, ClientState
  <2> QED BY <1>1, <2>1, <2>2 DEF send_user_command
<1>2. ASSUME NEW word \in {"MOVE", "VIEW"}, handle_movement_input(word) PROVE TypeOK'
  BY <1>2, AppendProperties, Commands DEF handle_movement_input, Typed
<1>3. ASSUME Tab PROVE TypeOK'
  BY <1>3 DEF Tab, ClientState
<1>4. ASSUME Leave PROVE TypeOK'
  <2>1. \A S : <<>> \in Seq(S)
    OBVIOUS
  <2> QED BY <1>4, <2>1 DEF Leave
<1>5. ASSUME handle_server_message PROVE TypeOK'
  <2>1. in' \in Seq(Messages) /\ UNCHANGED <<connected, hasty, handler, session_vars>>
    BY <1>5, HeadTailProperties DEF handle_server_message
  <2>2. ASSUME HandleOK PROVE state' \in ClientState
    BY <2>2 DEF HandleOK, confirm_auth, ClientState
  <2>3. ASSUME HandleERR PROVE state' \in ClientState
    BY <2>3 DEF HandleERR, clear_pending_auth, ClientState
  <2>4. ASSUME HandleStarted \/ HandleEnded \/ HandleLobby PROVE state' \in ClientState
    BY <2>4 DEF HandleStarted, HandleEnded, HandleLobby, ClientState, Phases
  <2>5. ASSUME handle_users_message PROVE state' \in ClientState
    <3>1. OwnLine(Message.name) \in BOOLEAN
      BY DEF OwnLine
    <3> QED BY <2>5, <3>1 DEF handle_users_message, ClientState
  <2>6. out' \in Seq(Sent)
    <3>1. \/ out' = out
          \/ \E w \in {"RANK", "LIST"} : out' = Append(out, Command(w))
      BY <1>5
      DEF handle_server_message, HandleOK, HandleERR, HandleStarted, HandleEnded,
          HandleLobby, handle_users_message
    <3>2. Command("RANK") \in Sent /\ Command("LIST") \in Sent
      BY Commands DEF Typed
    <3>3. \A c \in Sent : Append(out, c) \in Seq(Sent)
      BY AppendProperties
    <3> QED BY <3>1, <3>2, <3>3
  <2>7. state' \in ClientState
    BY <1>5, <2>2, <2>3, <2>4, <2>5 DEF handle_server_message
  <2>8. mistaken' \in BOOLEAN
    BY <1>5
    DEF handle_server_message, HandleOK, HandleERR, HandleStarted, HandleEnded,
        HandleLobby, handle_users_message
  <2> QED BY <2>1, <2>6, <2>7, <2>8
<1>6. ASSUME SendNext PROVE TypeOK'
  <2> DEFINE m == IF Head(todo) = Say("USERS") THEN UserList ELSE Head(todo)
  <2>1. Head(todo) \in Pieces /\ Tail(todo) \in Seq(Pieces)
    BY <1>6, HeadTailProperties DEF SendNext
  <2>2. m \in Messages
    BY <2>1, UserListIsMessage DEF Pieces
  <2>3. Append(in, m) \in Seq(Messages)
    BY <2>2, AppendProperties
  <2> QED BY <1>6, <2>1, <2>3 DEF SendNext
<1>7. ASSUME todo = <<>>, handle_start PROVE TypeOK'
  <2>1. out' \in Seq(Sent)
    BY <1>7, Received DEF handle_start
  <2>2. in' \in Seq(Messages)
    <3>1. Append(in, Say("STARTED")) \in Seq(Messages)
      BY Replies, AppendProperties
    <3> QED BY <1>7, <3>1 DEF handle_start
  <2>3. todo' \in Seq(Pieces)
    BY <1>7, Replies DEF handle_start, Refuse, Answer
  <2>4. client' \in Client_t /\ client'.nickname = client.nickname
    BY <1>7 DEF handle_start, ForNextMatch, Client_t
  <2> QED BY <1>7, <2>1, <2>2, <2>3, <2>4 DEF handle_start, Refuse, Goto, Phases
<1>8. ASSUME Stay, todo = <<>>, Greet PROVE TypeOK'
  BY <1>8, Replies DEF Stay, Greet, Goto, Answer
<1>9. ASSUME Stay, todo = <<>>, handle_login PROVE TypeOK'
  <2>1. out' \in Seq(Sent) /\ Head(out) \in Sent /\ Head(out).word = "LOGIN"
    BY <1>9, Received DEF handle_login
  <2>2. Head(out).nick \in Nicks
    BY <2>1, Commands
  <2>3. todo' \in Seq(Pieces)
    BY <1>9, Replies DEF handle_login, Refuse, Answer
  <2>4. client' \in Client_t /\ owner # client'.nickname
    BY <1>9, <2>2 DEF handle_login, Client_t
  <2> QED BY <1>9, <2>1, <2>3, <2>4 DEF Stay, handle_login, Refuse, Goto
<1>10. ASSUME Stay, todo = <<>>, ReadyRead PROVE TypeOK'
  BY <1>10, Received, Replies DEF Stay, ReadyRead, Receives, Refuse, Goto, Answer
<1>11. ASSUME Stay, todo = <<>>, ReadySet PROVE TypeOK'
  BY <1>11, Replies DEF Stay, ReadySet, Goto, Answer, Client_t
<1>12. ASSUME Stay, todo = <<>>, ResetRead PROVE TypeOK'
  BY <1>12, Received, Replies DEF Stay, ResetRead, Receives, Refuse, Goto, Answer
<1>13. ASSUME Stay, todo = <<>>, ResetOwner PROVE TypeOK'
  <2>1. /\ session_state' \in Phases /\ unsaid' \in BOOLEAN
        /\ unsaid' => session_state' = "FINISHED"
    <3>1. CASE session_state' = "LOBBY" /\ unsaid' = FALSE
      BY <3>1 DEF Phases
    <3>2. CASE UNCHANGED <<session_state, unsaid>>
      BY <3>2
    <3> QED BY <1>13, <3>1, <3>2 DEF ResetOwner
  <2>2. todo' \in Seq(Pieces)
    BY <1>13, Replies DEF ResetOwner, Refuse, Answer
  <2> QED BY <1>13, <2>1, <2>2 DEF Stay, ResetOwner, Refuse, Goto
<1>14. ASSUME Stay, todo = <<>>, ResetClients PROVE TypeOK'
  BY <1>14, Replies DEF Stay, ResetClients, ForNextMatch, Goto, Answer, Client_t
<1>15. ASSUME Stay, todo = <<>>, MoveRead PROVE TypeOK'
  BY <1>15, Received, Replies DEF Stay, MoveRead, Receives, Refuse, Goto, Answer
<1>16. ASSUME Stay, todo = <<>>, Move PROVE TypeOK'
  <2>1. \A found \in {<<>>, <<Say("OK")>>} :
          found \in Seq(Pieces) /\ Append(found, Say("OK exit found")) \in Seq(Pieces)
    BY Replies, AppendProperties
  <2>2. todo' \in Seq(Pieces)
    BY <1>16, <2>1, Replies DEF Move, Refuse, Answer
  <2>3. client' \in Client_t /\ client'.nickname = client.nickname
    BY <1>16 DEF Move, Client_t
  <2> QED BY <1>16, <2>2, <2>3 DEF Stay, Move, Refuse, Goto
<1>17. ASSUME Stay, todo = <<>>, MoveDone PROVE TypeOK'
  BY <1>17, Replies DEF Stay, MoveDone, Goto, Answer, Phases
<1>18. ASSUME Stay, todo = <<>>, View PROVE TypeOK'
  BY <1>18, Received, Replies DEF Stay, View, Receives, Refuse, Goto, Answer
<1>19. ASSUME Stay, todo = <<>>, handle_list PROVE TypeOK'
  <2>1. UserList \in Pieces
    BY UserListIsMessage, Vocabulary
  <2>2. out' \in Seq(Sent) /\ todo' \in Seq(Pieces)
    BY <1>19, <2>1, Received, Replies DEF handle_list, Answer
  <2> QED BY <1>19, <2>2 DEF Stay, handle_list
<1>20. ASSUME Stay, todo = <<>>, handle_rank PROVE TypeOK'
  BY <1>20, Received, Replies DEF Stay, handle_rank, Receives
<1>21. ASSUME Elsewhere, BroadcastUsers PROVE TypeOK'
  BY <1>21, UserListIsMessage DEF Elsewhere, BroadcastUsers
<1>22. ASSUME Elsewhere, OwnerChanges PROVE TypeOK'
  BY <1>22 DEF Elsewhere, OwnerChanges
<1>23. ASSUME Elsewhere, OtherStart PROVE TypeOK'
  BY <1>23, Replies, AppendProperties DEF Elsewhere, OtherStart, ForNextMatch, Client_t, Phases
<1>24. ASSUME Elsewhere, End PROVE TypeOK'
  BY <1>24, BoundsAssumption DEF Elsewhere, End, Phases
<1>30. ASSUME Elsewhere, EndUntold PROVE TypeOK'
  BY <1>30 DEF Elsewhere, EndUntold, Phases
<1>25. ASSUME Elsewhere, TellEnd PROVE TypeOK'
  <2>1. in' \in Seq(Messages)
    BY <1>25, Replies, AppendProperties DEF TellEnd
  <2>2. untold' \in 0..MaxUntold
    BY <1>25, BoundsAssumption DEF TellEnd
  <2> QED BY <1>25, <2>1, <2>2 DEF Elsewhere, TellEnd
<1>26. ASSUME Elsewhere, OtherReset PROVE TypeOK'
  BY <1>26 DEF Elsewhere, OtherReset, Phases
<1>27. ASSUME Elsewhere, OtherResetClients PROVE TypeOK'
  BY <1>27 DEF Elsewhere, OtherResetClients, ForNextMatch, Client_t
<1>28. ASSUME Elsewhere, OtherResetBcast PROVE TypeOK'
  BY <1>28, Replies, AppendProperties DEF Elsewhere, OtherResetBcast
<1>29. CASE UNCHANGED vars
  BY <1>29 DEF vars
<1> QED
  BY <1>1, <1>2, <1>3, <1>4, <1>5, <1>6, <1>7, <1>8, <1>9, <1>10, <1>11, <1>12, <1>13,
     <1>14, <1>15, <1>16, <1>17, <1>18, <1>19, <1>20, <1>21, <1>22, <1>23, <1>24, <1>25,
     <1>26, <1>27, <1>28, <1>29, <1>30
  DEF Next, User, handle_client, Others

(***************************************************************************)
(* What the steps do to the stream of this client.                         *)
(***************************************************************************)
LEMMA InPieces == TypeOK => in \in Seq(Pieces) /\ todo \in Seq(Pieces)
  BY SeqMonotonic, Vocabulary DEF TypeOK

LEMMA SaysStream ==
    ASSUME TypeOK, NEW m \in Messages, in' = Append(in, m), todo' = todo
    PROVE  /\ Inserted(Stream, Stream', Len(in) + 1, <<m>>)
           /\ \A kinds : Lacks(todo, kinds) => LacksFrom(Stream, Len(in) + 1, kinds)
<1>1. in \in Seq(Pieces) /\ todo \in Seq(Pieces) /\ m \in Pieces
  BY InPieces, Vocabulary
<1>2. Stream = in \o todo /\ Stream' = Append(in, m) \o todo
  BY DEF Stream
<1> QED BY <1>1, <1>2, Says

LEMMA AnswersStream ==
    ASSUME TypeOK, TypeOK', todo = <<>>, in' = in
    PROVE  /\ Inserted(Stream, Stream', Len(in) + 1, todo')
           /\ \A i \in DOMAIN Stream : i < Len(in) + 1
           /\ \A kinds : LacksFrom(Stream, Len(in) + 1, kinds)
<1>1. in \in Seq(Pieces) /\ todo' \in Seq(Pieces)
  BY InPieces DEF TypeOK
<1>2. Stream = in \o <<>> /\ Stream' = in \o todo'
  BY DEF Stream
<1>3. /\ Inserted(Stream, Stream', Len(in) + 1, todo')
      /\ \A i \in DOMAIN Stream : i < Len(in) + 1
  BY <1>1, <1>2, AnswersIt
<1> QED BY <1>3 DEF LacksFrom

LEMMA TakesStream ==
    ASSUME TypeOK, handle_server_message
    PROVE  Taken(Stream, Stream') /\ Stream[1] = Message /\ Message \in Messages
<1>1. in \in Seq(Pieces) /\ todo \in Seq(Pieces) /\ in # <<>>
  BY InPieces DEF handle_server_message
<1>2. Stream = in \o todo /\ Stream' = Tail(in) \o todo
  BY DEF Stream, handle_server_message, handler
<1>3. Message \in Messages
  BY <1>1, HeadTailProperties DEF Message, TypeOK
<1> QED BY <1>1, <1>2, <1>3, Takes DEF Message

LEMMA SendsStream ==
    ASSUME TypeOK, SendNext
    PROVE  /\ Retold(Stream, Stream')
           /\ \A j \in DOMAIN Stream : Stream'[j] = Stream[j] \/ Stream'[j] = UserList
<1> DEFINE m == IF Head(todo) = Say("USERS") THEN UserList ELSE Head(todo)
<1>1. in \in Seq(Pieces) /\ todo \in Seq(Pieces) /\ todo # <<>>
  BY InPieces DEF SendNext
<1>2. m \in Pieces
  BY <1>1, HeadTailProperties, UserListIsMessage, Vocabulary
<1>3. m.kind = Head(todo).kind /\ (m = Head(todo) \/ m = UserList)
  BY Vocabulary DEF UserList
<1>4. Stream = in \o todo /\ Stream' = Append(in, m) \o Tail(todo)
  BY DEF Stream, SendNext
<1> HIDE DEF m
<1>5. /\ DOMAIN Stream' = DOMAIN Stream
      /\ Stream[Len(in) + 1] = Head(todo) /\ Stream'[Len(in) + 1] = m
      /\ \A i \in DOMAIN Stream : i # Len(in) + 1 => Stream'[i] = Stream[i]
  BY <1>1, <1>2, <1>4, Sends
<1> QED BY <1>3, <1>5 DEF Retold

(* What the answers there are bring. *)
LEMMA Brings ==
    /\ \A K : Lacks(<<>>, K)
    /\ \A m, K : /\ m.kind \in K <=> Has(<<m>>, K)
                 /\ m.kind \notin K <=> Lacks(<<m>>, K)
    /\ \A m, l, K : /\ (m.kind \in K \/ l.kind \in K) <=> Has(<<m, l>>, K)
                    /\ (m.kind \notin K /\ l.kind \notin K) <=> Lacks(<<m, l>>, K)
<1>1. \A K : Lacks(<<>>, K)
  BY DEF Lacks
<1>2. \A m, K : /\ m.kind \in K <=> Has(<<m>>, K)
                /\ m.kind \notin K <=> Lacks(<<m>>, K)
  BY DEF Lacks, Has
<1>3. \A m, l, K : /\ (m.kind \in K \/ l.kind \in K) <=> Has(<<m, l>>, K)
                   /\ (m.kind \notin K /\ l.kind \notin K) <=> Lacks(<<m, l>>, K)
  BY DEF Lacks, Has
<1> QED BY <1>1, <1>2, <1>3

(* Kinds of messages that matter for what is shown. *)
Shown == Changes \cup {"OK exit found"}

(***************************************************************************)
(* What the client will show of the phase and of its own exit.             *)
(***************************************************************************)
LEMMA PlainBlock ==
    ASSUME TypeOK, state' = state, NEW k, NEW b, Inserted(Stream, Stream', k, b),
           Lacks(b, Shown)
    PROVE  (WillPlay' <=> WillPlay) /\ (WillBeOut' <=> WillBeOut)
<1>1. Lacks(b, Changes) /\ Lacks(b, {"OK exit found"})
  BY DEF Lacks, Shown
<1>2. state.exit_reached \in BOOLEAN
  BY DEF TypeOK, ClientState
<1>3. Plays(Stream', state.session_state) <=> Plays(Stream, state.session_state)
  BY <1>1, InsertShows
<1>4. Out(Stream', state.exit_reached) <=> Out(Stream, state.exit_reached)
  BY <1>1, <1>2, InsertShows
<1> QED BY <1>3, <1>4 DEF WillPlay, WillBeOut

(* Steps that the phase and the exit do not depend on. *)
LEMMA Quiet ==
    ASSUME PhaseInv, ExitInv,
           connected' => connected, WillPlay' => WillPlay,
           WillPlay' => (WillBeOut' <=> WillBeOut),
           client'.exit_reached = client.exit_reached,
           UNCHANGED <<session_state, unsaid, untold>>, Resetting' <=> Resetting
    PROVE  PhaseInv' /\ ExitInv'
  BY DEF PhaseInv, ExitInv

LEMMA SameStream ==
    ASSUME in' = in, todo' = todo,
           state'.session_state = state.session_state,
           state'.exit_reached = state.exit_reached
    PROVE  (WillPlay' <=> WillPlay) /\ (WillBeOut' <=> WillBeOut)
<1>1. Stream' = Stream
  BY DEF Stream
<1> QED BY <1>1 DEF WillPlay, WillBeOut

(* The client obeys what it is told, so what it will show stays. *)
LEMMA TakesShows ==
    ASSUME TypeOK, TypeOK', handle_server_message
    PROVE  (WillPlay' <=> WillPlay) /\ (WillPlay' => (WillBeOut' <=> WillBeOut))
<1>1. /\ Taken(Stream, Stream') /\ Stream[1] = Message
      /\ state \in ClientState /\ state.exit_reached \in BOOLEAN
      /\ state'.exit_reached \in BOOLEAN
  BY TakesStream DEF TypeOK, ClientState
<1>2. CASE HandleOK
  <2>1. /\ state'.session_state = state.session_state
        /\ state'.exit_reached = (state.exit_reached \/ Message.kind = "OK exit found")
    BY <1>1, <1>2 DEF HandleOK, confirm_auth, ClientState
  <2>2. Message.kind \notin Changes
    BY <1>2 DEF HandleOK, Oks, Changes
  <2> QED BY <1>1, <2>1, <2>2, TakenShows DEF WillPlay, WillBeOut
<1>3. CASE HandleERR \/ handle_users_message
  <2>1. /\ state'.session_state = state.session_state
        /\ state'.exit_reached = state.exit_reached
    BY <1>1, <1>3 DEF HandleERR, handle_users_message, clear_pending_auth, ClientState
  <2>2. Message.kind \notin Changes \cup {"OK exit found"}
    BY <1>3 DEF HandleERR, handle_users_message, Changes
  <2> QED BY <1>1, <2>1, <2>2, TakenShows DEF WillPlay, WillBeOut
<1>4. CASE HandleStarted \/ HandleLobby
  <2>1. /\ state'.session_state = "PLAYING" <=> Message.kind = "STARTED"
        /\ state'.exit_reached = FALSE
    BY <1>1, <1>4 DEF HandleStarted, HandleLobby, ClientState
  <2>2. Message.kind \in Changes
    BY <1>4 DEF HandleStarted, HandleLobby, Changes
  <2> QED BY <1>1, <2>1, <2>2, TakenShows DEF WillPlay, WillBeOut
<1>5. CASE HandleEnded
  <2>1. state'.session_state = "FINISHED" /\ Message.kind = "ENDED"
    BY <1>1, <1>5 DEF HandleEnded, ClientState
  <2>2. Message.kind \in Changes
    BY <2>1 DEF Changes
  <2>3. WillPlay' <=> WillPlay
    BY <1>1, <2>1, <2>2, TakenShows DEF WillPlay
  <2>4. Out(Stream', FALSE) <=> WillBeOut
    BY <1>1, <2>2, TakenShows DEF WillBeOut
  <2>5. WillPlay' => (Out(Stream', FALSE) <=> WillBeOut')
    BY <1>1, <2>1, OutUnlessPlaying DEF WillPlay, WillBeOut
  <2> QED BY <2>3, <2>4, <2>5
<1> QED BY <1>2, <1>3, <1>4, <1>5 DEF handle_server_message

(* The handler answers with nothing that is shown, and stays in the phase. *)
LEMMA PlainAnswer ==
    ASSUME PhasesInv, TypeOK', todo = <<>>, in' = in, UNCHANGED <<state, connected>>,
           Lacks(todo', Shown), UNCHANGED <<session_state, unsaid, untold, boss>>,
           client'.exit_reached = client.exit_reached,
           pc = "reset_clients" <=> pc' = "reset_clients",
           pc' \in {"move", "move_done"} => session_state # "LOBBY"
    PROVE  PhasesInv'
<1>1. (WillPlay' <=> WillPlay) /\ (WillBeOut' <=> WillBeOut)
  BY AnswersStream, PlainBlock DEF PhasesInv
<1>2. PhaseInv' /\ ExitInv'
  BY <1>1, Quiet DEF PhasesInv, Resetting
<1>3. MoveInv'
  BY DEF MoveInv, Lacks, Shown, Changes
<1> QED BY <1>2, <1>3 DEF PhasesInv

(* The client is told of the end of the match, or of the lobby. *)
LEMMA EndBlock ==
    ASSUME NEW k, NEW b, Inserted(Stream, Stream', k, b),
           Has(b, {"ENDED", "LOBBY"}), Lacks(b, {"STARTED"}),
           LacksFrom(Stream, k, {"STARTED"})
    PROVE  PhaseInv' /\ ExitInv'
<1>1. Has(b, Changes)
  BY DEF Has, Changes
<1>2. ~Plays(Stream', state'.session_state)
  BY <1>1, InsertShows
<1> QED BY <1>2 DEF PhaseInv, ExitInv, WillPlay

(* The client is told of a start, and the server counts it as not out. *)
LEMMA StartBlock ==
    ASSUME TypeOK', NEW k, Inserted(Stream, Stream', k, <<Say("STARTED")>>),
           session_state' = "PLAYING", ~client'.exit_reached,
           Resetting' \/ LacksFrom(Stream, k, {"OK exit found"})
    PROVE  PhaseInv' /\ ExitInv'
<1>1. /\ Has(<<Say("STARTED")>>, Changes)
      /\ Lacks(<<Say("STARTED")>>, {"OK exit found"})
  <2>1. Say("STARTED").kind \in Changes /\ Say("STARTED").kind \notin {"OK exit found"}
    <3>1. Say("STARTED").kind = "STARTED"
      BY Vocabulary
    <3> QED BY <3>1 DEF Changes
  <2>2. Has(<<Say("STARTED")>>, Changes)
    BY <2>1, Brings
  <2>3. Lacks(<<Say("STARTED")>>, {"OK exit found"})
    BY <2>1, Brings
  <2> QED BY <2>2, <2>3
<1>2. state'.exit_reached \in BOOLEAN
  BY DEF TypeOK, ClientState
<1>3. LacksFrom(Stream, k, {"OK exit found"}) => ~WillBeOut'
  BY <1>1, <1>2, InsertShows DEF WillBeOut
<1> QED BY <1>3 DEF PhaseInv, ExitInv

LEMMA LastIndex ==
    \A n \in Nat : n + 1 \in 1..(n + 1) /\ \A i \in 1..(n + 1) : i = n + 1 \/ i \in 1..n
  OBVIOUS

(* A move that has found an object may also come onto the exit. *)
LEMMA AppendLacks ==
    ASSUME NEW found \in Seq(Pieces), NEW m \in Pieces, NEW b, b = Append(found, m)
    PROVE  /\ \A K : Lacks(found, K) /\ m.kind \notin K => Lacks(b, K)
           /\ \A K : m.kind \in K => Has(b, K)
           /\ \A n : Spares(found, n) /\ m.kind # "USERS" => Spares(b, n)
<1> DEFINE N == Len(found)
<1>1. DOMAIN b = 1..(N + 1) /\ N \in Nat /\ DOMAIN found = 1..N
  BY AppendProperties, LenProperties
<1>2. (\A i \in 1..N : b[i] = found[i]) /\ b[N + 1] = m
  BY AppendProperties
<1> HIDE DEF N
<1>3. \A i \in DOMAIN b : b[i] = m \/ (i \in DOMAIN found /\ b[i] = found[i])
  BY <1>1, <1>2, LastIndex
<1>4. \A K : Lacks(found, K) /\ m.kind \notin K => Lacks(b, K)
  BY <1>3 DEF Lacks
<1>5. \A n : Spares(found, n) /\ m.kind # "USERS" => Spares(b, n)
  BY <1>3 DEF Spares
<1>6. \A K : m.kind \in K => Has(b, K)
  <2>1. N + 1 \in DOMAIN b
    BY <1>1, LastIndex
  <2> QED BY <1>2, <2>1 DEF Has
<1> QED BY <1>4, <1>5, <1>6

LEMMA PhasesStep == ASSUME PhasesInv, [Next]_vars PROVE PhasesInv'
<1> SUFFICES ASSUME TypeOK, TypeOK', PhaseInv, ExitInv, MoveInv
             PROVE  PhasesInv'
  BY TypeStep DEF PhasesInv
<1> USE DEF client_side, handler, session_vars
<1>0. /\ Lacks(todo, {"STARTED"})
      /\ \A k \in Kinds : Say(k).kind = k
      /\ Say("USERS").kind = "USERS" /\ UserList.kind = "USERS"
  BY Vocabulary DEF MoveInv, Lacks, UserList
<1>1. ASSUME NEW cmd \in Sent, send_user_command(cmd) PROVE PhasesInv'
  <2>1. /\ UNCHANGED <<in, todo, client, pc, session_vars, connected>>
        /\ state'.session_state = state.session_state
        /\ state'.exit_reached = state.exit_reached
    BY <1>1 DEF send_user_command, TypeOK, ClientState
  <2>2. PhaseInv' /\ ExitInv'
    BY <2>1, SameStream, Quiet DEF Resetting
  <2>3. MoveInv'
    BY <2>1 DEF MoveInv
  <2> QED BY <2>2, <2>3 DEF PhasesInv
<1>2. ASSUME NEW word \in {"MOVE", "VIEW"}, handle_movement_input(word) PROVE PhasesInv'
  <2>1. UNCHANGED <<in, todo, client, pc, session_vars, state, connected>>
    BY <1>2 DEF handle_movement_input
  <2>2. PhaseInv' /\ ExitInv'
    BY <2>1, SameStream, Quiet DEF Resetting
  <2>3. MoveInv'
    BY <2>1 DEF MoveInv
  <2> QED BY <2>2, <2>3 DEF PhasesInv
<1>3. ASSUME Tab PROVE PhasesInv'
  <2>1. /\ UNCHANGED <<in, todo, client, pc, session_vars, connected>>
        /\ state'.session_state = state.session_state
        /\ state'.exit_reached = state.exit_reached
    BY <1>3 DEF Tab, TypeOK, ClientState
  <2>2. PhaseInv' /\ ExitInv'
    BY <2>1, SameStream, Quiet DEF Resetting
  <2>3. MoveInv'
    BY <2>1 DEF MoveInv
  <2> QED BY <2>2, <2>3 DEF PhasesInv
<1>4. ASSUME Leave PROVE PhasesInv'
  <2>1. connected' = FALSE /\ todo' = <<>> /\ UNCHANGED <<client, pc, session_vars>>
    BY <1>4 DEF Leave
  <2>2. PhaseInv' /\ ExitInv'
    BY <2>1 DEF PhaseInv, ExitInv
  <2>3. MoveInv'
    <3>1. DOMAIN todo' = {}
      BY <2>1
    <3> QED BY <2>1, <3>1 DEF MoveInv
  <2> QED BY <2>2, <2>3 DEF PhasesInv
<1>5. ASSUME handle_server_message PROVE PhasesInv'
  <2>1. UNCHANGED <<connected, todo, client, pc, session_vars>>
    BY <1>5 DEF handle_server_message
  <2>2. PhaseInv' /\ ExitInv'
    BY <1>5, <2>1, TakesShows, Quiet DEF Resetting
  <2>3. MoveInv'
    BY <2>1 DEF MoveInv
  <2> QED BY <2>2, <2>3 DEF PhasesInv
<1>6. ASSUME SendNext PROVE PhasesInv'
  <2>1. /\ todo # <<>> /\ todo' = Tail(todo) /\ todo \in Seq(Pieces)
        /\ UNCHANGED <<state, connected, client, pc, session_vars>>
    BY <1>6 DEF SendNext, TypeOK
  <2>2. (WillPlay' <=> WillPlay) /\ (WillBeOut' <=> WillBeOut)
    BY <1>6, <2>1, SendsStream, RetoldFacts DEF WillPlay, WillBeOut, TypeOK, ClientState
  <2>3. PhaseInv' /\ ExitInv'
    BY <2>1, <2>2, Quiet DEF Resetting
  <2>4. \A i \in DOMAIN todo' : i + 1 \in DOMAIN todo /\ todo'[i] = todo[i + 1]
    BY <2>1, HeadTailProperties, EmptySeq, LenProperties
  <2>5. MoveInv'
    BY <2>1, <2>4 DEF MoveInv
  <2> QED BY <2>3, <2>5 DEF PhasesInv
<1>a. PhasesInv
  BY DEF PhasesInv
<1>b. /\ Lacks(<<>>, Shown) /\ Lacks(<<Say("ERR")>>, Shown) /\ Lacks(<<Say("OK")>>, Shown)
      /\ Lacks(<<Say("OK"), Say("USERS")>>, Shown)
      /\ Lacks(<<Say("OK owner"), Say("USERS")>>, Shown)
      /\ Lacks(<<UserList>>, Shown)
  <2>1. /\ Say("ERR").kind \notin Shown /\ Say("OK").kind \notin Shown
        /\ Say("OK owner").kind \notin Shown /\ Say("USERS").kind \notin Shown
        /\ UserList.kind \notin Shown
    <3>1. /\ Say("ERR").kind = "ERR" /\ Say("OK").kind = "OK"
          /\ Say("OK owner").kind = "OK owner" /\ Say("USERS").kind = "USERS"
          /\ UserList.kind = "USERS"
      BY <1>0, Vocabulary
    <3> QED BY <3>1 DEF Shown, Changes
  <2>2. \A m, l : m.kind \notin Shown /\ l.kind \notin Shown =>
            Lacks(<<m>>, Shown) /\ Lacks(<<m, l>>, Shown)
    BY Brings
  <2>3. Lacks(<<>>, Shown)
    BY Brings
  <2> QED BY <2>1, <2>2, <2>3
<1>7. ASSUME todo = <<>>, handle_start PROVE PhasesInv'
  <2>1. CASE Refuse /\ UNCHANGED <<client, session_state, in>>
    <3>1. todo' = <<Say("ERR")>> /\ pc' = "idle" /\ pc = "idle"
      BY <1>7, <2>1 DEF Refuse, Answer, Goto, handle_start, Receives
    <3>2. UNCHANGED <<state, connected, in, client, session_state, unsaid, untold, boss>>
      BY <1>7, <2>1 DEF handle_start
    <3> QED BY <1>7, <1>a, <1>b, <3>1, <3>2, PlainAnswer
  <2>2. CASE /\ session_state' = "PLAYING" /\ client' = ForNextMatch
             /\ in' = Append(in, Say("STARTED")) /\ UNCHANGED <<pc, todo>>
    <3>1. ~client'.exit_reached /\ Say("STARTED") \in Messages
      BY <2>2, Replies DEF ForNextMatch, TypeOK, Client_t
    <3>2. LacksFrom(Stream, Len(in) + 1, {"OK exit found"})
      <4>1. Lacks(todo, {"OK exit found"})
        BY <1>7, Brings
      <4> QED BY <2>2, <3>1, <4>1, SaysStream
    <3>3. Inserted(Stream, Stream', Len(in) + 1, <<Say("STARTED")>>)
      BY <2>2, <3>1, SaysStream
    <3>4. PhaseInv' /\ ExitInv'
      BY <2>2, <3>1, <3>2, <3>3, StartBlock
    <3>5. MoveInv'
      BY <1>7, <2>2 DEF MoveInv
    <3> QED BY <3>4, <3>5 DEF PhasesInv
  <2> QED BY <1>7, <2>1, <2>2 DEF handle_start
<1>8. ASSUME Stay, todo = <<>>, Greet PROVE PhasesInv'
  <2>1. /\ Lacks(todo', Shown) /\ pc = "greet" /\ pc' = "idle"
        /\ UNCHANGED <<state, connected, in, client, session_state, unsaid, untold, boss>>
    BY <1>8, <1>b DEF Stay, Greet, Goto, Answer
  <2> QED BY <1>8, <1>a, <2>1, PlainAnswer
<1>9. ASSUME Stay, todo = <<>>, handle_login PROVE PhasesInv'
  <2>1. /\ Lacks(todo', Shown) /\ pc = "idle" /\ pc' = "idle"
        /\ client'.exit_reached = client.exit_reached
        /\ UNCHANGED <<state, connected, in, session_state, unsaid, untold, boss>>
    BY <1>9, <1>b DEF Stay, handle_login, Receives, Refuse, Goto, Answer, TypeOK, Client_t
  <2> QED BY <1>9, <1>a, <2>1, PlainAnswer
<1>10. ASSUME Stay, todo = <<>>, ReadyRead PROVE PhasesInv'
  <2>1. /\ Lacks(todo', Shown) /\ pc = "idle" /\ pc' \in {"idle", "ready_set"}
        /\ UNCHANGED <<state, connected, in, client, session_state, unsaid, untold, boss>>
    BY <1>10, <1>b DEF Stay, ReadyRead, Receives, Refuse, Goto, Answer
  <2> QED BY <1>10, <1>a, <2>1, PlainAnswer
<1>11. ASSUME Stay, todo = <<>>, ReadySet PROVE PhasesInv'
  <2>1. /\ Lacks(todo', Shown) /\ pc = "ready_set" /\ pc' = "idle"
        /\ client'.exit_reached = client.exit_reached
        /\ UNCHANGED <<state, connected, in, session_state, unsaid, untold, boss>>
    BY <1>11, <1>b DEF Stay, ReadySet, Goto, Answer, TypeOK, Client_t
  <2> QED BY <1>11, <1>a, <2>1, PlainAnswer
<1>12. ASSUME Stay, todo = <<>>, ResetRead PROVE PhasesInv'
  <2>1. /\ Lacks(todo', Shown) /\ pc = "idle" /\ pc' \in {"idle", "reset_owner"}
        /\ UNCHANGED <<state, connected, in, client, session_state, unsaid, untold, boss>>
    BY <1>12, <1>b DEF Stay, ResetRead, Receives, Refuse, Goto, Answer
  <2> QED BY <1>12, <1>a, <2>1, PlainAnswer
<1>13. ASSUME Stay, todo = <<>>, ResetOwner PROVE PhasesInv'
  <2>1. CASE Refuse /\ UNCHANGED <<session_state, unsaid>>
    <3>1. /\ Lacks(todo', Shown) /\ pc = "reset_owner" /\ pc' = "idle"
          /\ UNCHANGED <<state, connected, in, client, session_state, unsaid, untold, boss>>
      BY <1>13, <1>b, <2>1 DEF Stay, ResetOwner, Refuse, Goto, Answer
    <3> QED BY <1>13, <1>a, <3>1, PlainAnswer
  <2>2. CASE Goto("reset_clients") /\ UNCHANGED todo
    <3>1. pc' = "reset_clients" /\ todo' = todo /\ Resetting'
      BY <2>2 DEF Goto, Resetting
    <3> QED BY <3>1 DEF PhasesInv, PhaseInv, ExitInv, MoveInv
  <2> QED BY <1>13, <2>1, <2>2 DEF ResetOwner
<1>14. ASSUME Stay, todo = <<>>, ResetClients PROVE PhasesInv'
  <2>1. in' = in /\ todo' = <<Say("LOBBY"), Say("USERS")>> /\ client' = ForNextMatch
    BY <1>14 DEF Stay, ResetClients, Answer
  <2>2. /\ Inserted(Stream, Stream', Len(in) + 1, todo')
        /\ LacksFrom(Stream, Len(in) + 1, {"STARTED"})
    BY <1>14, <2>1, AnswersStream
  <2>3. /\ Say("LOBBY").kind = "LOBBY" /\ Say("USERS").kind = "USERS"
    BY Vocabulary
  <2>4. /\ Has(todo', {"ENDED", "LOBBY"}) /\ Lacks(todo', {"STARTED"})
        /\ Lacks(todo', {"OK exit found"})
    BY <2>1, <2>3, Brings
  <2>5. PhaseInv' /\ ExitInv'
    BY <2>2, <2>4, EndBlock
  <2>6. ~client'.ready
    BY <2>1 DEF ForNextMatch, TypeOK, Client_t
  <2>7. MoveInv'
    BY <2>4, <2>6 DEF MoveInv, Lacks
  <2> QED BY <2>5, <2>7 DEF PhasesInv
<1>15. ASSUME Stay, todo = <<>>, MoveRead PROVE PhasesInv'
  <2>1. /\ Lacks(todo', Shown) /\ pc = "idle"
        /\ pc' = "idle" \/ (pc' = "move" /\ session_state = "PLAYING")
        /\ UNCHANGED <<state, connected, in, client, session_state, unsaid, untold, boss>>
    BY <1>15, <1>b DEF Stay, MoveRead, Receives, Refuse, Goto, Answer
  <2> QED BY <1>15, <1>a, <2>1, PlainAnswer
<1>16. ASSUME Stay, todo = <<>>, Move PROVE PhasesInv'
  <2>1. UNCHANGED <<state, connected, in, session_state, unsaid, untold, boss>> /\ pc = "move"
    BY <1>16 DEF Stay, Move
  <2>2. CASE Lacks(todo', Shown) /\ pc' = "idle" /\ UNCHANGED client
    BY <1>16, <1>a, <2>1, <2>2, PlainAnswer
  <2>3. ASSUME NEW found, found = <<>> \/ found = <<Say("OK")>>,
               client' = [client EXCEPT !.exit_reached = TRUE],
               pc' = "move_done", todo' = Append(found, Say("OK exit found"))
        PROVE  PhasesInv'
    <3>1. /\ Has(todo', {"OK exit found"})
          /\ Lacks(todo', Changes) /\ Lacks(todo', {"STARTED"})
      <4>1. Say("OK") \in Pieces /\ Say("OK").kind = "OK"
        BY Replies, Vocabulary
      <4>2. <<Say("OK")>> \in Seq(Pieces) /\ Lacks(<<Say("OK")>>, Changes)
        BY <4>1, Replies, Brings DEF Changes
      <4>3. <<>> \in Seq(Pieces) /\ Lacks(<<>>, Changes)
        BY Replies, Brings
      <4>4. /\ Say("OK exit found").kind = "OK exit found"
            /\ Say("OK exit found") \in Pieces
        BY Vocabulary, Replies
      <4>5. "OK exit found" \notin Changes /\ "STARTED" \in Changes
        BY DEF Changes
      <4>6. found \in Seq(Pieces) /\ Lacks(found, Changes)
        BY <2>3, <4>2, <4>3
      <4>7. Has(todo', {"OK exit found"}) /\ Lacks(todo', Changes)
        BY <2>3, <4>4, <4>5, <4>6, AppendLacks
      <4> QED BY <4>5, <4>7 DEF Lacks
    <3>2. /\ Inserted(Stream, Stream', Len(in) + 1, todo')
          /\ LacksFrom(Stream, Len(in) + 1, Changes)
      BY <1>16, <2>1, AnswersStream
    <3>3. state.exit_reached \in BOOLEAN /\ client'.exit_reached = TRUE
      BY <2>3 DEF TypeOK, ClientState, Client_t
    <3>4. Plays(Stream', state.session_state) <=> Plays(Stream, state.session_state)
      BY <3>1, <3>2, <3>3, InsertShows
    <3>5. Out(Stream', state.exit_reached)
      BY <3>1, <3>2, <3>3, InsertShows
    <3>6. (WillPlay' <=> WillPlay) /\ WillBeOut'
      BY <2>1, <3>4, <3>5 DEF WillPlay, WillBeOut
    <3>7. PhaseInv' /\ ExitInv'
      BY <2>1, <2>3, <3>3, <3>6 DEF PhaseInv, ExitInv, Resetting
    <3>8. client'.ready = client.ready
      BY <2>3 DEF TypeOK, Client_t
    <3>9. MoveInv'
      BY <2>1, <3>1, <3>8 DEF MoveInv, Lacks
    <3> QED BY <3>7, <3>9 DEF PhasesInv
  <2> QED BY <1>16, <1>b, <2>2, <2>3 DEF Move, Refuse, Goto, Answer
<1>17. ASSUME Stay, todo = <<>>, MoveDone PROVE PhasesInv'
  <2>1. /\ UNCHANGED <<state, connected, in, client, unsaid, untold, boss>>
        /\ pc = "move_done" /\ pc' = "idle"
    BY <1>17 DEF Stay, MoveDone, Goto
  <2>2. CASE session_state' = "FINISHED" /\ todo' = <<Say("ENDED")>>
    <3>1. /\ Has(todo', {"ENDED", "LOBBY"}) /\ Lacks(todo', {"STARTED"})
      <4>1. Say("ENDED").kind = "ENDED"
        BY Vocabulary
      <4> QED BY <2>2, <4>1, Brings
    <3>2. /\ Inserted(Stream, Stream', Len(in) + 1, todo')
          /\ LacksFrom(Stream, Len(in) + 1, {"STARTED"})
      BY <1>17, <2>1, AnswersStream
    <3>3. PhaseInv' /\ ExitInv'
      BY <3>1, <3>2, EndBlock
    <3>4. MoveInv'
      BY <2>2, <3>1 DEF MoveInv, Lacks
    <3> QED BY <3>3, <3>4 DEF PhasesInv
  <2>3. CASE UNCHANGED <<session_state, todo>>
    BY <1>17, <1>a, <1>b, <2>1, <2>3, PlainAnswer
  <2> QED BY <1>17, <2>2, <2>3 DEF MoveDone, Answer
<1>18. ASSUME Stay, todo = <<>>, View PROVE PhasesInv'
  <2>1. /\ Lacks(todo', Shown) /\ pc = "idle" /\ pc' = "idle"
        /\ UNCHANGED <<state, connected, in, client, session_state, unsaid, untold, boss>>
    BY <1>18, <1>b DEF Stay, View, Receives, Refuse, Goto, Answer
  <2> QED BY <1>18, <1>a, <2>1, PlainAnswer
<1>19. ASSUME Stay, todo = <<>>, handle_list PROVE PhasesInv'
  <2>1. /\ Lacks(todo', Shown) /\ pc = "idle" /\ pc' = "idle"
        /\ UNCHANGED <<state, connected, in, client, session_state, unsaid, untold, boss>>
    BY <1>19, <1>b DEF Stay, handle_list, Receives, Answer
  <2> QED BY <1>19, <1>a, <2>1, PlainAnswer
<1>20. ASSUME Stay, todo = <<>>, handle_rank PROVE PhasesInv'
  <2>1. /\ Lacks(todo', Shown) /\ pc = "idle" /\ pc' = "idle"
        /\ UNCHANGED <<state, connected, in, client, session_state, unsaid, untold, boss>>
    BY <1>20, <1>b DEF Stay, handle_rank, Receives
  <2> QED BY <1>20, <1>a, <2>1, PlainAnswer
<1>21. ASSUME Elsewhere, BroadcastUsers PROVE PhasesInv'
  <2>1. /\ in' = Append(in, UserList) /\ UserList \in Messages
        /\ UNCHANGED <<state, connected, todo, pc, client, session_vars>>
    BY <1>21, UserListIsMessage DEF Elsewhere, BroadcastUsers
  <2>2. Lacks(<<UserList>>, Shown) /\ Inserted(Stream, Stream', Len(in) + 1, <<UserList>>)
    BY <1>b, <2>1, SaysStream
  <2>3. (WillPlay' <=> WillPlay) /\ (WillBeOut' <=> WillBeOut)
    BY <2>1, <2>2, PlainBlock
  <2>4. PhaseInv' /\ ExitInv'
    BY <2>1, <2>3, Quiet DEF Resetting
  <2>5. MoveInv'
    BY <2>1 DEF MoveInv
  <2> QED BY <2>4, <2>5 DEF PhasesInv
<1>22. ASSUME Elsewhere, OwnerChanges PROVE PhasesInv'
  <2>1. UNCHANGED <<in, todo, client, pc, session_state, unsaid, untold, boss, state, connected>>
    BY <1>22 DEF Elsewhere, OwnerChanges
  <2>2. PhaseInv' /\ ExitInv'
    BY <2>1, SameStream, Quiet DEF Resetting
  <2>3. MoveInv'
    BY <2>1 DEF MoveInv
  <2> QED BY <2>2, <2>3 DEF PhasesInv
<1>23. ASSUME Elsewhere, OtherStart PROVE PhasesInv'
  <2>1. /\ in' = Append(in, Say("STARTED")) /\ UNCHANGED <<todo, pc, boss>>
        /\ session_state = "LOBBY" /\ session_state' = "PLAYING"
        /\ boss = "idle" /\ client.ready /\ client' = ForNextMatch
    BY <1>23 DEF Elsewhere, OtherStart
  <2>2. ~client'.exit_reached /\ Say("STARTED") \in Messages
    BY <2>1, Replies DEF ForNextMatch, TypeOK, Client_t
  <2>3. Resetting' \/ LacksFrom(Stream, Len(in) + 1, {"OK exit found"})
    <3>1. CASE pc = "reset_clients"
      BY <2>1, <3>1 DEF Resetting
    <3>2. CASE pc # "reset_clients"
      <4>1. Lacks(todo, {"OK exit found"})
        BY <2>1, <3>2 DEF MoveInv, Lacks
      <4> QED BY <2>1, <2>2, <4>1, SaysStream
    <3> QED BY <3>1, <3>2
  <2>4. Inserted(Stream, Stream', Len(in) + 1, <<Say("STARTED")>>)
    BY <2>1, <2>2, SaysStream
  <2>5. PhaseInv' /\ ExitInv'
    BY <2>1, <2>2, <2>3, <2>4, StartBlock
  <2>6. MoveInv'
    BY <2>1 DEF MoveInv
  <2> QED BY <2>5, <2>6 DEF PhasesInv
<1>24. ASSUME Elsewhere, End PROVE PhasesInv'
  <2>1. /\ UNCHANGED <<in, todo, client, pc, boss, state, connected>>
        /\ session_state' = "FINISHED" /\ untold' > 0
    BY <1>24, BoundsAssumption DEF Elsewhere, End, TypeOK
  <2>2. (WillPlay' <=> WillPlay) /\ (WillBeOut' <=> WillBeOut)
    BY <2>1, SameStream
  <2>3. PhaseInv' /\ ExitInv'
    BY <2>1, <2>2 DEF PhaseInv, ExitInv, Resetting
  <2>4. MoveInv'
    BY <2>1 DEF MoveInv
  <2> QED BY <2>3, <2>4 DEF PhasesInv
<1>30. ASSUME Elsewhere, EndUntold PROVE PhasesInv'
  <2>1. /\ UNCHANGED <<in, todo, client, pc, boss, state, connected>>
        /\ session_state' = "FINISHED" /\ unsaid'
    BY <1>30 DEF Elsewhere, EndUntold
  <2>2. (WillPlay' <=> WillPlay) /\ (WillBeOut' <=> WillBeOut)
    BY <2>1, SameStream
  <2>3. PhaseInv' /\ ExitInv'
    BY <2>1, <2>2 DEF PhaseInv, ExitInv, Resetting
  <2>4. MoveInv'
    BY <2>1 DEF MoveInv
  <2> QED BY <2>3, <2>4 DEF PhasesInv
<1>25. ASSUME Elsewhere, TellEnd PROVE PhasesInv'
  <2>1. /\ in' = Append(in, Say("ENDED"))
        /\ UNCHANGED <<todo, pc, boss, client, session_state>>
    BY <1>25 DEF Elsewhere, TellEnd
  <2>2. /\ Has(<<Say("ENDED")>>, {"ENDED", "LOBBY"}) /\ Lacks(<<Say("ENDED")>>, {"STARTED"})
    <3>1. Say("ENDED").kind = "ENDED"
      BY Vocabulary
    <3> QED BY <3>1, Brings
  <2>3. Say("ENDED") \in Messages
    BY Replies
  <2>4. /\ Inserted(Stream, Stream', Len(in) + 1, <<Say("ENDED")>>)
        /\ LacksFrom(Stream, Len(in) + 1, {"STARTED"})
    BY <1>0, <2>1, <2>3, SaysStream
  <2>5. PhaseInv' /\ ExitInv'
    BY <2>2, <2>4, EndBlock
  <2>6. MoveInv'
    BY <2>1 DEF MoveInv
  <2> QED BY <2>5, <2>6 DEF PhasesInv
<1>26. ASSUME Elsewhere, OtherReset PROVE PhasesInv'
  <2>1. boss' = "reset_clients" /\ todo' = todo
    BY <1>26 DEF Elsewhere, OtherReset
  <2> QED BY <2>1 DEF PhasesInv, PhaseInv, ExitInv, MoveInv, Resetting
<1>27. ASSUME Elsewhere, OtherResetClients PROVE PhasesInv'
  <2>1. boss' = "reset_bcast" /\ todo' = todo /\ ~client'.ready
    BY <1>27 DEF Elsewhere, OtherResetClients, ForNextMatch, TypeOK, Client_t
  <2> QED BY <2>1 DEF PhasesInv, PhaseInv, ExitInv, MoveInv, Resetting
<1>28. ASSUME Elsewhere, OtherResetBcast PROVE PhasesInv'
  <2>1. /\ in' = Append(in, Say("LOBBY")) /\ boss = "reset_bcast"
        /\ UNCHANGED <<todo, pc, client, session_state>>
    BY <1>28 DEF Elsewhere, OtherResetBcast
  <2>2. /\ Has(<<Say("LOBBY")>>, {"ENDED", "LOBBY"}) /\ Lacks(<<Say("LOBBY")>>, {"STARTED"})
    <3>1. Say("LOBBY").kind = "LOBBY"
      BY Vocabulary
    <3> QED BY <3>1, Brings
  <2>3. Say("LOBBY") \in Messages
    BY Replies
  <2>4. /\ Inserted(Stream, Stream', Len(in) + 1, <<Say("LOBBY")>>)
        /\ LacksFrom(Stream, Len(in) + 1, {"STARTED"})
    BY <1>0, <2>1, <2>3, SaysStream
  <2>5. PhaseInv' /\ ExitInv'
    BY <2>2, <2>4, EndBlock
  <2>6. MoveInv'
    BY <2>1 DEF MoveInv
  <2> QED BY <2>5, <2>6 DEF PhasesInv
<1>29. CASE UNCHANGED vars
  <2>1. UNCHANGED <<in, todo, client, pc, session_state, unsaid, untold, boss, state, connected>>
    BY <1>29 DEF vars
  <2>2. PhaseInv' /\ ExitInv'
    BY <2>1, SameStream, Quiet DEF Resetting
  <2>3. MoveInv'
    BY <2>1 DEF MoveInv
  <2> QED BY <2>2, <2>3 DEF PhasesInv
<1> QED
  BY <1>1, <1>2, <1>3, <1>4, <1>5, <1>6, <1>7, <1>8, <1>9, <1>10, <1>11, <1>12, <1>13,
     <1>14, <1>15, <1>16, <1>17, <1>18, <1>19, <1>20, <1>21, <1>22, <1>23, <1>24, <1>25,
     <1>26, <1>27, <1>28, <1>29, <1>30
  DEF Next, User, handle_client, Others

(* What there is to tell a client that has been told all. *)
LEMMA NothingToTell ==
    ASSUME in = <<>>, todo = <<>>
    PROVE  /\ DOMAIN Stream = {}
           /\ WillPlay <=> state.session_state = "PLAYING"
           /\ state.exit_reached \in BOOLEAN => (WillBeOut <=> state.exit_reached)
<1>1. Stream = <<>>
  BY DEF Stream
<1>2. DOMAIN Stream = {}
  BY <1>1
<1> QED BY <1>2 DEF WillPlay, Plays, WillBeOut, Out, LastIs, NoChange

LEMMA TypeInit == Init => TypeOK
<1> SUFFICES ASSUME Init PROVE TypeOK
  OBVIOUS
<1>1. \A S : <<>> \in Seq(S)
  OBVIOUS
<1>2. owner # client.nickname
  BY NamesAssumption DEF Init
<1> QED BY <1>1, <1>2, NamesAssumption DEF Init, TypeOK, ClientState, Client_t, Phases

LEMMA PhasesInit == Init => PhasesInv
<1> SUFFICES ASSUME Init PROVE PhasesInv
  OBVIOUS
<1>1. TypeOK
  BY TypeInit
<1>2. ~WillPlay
  BY NothingToTell DEF Init
<1>3. MoveInv
  <2>1. DOMAIN todo = {} /\ ~client.ready
    BY DEF Init
  <2> QED BY <2>1 DEF MoveInv
<1> QED BY <1>1, <1>2, <1>3 DEF PhasesInv, PhaseInv, ExitInv

(* Whatever is still to come, and whichever threads are still to speak,    *)
(* the client will be told the phase and its exit as the server has them.  *)
THEOREM PhasesAlways == Spec => []PhasesInv
<1>1. Init => PhasesInv
  BY PhasesInit
<1>2. PhasesInv /\ [Next]_vars => PhasesInv'
  BY PhasesStep
<1> QED BY <1>1, <1>2, PTL DEF Spec

(* A client that has been told everything does not play a match that is    *)
(* over, unless it was ended without a word: an end that a thread is to    *)
(* announce is announced before the next start, or by what RESET says.     *)
THEOREM EndsAreHeard == Spec => []PlayInv
<1>1. PhasesInv => PlayInv
  <2> SUFFICES ASSUME PhasesInv, AllTold, state.session_state = "PLAYING"
               PROVE  session_state = "PLAYING" \/ (session_state = "FINISHED" /\ unsaid)
    BY DEF PhasesInv, PlayInv, PlayingIsTrue
  <2>1. WillPlay /\ connected
    BY NothingToTell DEF AllTold
  <2> QED BY <2>1 DEF PhasesInv, PhaseInv, TypeOK, AllTold, Resetting
<1> QED BY <1>1, PhasesAlways, PTL

(* A client that has been told everything and plays shows its own exit as  *)
(* found if and only if the server counts it as out: the "exit found" of   *)
(* an earlier match never comes after the start of this one.               *)
THEOREM ExitShown == Spec => []ExitTruth
<1>1. PhasesInv => ExitTruth
  <2> SUFFICES ASSUME PhasesInv, AllTold, state.session_state = "PLAYING"
               PROVE  state.exit_reached = client.exit_reached
    BY DEF ExitTruth
  <2>1. /\ state.exit_reached \in BOOLEAN /\ client.exit_reached \in BOOLEAN
        /\ WillPlay /\ connected /\ (WillBeOut <=> state.exit_reached)
    BY NothingToTell DEF AllTold, PhasesInv, TypeOK, ClientState, Client_t
  <2> QED BY <2>1 DEF PhasesInv, ExitInv, AllTold, Resetting
<1> QED BY <1>1, PhasesAlways, PTL

(***************************************************************************)
(* Who the client is.                                                      *)
(***************************************************************************)

(* A command that is no login is sent, or the login of a client that waits *)
(* for no answer.                                                          *)
LEMMA OutAppends ==
    ASSUME NEW o \in Seq(Sent), NEW c \in Sent, NEW p, p = Append(o, c), NEW n
    PROVE  /\ c.word # "LOGIN" /\ NoLogin(o) => NoLogin(p)
           /\ c.word # "LOGIN" /\ LoginIn(o, n) => LoginIn(p, n)
           /\ /\ c = Login(n) /\ c.word = "LOGIN"
              /\ \A i \in DOMAIN o : o[i].word \in {"LIST", "RANK"}
              => LoginIn(p, n)
<1> DEFINE N == Len(o)
<1>1. /\ DOMAIN p = 1..(N + 1) /\ N \in Nat /\ DOMAIN o = 1..N
      /\ \A i \in 1..N : p[i] = o[i]
      /\ p[N + 1] = c
  BY AppendProperties, LenProperties
<1> HIDE DEF N
<1>2. N + 1 \in DOMAIN p /\ \A i \in DOMAIN p : i = N + 1 \/ i \in 1..N
  BY <1>1, LastIndex
<1>3. c.word # "LOGIN" /\ NoLogin(o) => NoLogin(p)
  BY <1>1, <1>2 DEF NoLogin
<1>4. ASSUME c.word # "LOGIN", LoginIn(o, n)
      PROVE  LoginIn(p, n)
  <2>1. PICK i \in 1..N : /\ o[i] = Login(n)
                          /\ \A j \in 1..N : o[j].word = "LOGIN" => j = i
                          /\ \A j \in 1..N : j < i => o[j].word \in {"LIST", "RANK"}
    BY <1>1, <1>4 DEF LoginIn
  <2>2. i \in DOMAIN p /\ p[i] = Login(n) /\ ~(N + 1 < i)
    BY <1>1, <2>1
  <2>3. \A j \in DOMAIN p : p[j].word = "LOGIN" => j = i
    BY <1>1, <1>2, <1>4, <2>1
  <2>4. \A j \in DOMAIN p : j < i => p[j].word \in {"LIST", "RANK"}
    BY <1>1, <1>2, <2>1, <2>2
  <2> QED BY <2>2, <2>3, <2>4 DEF LoginIn
<1>5. ASSUME c = Login(n), c.word = "LOGIN",
             \A i \in DOMAIN o : o[i].word \in {"LIST", "RANK"}
      PROVE  LoginIn(p, n)
  <2>1. \A j \in 1..N : p[j].word \in {"LIST", "RANK"}
    BY <1>1, <1>5
  <2>2. \A j \in DOMAIN p : p[j].word = "LOGIN" => j = N + 1
    BY <1>2, <2>1
  <2>3. ~(N + 1 < N + 1)
    BY <1>1
  <2>4. \A j \in DOMAIN p : j < N + 1 => p[j].word \in {"LIST", "RANK"}
    BY <1>2, <2>1, <2>3
  <2> QED BY <1>1, <1>2, <1>5, <2>2, <2>4 DEF LoginIn
<1> QED BY <1>3, <1>4, <1>5

(* The handler receives the next command. *)
LEMMA OutTakes ==
    ASSUME NEW o \in Seq(Sent), o # <<>>, NEW p, p = Tail(o), NEW n
    PROVE  /\ NoLogin(o) => NoLogin(p) /\ Head(o).word # "LOGIN"
           /\ LoginIn(o, n) =>
                IF Head(o).word = "LOGIN" THEN Head(o) = Login(n) /\ NoLogin(p)
                ELSE Head(o).word \in {"LIST", "RANK"} /\ LoginIn(p, n)
<1> DEFINE N == Len(o)
<1>1. /\ DOMAIN p = 1..(N - 1) /\ N \in Nat \ {0} /\ DOMAIN o = 1..N
      /\ \A i \in 1..(N - 1) : p[i] = o[i + 1]
      /\ Head(o) = o[1]
  BY HeadTailProperties, EmptySeq, LenProperties
<1> HIDE DEF N
<1>2. /\ 1 \in DOMAIN o
      /\ \A i \in DOMAIN p : i + 1 \in DOMAIN o /\ i + 1 # 1 /\ p[i] = o[i + 1]
      /\ \A i \in DOMAIN o : i = 1 \/ (i - 1 \in DOMAIN p /\ p[i - 1] = o[i] /\ 1 < i)
      /\ DOMAIN o \subseteq Nat /\ DOMAIN p \subseteq Nat
  <2>1. \A i \in 1..(N - 1) : i + 1 \in 1..N /\ i + 1 # 1
    BY <1>1
  <2>2. \A i \in 1..N : i = 1 \/ (i - 1 \in 1..(N - 1) /\ (i - 1) + 1 = i /\ 1 < i)
    BY <1>1
  <2>3. 1 \in 1..N /\ 1..N \subseteq Nat /\ 1..(N - 1) \subseteq Nat
    BY <1>1
  <2> QED BY <1>1, <2>1, <2>2, <2>3
<1>3. NoLogin(o) => NoLogin(p) /\ Head(o).word # "LOGIN"
  BY <1>1, <1>2 DEF NoLogin
<1>4. ASSUME LoginIn(o, n), Head(o).word = "LOGIN"
      PROVE  Head(o) = Login(n) /\ NoLogin(p)
  BY <1>1, <1>2, <1>4 DEF LoginIn, NoLogin
<1>5. ASSUME LoginIn(o, n), Head(o).word # "LOGIN"
      PROVE  Head(o).word \in {"LIST", "RANK"} /\ LoginIn(p, n)
  <2>1. PICK i \in DOMAIN o : /\ o[i] = Login(n)
                              /\ \A j \in DOMAIN o : o[j].word = "LOGIN" => j = i
                              /\ \A j \in DOMAIN o : j < i => o[j].word \in {"LIST", "RANK"}
    BY <1>5 DEF LoginIn
  <2>2. i # 1 /\ i - 1 \in DOMAIN p /\ p[i - 1] = Login(n) /\ 1 < i
    BY <1>1, <1>2, <1>5, <2>1 DEF Login
  <2>3. \A j \in DOMAIN p : p[j].word = "LOGIN" => j = i - 1
    BY <1>2, <2>1
  <2>4. \A j \in DOMAIN p : j < i - 1 => j + 1 < i
    BY <1>2
  <2>5. \A j \in DOMAIN p : j < i - 1 => p[j].word \in {"LIST", "RANK"}
    BY <1>2, <2>1, <2>4
  <2> QED BY <1>1, <1>2, <2>1, <2>2, <2>3, <2>5 DEF LoginIn
<1> QED BY <1>3, <1>4, <1>5

(* Neither side changes its mind about the name. *)
SameNames ==
    /\ state'.nickname = state.nickname
    /\ state'.pending_nickname = state.pending_nickname
    /\ client'.nickname = client.nickname

LEMMA AuthFrame ==
    ASSUME AuthInv, connected, ~hasty, SameNames,
           state.pending_nickname # None /\ Asked => Asked' \/ Answered',
           NoLogin(out) => NoLogin(out'),
           state.pending_nickname # None /\ Answered => Answered'
    PROVE  AuthInv'
<1>1. NickTruth'
  BY DEF AuthInv, NickTruth, KnownAs, logged_in, SameNames
<1>2. state'.pending_nickname = None <=> state.pending_nickname = None
  BY DEF SameNames
<1> QED BY <1>1, <1>2 DEF AuthInv

(* The answer stays the first. *)
LEMMA AnswerStays ==
    ASSUME NEW k, NEW b, Inserted(Stream, Stream', k, b), SameNames,
           Lacks(b, Answers) \/ \A i \in DOMAIN Stream : i < k
    PROVE  AnswerIn(Stream) => AnswerIn(Stream)'
<1> SUFFICES ASSUME AnswerIn(Stream) PROVE AnswerIn(Stream)'
  OBVIOUS
<1>1. PICK i \in DOMAIN Stream :
        /\ FirstAnswer(Stream, i)
        /\ client.nickname = IF Stream[i].kind = "ERR" THEN KnownAs
                             ELSE state.pending_nickname
  BY DEF AnswerIn
<1>2. FirstAnswer(Stream', Up(k, b, i))
  BY <1>1, InsertAnswers
<1>3. Up(k, b, i) \in DOMAIN Stream' /\ Stream'[Up(k, b, i)] = Stream[i]
  BY DEF Inserted
<1>4. KnownAs' = KnownAs
  BY DEF KnownAs, logged_in, SameNames
<1> QED BY <1>1, <1>2, <1>3, <1>4 DEF AnswerIn, SameNames

(* Others send something, or the handler something that answers nothing. *)
LEMMA OthersAuth ==
    ASSUME AuthInv, connected, ~hasty, SameNames,
           NEW k, NEW b, Inserted(Stream, Stream', k, b), Lacks(b, Answers),
           NoLogin(out) => NoLogin(out'), pc' = pc,
           LoginIn(out, state.pending_nickname) => LoginIn(out', state.pending_nickname)
    PROVE  AuthInv'
<1>1. Answered => Answered'
  BY AnswerStays DEF Answered
<1>2. NoAnswer(Stream) => NoAnswer(Stream')
  BY InsertAnswers
<1>3. KnownAs' = KnownAs
  BY DEF KnownAs, logged_in, SameNames
<1>4. Asked => Asked'
  BY <1>2, <1>3 DEF Asked, SameNames
<1> QED BY <1>1, <1>4, AuthFrame

(* Nothing is sent. *)
LEMMA SilentAuth ==
    ASSUME AuthInv, connected, ~hasty, SameNames, Stream' = Stream,
           NoLogin(out) => NoLogin(out'), pc' = pc,
           LoginIn(out, state.pending_nickname) => LoginIn(out', state.pending_nickname)
    PROVE  AuthInv'
<1>1. KnownAs' = KnownAs
  BY DEF KnownAs, logged_in, SameNames
<1>2. AnswerIn(Stream) => AnswerIn(Stream)'
  BY <1>1 DEF AnswerIn, SameNames
<1>3. Answered => Answered'
  BY <1>2 DEF Answered
<1>4. Asked => Asked'
  BY <1>1 DEF Asked, SameNames
<1> QED BY <1>3, <1>4, AuthFrame

(* The handler answers something else than a login. *)
LEMMA WorkAuth ==
    ASSUME TypeOK, TypeOK', AuthInv, connected, ~hasty, SameNames, todo = <<>>, in' = in,
           ~Asked, NoLogin(out) => NoLogin(out')
    PROVE  AuthInv'
<1>1. AnswerIn(Stream) => AnswerIn(Stream)'
  BY AnswersStream, AnswerStays
<1>2. Answered => Answered'
  BY <1>1 DEF Answered
<1> QED BY <1>2, AuthFrame

(* What the handler receives. *)
LEMMA NextCommand ==
    ASSUME TypeOK, NEW w, Receives(w)
    PROVE  /\ NoLogin(out) => NoLogin(out') /\ w # "LOGIN"
           /\ w \notin {"LOGIN", "LIST", "RANK"} => ~Asked
           /\ w # "LOGIN" =>
                \A n : LoginIn(out, n) => LoginIn(out', n)
           /\ w = "LOGIN" =>
                \A n : LoginIn(out, n) => Head(out) = Login(n) /\ NoLogin(out')
<1>1. out \in Seq(Sent) /\ out # <<>> /\ out' = Tail(out) /\ Head(out).word = w
  BY DEF TypeOK, Receives
<1>2. \A n : /\ NoLogin(out) => NoLogin(out') /\ Head(out).word # "LOGIN"
             /\ LoginIn(out, n) =>
                IF Head(out).word = "LOGIN" THEN Head(out) = Login(n) /\ NoLogin(out')
                ELSE Head(out).word \in {"LIST", "RANK"} /\ LoginIn(out', n)
  BY <1>1, OutTakes
<1> QED BY <1>1, <1>2 DEF Asked

LEMMA CommandAuth ==
    ASSUME TypeOK, TypeOK', AuthInv, connected, ~hasty, SameNames, todo = <<>>, in' = in,
           NEW w \in {"READY", "START", "RESET", "MOVE", "VIEW"}, Receives(w)
    PROVE  AuthInv'
<1>1. (NoLogin(out) => NoLogin(out')) /\ ~Asked
  BY NextCommand
<1> QED BY <1>1, WorkAuth

(* In the answers there is nothing but what is still to be sent or taken. *)
LEMMA NothingAnswered ==
    ASSUME TypeOK, ~Unanswered
    PROVE  /\ pc = "idle" /\ NoAnswer(Stream)
           /\ \A i \in DOMAIN out : out[i].word \in {"LIST", "RANK"}
<1>1. in \in Seq(Pieces) /\ todo \in Seq(Pieces)
  BY InPieces
<1>2. /\ DOMAIN (todo \o in) = 1..(Len(todo) + Len(in))
      /\ Len(in) \in Nat /\ Len(todo) \in Nat
      /\ \A i \in 1..Len(todo) : (todo \o in)[i] = todo[i]
      /\ \A i \in 1..Len(in) : (todo \o in)[Len(todo) + i] = in[i]
  BY <1>1, Joined
<1>3. /\ DOMAIN Stream = 1..(Len(in) + Len(todo))
      /\ \A i \in 1..Len(in) : Stream[i] = in[i]
      /\ \A i \in 1..Len(todo) : Stream[Len(in) + i] = todo[i]
  BY <1>1, Joined DEF Stream
<1>4. \A i \in 1..(Len(todo) + Len(in)) : (todo \o in)[i].kind \notin Answers
  BY <1>2 DEF Unanswered, Answers
<1>5. ASSUME NEW j \in DOMAIN Stream
      PROVE  \E i \in 1..(Len(todo) + Len(in)) : Stream[j] = (todo \o in)[i]
  <2>1. CASE j \in 1..Len(in)
    <3>1. Len(todo) + j \in 1..(Len(todo) + Len(in))
      BY <1>2, <2>1
    <3> QED BY <1>2, <1>3, <2>1, <3>1
  <2>2. CASE j \notin 1..Len(in)
    <3>1. j - Len(in) \in 1..Len(todo) /\ Len(in) + (j - Len(in)) = j
      BY <1>2, <1>3, <2>2
    <3>2. Stream[j] = (todo \o in)[j - Len(in)]
      BY <1>2, <1>3, <3>1
    <3>3. j - Len(in) \in 1..(Len(todo) + Len(in))
      BY <1>2, <3>1
    <3> QED BY <3>2, <3>3
  <2> QED BY <2>1, <2>2
<1>6. NoAnswer(Stream)
  BY <1>4, <1>5 DEF NoAnswer
<1> QED BY <1>6 DEF Unanswered

(* The client takes a message. *)
LEMMA TakesAuth ==
    ASSUME TypeOK, AuthInv, connected, ~hasty, handle_server_message
    PROVE  AuthInv'
<1> USE DEF handler, session_vars
<1>1. /\ Taken(Stream, Stream') /\ Stream[1] = Message /\ Message \in Messages
      /\ state \in ClientState /\ out \in Seq(Sent) /\ client \in Client_t
      /\ UNCHANGED <<client, pc>>
  BY TakesStream DEF TypeOK, handle_server_message
<1>2. None # Guest /\ None \notin Nicks /\ Guest \notin Nicks
  BY NamesAssumption
<1>3. ASSUME Message.kind \in Answers, state.pending_nickname # None
      PROVE  /\ NoLogin(out)
             /\ client.nickname = IF Message.kind = "ERR" THEN KnownAs
                                  ELSE state.pending_nickname
  <2>1. ~NoAnswer(Stream)
    BY <1>1, <1>3, TakenAnswers
  <2>2. Answered
    BY <1>3, <2>1 DEF AuthInv, Asked
  <2>3. PICK i \in DOMAIN Stream :
          /\ FirstAnswer(Stream, i)
          /\ client.nickname = IF Stream[i].kind = "ERR" THEN KnownAs
                               ELSE state.pending_nickname
    BY <2>2 DEF Answered, AnswerIn
  <2>4. i = 1
    BY <1>1, <1>3, <2>3, TakenAnswers
  <2> QED BY <1>1, <2>2, <2>3, <2>4 DEF Answered
<1>4. CASE HandleOK
  <2>1. out' = out /\ Message.kind \in Answers /\ Message.kind # "ERR"
    BY <1>4 DEF HandleOK, Answers, Oks
  <2>2. CASE state.pending_nickname = None
    <3>1. SameNames
      BY <1>1, <1>4, <2>2 DEF SameNames, HandleOK, confirm_auth, ClientState
    <3> QED BY <2>1, <2>2, <3>1, AuthFrame
  <2>3. CASE state.pending_nickname # None
    <3>1. /\ state'.nickname = state.pending_nickname /\ state'.pending_nickname = None
          /\ state.pending_nickname \in Nicks
      BY <1>1, <1>4, <2>3 DEF HandleOK, confirm_auth, ClientState
    <3>2. NoLogin(out) /\ client'.nickname = state'.nickname
      BY <1>1, <1>3, <2>1, <2>3, <3>1
    <3> QED BY <1>2, <2>1, <3>1, <3>2 DEF AuthInv, NickTruth, KnownAs, logged_in
  <2> QED BY <2>2, <2>3
<1>5. CASE HandleERR
  <2>1. out' = out /\ Message.kind \in Answers /\ Message.kind = "ERR"
    BY <1>5 DEF HandleERR, Answers
  <2>2. state'.nickname = state.nickname /\ state'.pending_nickname = None
    BY <1>1, <1>5 DEF HandleERR, clear_pending_auth, ClientState
  <2>3. NoLogin(out) /\ client.nickname = KnownAs
    BY <1>3, <2>1 DEF AuthInv, NickTruth
  <2>4. KnownAs' = KnownAs /\ (logged_in' <=> logged_in)
    BY <2>2 DEF KnownAs, logged_in
  <2> QED BY <1>1, <2>1, <2>2, <2>3, <2>4 DEF AuthInv, NickTruth
<1>6. CASE HandleStarted \/ HandleEnded \/ HandleLobby \/ handle_users_message
  <2>1. SameNames
    BY <1>1, <1>6
    DEF SameNames, HandleStarted, HandleEnded, HandleLobby, handle_users_message, ClientState
  <2>2. Message.kind \notin Answers
    BY <1>6
    DEF HandleStarted, HandleEnded, HandleLobby, handle_users_message, Answers, Oks
  <2>3. \/ out' = out
        \/ \E c \in {Command("RANK"), Command("LIST")} : out' = Append(out, c)
    BY <1>6 DEF HandleStarted, HandleEnded, HandleLobby, handle_users_message
  <2>4. /\ NoLogin(out) => NoLogin(out')
        /\ \A n : LoginIn(out, n) => LoginIn(out', n)
    <3>1. /\ Command("RANK") \in Sent /\ Command("RANK").word # "LOGIN"
          /\ Command("LIST") \in Sent /\ Command("LIST").word # "LOGIN"
      BY Commands DEF Typed
    <3> QED BY <1>1, <2>3, <3>1, OutAppends
  <2>5. KnownAs' = KnownAs
    BY <2>1 DEF KnownAs, logged_in, SameNames
  <2>6. AnswerIn(Stream) => AnswerIn(Stream)'
    <3> SUFFICES ASSUME AnswerIn(Stream) PROVE AnswerIn(Stream)'
      OBVIOUS
    <3>1. PICK i \in DOMAIN Stream :
            /\ FirstAnswer(Stream, i)
            /\ client.nickname = IF Stream[i].kind = "ERR" THEN KnownAs
                                 ELSE state.pending_nickname
      BY DEF AnswerIn
    <3>2. /\ i - 1 \in DOMAIN Stream' /\ Stream'[i - 1] = Stream[i]
          /\ FirstAnswer(Stream', i - 1)
      BY <1>1, <2>2, <3>1, TakenAnswers
    <3> QED BY <2>1, <2>5, <3>1, <3>2 DEF AnswerIn, SameNames
  <2>7. NoAnswer(Stream) => NoAnswer(Stream')
    BY <1>1, TakenAnswers
  <2>8. (Asked => Asked') /\ (Answered => Answered')
    BY <1>1, <2>1, <2>4, <2>5, <2>6, <2>7 DEF Asked, Answered, SameNames
  <2> QED BY <2>1, <2>4, <2>8, AuthFrame
<1> QED BY <1>4, <1>5, <1>6 DEF handle_server_message

(* The handler answers a login. *)
LEMMA LoginAuth ==
    ASSUME TypeOK, TypeOK', AuthInv, connected, ~hasty, Stay, todo = <<>>, handle_login
    PROVE  /\ AuthInv'
           /\ NoAnswer(Stream) /\ state.pending_nickname # None
           /\ client.nickname = KnownAs
           /\ Head(out).nick = state.pending_nickname
<1> USE DEF client_side
<1>1. Receives("LOGIN") /\ in' = in /\ state' = state /\ connected' = connected
  BY DEF handle_login, Stay
<1>2. Asked /\ state.pending_nickname # None
  BY <1>1, NextCommand DEF AuthInv, Answered
<1>3. Head(out) = Login(state.pending_nickname) /\ NoLogin(out')
  BY <1>1, <1>2, NextCommand DEF Asked
<1>4. Head(out).nick = state.pending_nickname
  BY <1>3 DEF Login
<1>5. state.pending_nickname \in Nicks
  BY <1>2 DEF TypeOK, ClientState
<1>6. /\ 1 \in DOMAIN todo' /\ todo'[1].kind \in Answers
      /\ client'.nickname = IF todo'[1].kind = "ERR" THEN KnownAs
                            ELSE state.pending_nickname
  <2>1. CASE /\ client' = [client EXCEPT !.nickname = Head(out).nick]
             /\ todo' = <<Say("OK"), Say("USERS")>>
    <3>1. client'.nickname = state.pending_nickname
      BY <1>4, <2>1 DEF TypeOK, Client_t
    <3>2. 1 \in DOMAIN todo' /\ todo'[1] = Say("OK")
      BY <2>1
    <3>3. Say("OK").kind = "OK"
      BY Vocabulary
    <3> QED BY <3>1, <3>2, <3>3 DEF Answers, Oks
  <2>2. CASE client' = client /\ todo' = <<Say("ERR")>>
    <3>1. 1 \in DOMAIN todo' /\ todo'[1] = Say("ERR")
      BY <2>2
    <3>2. Say("ERR").kind = "ERR"
      BY Vocabulary
    <3> QED BY <1>2, <2>2, <3>1, <3>2 DEF Answers, Asked
  <2> QED BY <2>1, <2>2 DEF handle_login, Refuse, Answer
<1>7. Inserted(Stream, Stream', Len(in) + 1, todo')
  BY <1>1, AnswersStream
<1>8. /\ FirstAnswer(Stream', At(Len(in) + 1, 1))
      /\ At(Len(in) + 1, 1) \in DOMAIN Stream'
      /\ Stream'[At(Len(in) + 1, 1)] = todo'[1]
  <2>1. FirstAnswer(Stream', At(Len(in) + 1, 1))
    BY <1>2, <1>6, <1>7, InsertAnswers DEF Asked
  <2> QED BY <1>6, <1>7, <2>1 DEF Inserted
<1>9. KnownAs' = KnownAs /\ (logged_in' <=> logged_in)
  BY <1>1 DEF KnownAs, logged_in
<1>10. Answered'
  BY <1>1, <1>3, <1>6, <1>8, <1>9 DEF Answered, AnswerIn
<1>11. NickTruth'
  <2>1. client'.nickname = Guest => client'.nickname = KnownAs
    BY <1>5, <1>6, NamesAssumption
  <2>2. client'.nickname = Guest => ~logged_in
    BY <1>2, <2>1 DEF AuthInv, NickTruth, Asked
  <2> QED BY <1>1, <1>2, <1>9, <2>2 DEF NickTruth
<1> QED BY <1>1, <1>2, <1>4, <1>10, <1>11 DEF AuthInv, Asked

(* The user types a line. *)
LEMMA TypesAuth ==
    ASSUME TypeOK, AuthInv, connected, ~hasty, ~hasty', NEW cmd \in Sent, send_user_command(cmd)
    PROVE  AuthInv'
<1> USE DEF handler, session_vars
<1>1. /\ out \in Seq(Sent) /\ out' = Append(out, cmd)
      /\ UNCHANGED <<in, todo, pc, client>>
      /\ state \in ClientState
  BY DEF TypeOK, send_user_command
<1>2. Stream' = Stream
  BY <1>1 DEF Stream
<1>3. CASE cmd.word # "LOGIN"
  <2>1. SameNames
    BY <1>1, <1>3 DEF SameNames, send_user_command
  <2>2. /\ NoLogin(out) => NoLogin(out')
        /\ LoginIn(out, state.pending_nickname) => LoginIn(out', state.pending_nickname)
    BY <1>1, <1>3, OutAppends
  <2> QED BY <1>1, <1>2, <2>1, <2>2, SilentAuth
<1>4. CASE cmd.word = "LOGIN"
  <2>1. cmd.nick \in Nicks /\ cmd = Login(cmd.nick)
    BY <1>4, Commands
  <2>2. state'.pending_nickname = cmd.nick /\ state'.nickname = state.nickname
    BY <1>1, <1>4, <2>1 DEF send_user_command, ClientState
  <2>3. ~Unanswered
    BY <1>4 DEF send_user_command
  <2>4. /\ pc = "idle" /\ NoAnswer(Stream)
        /\ \A i \in DOMAIN out : out[i].word \in {"LIST", "RANK"}
    BY <2>3, NothingAnswered
  <2>5. client.nickname = KnownAs
    <3>1. CASE state.pending_nickname = None
      BY <3>1 DEF AuthInv, NickTruth
    <3>2. CASE Asked
      BY <3>2 DEF Asked
    <3>3. ~Answered
      BY <2>4 DEF Answered, AnswerIn, NoAnswer, FirstAnswer
    <3> QED BY <3>1, <3>2, <3>3 DEF AuthInv
  <2>6. LoginIn(out', cmd.nick)
    BY <1>1, <1>4, <2>1, <2>4, OutAppends
  <2>7. KnownAs' = KnownAs /\ (logged_in' <=> logged_in)
    BY <2>2 DEF KnownAs, logged_in
  <2>8. Asked'
    BY <1>1, <1>2, <2>2, <2>4, <2>5, <2>6, <2>7 DEF Asked
  <2>9. state'.pending_nickname # None
    BY <2>1, <2>2, NamesAssumption
  <2> QED BY <1>1, <2>7, <2>8, <2>9 DEF AuthInv, NickTruth
<1> QED BY <1>3, <1>4

(* One LOGIN sent too early is remembered. *)
LEMMA HastyStays == ASSUME [Next]_vars, hasty PROVE hasty'
  BY DEF Next, User, send_user_command, handle_movement_input, Tab, Leave,
         handle_server_message, handle_client, SendNext, handle_start, Stay,
         Others, Elsewhere, vars, client_side

LEMMA AuthStep ==
    ASSUME TypeOK, AuthInv, [Next]_vars
    PROVE  AuthInv'
<1> USE DEF client_side, handler, session_vars
<1>c. hasty' = FALSE => hasty = FALSE
  BY HastyStays
<1>d. hasty' => AuthInv'
  BY DEF AuthInv, NickTruth
<1> SUFFICES ASSUME ~hasty, ~hasty' PROVE AuthInv'
  BY <1>c, <1>d, TypeStep DEF TypeOK
<1>0. /\ TypeOK' /\ out \in Seq(Sent) /\ state \in ClientState /\ client \in Client_t
      /\ todo' = todo /\ in' = in => Stream' = Stream
  BY TypeStep DEF TypeOK, Stream
<1>a. /\ Lacks(<<Say("STARTED")>>, Answers) /\ Lacks(<<Say("ENDED")>>, Answers)
      /\ Lacks(<<Say("LOBBY")>>, Answers) /\ Lacks(<<UserList>>, Answers)
  <2>1. /\ Say("STARTED").kind = "STARTED" /\ Say("ENDED").kind = "ENDED"
        /\ Say("LOBBY").kind = "LOBBY" /\ UserList.kind = "USERS"
    BY Vocabulary DEF UserList
  <2>2. /\ Say("STARTED").kind \notin Answers /\ Say("ENDED").kind \notin Answers
        /\ Say("LOBBY").kind \notin Answers /\ UserList.kind \notin Answers
    BY <2>1 DEF Answers, Oks
  <2>3. \A m : m.kind \notin Answers => Lacks(<<m>>, Answers)
    BY Brings
  <2> QED BY <2>2, <2>3
<1>b. ForNextMatch.nickname = client.nickname
  BY <1>0 DEF ForNextMatch, Client_t
<1>1. ASSUME connected, NEW cmd \in Sent, send_user_command(cmd) PROVE AuthInv'
  BY <1>1, TypesAuth
<1>2. ASSUME connected, NEW word \in {"MOVE", "VIEW"}, handle_movement_input(word)
      PROVE  AuthInv'
  <2>1. /\ Command(word) \in Sent /\ Command(word).word # "LOGIN"
        /\ out' = Append(out, Command(word)) /\ UNCHANGED <<in, todo, pc>> /\ SameNames
    BY <1>2, Commands DEF handle_movement_input, SameNames, Typed
  <2> QED BY <1>0, <1>2, <2>1, OutAppends, SilentAuth
<1>3. ASSUME connected, Tab PROVE AuthInv'
  <2>1. UNCHANGED <<in, todo, pc, out>> /\ SameNames
    BY <1>0, <1>3 DEF Tab, SameNames, ClientState
  <2> QED BY <1>0, <1>3, <2>1, SilentAuth
<1>4. ASSUME Leave PROVE AuthInv'
  BY <1>4 DEF Leave, AuthInv, NickTruth, KnownAs, logged_in
<1>5. ASSUME connected, handle_server_message PROVE AuthInv'
  BY <1>5, TakesAuth
<1>6. ASSUME connected, SendNext PROVE AuthInv'
  <2>1. UNCHANGED <<out, client, pc>> /\ SameNames /\ Retold(Stream, Stream')
    BY <1>6, SendsStream DEF SendNext, SameNames
  <2>2. KnownAs' = KnownAs
    BY <2>1 DEF KnownAs, logged_in, SameNames
  <2>3. AnswerIn(Stream) => AnswerIn(Stream)'
    BY <2>1, <2>2, RetoldFacts DEF AnswerIn, SameNames, Retold
  <2>4. NoAnswer(Stream) => NoAnswer(Stream')
    BY <2>1, RetoldFacts
  <2>5. (Asked => Asked') /\ (Answered => Answered')
    BY <2>1, <2>2, <2>3, <2>4 DEF Asked, Answered, SameNames
  <2> QED BY <1>6, <2>1, <2>5, AuthFrame
<1>7. ASSUME connected, todo = <<>>, handle_start PROVE AuthInv'
  <2>1. Receives("START") /\ state' = state
    BY <1>7 DEF handle_start
  <2>2. SameNames
    BY <1>7, <1>b DEF handle_start, SameNames
  <2>3. CASE in' = in
    BY <1>0, <1>7, <2>1, <2>2, <2>3, CommandAuth
  <2>4. CASE in' = Append(in, Say("STARTED")) /\ UNCHANGED <<pc, todo>>
    <3>1. ~Asked /\ (NoLogin(out) => NoLogin(out'))
      BY <2>1, NextCommand
    <3>2. Say("STARTED") \in Messages
      BY Replies
    <3>3. AnswerIn(Stream) => AnswerIn(Stream)'
      BY <1>a, <2>2, <2>4, <3>2, SaysStream, AnswerStays
    <3>4. Answered => Answered'
      BY <3>1, <3>3 DEF Answered
    <3> QED BY <1>7, <2>2, <3>1, <3>4, AuthFrame
  <2> QED BY <1>7, <2>3, <2>4 DEF handle_start
<1>8. ASSUME connected, Stay, todo = <<>>, Greet PROVE AuthInv'
  <2>1. SameNames /\ in' = in /\ out' = out /\ ~Asked
    BY <1>8 DEF Stay, Greet, SameNames, Asked
  <2> QED BY <1>0, <1>8, <2>1, WorkAuth
<1>9. ASSUME connected, Stay, todo = <<>>, handle_login PROVE AuthInv'
  BY <1>0, <1>9, LoginAuth
<1>10. ASSUME connected, Stay, todo = <<>>, ReadyRead PROVE AuthInv'
  <2>1. SameNames /\ in' = in /\ Receives("READY")
    BY <1>10 DEF Stay, ReadyRead, SameNames
  <2> QED BY <1>0, <1>10, <2>1, CommandAuth
<1>11. ASSUME connected, Stay, todo = <<>>, ReadySet PROVE AuthInv'
  <2>1. SameNames /\ in' = in /\ out' = out /\ ~Asked
    BY <1>0, <1>11 DEF Stay, ReadySet, SameNames, Asked, Client_t
  <2> QED BY <1>0, <1>11, <2>1, WorkAuth
<1>12. ASSUME connected, Stay, todo = <<>>, ResetRead PROVE AuthInv'
  <2>1. SameNames /\ in' = in /\ Receives("RESET")
    BY <1>12 DEF Stay, ResetRead, SameNames
  <2> QED BY <1>0, <1>12, <2>1, CommandAuth
<1>13. ASSUME connected, Stay, todo = <<>>, ResetOwner PROVE AuthInv'
  <2>1. SameNames /\ in' = in /\ out' = out /\ ~Asked
    BY <1>13 DEF Stay, ResetOwner, SameNames, Asked
  <2> QED BY <1>0, <1>13, <2>1, WorkAuth
<1>14. ASSUME connected, Stay, todo = <<>>, ResetClients PROVE AuthInv'
  <2>1. SameNames /\ in' = in /\ out' = out /\ ~Asked
    BY <1>14, <1>b DEF Stay, ResetClients, SameNames, Asked
  <2> QED BY <1>0, <1>14, <2>1, WorkAuth
<1>15. ASSUME connected, Stay, todo = <<>>, MoveRead PROVE AuthInv'
  <2>1. SameNames /\ in' = in /\ Receives("MOVE")
    BY <1>15 DEF Stay, MoveRead, SameNames
  <2> QED BY <1>0, <1>15, <2>1, CommandAuth
<1>16. ASSUME connected, Stay, todo = <<>>, Move PROVE AuthInv'
  <2>1. SameNames /\ in' = in /\ out' = out /\ ~Asked
    BY <1>0, <1>16 DEF Stay, Move, SameNames, Asked, Client_t
  <2> QED BY <1>0, <1>16, <2>1, WorkAuth
<1>17. ASSUME connected, Stay, todo = <<>>, MoveDone PROVE AuthInv'
  <2>1. SameNames /\ in' = in /\ out' = out /\ ~Asked
    BY <1>17 DEF Stay, MoveDone, SameNames, Asked
  <2> QED BY <1>0, <1>17, <2>1, WorkAuth
<1>18. ASSUME connected, Stay, todo = <<>>, View PROVE AuthInv'
  <2>1. SameNames /\ in' = in /\ Receives("VIEW")
    BY <1>18 DEF Stay, View, SameNames
  <2> QED BY <1>0, <1>18, <2>1, CommandAuth
<1>19. ASSUME connected, Stay, todo = <<>>, handle_list PROVE AuthInv'
  <2>1. /\ SameNames /\ in' = in /\ pc' = pc /\ Receives("LIST")
        /\ todo' = <<UserList>>
    BY <1>19 DEF Stay, handle_list, Answer, SameNames
  <2>2. Inserted(Stream, Stream', Len(in) + 1, todo') /\ Lacks(todo', Answers)
    BY <1>0, <1>a, <1>19, <2>1, AnswersStream
  <2>3. /\ NoLogin(out) => NoLogin(out')
        /\ \A n : LoginIn(out, n) => LoginIn(out', n)
    BY <2>1, NextCommand
  <2> QED BY <1>19, <2>1, <2>2, <2>3, OthersAuth
<1>20. ASSUME connected, Stay, todo = <<>>, handle_rank PROVE AuthInv'
  <2>1. SameNames /\ UNCHANGED <<in, todo, pc>> /\ Receives("RANK")
    BY <1>20 DEF Stay, handle_rank, SameNames
  <2>2. /\ NoLogin(out) => NoLogin(out')
        /\ \A n : LoginIn(out, n) => LoginIn(out', n)
    BY <2>1, NextCommand
  <2> QED BY <1>0, <1>20, <2>1, <2>2, SilentAuth
<1>21. ASSUME connected, Elsewhere, SameNames, NEW m \in Messages,
              Lacks(<<m>>, Answers), in' = Append(in, m)
       PROVE  AuthInv'
  <2>1. UNCHANGED <<out, pc, todo>>
    BY <1>21 DEF Elsewhere
  <2>2. Inserted(Stream, Stream', Len(in) + 1, <<m>>)
    BY <1>21, <2>1, SaysStream
  <2> QED BY <1>21, <2>1, <2>2, OthersAuth
<1>22. ASSUME connected, Elsewhere, SameNames, in' = in
       PROVE  AuthInv'
  <2>1. UNCHANGED <<out, pc, todo>>
    BY <1>22 DEF Elsewhere
  <2> QED BY <1>0, <1>22, <2>1, SilentAuth
<1>23. ASSUME connected, Others PROVE AuthInv'
  <2>1. Elsewhere /\ state' = state /\ client'.nickname = client.nickname
    BY <1>23, <1>b
    DEF Others, Elsewhere, BroadcastUsers, OwnerChanges, OtherStart, End, EndUntold, TellEnd,
        OtherReset, OtherResetClients, OtherResetBcast
  <2>2. SameNames
    BY <2>1 DEF SameNames
  <2>3. \/ in' = in
        \/ \E m \in {UserList, Say("STARTED"), Say("ENDED"), Say("LOBBY")} :
            in' = Append(in, m)
    BY <1>23
    DEF Others, BroadcastUsers, OwnerChanges, OtherStart, End, EndUntold, TellEnd,
        OtherReset, OtherResetClients, OtherResetBcast
  <2>4. /\ UserList \in Messages /\ Say("STARTED") \in Messages
        /\ Say("ENDED") \in Messages /\ Say("LOBBY") \in Messages
    BY UserListIsMessage, Replies
  <2> QED BY <1>a, <1>21, <1>22, <1>23, <2>1, <2>2, <2>3, <2>4
<1>24. CASE UNCHANGED vars
  BY <1>24
  DEF vars, AuthInv, NickTruth, KnownAs, logged_in, Asked, Answered, AnswerIn, Stream
<1> QED
  BY <1>1, <1>2, <1>3, <1>4, <1>5, <1>6, <1>7, <1>8, <1>9, <1>10, <1>11, <1>12, <1>13,
     <1>14, <1>15, <1>16, <1>17, <1>18, <1>19, <1>20, <1>23, <1>24
  DEF Next, User, handle_client

(***************************************************************************)
(* Whether the client owns the session.                                    *)
(***************************************************************************)

(* Messages of a kind that is not there, and is not added. *)
LEMMA InsertNone ==
    ASSUME NEW s, NEW r, NEW K, Lacks(s, K)
    PROVE  /\ \A k, b : Inserted(s, r, k, b) /\ Lacks(b, K) => Lacks(r, K)
           /\ Taken(s, r) => Lacks(r, K)
<1>1. ASSUME NEW k, NEW b, Inserted(s, r, k, b), Lacks(b, K)
      PROVE  Lacks(r, K)
  BY <1>1 DEF Inserted, Lacks
<1>2. Taken(s, r) => Lacks(r, K)
  BY DEF Taken, Lacks
<1> QED BY <1>1, <1>2

(* While another client owns the session, what is sent to this one neither *)
(* makes it the owner nor says so in a list.                               *)
LEMMA OwnerBlock ==
    ASSUME TypeOK, Disowned(Stream), SameNames,
           state'.is_owner = state.is_owner, mistaken' = mistaken,
           NEW k, NEW b, Inserted(Stream, Stream', k, b),
           Lacks(b, {"OK owner"}), Spares(b, client.nickname),
           Lacks(b, Answers) \/ \A i \in DOMAIN Stream : i < k
    PROVE  Disowned(Stream)'
<1>1. KnownAs' = KnownAs
  BY DEF KnownAs, logged_in, SameNames
<1>2. \A i \in DOMAIN Stream' : Stream'[i].kind # "OK owner"
  <2>1. Lacks(Stream, {"OK owner"})
    BY DEF Disowned, Lacks
  <2>2. Lacks(Stream', {"OK owner"})
    BY <2>1, InsertNone
  <2> QED BY <2>2 DEF Lacks
<1>3. CASE NotOwner(Stream)
  <2>1. /\ NotNamed(Stream, 0, client.nickname)
        /\ state.is_owner => ListAfter(Stream, 0) \/ mistaken
        /\ client.nickname = KnownAs
    BY <1>3 DEF NotOwner
  <2>2. /\ NotNamed(Stream', 0, client.nickname)
        /\ state.is_owner => ListAfter(Stream', 0) \/ mistaken
    BY <2>1, InsertLists
  <2> QED BY <1>1, <1>2, <2>1, <2>2 DEF Disowned, NotOwner, SameNames
<1>4. CASE Renamed(Stream)
  <2>1. PICK i \in DOMAIN Stream :
          /\ FirstAnswer(Stream, i) /\ Stream[i].kind \in Oks
          /\ ListAfter(Stream, i) /\ NotNamed(Stream, i, client.nickname)
    BY <1>4 DEF Renamed
  <2>2. FirstAnswer(Stream', Up(k, b, i))
    BY <2>1, InsertAnswers
  <2>3. /\ ListAfter(Stream', Up(k, b, i))
        /\ NotNamed(Stream', Up(k, b, i), client.nickname)
    BY <2>1, InsertLists
  <2>4. Up(k, b, i) \in DOMAIN Stream' /\ Stream'[Up(k, b, i)] = Stream[i]
    BY DEF Inserted
  <2>5. Renamed(Stream)'
    BY <1>4, <2>1, <2>2, <2>3, <2>4 DEF Renamed, SameNames
  <2> QED BY <1>2, <2>5 DEF Disowned
<1> QED BY <1>3, <1>4 DEF Disowned

LEMMA OwnerSilent ==
    ASSUME Disowned(Stream), Stream' = Stream, client'.nickname = client.nickname,
           state'.nickname = state.nickname, state'.is_owner = state.is_owner,
           state.pending_nickname # None => state'.pending_nickname # None,
           mistaken' = mistaken
    PROVE  Disowned(Stream)'
<1>1. KnownAs' = KnownAs
  BY DEF KnownAs, logged_in
<1>2. NotOwner(Stream) => NotOwner(Stream)'
  BY <1>1 DEF NotOwner
<1>3. Renamed(Stream) => Renamed(Stream)'
  BY DEF Renamed
<1> QED BY <1>2, <1>3 DEF Disowned

(* The client takes a message. *)
LEMMA TakesOwner ==
    ASSUME TypeOK, AuthInv, connected, ~hasty, Disowned(Stream), handle_server_message
    PROVE  Disowned(Stream)'
<1> USE DEF handler, session_vars
<1> DEFINE n == client.nickname
<1>1. /\ Taken(Stream, Stream') /\ Stream[1] = Message
      /\ state \in ClientState /\ UNCHANGED <<client, pc>>
  BY TakesStream DEF TypeOK, handle_server_message
<1>2. \A i \in DOMAIN Stream' : Stream'[i].kind # "OK owner"
  <2>1. Lacks(Stream, {"OK owner"})
    BY DEF Disowned, Lacks
  <2>2. Lacks(Stream', {"OK owner"})
    BY <1>1, <2>1, InsertNone
  <2> QED BY <2>2 DEF Lacks
<1>3. Message.kind # "OK owner"
  BY <1>1 DEF Taken, Disowned
<1>4. ASSUME Message.kind \in Oks
      PROVE  /\ HandleOK /\ state'.is_owner = state.is_owner /\ mistaken' = mistaken
             /\ state.pending_nickname = None => state'.nickname = state.nickname
             /\ state.pending_nickname # None =>
                    state'.nickname = state.pending_nickname /\ state'.nickname \in Nicks
  <2>1. HandleOK
    BY <1>4
    DEF handle_server_message, HandleERR, HandleStarted, HandleEnded, HandleLobby,
        handle_users_message, Oks
  <2> QED BY <1>1, <1>3, <2>1 DEF HandleOK, confirm_auth, ClientState
<1>5. ASSUME Message.kind \in Oks, state.pending_nickname # None
      PROVE  client.nickname = state.pending_nickname
  <2>1. Message.kind \in Answers /\ Message.kind # "ERR"
    BY <1>5 DEF Answers, Oks
  <2>2. ~NoAnswer(Stream)
    BY <1>1, <2>1, TakenAnswers
  <2>3. Answered
    BY <1>5, <2>2 DEF AuthInv, Asked
  <2>4. PICK i \in DOMAIN Stream :
          /\ FirstAnswer(Stream, i)
          /\ client.nickname = IF Stream[i].kind = "ERR" THEN KnownAs
                               ELSE state.pending_nickname
    BY <2>3 DEF Answered, AnswerIn
  <2>5. i = 1
    BY <1>1, <2>1, <2>4, TakenAnswers
  <2> QED BY <1>1, <2>1, <2>4, <2>5
<1>6. ASSUME Message.kind \in Oks, NotNamed(Stream', 0, n),
             state.is_owner => ListAfter(Stream', 0) \/ mistaken,
             state.pending_nickname # None \/ n = KnownAs
      PROVE  NotOwner(Stream)'
  <2>1. n = KnownAs'
    BY <1>4, <1>5, <1>6, NamesAssumption DEF KnownAs, logged_in
  <2> QED BY <1>1, <1>4, <1>6, <2>1 DEF NotOwner
<1>7. CASE NotOwner(Stream)
  <2>1. /\ n = KnownAs /\ NotNamed(Stream, 0, n) /\ NotNamed(Stream', 0, n)
        /\ Message.kind = "USERS" => Message.name # n
        /\ state.is_owner /\ Message.kind # "USERS" => ListAfter(Stream', 0) \/ mistaken
    BY <1>1, <1>7, TakenLists DEF NotOwner
  <2>2. CASE Message.kind \in Oks
    <3>1. Message.kind # "USERS"
      BY <2>2 DEF Oks
    <3> QED BY <1>2, <1>6, <2>1, <2>2, <3>1 DEF Disowned
  <2>3. CASE HandleERR \/ HandleStarted \/ HandleEnded \/ HandleLobby
    <3>1. /\ state'.nickname = state.nickname /\ state'.is_owner = state.is_owner
          /\ Message.kind # "USERS" /\ mistaken' = mistaken
      BY <1>1, <2>3
      DEF HandleERR, HandleStarted, HandleEnded, HandleLobby, clear_pending_auth, ClientState
    <3>2. KnownAs' = KnownAs
      BY <3>1 DEF KnownAs, logged_in
    <3> QED BY <1>1, <1>2, <2>1, <3>1, <3>2 DEF Disowned, NotOwner
  <2>4. CASE handle_users_message
    <3>1. /\ state'.nickname = state.nickname /\ state'.is_owner = OwnLine(Message.name)
          /\ Message.kind = "USERS"
      BY <1>1, <2>4 DEF handle_users_message, ClientState
    <3>2. KnownAs' = KnownAs
      BY <3>1 DEF KnownAs, logged_in
    <3>3. OwnLine(Message.name) => mistaken'
      <4>1. mistaken' = (/\ <<state.nickname, Message.name>> \in Within
                         /\ Message.name # state.nickname)
        BY <2>4 DEF handle_users_message
      <4> QED BY <2>1, <3>1, <4>1 DEF OwnLine, KnownAs, logged_in
    <3> QED BY <1>1, <1>2, <2>1, <3>1, <3>2, <3>3 DEF Disowned, NotOwner
  <2> QED BY <2>2, <2>3, <2>4 DEF handle_server_message, HandleOK
<1>8. CASE Renamed(Stream)
  <2>1. PICK i \in DOMAIN Stream :
          /\ FirstAnswer(Stream, i) /\ Stream[i].kind \in Oks
          /\ ListAfter(Stream, i) /\ NotNamed(Stream, i, n)
    BY <1>8 DEF Renamed
  <2>2. NotNamed(Stream', i - 1, n) /\ ListAfter(Stream', i - 1)
    BY <1>1, <2>1, TakenLists
  <2>3. CASE Message.kind \in Answers
    <3>1. i = 1
      BY <1>1, <2>1, <2>3, TakenAnswers
    <3>2. Message.kind \in Oks /\ i - 1 = 0
      BY <1>1, <2>1, <3>1
    <3>3. NotNamed(Stream', 0, n) /\ ListAfter(Stream', 0)
      BY <2>2, <3>2
    <3> QED BY <1>2, <1>6, <1>8, <3>2, <3>3 DEF Disowned, Renamed
  <2>4. CASE Message.kind \notin Answers
    <3>1. /\ i - 1 \in DOMAIN Stream' /\ Stream'[i - 1] = Stream[i]
          /\ FirstAnswer(Stream', i - 1)
      BY <1>1, <2>1, <2>4, TakenAnswers
    <3>2. state'.pending_nickname = state.pending_nickname
      BY <1>1, <2>4
      DEF handle_server_message, HandleOK, HandleERR, HandleStarted, HandleEnded,
          HandleLobby, handle_users_message, Answers, ClientState
    <3>3. Renamed(Stream)'
      BY <1>1, <1>8, <2>1, <2>2, <3>1, <3>2 DEF Renamed
    <3> QED BY <1>2, <3>3 DEF Disowned
  <2> QED BY <2>3, <2>4
<1> QED BY <1>7, <1>8 DEF Disowned

(* The handler sends a piece: a list it builds names the owner. *)
LEMMA SendsOwner ==
    ASSUME TypeOK, Disowned(Stream), owner # Me, SendNext
    PROVE  Disowned(Stream)'
<1>1. /\ Retold(Stream, Stream') /\ UNCHANGED <<state, client, mistaken>>
      /\ \A j \in DOMAIN Stream : Stream'[j] = Stream[j] \/ Stream'[j] = UserList
  BY SendsStream DEF SendNext, client_side
<1>2. UserList.name # client.nickname
  BY DEF UserList, TypeOK
<1>3. \A i : NotNamed(Stream, i, client.nickname) => NotNamed(Stream', i, client.nickname)
  BY <1>1, <1>2, RetoldFacts
<1>4. KnownAs' = KnownAs
  BY <1>1 DEF KnownAs, logged_in
<1>5. NotOwner(Stream) => NotOwner(Stream)'
  BY <1>1, <1>3, <1>4, RetoldFacts DEF NotOwner
<1>6. Renamed(Stream) => Renamed(Stream)'
  BY <1>1, <1>3, RetoldFacts DEF Renamed, Retold
<1>7. \A i \in DOMAIN Stream' : Stream'[i].kind # "OK owner"
  BY <1>1 DEF Retold, Disowned
<1> QED BY <1>5, <1>6, <1>7 DEF Disowned

LEMMA OwnerStep ==
    ASSUME TypeOK, AuthInv, OwnerInv, [Next]_vars
    PROVE  OwnerInv'
<1> USE DEF client_side, handler, session_vars
<1>a. owner' # Me => owner # Me
  BY DEF Next, User, send_user_command, handle_movement_input, Tab, Leave,
         handle_server_message, handle_client, SendNext, handle_start, Stay, Greet,
         handle_login, ReadyRead, ReadySet, ResetRead, ResetOwner, ResetClients,
         MoveRead, Move, MoveDone, View, handle_list, handle_rank, Others,
         BroadcastUsers, OwnerChanges, OtherStart, End, EndUntold, TellEnd, OtherReset,
         OtherResetClients, OtherResetBcast, vars
<1>b. connected' => connected
  BY DEF Next, vars
<1> SUFFICES ASSUME connected, connected', ~hasty, owner # Me, owner' # Me,
                    Disowned(Stream)
             PROVE  Disowned(Stream)'
  BY <1>a, <1>b, HastyStays DEF OwnerInv
<1>0. /\ TypeOK' /\ state \in ClientState /\ client \in Client_t
      /\ todo' = todo /\ in' = in => Stream' = Stream
      /\ owner # client.nickname /\ client.nickname # None
  BY TypeStep, NamesAssumption DEF TypeOK, Stream, Client_t
<1>c. ForNextMatch.nickname = client.nickname
  BY <1>0 DEF ForNextMatch, Client_t
<1>d. \A m : m.name # client.nickname \/ m.kind # "USERS" =>
        Spares(<<m>>, client.nickname)
  BY DEF Spares
<1>e. \A m, l : /\ m.name # client.nickname \/ m.kind # "USERS"
                /\ l.name # client.nickname \/ l.kind # "USERS"
                => Spares(<<m, l>>, client.nickname)
  BY DEF Spares
<1>f. \A k : Say(k).kind = k /\ Say(k).name = None
  BY Vocabulary
<1>g. UserList.kind = "USERS" /\ UserList.name # client.nickname
  BY <1>0 DEF UserList
<1>1. ASSUME NEW cmd \in Sent, send_user_command(cmd) PROVE Disowned(Stream)'
  <2>1. /\ UNCHANGED <<in, todo, client, mistaken>>
        /\ state'.nickname = state.nickname /\ state'.is_owner = state.is_owner
    BY <1>0, <1>1 DEF send_user_command, ClientState
  <2>2. state.pending_nickname # None => state'.pending_nickname # None
    <3>1. CASE cmd.word = "LOGIN"
      <4>1. cmd.nick \in Nicks
        BY <3>1, Commands
      <4> QED BY <1>0, <1>1, <3>1, <4>1, NamesAssumption DEF send_user_command, ClientState
    <3>2. CASE cmd.word # "LOGIN"
      BY <1>1, <3>2 DEF send_user_command
    <3> QED BY <3>1, <3>2
  <2> QED BY <1>0, <2>1, <2>2, OwnerSilent
<1>2. ASSUME NEW word \in {"MOVE", "VIEW"}, handle_movement_input(word)
      PROVE  Disowned(Stream)'
  <2>1. UNCHANGED <<in, todo, client, state, mistaken>>
    BY <1>2 DEF handle_movement_input
  <2> QED BY <1>0, <2>1, OwnerSilent
<1>3. ASSUME Tab PROVE Disowned(Stream)'
  <2>1. /\ UNCHANGED <<in, todo, client, mistaken>>
        /\ state'.nickname = state.nickname /\ state'.is_owner = state.is_owner
        /\ state'.pending_nickname = state.pending_nickname
    BY <1>0, <1>3 DEF Tab, ClientState
  <2> QED BY <1>0, <2>1, OwnerSilent
<1>4. ~Leave
  BY DEF Leave
<1>5. ASSUME handle_server_message PROVE Disowned(Stream)'
  BY <1>5, TakesOwner
<1>6. ASSUME SendNext PROVE Disowned(Stream)'
  BY <1>6, SendsOwner
<1>7. ASSUME todo = <<>>, in' = in, SameNames, state'.is_owner = state.is_owner,
             mistaken' = mistaken, Lacks(todo', {"OK owner"}), Spares(todo', client.nickname)
      PROVE  Disowned(Stream)'
  <2>1. /\ Inserted(Stream, Stream', Len(in) + 1, todo')
        /\ \A i \in DOMAIN Stream : i < Len(in) + 1
    BY <1>0, <1>7, AnswersStream
  <2> QED BY <1>7, <2>1, OwnerBlock
<1>8. ASSUME todo' = todo, NEW m \in Messages, in' = Append(in, m), SameNames,
             state'.is_owner = state.is_owner, mistaken' = mistaken, m.kind \notin Answers,
             m.kind = "USERS" => m.name # client.nickname
      PROVE  Disowned(Stream)'
  <2>1. /\ Lacks(<<m>>, Answers) /\ Lacks(<<m>>, {"OK owner"})
        /\ Spares(<<m>>, client.nickname)
    BY <1>8, <1>d, Brings DEF Answers, Oks
  <2>2. Inserted(Stream, Stream', Len(in) + 1, <<m>>)
    BY <1>8, SaysStream
  <2> QED BY <1>8, <2>1, <2>2, OwnerBlock
<1>9. ASSUME todo = <<>>, in' = in, SameNames, state'.is_owner = state.is_owner,
             mistaken' = mistaken,
             \/ todo' = <<>> \/ todo' = <<UserList>>
             \/ \E m \in {Say("ERR"), Say("OK"), Say("OK exit found"), Say("ENDED")} :
                    todo' = <<m>>
             \/ \E m \in {Say("OK"), Say("LOBBY")} : todo' = <<m, Say("USERS")>>
             \/ todo' = <<Say("OK"), Say("OK exit found")>>
      PROVE  Disowned(Stream)'
  <2>1. CASE todo' = <<>>
    BY <1>0, <1>9, <2>1, OwnerSilent DEF SameNames
  <2>2. CASE todo' = <<UserList>>
    <3>1. Lacks(todo', {"OK owner"}) /\ Spares(todo', client.nickname)
      BY <1>d, <1>g, <2>2, Brings
    <3> QED BY <1>7, <1>9, <3>1
  <2>3. ASSUME NEW k \in {"ERR", "OK", "OK exit found", "ENDED"}, todo' = <<Say(k)>>
        PROVE  Disowned(Stream)'
    <3>1. Lacks(todo', {"OK owner"}) /\ Spares(todo', client.nickname)
      BY <1>d, <1>f, <2>3, Brings
    <3> QED BY <1>7, <1>9, <3>1
  <2>4. ASSUME NEW k \in {"OK", "LOBBY"}, NEW l \in {"USERS", "OK exit found"},
               todo' = <<Say(k), Say(l)>>
        PROVE  Disowned(Stream)'
    <3>1. /\ Say(k).kind # "USERS" /\ Say(l).name # client.nickname
          /\ Say(k).kind \notin {"OK owner"} /\ Say(l).kind \notin {"OK owner"}
      BY <1>0, <1>f
    <3>2. Lacks(todo', {"OK owner"})
      BY <2>4, <3>1, Brings
    <3>3. Spares(todo', client.nickname)
      BY <1>e, <2>4, <3>1
    <3> QED BY <1>7, <1>9, <3>2, <3>3
  <2> QED BY <1>9, <2>1, <2>2, <2>3, <2>4
<1>10. ASSUME todo = <<>>, handle_start PROVE Disowned(Stream)'
  <2>1. /\ SameNames /\ state'.is_owner = state.is_owner /\ in' = in /\ mistaken' = mistaken
        /\ todo' = <<Say("ERR")>>
    BY <1>10 DEF handle_start, SameNames, Refuse, Answer
  <2> QED BY <1>9, <1>10, <2>1
<1>11. ASSUME Stay, todo = <<>>, handle_login PROVE Disowned(Stream)'
  <2>1. /\ in' = in /\ UNCHANGED <<state, mistaken>>
        /\ NoAnswer(Stream) /\ state.pending_nickname # None
        /\ client.nickname = KnownAs
        /\ Head(out).nick = state.pending_nickname
    BY <1>0, <1>11, LoginAuth DEF Stay
  <2>2. CASE client' = client /\ todo' = <<Say("ERR")>>
    BY <1>9, <1>11, <2>1, <2>2 DEF SameNames
  <2>3. CASE /\ client' = [client EXCEPT !.nickname = Head(out).nick]
             /\ todo' = <<Say("OK"), Say("USERS")>>
    <3> DEFINE k == Len(in) + 1
    <3>1. client'.nickname = state.pending_nickname /\ client'.nickname # None
      BY <1>0, <2>1, <2>3 DEF Client_t
    <3>2. /\ Inserted(Stream, Stream', k, todo')
          /\ \A i \in DOMAIN Stream : i < k
      BY <1>0, <1>11, <2>1, AnswersStream
    <3>3. /\ 1 \in DOMAIN todo' /\ todo'[1] = Say("OK")
          /\ 2 \in DOMAIN todo' /\ todo'[2] = Say("USERS")
          /\ \A l \in DOMAIN todo' : l = 1 \/ l = 2
      BY <2>3
    <3>4. FirstAnswer(Stream', At(k, 1)) /\ Say("OK").kind \in Oks
      BY <1>f, <2>1, <3>2, <3>3, InsertAnswers DEF Answers, Oks
    <3>5. /\ At(k, 1) \in DOMAIN Stream' /\ Stream'[At(k, 1)] = Say("OK")
          /\ At(k, 2) \in DOMAIN Stream' /\ Stream'[At(k, 2)] = Say("USERS")
      BY <3>2, <3>3 DEF Inserted
    <3>6. At(k, 1) < At(k, 2)
      <4>1. k \in Nat
        BY LenProperties DEF TypeOK
      <4> QED BY <4>1 DEF At
    <3>7. ListAfter(Stream', At(k, 1))
      BY <1>f, <3>5, <3>6 DEF ListAfter
    <3>8. NotNamed(Stream', At(k, 1), client'.nickname)
      <4> SUFFICES ASSUME NEW j \in DOMAIN Stream', At(k, 1) < j, Stream'[j].kind = "USERS"
                   PROVE  Stream'[j].name # client'.nickname
        BY DEF NotNamed
      <4>1. CASE \E l \in DOMAIN todo' : j = At(k, l)
        <5>1. Stream'[j] = Say("OK") \/ Stream'[j] = Say("USERS")
          BY <3>3, <3>5, <4>1
        <5> QED BY <1>f, <3>1, <5>1
      <4>2. ASSUME NEW i \in DOMAIN Stream, j = Up(k, todo', i)
            PROVE  FALSE
        <5>1. Up(k, todo', i) < At(k, 1) /\ Up(k, todo', i) \in Nat /\ At(k, 1) \in Nat
          BY <3>2, <3>3 DEF Inserted
        <5> QED BY <4>2, <5>1
      <4> QED BY <3>2, <4>1, <4>2 DEF Inserted
    <3>9. \A i \in DOMAIN Stream' : Stream'[i].kind # "OK owner"
      <4>1. Lacks(todo', {"OK owner"})
        <5>1. Say("OK").kind = "OK" /\ Say("USERS").kind = "USERS"
          BY <1>f
        <5>2. Say("OK").kind \notin {"OK owner"} /\ Say("USERS").kind \notin {"OK owner"}
          BY <5>1
        <5> QED BY <2>3, <5>2, Brings
      <4>2. Lacks(Stream, {"OK owner"})
        BY DEF Disowned, Lacks
      <4>3. Lacks(Stream', {"OK owner"})
        BY <3>2, <4>1, <4>2, InsertNone
      <4> QED BY <4>3 DEF Lacks
    <3>10. Renamed(Stream)'
      BY <2>1, <3>4, <3>5, <3>7, <3>8 DEF Renamed
    <3> QED BY <3>9, <3>10 DEF Disowned
  <2> QED BY <1>11, <2>2, <2>3 DEF handle_login, Refuse, Answer
<1>12. ASSUME todo = <<>>, Stay,
              \/ Greet \/ ReadyRead \/ ReadySet \/ ResetRead \/ ResetOwner \/ ResetClients
              \/ MoveRead \/ Move \/ MoveDone \/ View \/ handle_list \/ handle_rank
       PROVE  Disowned(Stream)'
  <2>1. in' = in /\ state' = state /\ mistaken' = mistaken
    BY <1>12 DEF Stay
  <2>2. client'.nickname = client.nickname
    BY <1>0, <1>12, <1>c
    DEF Greet, ReadyRead, ReadySet, ResetRead, ResetOwner, ResetClients, MoveRead, Move,
        MoveDone, View, handle_list, handle_rank, Client_t
  <2>3. SameNames /\ state'.is_owner = state.is_owner
    BY <2>1, <2>2 DEF SameNames
  <2>4. CASE Move
    <3>1. \/ todo' = <<>>
          \/ \E m \in {Say("ERR"), Say("OK")} : todo' = <<m>>
          \/ \E found \in {<<>>, <<Say("OK")>>} : todo' = Append(found, Say("OK exit found"))
      BY <1>12, <2>4 DEF Move, Refuse, Answer
    <3>2. ASSUME NEW found, found = <<>> \/ found = <<Say("OK")>>,
                 todo' = Append(found, Say("OK exit found"))
          PROVE  Disowned(Stream)'
      <4>1. /\ found \in Seq(Pieces) /\ Lacks(found, {"OK owner"})
            /\ Spares(found, client.nickname)
        <5>1. Spares(<<>>, client.nickname) /\ Spares(<<Say("OK")>>, client.nickname)
          BY <1>d, <1>f DEF Spares
        <5>2. Lacks(<<>>, {"OK owner"}) /\ Lacks(<<Say("OK")>>, {"OK owner"})
          BY <1>f, Brings
        <5> QED BY <3>2, <5>1, <5>2, Replies
      <4>2. Say("OK exit found").kind \notin {"OK owner", "USERS"}
        <5>1. Say("OK exit found").kind = "OK exit found"
          BY <1>f
        <5> QED BY <5>1
      <4>3. Lacks(todo', {"OK owner"}) /\ Spares(todo', client.nickname)
        BY <3>2, <4>1, <4>2, Replies, AppendLacks
      <4> QED BY <1>7, <1>12, <2>1, <2>3, <4>3
    <3> QED BY <1>9, <1>12, <2>1, <2>3, <3>1, <3>2
  <2>5. CASE Greet
    <3>1. todo' = <<Say("OK"), Say("USERS")>>
      BY <2>5 DEF Greet, Answer
    <3> QED BY <1>9, <1>12, <2>1, <2>3, <3>1
  <2>6. CASE ~Move /\ ~Greet
    <3>1. \/ todo' = <<>> \/ todo' = <<UserList>>
          \/ \E m \in {Say("ERR"), Say("ENDED")} : todo' = <<m>>
          \/ \E m \in {Say("OK"), Say("LOBBY")} : todo' = <<m, Say("USERS")>>
      BY <1>12, <2>6
      DEF ReadyRead, ReadySet, ResetRead, ResetOwner, ResetClients, MoveRead,
          MoveDone, View, handle_list, handle_rank, Refuse, Answer
    <3> QED BY <1>9, <1>12, <2>1, <2>3, <3>1
  <2> QED BY <2>4, <2>5, <2>6
<1>13. ASSUME Others PROVE Disowned(Stream)'
  <2>1. /\ todo' = todo /\ state' = state /\ client'.nickname = client.nickname
        /\ mistaken' = mistaken
    BY <1>13, <1>c
    DEF Others, Elsewhere, BroadcastUsers, OwnerChanges, OtherStart, End, EndUntold, TellEnd,
        OtherReset, OtherResetClients, OtherResetBcast
  <2>2. SameNames /\ state'.is_owner = state.is_owner
    BY <2>1 DEF SameNames
  <2>3. \/ in' = in
        \/ \E m \in {UserList, Say("STARTED"), Say("ENDED"), Say("LOBBY")} :
            in' = Append(in, m)
    BY <1>13
    DEF Others, BroadcastUsers, OwnerChanges, OtherStart, End, EndUntold, TellEnd,
        OtherReset, OtherResetClients, OtherResetBcast
  <2>4. /\ UserList \in Messages /\ Say("STARTED") \in Messages
        /\ Say("ENDED") \in Messages /\ Say("LOBBY") \in Messages
    BY UserListIsMessage, Replies
  <2>5. CASE in' = in
    BY <1>0, <2>1, <2>5, OwnerSilent
  <2>6. ASSUME NEW m \in {UserList, Say("STARTED"), Say("ENDED"), Say("LOBBY")},
               in' = Append(in, m)
        PROVE  Disowned(Stream)'
    <3>1. m \in Messages /\ m.kind \notin Answers
      BY <1>f, <1>g, <2>4 DEF Answers, Oks
    <3>2. m.kind = "USERS" => m.name # client.nickname
      BY <1>f, <1>g
    <3> QED BY <1>8, <2>1, <2>2, <2>6, <3>1, <3>2
  <2> QED BY <2>3, <2>5, <2>6
<1>14. ASSUME UNCHANGED vars PROVE Disowned(Stream)'
  <2>1. UNCHANGED <<in, todo, client, state, mistaken>>
    BY <1>14 DEF vars
  <2> QED BY <1>0, <2>1, OwnerSilent
<1> QED
  BY <1>1, <1>2, <1>3, <1>4, <1>5, <1>6, <1>10, <1>11, <1>12, <1>13, <1>14
  DEF Next, User, handle_client

LEMMA NamesInit == Init => TypeOK /\ AuthInv /\ OwnerInv
<1> SUFFICES ASSUME Init PROVE TypeOK /\ AuthInv /\ OwnerInv
  OBVIOUS
<1>1. TypeOK
  BY TypeInit
<1>2. DOMAIN Stream = {} /\ DOMAIN out = {}
  <2>1. DOMAIN Stream = {}
    BY NothingToTell DEF Init
  <2>2. out = <<>>
    BY DEF Init
  <2> QED BY <2>1, <2>2
<1>3. AuthInv
  BY <1>2 DEF Init, AuthInv, NickTruth, KnownAs, logged_in, NoLogin
<1>4. NotOwner(Stream)
  BY <1>2 DEF Init, NotOwner, KnownAs, logged_in, NotNamed
<1>5. OwnerInv
  BY <1>2, <1>4 DEF OwnerInv, Disowned
<1> QED BY <1>1, <1>3, <1>5

(* As long as the user has sent no LOGIN with an answer still to come, a   *)
(* client that awaits none shows the nickname the server has for it, and   *)
(* none while the server takes it for a guest.                             *)
THEOREM NicknameShown == Spec => []NickTruth
<1>1. Init => TypeOK /\ AuthInv
  BY NamesInit
<1>2. (TypeOK /\ AuthInv) /\ [Next]_vars => (TypeOK /\ AuthInv)'
  BY TypeStep, AuthStep
<1>3. AuthInv => NickTruth
  BY DEF AuthInv
<1> QED BY <1>1, <1>2, <1>3, PTL DEF Spec

(* A client that has been told everything and shows itself as owner is the *)
(* owner, whatever nicknames occur in each other's lines, unless its last  *)
(* list has just such a line or its nickname may be wrong.                 *)
THEOREM OwnershipShown == Spec => []OwnerClaim
<1> DEFINE I == TypeOK /\ AuthInv /\ OwnerInv
<1>1. Init => I
  BY NamesInit
<1>2. I /\ [Next]_vars => I'
  BY TypeStep, AuthStep, OwnerStep
<1>3. I => OwnerClaim
  <2> SUFFICES ASSUME I, AllTold, state.is_owner, owner # Me, ~mistaken, ~hasty
               PROVE  FALSE
    BY DEF OwnerClaim
  <2>1. DOMAIN Stream = {} /\ connected
    BY NothingToTell DEF AllTold
  <2>2. Disowned(Stream)
    BY <2>1 DEF OwnerInv
  <2> QED BY <2>1, <2>2 DEF Disowned, NotOwner, Renamed, ListAfter
<1> QED BY <1>1, <1>2, <1>3, PTL DEF Spec
=============================================================================
