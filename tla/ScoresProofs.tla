---------------------------- MODULE ScoresProofs ----------------------------
(***************************************************************************)
(* Theorems about Scores, for any connections, nicknames and bounds.       *)
(***************************************************************************)
EXTENDS Scores, Integers, SequencesExt, SequenceTheorems, WellFoundedInduction, TLAPS

(***************************************************************************)
(* Facts about lists and numbers.                                          *)
(***************************************************************************)
(* What unlinking the i-th entry does to each of the others. *)
LEMMA RemoveAtEntries ==
    ASSUME NEW S, NEW s \in Seq(S), NEW i \in 1..Len(s)
    PROVE  /\ RemoveAt(s, i) \in Seq(S)
           /\ Len(RemoveAt(s, i)) = Len(s) - 1
           /\ \A j \in 1..(Len(s) - 1) :
                RemoveAt(s, i)[j] = IF j < i THEN s[j] ELSE s[j + 1]
<1> DEFINE a == SubSeq(s, 1, i - 1)
           b == SubSeq(s, i + 1, Len(s))
<1>0. Len(s) \in Nat /\ i \in Int /\ \A j \in 1..Len(s) : s[j] \in S
  BY LenProperties, ElementOfSeq
<1>1. a \in Seq(S) /\ Len(a) = i - 1 /\ \A j \in 1..(i - 1) : a[j] = s[j]
  BY <1>0, SubSeqProperties
<1>2. /\ b \in Seq(S)
      /\ Len(b) = Len(s) - i
      /\ \A j \in 1..(Len(s) - i) : b[j] = s[i + j]
  BY <1>0, SubSeqProperties
<1>3. RemoveAt(s, i) = a \o b
  BY DEF RemoveAt
<1> HIDE DEF a, b
<1>4. /\ a \o b \in Seq(S)
      /\ Len(a \o b) = Len(a) + Len(b)
      /\ \A j \in 1..(Len(a) + Len(b)) :
            (a \o b)[j] = IF j <= Len(a) THEN a[j] ELSE b[j - Len(a)]
  BY <1>1, <1>2, ConcatProperties
<1>5. ASSUME NEW j \in 1..(Len(s) - 1)
      PROVE  (a \o b)[j] = IF j < i THEN s[j] ELSE s[j + 1]
  <2>1. j <= Len(a) <=> j < i
    BY <1>0, <1>1
  <2>2. CASE j < i
    BY <2>1, <2>2, <1>0, <1>1, <1>2, <1>4
  <2>3. CASE ~(j < i)
    <3>1. j - Len(a) \in 1..(Len(s) - i) /\ i + (j - Len(a)) = j + 1
      BY <2>3, <1>0, <1>1
    <3>2. (a \o b)[j] = b[j - Len(a)]
      BY <2>1, <2>3, <1>0, <1>1, <1>2, <1>4
    <3> QED BY <2>3, <3>1, <3>2, <1>2
  <2> QED BY <2>2, <2>3
<1> QED BY <1>0, <1>1, <1>2, <1>3, <1>4, <1>5

(* What unlinking the i-th entry leaves of a list without repetitions. *)
LEMMA RemoveAtFacts ==
    ASSUME NEW S, NEW s \in Seq(S), NEW i \in 1..Len(s), IsInjective(s)
    PROVE  /\ RemoveAt(s, i) \in Seq(S)
           /\ IsInjective(RemoveAt(s, i))
           /\ ToSet(RemoveAt(s, i)) = ToSet(s) \ {s[i]}
<1> DEFINE r == RemoveAt(s, i)
<1>1. /\ r \in Seq(S) /\ Len(r) = Len(s) - 1
      /\ \A j \in 1..(Len(s) - 1) : r[j] = IF j < i THEN s[j] ELSE s[j + 1]
  BY RemoveAtEntries
<1> HIDE DEF r
<1>2. /\ Len(s) \in Nat /\ i \in Nat /\ i <= Len(s)
      /\ DOMAIN s = 1..Len(s) /\ DOMAIN r = 1..(Len(s) - 1)
  BY <1>1, LenProperties
<1>3. \A j, k \in 1..Len(s) : s[j] = s[k] => j = k
  BY <1>2 DEF IsInjective
<1>4. ASSUME NEW j \in 1..(Len(s) - 1), NEW k \in 1..(Len(s) - 1), r[j] = r[k]
      PROVE  j = k
  <2> DEFINE up(n) == IF n < i THEN n ELSE n + 1
  <2>1. /\ up(j) \in 1..Len(s) /\ r[j] = s[up(j)]
        /\ up(k) \in 1..Len(s) /\ r[k] = s[up(k)]
    BY <1>1, <1>2
  <2>2. up(j) = up(k)
    BY <2>1, <1>3, <1>4
  <2> QED BY <2>2, <1>2
<1>5. ASSUME NEW j \in 1..(Len(s) - 1)
      PROVE  r[j] \in ToSet(s) \ {s[i]}
  <2>1. \E k \in 1..Len(s) : k # i /\ r[j] = s[k]
    <3>1. CASE j < i
      BY <3>1, <1>1, <1>2
    <3>2. CASE ~(j < i)
      <4>1. j + 1 \in 1..Len(s) /\ j + 1 # i /\ r[j] = s[j + 1]
        BY <3>2, <1>1, <1>2
      <4> QED BY <4>1
    <3> QED BY <3>1, <3>2
  <2> QED BY <2>1, <1>2, <1>3 DEF ToSet
<1>6. ASSUME NEW k \in 1..Len(s), k # i
      PROVE  s[k] \in ToSet(r)
  <2>1. CASE k < i
    <3>1. k \in 1..(Len(s) - 1) /\ r[k] = s[k]
      BY <2>1, <1>1, <1>2
    <3> QED BY <3>1, <1>2 DEF ToSet
  <2>2. CASE k > i
    <3>1. k - 1 \in 1..(Len(s) - 1) /\ r[k - 1] = s[k]
      BY <2>2, <1>1, <1>2
    <3> QED BY <3>1, <1>2 DEF ToSet
  <2> QED BY <2>1, <2>2, <1>2, <1>6
<1>7. ToSet(r) = ToSet(s) \ {s[i]}
  <2>1. ToSet(r) \subseteq ToSet(s) \ {s[i]}
    BY <1>5, <1>2 DEF ToSet
  <2>2. ToSet(s) \ {s[i]} \subseteq ToSet(r)
    BY <1>6, <1>2 DEF ToSet
  <2> QED BY <2>1, <2>2
<1>8. IsInjective(r)
  BY <1>2, <1>4 DEF IsInjective
<1> QED BY <1>1, <1>7, <1>8 DEF r

(* A new entry at the head of a list it was not in. *)
LEMMA PushFacts ==
    ASSUME NEW S, NEW s \in Seq(S), NEW e \in S, e \notin ToSet(s), IsInjective(s)
    PROVE  /\ <<e>> \o s \in Seq(S)
           /\ <<e>> \o s # << >>
           /\ IsInjective(<<e>> \o s)
           /\ ToSet(<<e>> \o s) = ToSet(s) \cup {e}
<1> DEFINE r == <<e>> \o s
           N == Len(s)
<1>1. /\ r \in Seq(S) /\ Len(r) = N + 1 /\ N \in Nat /\ r # << >>
      /\ r[1] = e /\ \A j \in 1..N : r[j + 1] = s[j]
      /\ DOMAIN s = 1..N /\ DOMAIN r = 1..(N + 1)
  OBVIOUS
<1> HIDE DEF r
<1>2. \A j \in 1..(N + 1) : j = 1 \/ (j - 1 \in 1..N /\ r[j] = s[j - 1])
  BY <1>1
<1>3. \A j, k \in 1..N : s[j] # e /\ (s[j] = s[k] => j = k)
  BY <1>1 DEF IsInjective, ToSet
<1>4. \A j, k \in 1..(N + 1) : r[j] = r[k] => j = k
  BY <1>1, <1>2, <1>3
<1>5. \A j \in 1..N : s[j] \in ToSet(r)
  <2> SUFFICES ASSUME NEW j \in 1..N PROVE s[j] \in ToSet(r)
    OBVIOUS
  <2>1. j + 1 \in DOMAIN r
    BY <1>1
  <2> QED BY <1>1, <2>1 DEF ToSet
<1>6. ToSet(r) = ToSet(s) \cup {e}
  <2>1. e \in ToSet(r)
    BY <1>1 DEF ToSet
  <2>2. \A j \in 1..(N + 1) : r[j] = e \/ r[j] \in ToSet(s)
    BY <1>1, <1>2 DEF ToSet
  <2>3. ToSet(s) = {s[j] : j \in 1..N} /\ ToSet(r) = {r[j] : j \in 1..(N + 1)}
    BY <1>1 DEF ToSet
  <2> QED BY <1>5, <2>1, <2>2, <2>3
<1> QED BY <1>1, <1>4, <1>6 DEF r, IsInjective

(* A non-empty set of natural numbers has a least element. *)
LEMMA NatMin ==
    ASSUME NEW T \in SUBSET Nat, T # {}
    PROVE  \E x \in T : \A y \in T : x <= y
  <1> DEFINE R == OpToRel(<, Nat)
  <1>1. IsWellFoundedOn(R, Nat)
    BY NatLessThanWellFounded
  <1>2. \A x, y \in Nat : y < x => <<y, x>> \in R
    BY DEF OpToRel
  <1> HIDE DEF R
  <1>3. PICK x \in T : \A y \in T : ~(<<y, x>> \in R)
    BY <1>1, WFMin
  <1>4. ASSUME NEW y \in T
        PROVE  x <= y
    <2>1. x \in Nat /\ y \in Nat
      OBVIOUS
    <2>2. ~(y < x)
      BY <2>1, <1>2, <1>3
    <2> QED
      BY <2>1, <2>2
  <1> QED
    BY <1>4

(* Induction: a set of numbers that holds 0, and n + 1 with every n. *)
LEMMA UpTo ==
    ASSUME NEW n \in Nat, NEW T, 0 \in T,
           \A k \in 0..(n - 1) : k \in T => k + 1 \in T
    PROVE  \A k \in 0..n : k \in T
<1> DEFINE Out == {k \in 0..n : k \notin T}
<1> SUFFICES ASSUME Out # {} PROVE FALSE
  OBVIOUS
<1>1. PICK k \in Out : \A j \in Out : k <= j
  <2>1. Out \in SUBSET Nat
    OBVIOUS
  <2> QED BY <2>1, NatMin
<1>2. k - 1 \in 0..(n - 1) /\ k - 1 \notin Out
  BY <1>1
<1>3. k \in T
  BY <1>2
<1> QED BY <1>1, <1>3

(* A list with one more entry. *)
LEMMA AppendFacts ==
    ASSUME NEW S, NEW s \in Seq(S), NEW e \in S
    PROVE  /\ Append(s, e) \in Seq(S) /\ Len(Append(s, e)) = Len(s) + 1
           /\ \A i \in 1..Len(s) : Append(s, e)[i] = s[i]
           /\ Append(s, e)[Len(s) + 1] = e
           /\ ToSet(Append(s, e)) = ToSet(s) \cup {e}
<1> DEFINE r == Append(s, e)
<1>1. /\ r \in Seq(S) /\ Len(r) = Len(s) + 1
      /\ \A i \in 1..Len(s) : r[i] = s[i]
      /\ r[Len(s) + 1] = e
  BY AppendProperties
<1> HIDE DEF r
<1>2. Len(s) \in Nat /\ DOMAIN s = 1..Len(s) /\ DOMAIN r = 1..(Len(s) + 1)
  BY <1>1, LenProperties
<1>3. ToSet(r) \subseteq ToSet(s) \cup {e}
  <2> SUFFICES ASSUME NEW i \in 1..(Len(s) + 1) PROVE r[i] \in ToSet(s) \cup {e}
    BY <1>2 DEF ToSet
  <2>1. CASE i \in 1..Len(s)
    BY <2>1, <1>1, <1>2 DEF ToSet
  <2>2. CASE i = Len(s) + 1
    BY <2>2, <1>1
  <2> QED BY <2>1, <2>2, <1>2
<1>4. ToSet(s) \subseteq ToSet(r)
  BY <1>1, <1>2 DEF ToSet
<1>5. e \in ToSet(r)
  BY <1>1, <1>2 DEF ToSet
<1> QED BY <1>1, <1>3, <1>4, <1>5 DEF r


(* score_compare is what qsort asks of a comparator: of two entries it     *)
(* gives the same order whichever comes first, and its order is            *)
(* transitive (server.c:1148-1178).                                        *)
THEOREM ComparatorConsistent ==
    ASSUME NEW a \in ScoreEntry, NEW b \in ScoreEntry, NEW c \in ScoreEntry,
           NEW start \in Times
    PROVE  /\ score_compare(a, b, start) = -score_compare(b, a, start)
           /\ /\ score_compare(a, b, start) <= 0
              /\ score_compare(b, c, start) <= 0
              => score_compare(a, c, start) <= 0
<1>1. \A e \in ScoreEntry : score_at(e, start) \in Int
  <2>1. \A x \in Nat, y \in Nat : x * y \in Int
    OBVIOUS
  <2> QED BY <2>1, NumbersAssumption DEF score_at, elapsed, ScoreEntry, Times
<1>2. \A e \in ScoreEntry : e.objects_collected \in Int /\ e.exit_reached \in {0, 1}
  BY NumbersAssumption DEF ScoreEntry
<1> QED BY <1>1, <1>2 DEF score_compare

(* An order that the comparator accepts is the documented one on the       *)
(* printed lines, for the same start time: the line computes the score     *)
(* apart and cuts it off at 0 (server.c:1253-1282).                        *)
THEOREM LinesFollowComparator ==
    ASSUME NEW a \in ScoreEntry, NEW b \in ScoreEntry,
           session_start_time \in Times,
           score_compare(a, b, session_start_time) <= 0
    PROVE  Ordered(RankLine(a), RankLine(b))
<1>1. \A e \in ScoreEntry : score_at(e, session_start_time) \in Int
  <2>1. \A x \in Nat, y \in Nat : x * y \in Int
    OBVIOUS
  <2> QED BY <2>1, NumbersAssumption DEF score_at, elapsed, ScoreEntry, Times
<1>2. \A e \in ScoreEntry : e.objects_collected \in Int /\ e.exit_reached \in {0, 1}
  BY NumbersAssumption DEF ScoreEntry
<1> QED BY <1>1, <1>2 DEF score_compare, Ordered, RankLine

-----------------------------------------------------------------------------
(* One step of the table: remembering an entry keeps one per nickname.     *)
LEMMA MergeKeepsOnce ==
    ASSUME NEW es \in Seq(ScoreEntry), OneEach(es), NEW e \in ScoreEntry
    PROVE  /\ merge_score_entry(es, e) \in Seq(ScoreEntry)
           /\ OneEach(merge_score_entry(es, e))
<1> DEFINE new == merge_score_entry(es, e)
<1>1. CASE \E i \in DOMAIN es : es[i].nickname = e.nickname
  <2>1. new = [i \in 1..Len(es) |-> IF es[i].nickname = e.nickname THEN e ELSE es[i]]
    BY <1>1 DEF merge_score_entry
  <2>2. new \in Seq(ScoreEntry) /\ Len(new) = Len(es) /\ DOMAIN new = DOMAIN es
    BY <2>1
  <2>3. \A i \in DOMAIN es : new[i].nickname = es[i].nickname
    BY <2>1
  <2> QED BY <2>2, <2>3 DEF OneEach
<1>2. CASE ~\E i \in DOMAIN es : es[i].nickname = e.nickname
  <2>1. CASE Len(es) < Capacity
    <3>1. new = Append(es, e)
      BY <1>2, <2>1 DEF merge_score_entry
    <3>2. new \in Seq(ScoreEntry) /\ Len(new) = Len(es) + 1
      BY <3>1
    <3>3. \A i \in DOMAIN new : \/ i \in DOMAIN es /\ new[i] = es[i]
                                \/ i = Len(es) + 1 /\ new[i] = e
      <4>1. DOMAIN new = 1..Len(es) + 1 /\ DOMAIN es = 1..Len(es) /\ Len(es) \in Nat
        BY <3>1, <3>2
      <4>2. \A i \in 1..Len(es) : new[i] = es[i]
        BY <3>1
      <4>3. new[Len(es) + 1] = e
        BY <3>1
      <4>4. \A i \in 1..Len(es) + 1 : i \in 1..Len(es) \/ i = Len(es) + 1
        BY <4>1
      <4> HIDE DEF new
      <4> TAKE i \in DOMAIN new
      <4>5. CASE i \in 1..Len(es)
        BY <4>1, <4>2, <4>5
      <4>6. CASE i = Len(es) + 1
        BY <4>3, <4>6
      <4> QED BY <4>1, <4>4, <4>5, <4>6
    <3>4. Len(new) <= Capacity
      BY <3>2, <2>1, NumbersAssumption
    <3> QED BY <1>2, <3>2, <3>3, <3>4 DEF OneEach
  <2>2. CASE ~(Len(es) < Capacity)
    BY <1>2, <2>2 DEF merge_score_entry
  <2> QED BY <2>1, <2>2
<1> QED BY <1>1, <1>2

(* What merging an entry does to the lines: that of the same nickname      *)
(* makes way for it, and it is left out only if there is no room.          *)
LEMMA MergeLines ==
    ASSUME NEW es \in Seq(ScoreEntry), Len(es) <= Capacity, NEW e \in ScoreEntry
    PROVE  LET new == merge_score_entry(es, e) IN
           /\ e \in ToSet(new) \/ LeftOut(e, new)
           /\ \A f : LeftOut(f, es) => f.nickname = e.nickname \/ LeftOut(f, new)
           /\ \A f \in ToSet(es) : f \in ToSet(new) \/ f.nickname = e.nickname
<1> DEFINE new == merge_score_entry(es, e)
<1>0. DOMAIN es = 1..Len(es) /\ Len(es) \in Nat /\ Capacity \in Nat
  BY LenProperties, NumbersAssumption
<1>a. Len(es) < Capacity <=> Len(es) # Capacity
  <2>1. Len(es) \in Nat /\ Capacity \in Nat
    BY <1>0
  <2> QED BY <2>1
<1>1. CASE \E i \in DOMAIN es : es[i].nickname = e.nickname
  <2>1. new = [i \in 1..Len(es) |-> IF es[i].nickname = e.nickname THEN e ELSE es[i]]
    BY <1>0, <1>1 DEF merge_score_entry
  <2>2. Len(new) = Len(es) /\ DOMAIN new = DOMAIN es
    BY <2>1, <1>0
  <2>3. e \in ToSet(new)
    BY <1>1, <2>1, <2>2 DEF ToSet
  <2>4. \A f \in ToSet(es) : f \in ToSet(new) \/ f.nickname = e.nickname
    BY <2>1, <2>2 DEF ToSet
  <2>5. \A f \in ToSet(new) : f = e \/ f \in ToSet(es)
    BY <2>1, <2>2 DEF ToSet
  <2>6. \A f : LeftOut(f, es) => f.nickname = e.nickname \/ LeftOut(f, new)
    BY <2>2, <2>5 DEF LeftOut
  <2> QED BY <2>3, <2>4, <2>6
<1>2. CASE ~\E i \in DOMAIN es : es[i].nickname = e.nickname
  <2>1. CASE Len(es) < Capacity
    <3>1. new = Append(es, e)
      BY <1>2, <2>1 DEF merge_score_entry
    <3>2. ToSet(new) = ToSet(es) \cup {e}
      BY <3>1, AppendFacts
    <3>3. e \in ToSet(new) /\ ToSet(es) \subseteq ToSet(new)
      BY <3>2
    <3>4. Len(es) # Capacity
      BY <2>1, <1>a
    <3> QED BY <3>3, <3>4 DEF LeftOut
  <2>2. CASE ~(Len(es) < Capacity)
    <3>1. new = es
      BY <1>2, <2>2 DEF merge_score_entry
    <3>2. Len(new) = Capacity
      BY <2>2, <3>1, <1>a
    <3>3. \A f \in ToSet(es) : f.nickname # e.nickname
      BY <1>2 DEF ToSet
    <3> QED BY <3>1, <3>2, <3>3 DEF LeftOut
  <2> QED BY <2>1, <2>2
<1> QED BY <1>1, <1>2

(* The passes of RANK's loop over a list, the last of which is Merged. *)
Passes(r, list, m) ==
    r = [n \in 0..m |-> IF n = 0 THEN << >> ELSE merge_score_entry(r[n - 1], list[n])]

LEMMA PassesExist ==
    ASSUME NEW list \in Seq(ScoreEntry)
    PROVE  \E r : Passes(r, list, Len(list))
<1> DEFINE T == {m \in Nat : \E r : Passes(r, list, m)}
<1>1. Len(list) \in Nat
  BY LenProperties
<1>2. 0 \in T
  <2> DEFINE r == [n \in 0..0 |-> << >>]
  <2>1. Passes(r, list, 0)
    BY DEF Passes
  <2> QED BY <2>1
<1>3. ASSUME NEW k \in 0..(Len(list) - 1), k \in T PROVE k + 1 \in T
  <2>0. k \in Nat
    BY <1>1
  <2>1. PICK r : Passes(r, list, k)
    BY <1>3
  <2> DEFINE q == [n \in 0..(k + 1) |->
                     IF n = k + 1 THEN merge_score_entry(r[k], list[k + 1]) ELSE r[n]]
  <2>2. \A n \in 0..k : q[n] = r[n]
    OBVIOUS
  <2>3. ASSUME NEW n \in 0..(k + 1)
        PROVE  q[n] = IF n = 0 THEN << >> ELSE merge_score_entry(q[n - 1], list[n])
    <3>1. CASE n = k + 1
      <4>1. n # 0 /\ n - 1 = k /\ k \in 0..k
        BY <3>1
      <4> QED BY <3>1, <4>1, <2>2
    <3>2. CASE n # k + 1
      <4>1. n \in 0..k /\ (n # 0 => n - 1 \in 0..k)
        BY <3>2
      <4>2. r[n] = IF n = 0 THEN << >> ELSE merge_score_entry(r[n - 1], list[n])
        BY <2>1, <4>1 DEF Passes
      <4> QED BY <4>1, <4>2, <2>2
    <3> QED BY <3>1, <3>2
  <2>4. Passes(q, list, k + 1)
    BY <2>3 DEF Passes
  <2> QED BY <2>0, <2>4
<1> HIDE DEF T
<1>4. \A k \in 0..Len(list) : k \in T
  BY <1>1, <1>2, <1>3, UpTo
<1>5. Len(list) \in T
  BY <1>1, <1>4
<1> QED BY <1>5 DEF T

(* Merging a list keeps one entry per nickname, within the capacity. *)
LEMMA MergedOnce ==
    ASSUME NEW list \in Seq(ScoreEntry)
    PROVE  Merged(list) \in Seq(ScoreEntry) /\ OneEach(Merged(list))
<1> DEFINE r == CHOOSE r : Passes(r, list, Len(list))
<1>1. Passes(r, list, Len(list))
  BY PassesExist
<1>2. Merged(list) = r[Len(list)]
  BY DEF Merged, Passes
<1>3. Len(list) \in Nat /\ \A n \in 1..Len(list) : list[n] \in ScoreEntry
  BY LenProperties, ElementOfSeq
<1> HIDE DEF r
<1> DEFINE T == {n \in 0..Len(list) : r[n] \in Seq(ScoreEntry) /\ OneEach(r[n])}
<1>4. 0 \in T
  <2>1. r[0] = << >>
    BY <1>1, <1>3 DEF Passes
  <2>2. << >> \in Seq(ScoreEntry) /\ OneEach(<< >>)
    BY NumbersAssumption DEF OneEach
  <2>3. 0 \in 0..Len(list)
    BY <1>3
  <2> QED BY <2>1, <2>2, <2>3
<1>5. ASSUME NEW k \in 0..(Len(list) - 1), k \in T PROVE k + 1 \in T
  <2>1. k + 1 \in 0..Len(list) /\ k + 1 # 0 /\ (k + 1) - 1 = k /\ k + 1 \in 1..Len(list)
    BY <1>3
  <2>2. r[k + 1] = merge_score_entry(r[k], list[k + 1])
    BY <1>1, <2>1 DEF Passes
  <2> QED BY <1>3, <1>5, <2>1, <2>2, MergeKeepsOnce
<1> HIDE DEF T
<1>6. \A k \in 0..Len(list) : k \in T
  BY <1>3, <1>4, <1>5, UpTo
<1>7. Len(list) \in T
  BY <1>3, <1>6
<1> QED BY <1>2, <1>7 DEF T

(* What qsort leaves: the same lines, in the comparator's order. *)
LEMMA SortedFacts ==
    ASSUME NEW es \in Seq(ScoreEntry), OneEach(es), NEW start,
           NEW s \in Sorted(es, start)
    PROVE  /\ s \in Seq(ScoreEntry) /\ Len(s) = Len(es)
           /\ OneEach(s) /\ ToSet(s) = ToSet(es)
           /\ \A i \in 1..(Len(s) - 1) : score_compare(s[i], s[i + 1], start) <= 0
<1>1. PICK p \in Bijection(DOMAIN es, DOMAIN es) :
        /\ s = [i \in DOMAIN es |-> es[p[i]]]
        /\ \A i \in DOMAIN s : i + 1 \in DOMAIN s =>
                score_compare(s[i], s[i + 1], start) <= 0
  BY DEF Sorted
<1>2. Len(es) \in Nat /\ DOMAIN es = 1..Len(es)
  BY LenProperties
<1>3. /\ p \in [DOMAIN es -> DOMAIN es]
      /\ \A i, j \in DOMAIN es : p[i] = p[j] => i = j
      /\ \A j \in DOMAIN es : \E i \in DOMAIN es : p[i] = j
  BY DEF Bijection, Injection, Surjection, IsInjective
<1>4. \A i \in DOMAIN es : s[i] = es[p[i]] /\ es[p[i]] \in ScoreEntry
  BY <1>1, <1>2, <1>3, ElementOfSeq
<1>5. DOMAIN s = DOMAIN es
  BY <1>1
<1>6. s \in Seq(ScoreEntry) /\ Len(s) = Len(es)
  BY <1>1, <1>2, <1>4, IsASeq
<1>7. OneEach(s)
  <2>1. Len(s) <= Capacity
    BY <1>6 DEF OneEach
  <2>2. ASSUME NEW i \in DOMAIN s, NEW j \in DOMAIN s, s[i].nickname = s[j].nickname
        PROVE  i = j
    <3>1. es[p[i]].nickname = es[p[j]].nickname /\ p[i] \in DOMAIN es /\ p[j] \in DOMAIN es
      BY <1>3, <1>4, <1>5, <2>2
    <3>2. p[i] = p[j]
      BY <3>1 DEF OneEach
    <3> QED BY <1>3, <1>5, <3>2
  <2> QED BY <2>1, <2>2 DEF OneEach
<1>8. ToSet(s) = ToSet(es)
  BY <1>3, <1>4, <1>5 DEF ToSet
<1>9. \A i \in 1..(Len(s) - 1) : score_compare(s[i], s[i + 1], start) <= 0
  <2>1. \A i \in 1..(Len(s) - 1) : i \in DOMAIN s /\ i + 1 \in DOMAIN s
    BY <1>2, <1>5, <1>6
  <2> QED BY <1>1, <2>1
<1> QED BY <1>6, <1>7, <1>8, <1>9

-----------------------------------------------------------------------------
(* The next client that RANK comes to, and its score. *)
LEMMA RankFacts ==
    ASSUME TypeOK, ListInv, CopyInv, NEW c \in Conns, RankList(c) \/ RankNext(c)
    PROVE  /\ Len(copied[c]) < Len(client_list)
           /\ RankClient(c)
           /\ copy_client_score(client_list[Len(copied[c]) + 1]) \in ScoreEntry
<1>1. Len(copied[c]) < Len(client_list) /\ RankClient(c)
  <2>1. CASE RankList(c)
    <3>1. pc[c] = "rank_list" /\ RankClient(c)
      BY <2>1 DEF RankList, At
    <3>2. copied[c] = << >> /\ c \in Members
      BY <3>1 DEF CopyInv, ListInv
    <3>3. Len(client_list) \in Nat /\ DOMAIN client_list = 1..Len(client_list)
      BY LenProperties DEF TypeOK
    <3>4. Len(client_list) # 0
      BY <3>2, <3>3 DEF Members, ToSet
    <3>5. Len(copied[c]) = 0
      BY <3>2
    <3>6. Len(client_list) \in Nat
      BY <3>3
    <3> QED BY <3>1, <3>4, <3>5, <3>6
  <2>2. CASE RankNext(c)
    BY <2>2 DEF RankNext, CopyInv
  <2> QED BY <2>1, <2>2
<1>2. client_list[Len(copied[c]) + 1] \in Conns
  <2>1. Len(copied[c]) \in Nat /\ Len(client_list) \in Nat
    BY LenProperties DEF TypeOK
  <2>2. Len(copied[c]) + 1 \in 1..Len(client_list)
    BY <1>1, <2>1
  <2>3. client_list \in Seq(Conns)
    BY DEF TypeOK
  <2> QED BY <2>2, <2>3, ElementOfSeq
<1> QED BY <1>1, <1>2 DEF TypeOK, copy_client_score, ScoreEntry

LEMMA TypeStep ==
    ASSUME IInv, [Next]_vars
    PROVE  TypeOK'
<1> USE DEF IInv, Step, At, Goto, session_vars, env_vars, list_vars, score_vars,
            rank_vars, client_vars
<1>0. TypeOK /\ ListInv /\ CopyInv /\ TableOnce /\ RankOnce
  OBVIOUS
<1>1. CASE UNCHANGED vars
  BY <1>1 DEF vars, TypeOK
<1>2. CASE Tick
  BY <1>2, NumbersAssumption DEF Tick, TypeOK, Times
<1>3. CASE session_timer
  BY <1>3 DEF session_timer, Finish, TypeOK
<1>4. ASSUME NEW c \in Conns, client_list_add(c) PROVE TypeOK'
  <2>1. <<c>> \o client_list \in Seq(Conns)
    BY DEF TypeOK
  <2>2. accepts' \in 0..MaxAccepts
    BY <1>4, NumbersAssumption DEF client_list_add, TypeOK
  <2>3. pc' \in [Conns -> Positions]
    BY <1>4 DEF client_list_add, TypeOK, Positions, Places
  <2> QED BY <1>4, <2>1, <2>2, <2>3 DEF client_list_add, TypeOK
<1>5. ASSUME NEW c \in Conns, Greet(c) PROVE TypeOK'
  BY <1>5 DEF Greet, TypeOK, Names, Positions, Places
<1>6. ASSUME NEW c \in Conns, handle_ready(c) PROVE TypeOK'
  BY <1>6 DEF handle_ready, TypeOK
<1>7. ASSUME NEW c \in Conns, NEW n \in Nicks, handle_login(c, n) \/ SetNickname(c, n)
      PROVE  TypeOK'
  BY <1>7 DEF handle_login, SetNickname, TypeOK, Names, Positions, Places
<1>8. ASSUME NEW c \in Conns, Start(c) PROVE TypeOK'
  <2>1. 0 \in 0..MaxObjects /\ 0 \in 0..1 /\ 0 \in Times /\ "start_time" \in Positions
    BY NumbersAssumption DEF Times, Positions, Places
  <2>2. /\ objects_collected' \in [Conns -> 0..MaxObjects] /\ ready' \in [Conns -> BOOLEAN]
        /\ exit_reached' \in [Conns -> 0..1] /\ exit_time' \in [Conns -> Times]
    BY <1>8, <2>1 DEF Start, TypeOK, reset_client_for_lobby
  <2>3. pc' \in [Conns -> Positions]
    BY <1>8, <2>1 DEF Start, TypeOK
  <2> QED BY <1>8, <2>2, <2>3 DEF Start, TypeOK
<1>9. ASSUME NEW c \in Conns, StartTime(c) PROVE TypeOK'
  BY <1>9 DEF StartTime, TypeOK, Positions, Places
<1>10. ASSUME NEW c \in Conns, block_if_not_playing(c) PROVE TypeOK'
  BY <1>10 DEF block_if_not_playing, TypeOK, Positions, Places
<1>11. ASSUME NEW c \in Conns, MoveStep(c) PROVE TypeOK'
  <2>1. objects_collected[c] < MaxObjects => objects_collected[c] + 1 \in 0..MaxObjects
    BY NumbersAssumption DEF TypeOK
  <2>2. objects_collected' \in [Conns -> 0..MaxObjects]
    <3>1. \/ objects_collected' = objects_collected
          \/ /\ objects_collected[c] < MaxObjects
             /\ objects_collected' = [objects_collected EXCEPT ![c] = @ + 1]
      BY <1>11 DEF MoveStep
    <3>2. objects_collected \in [Conns -> 0..MaxObjects]
      BY DEF TypeOK
    <3> QED BY <2>1, <3>1, <3>2
  <2>3. exit_reached' \in [Conns -> 0..1]
    <3>1. \/ exit_reached' = exit_reached
          \/ exit_reached' = [exit_reached EXCEPT ![c] = 1]
      BY <1>11 DEF MoveStep
    <3>2. exit_reached \in [Conns -> 0..1]
      BY DEF TypeOK
    <3> QED BY <3>1, <3>2
  <2>4. \E to \in Positions : pc' = [pc EXCEPT ![c] = to]
    BY <1>11 DEF MoveStep, Positions, Places
  <2>5. pc' \in [Conns -> Positions]
    BY <2>4 DEF TypeOK
  <2> QED BY <1>11, <2>2, <2>3, <2>5 DEF MoveStep, TypeOK
<1>12. ASSUME NEW c \in Conns, MoveTime(c) PROVE TypeOK'
  BY <1>12 DEF MoveTime, TypeOK, Positions, Places
<1>13. ASSUME NEW c \in Conns, MoveDone(c) PROVE TypeOK'
  BY <1>13 DEF MoveDone, Finish, TypeOK, Positions, Places
<1>14. ASSUME NEW c \in Conns, handle_reset(c) PROVE TypeOK'
  BY <1>14 DEF handle_reset, TypeOK, Positions, Places
<1>15. ASSUME NEW c \in Conns, clear_known_scores(c) PROVE TypeOK'
  BY <1>15 DEF clear_known_scores, TypeOK, Positions, Places
<1>16. ASSUME NEW c \in Conns, ResetClients(c) PROVE TypeOK'
  <2>1. 0 \in 0..MaxObjects /\ 0 \in 0..1 /\ 0 \in Times /\ "idle" \in Positions
    BY NumbersAssumption DEF Times, Positions, Places
  <2>2. /\ objects_collected' \in [Conns -> 0..MaxObjects] /\ ready' \in [Conns -> BOOLEAN]
        /\ exit_reached' \in [Conns -> 0..1] /\ exit_time' \in [Conns -> Times]
    BY <1>16, <2>1 DEF ResetClients, TypeOK, reset_client_for_lobby
  <2>3. pc' \in [Conns -> Positions]
    BY <1>16, <2>1 DEF ResetClients, TypeOK
  <2> QED BY <1>16, <2>2, <2>3 DEF ResetClients, TypeOK
<1>17. ASSUME NEW c \in Conns, client_list_remove(c) PROVE TypeOK'
  <2>1. copy_client_score(c) \in ScoreEntry
    BY DEF TypeOK, copy_client_score, ScoreEntry
  <2>2. entries' \in [Conns -> Seq(ScoreEntry)]
    BY <1>17, <2>1 DEF client_list_remove, TypeOK
  <2>3. client_list' \in Seq(Conns)
    <3>1. PICK i \in DOMAIN client_list : client_list' = RemoveAt(client_list, i)
      BY <1>17 DEF client_list_remove
    <3>2. client_list \in Seq(Conns) /\ i \in 1..Len(client_list)
      BY <3>1, LenProperties DEF TypeOK
    <3> QED BY <3>1, <3>2, RemoveAtEntries
  <2>4. owner' \in Conns \cup {None}
    <3>1. client_list' # << >> => Head(client_list') \in Conns
      BY <2>3
    <3> QED BY <1>17, <3>1 DEF client_list_remove, TypeOK
  <2>5. /\ objects_collected' \in [Conns -> 0..MaxObjects]
        /\ exit_reached' \in [Conns -> 0..1] /\ exit_time' \in [Conns -> Times]
    <3>1. 0 \in 0..MaxObjects /\ 0 \in 0..1 /\ 0 \in Times
      BY NumbersAssumption DEF Times
    <3> QED BY <1>17, <3>1 DEF client_list_remove, TypeOK
  <2>6. nickname' \in [Conns -> Names] /\ ready' \in [Conns -> BOOLEAN]
    BY <1>17 DEF client_list_remove, TypeOK, Names
  <2>7. pc' \in [Conns -> Positions]
    BY <1>17 DEF client_list_remove, TypeOK, Positions, Places
  <2> QED BY <1>17, <2>2, <2>3, <2>4, <2>5, <2>6, <2>7
          DEF client_list_remove, TypeOK
<1>18. ASSUME NEW c \in Conns, remember_score(c) PROVE TypeOK'
  <2>1. entries[c][1] \in ScoreEntry
    <3>1. entries[c] \in Seq(ScoreEntry) /\ Len(entries[c]) = 1
      BY <1>18 DEF remember_score, CopyInv, TypeOK
    <3> QED BY <3>1, ElementOfSeq
  <2>2. known_scores \in Seq(ScoreEntry) /\ OneEach(known_scores)
    BY DEF TypeOK, TableOnce
  <2>3. known_scores' \in Seq(ScoreEntry)
    BY <1>18, <2>1, <2>2, MergeKeepsOnce DEF remember_score
  <2>4. entries' \in [Conns -> Seq(ScoreEntry)] /\ pc' \in [Conns -> Positions]
    BY <1>18 DEF remember_score, TypeOK, Positions, Places
  <2> QED BY <1>18, <2>3, <2>4 DEF remember_score, TypeOK
<1>19. ASSUME NEW c \in Conns, LeaveEnd(c) PROVE TypeOK'
  BY <1>19 DEF LeaveEnd, Finish, TypeOK, Positions, Places
<1>20. ASSUME NEW c \in Conns, RankKnown(c) PROVE TypeOK'
  <2>1. Merged(known_scores) \in Seq(ScoreEntry)
    BY MergedOnce DEF TypeOK
  <2> QED BY <1>20, <2>1 DEF RankKnown, TypeOK, Positions, Places
<1>21. ASSUME NEW c \in Conns, RankList(c) \/ RankNext(c) PROVE TypeOK'
  <2> DEFINE e == copy_client_score(client_list[Len(copied[c]) + 1])
  <2>1. e \in ScoreEntry /\ RankClient(c)
    BY <1>0, <1>21, RankFacts
  <2>2. entries[c] \in Seq(ScoreEntry) /\ OneEach(entries[c]) /\ copied[c] \in Seq(ScoreEntry)
    BY DEF TypeOK, RankOnce
  <2>3. merge_score_entry(entries[c], e) \in Seq(ScoreEntry)
    BY <2>1, <2>2, MergeKeepsOnce
  <2>4. Append(copied[c], e) \in Seq(ScoreEntry)
    BY <2>1, <2>2
  <2> HIDE DEF e
  <2>5. /\ entries' \in [Conns -> Seq(ScoreEntry)]
        /\ copied' \in [Conns -> Seq(ScoreEntry)]
    BY <2>1, <2>3, <2>4 DEF RankClient, TypeOK, e
  <2>6. pc' \in [Conns -> Positions]
    BY <2>1 DEF RankClient, TypeOK, Positions, Places
  <2> QED BY <2>1, <2>5, <2>6 DEF RankClient, TypeOK
<1>22. ASSUME NEW c \in Conns, RankSort(c) PROVE TypeOK'
  <2>1. PICK s \in Sorted(entries[c], session_start_time) :
          entries' = [entries EXCEPT ![c] = s]
    BY <1>22 DEF RankSort
  <2>2. s \in Seq(ScoreEntry)
    BY SortedFacts DEF TypeOK, RankOnce
  <2> QED BY <1>22, <2>1, <2>2 DEF RankSort, TypeOK, Positions, Places
<1>23. ASSUME NEW c \in Conns, RankPrint(c) PROVE TypeOK'
  <2>1. << >> \in Seq(ScoreEntry) /\ 0 \in Times /\ "idle" \in Positions
    BY NumbersAssumption DEF Times, Positions, Places
  <2>2. /\ entries' \in [Conns -> Seq(ScoreEntry)] /\ copied' \in [Conns -> Seq(ScoreEntry)]
        /\ sorted_at' \in [Conns -> Times] /\ pc' \in [Conns -> Positions]
    BY <1>23, <2>1 DEF RankPrint, TypeOK
  <2> QED BY <1>23, <2>2 DEF RankPrint, TypeOK
<1> QED BY <1>1, <1>2, <1>3, <1>4, <1>5, <1>6, <1>7, <1>8, <1>9, <1>10, <1>11,
           <1>12, <1>13, <1>14, <1>15, <1>16, <1>17, <1>18, <1>19, <1>20, <1>21,
           <1>22, <1>23 DEF Next, Handler

(* The steps that leave the list and the arrays of RANK alone, and what    *)
(* they do to the positions of the threads.                                *)
Busy == Nicks \cup
        {"created", "idle", "start_time", "move", "move_time", "move_done",
         "reset_scores", "reset_clients"}

Aside(c) ==
    \/ Greet(c) \/ handle_ready(c)
    \/ \E n \in Nicks : handle_login(c, n) \/ SetNickname(c, n)
    \/ Start(c) \/ StartTime(c)
    \/ block_if_not_playing(c) \/ MoveStep(c) \/ MoveTime(c) \/ MoveDone(c)
    \/ handle_reset(c) \/ clear_known_scores(c) \/ ResetClients(c) \/ LeaveEnd(c)

Moved(d) == pc'[d] = pc[d] \/ (pc[d] \in Busy /\ pc'[d] \in Busy)
                           \/ (pc[d] = "leave_end" /\ pc'[d] = "none")

Beside ==
    /\ UNCHANGED <<client_list, entries, copied, sorted_at>>
    /\ known_scores' = known_scores \/ known_scores' = << >>
    /\ \A d \in Conns : Moved(d)

LEMMA AsideFacts ==
    ASSUME TypeOK, NEW c \in Conns, Aside(c)
    PROVE  Beside
<1> USE DEF Step, At, Goto, list_vars, rank_vars, client_vars, Beside, Moved, Busy
<1>0. pc \in [Conns -> Positions]
  BY DEF TypeOK
<1>1. CASE Greet(c)
  BY <1>0, <1>1 DEF Greet
<1>2. CASE handle_ready(c)
  BY <1>2 DEF handle_ready
<1>3. CASE \E n \in Nicks : handle_login(c, n) \/ SetNickname(c, n)
  BY <1>0, <1>3 DEF handle_login, SetNickname
<1>4. CASE Start(c)
  BY <1>0, <1>4 DEF Start
<1>5. CASE StartTime(c)
  BY <1>0, <1>5 DEF StartTime
<1>6. CASE block_if_not_playing(c)
  BY <1>0, <1>6 DEF block_if_not_playing
<1>7. CASE MoveStep(c)
  BY <1>0, <1>7 DEF MoveStep
<1>8. CASE MoveTime(c)
  BY <1>0, <1>8 DEF MoveTime
<1>9. CASE MoveDone(c)
  BY <1>0, <1>9 DEF MoveDone
<1>10. CASE handle_reset(c)
  BY <1>0, <1>10 DEF handle_reset
<1>11. CASE clear_known_scores(c)
  BY <1>0, <1>11 DEF clear_known_scores
<1>12. CASE ResetClients(c)
  BY <1>0, <1>12 DEF ResetClients
<1>13. CASE LeaveEnd(c)
  BY <1>0, <1>13 DEF LeaveEnd
<1> QED BY <1>1, <1>2, <1>3, <1>4, <1>5, <1>6, <1>7, <1>8, <1>9, <1>10, <1>11,
           <1>12, <1>13 DEF Aside

(* A step is one of those, or one of the seven that the invariant is about. *)
LEMMA StepCases ==
    ASSUME TypeOK, [Next]_vars
    PROVE  \/ Beside
           \/ \E c \in Conns :
                \/ client_list_add(c) \/ client_list_remove(c) \/ remember_score(c)
                \/ RankKnown(c) \/ RankList(c) \/ RankNext(c)
                \/ RankSort(c) \/ RankPrint(c)
<1>1. CASE UNCHANGED vars
  BY <1>1 DEF vars, client_vars, list_vars, rank_vars, Beside, Moved
<1>2. CASE Tick
  BY <1>2 DEF Tick, client_vars, list_vars, rank_vars, Beside, Moved
<1>3. CASE session_timer
  BY <1>3 DEF session_timer, client_vars, list_vars, rank_vars, Beside, Moved
<1>4. CASE \E c \in Conns : Aside(c)
  BY <1>4, AsideFacts
<1> QED BY <1>1, <1>2, <1>3, <1>4 DEF Next, Handler, Aside

-----------------------------------------------------------------------------
(* A client is linked and unlinked only while no RANK is in the list. *)
LEMMA ListStep ==
    ASSUME TypeOK, ListInv, CopyInv, [Next]_vars
    PROVE  ListInv'
<1> USE DEF Step, At, Goto, list_vars, client_vars
<1>0. /\ client_list \in Seq(Conns) /\ IsInjective(client_list)
      /\ pc \in [Conns -> Positions]
      /\ \A d \in Conns :
            d \in Members <=> pc[d] \notin {"none", "remember", "leave_end"}
  BY DEF TypeOK, ListInv
<1>1. CASE Beside
  <2>1. \A d \in Conns : pc'[d] \in {"none", "remember", "leave_end"}
                     <=> pc[d] \in {"none", "remember", "leave_end"}
    BY <1>1, PlacesAssumption DEF Beside, Moved, Busy, Places
  <2> QED BY <1>0, <1>1, <2>1 DEF Beside, ListInv, Members
<1>2. ASSUME NEW c \in Conns, client_list_add(c) PROVE ListInv'
  <2>1. /\ pc[c] = "none" /\ pc' = [pc EXCEPT ![c] = "created"]
        /\ client_list' = <<c>> \o client_list
    BY <1>2 DEF client_list_add
  <2>2. c \notin ToSet(client_list)
    BY <1>0, <2>1 DEF Members
  <2>3. IsInjective(client_list') /\ ToSet(client_list') = ToSet(client_list) \cup {c}
    BY <1>0, <2>1, <2>2, PushFacts
  <2> QED BY <1>0, <2>1, <2>3 DEF ListInv, Members
<1>3. ASSUME NEW c \in Conns, client_list_remove(c) PROVE ListInv'
  <2>1. /\ pc[c] = "idle" /\ pc' = [pc EXCEPT ![c] = "remember"]
    BY <1>3 DEF client_list_remove
  <2>2. PICK i \in DOMAIN client_list :
          client_list[i] = c /\ client_list' = RemoveAt(client_list, i)
    BY <1>3 DEF client_list_remove
  <2>3. i \in 1..Len(client_list)
    BY <1>0, <2>2, LenProperties
  <2>4. IsInjective(client_list') /\ ToSet(client_list') = ToSet(client_list) \ {c}
    BY <1>0, <2>2, <2>3, RemoveAtFacts
  <2> QED BY <1>0, <2>1, <2>4 DEF ListInv, Members
<1>4. ASSUME NEW c \in Conns, remember_score(c) PROVE ListInv'
  <2>1. /\ pc[c] = "remember" /\ pc' = [pc EXCEPT ![c] = "leave_end"]
        /\ client_list' = client_list
    BY <1>4 DEF remember_score
  <2> QED BY <1>0, <2>1 DEF ListInv, Members
<1>5. ASSUME NEW c \in Conns,
             RankKnown(c) \/ RankList(c) \/ RankNext(c) \/ RankSort(c) \/ RankPrint(c)
      PROVE  ListInv'
  <2> DEFINE Rank == {"idle", "rank_list", "rank_next", "rank_sort", "rank_print"}
  <2>1. client_list' = client_list
    BY <1>5 DEF RankKnown, RankList, RankNext, RankClient, RankSort, RankPrint
  <2>2. pc[c] \in Rank /\ \E to \in Rank : pc' = [pc EXCEPT ![c] = to]
    BY <1>5 DEF RankKnown, RankList, RankNext, RankClient, RankSort, RankPrint
  <2> QED BY <1>0, <2>1, <2>2 DEF ListInv, Members
<1> QED BY <1>1, <1>2, <1>3, <1>4, <1>5, StepCases

LEMMA CopyStep ==
    ASSUME TypeOK, ListInv, CopyInv, [Next]_vars
    PROVE  CopyInv'
<1> USE DEF Step, At, Goto, list_vars, client_vars
<1>0. /\ pc \in [Conns -> Positions] /\ entries \in [Conns -> Seq(ScoreEntry)]
      /\ copied \in [Conns -> Seq(ScoreEntry)]
  BY DEF TypeOK
<1>1. CASE Beside
  <2>1. \A d \in Conns : \A p \in {"remember", "rank_next", "rank_sort", "rank_print"} :
            pc'[d] = p <=> pc[d] = p
    BY <1>1, PlacesAssumption DEF Beside, Moved, Busy, Places
  <2> QED BY <1>1, <2>1 DEF Beside, CopyInv
<1>2. ASSUME NEW c \in Conns, client_list_add(c) PROVE CopyInv'
  <2>1. /\ \A d \in Conns : pc[d] # "rank_next"
        /\ pc[c] = "none" /\ pc' = [pc EXCEPT ![c] = "created"]
        /\ entries' = entries /\ copied' = copied
    BY <1>2 DEF client_list_add, ListFree, rank_vars
  <2> QED BY <1>0, <2>1 DEF CopyInv
<1>3. ASSUME NEW c \in Conns, client_list_remove(c) PROVE CopyInv'
  <2>1. /\ \A d \in Conns : pc[d] # "rank_next"
        /\ pc[c] = "idle" /\ pc' = [pc EXCEPT ![c] = "remember"]
        /\ entries' = [entries EXCEPT ![c] = <<copy_client_score(c)>>]
        /\ copied' = copied
    BY <1>3 DEF client_list_remove, ListFree
  <2>2. entries'[c] = <<copy_client_score(c)>>
    BY <1>0, <2>1
  <2>3. Len(entries'[c]) = 1
    BY <2>2
  <2> QED BY <1>0, <2>1, <2>3 DEF CopyInv
<1>4. ASSUME NEW c \in Conns, remember_score(c) PROVE CopyInv'
  <2>1. /\ pc[c] = "remember" /\ pc' = [pc EXCEPT ![c] = "leave_end"]
        /\ client_list' = client_list /\ copied' = copied
        /\ \A d \in Conns \ {c} : entries'[d] = entries[d]
    BY <1>0, <1>4 DEF remember_score
  <2> QED BY <1>0, <2>1 DEF CopyInv
<1>5. ASSUME NEW c \in Conns, RankKnown(c) PROVE CopyInv'
  <2>1. /\ pc[c] = "idle" /\ pc' = [pc EXCEPT ![c] = "rank_list"]
        /\ client_list' = client_list /\ copied' = copied
        /\ \A d \in Conns \ {c} : entries'[d] = entries[d]
    BY <1>0, <1>5 DEF RankKnown
  <2> QED BY <1>0, <2>1 DEF CopyInv
<1>6. ASSUME NEW c \in Conns, RankList(c) \/ RankNext(c) PROVE CopyInv'
  <2> DEFINE e == copy_client_score(client_list[Len(copied[c]) + 1])
  <2>1. e \in ScoreEntry /\ RankClient(c) /\ Len(copied[c]) < Len(client_list)
    BY <1>6, RankFacts
  <2>2. /\ copied[c] \in Seq(ScoreEntry)
        /\ Len(copied[c]) \in Nat /\ Len(client_list) \in Nat
    BY LenProperties DEF TypeOK
  <2>3. copied'[c] = Append(copied[c], e)
    BY <1>0, <2>1 DEF RankClient
  <2>4. Len(copied'[c]) = Len(copied[c]) + 1
    BY <2>1, <2>2, <2>3, AppendFacts
  <2>5. /\ client_list' = client_list
        /\ \A d \in Conns \ {c} : /\ entries'[d] = entries[d] /\ pc'[d] = pc[d]
                                  /\ copied'[d] = copied[d]
    BY <1>0, <2>1 DEF RankClient
  <2>6. \/ pc'[c] = "rank_sort"
        \/ pc'[c] = "rank_next" /\ Len(copied[c]) + 1 # Len(client_list)
    BY <1>0, <2>1 DEF RankClient
  <2>7. pc'[c] = "rank_next" => Len(copied'[c]) < Len(client_list')
    BY <2>1, <2>2, <2>4, <2>5, <2>6
  <2> HIDE DEF e
  <2> QED BY <2>5, <2>6, <2>7 DEF CopyInv
<1>7. ASSUME NEW c \in Conns, RankSort(c) PROVE CopyInv'
  <2>1. /\ pc[c] = "rank_sort" /\ pc' = [pc EXCEPT ![c] = "rank_print"]
        /\ client_list' = client_list /\ copied' = copied
        /\ \A d \in Conns \ {c} : entries'[d] = entries[d]
    BY <1>0, <1>7 DEF RankSort
  <2> QED BY <1>0, <2>1 DEF CopyInv
<1>8. ASSUME NEW c \in Conns, RankPrint(c) PROVE CopyInv'
  <2>1. /\ pc[c] = "rank_print" /\ pc' = [pc EXCEPT ![c] = "idle"]
        /\ client_list' = client_list /\ copied' = [copied EXCEPT ![c] = << >>]
        /\ \A d \in Conns \ {c} : entries'[d] = entries[d]
    BY <1>0, <1>8 DEF RankPrint
  <2> QED BY <1>0, <2>1 DEF CopyInv
<1> QED BY <1>1, <1>2, <1>3, <1>4, <1>5, <1>6, <1>7, <1>8, StepCases

-----------------------------------------------------------------------------
(* The table and every array of RANK keep one entry per nickname. *)
LEMMA OnceStep ==
    ASSUME TypeOK, ListInv, CopyInv, TableOnce, RankOnce, [Next]_vars
    PROVE  TableOnce' /\ RankOnce'
<1> USE DEF Step, At, Goto, list_vars, client_vars, rank_vars
<1>0. /\ known_scores \in Seq(ScoreEntry) /\ OneEach(known_scores)
      /\ entries \in [Conns -> Seq(ScoreEntry)]
      /\ \A d \in Conns : OneEach(entries[d])
  BY DEF TypeOK, TableOnce, RankOnce
<1>e. OneEach(<< >>) /\ \A e \in ScoreEntry : OneEach(<<e>>)
  <2>1. \A e \in ScoreEntry : Len(<<e>>) = 1 /\ DOMAIN <<e>> = 1..1
    OBVIOUS
  <2> QED BY <2>1, NumbersAssumption DEF OneEach
<1>1. CASE Beside
  BY <1>0, <1>e, <1>1 DEF Beside, TableOnce, RankOnce
<1>2. ASSUME NEW c \in Conns, NEW es, OneEach(es),
             entries' = [entries EXCEPT ![c] = es]
      PROVE  RankOnce'
  <2>1. \A d \in Conns : OneEach(entries'[d])
    BY <1>0, <1>2
  <2> QED BY <2>1 DEF RankOnce
<1>3. ASSUME NEW c \in Conns, client_list_add(c) PROVE TableOnce' /\ RankOnce'
  BY <1>0, <1>3 DEF client_list_add, TableOnce, RankOnce
<1>4. ASSUME NEW c \in Conns, client_list_remove(c) PROVE TableOnce' /\ RankOnce'
  <2>1. copy_client_score(c) \in ScoreEntry
    BY DEF TypeOK, copy_client_score, ScoreEntry
  <2>2. /\ known_scores' = known_scores
        /\ entries' = [entries EXCEPT ![c] = <<copy_client_score(c)>>]
    BY <1>4 DEF client_list_remove
  <2> QED BY <1>0, <1>e, <1>2, <2>1, <2>2 DEF TableOnce
<1>5. ASSUME NEW c \in Conns, remember_score(c) PROVE TableOnce' /\ RankOnce'
  <2>1. entries[c] \in Seq(ScoreEntry) /\ Len(entries[c]) = 1
    BY <1>5 DEF remember_score, CopyInv, TypeOK
  <2>2. entries[c][1] \in ScoreEntry
    BY <2>1, ElementOfSeq
  <2>3. OneEach(merge_score_entry(known_scores, entries[c][1]))
    BY <1>0, <2>2, MergeKeepsOnce
  <2>4. /\ known_scores' = merge_score_entry(known_scores, entries[c][1])
        /\ entries' = [entries EXCEPT ![c] = << >>]
    BY <1>5 DEF remember_score
  <2> QED BY <1>e, <1>2, <2>3, <2>4 DEF TableOnce
<1>6. ASSUME NEW c \in Conns, RankKnown(c) PROVE TableOnce' /\ RankOnce'
  <2>1. /\ known_scores' = known_scores
        /\ entries' = [entries EXCEPT ![c] = Merged(known_scores)]
    BY <1>6 DEF RankKnown
  <2>2. OneEach(Merged(known_scores))
    BY <1>0, MergedOnce
  <2> QED BY <1>0, <1>2, <2>1, <2>2 DEF TableOnce
<1>7. ASSUME NEW c \in Conns, RankList(c) \/ RankNext(c) PROVE TableOnce' /\ RankOnce'
  <2> DEFINE e == copy_client_score(client_list[Len(copied[c]) + 1])
  <2>1. e \in ScoreEntry /\ RankClient(c)
    BY <1>7, RankFacts
  <2>2. OneEach(merge_score_entry(entries[c], e))
    BY <1>0, <2>1, MergeKeepsOnce
  <2>3. /\ known_scores' = known_scores
        /\ entries' = [entries EXCEPT ![c] = merge_score_entry(entries[c], e)]
    BY <2>1 DEF RankClient
  <2> QED BY <1>0, <1>2, <2>2, <2>3 DEF TableOnce
<1>8. ASSUME NEW c \in Conns, RankSort(c) PROVE TableOnce' /\ RankOnce'
  <2>1. PICK s \in Sorted(entries[c], session_start_time) :
          entries' = [entries EXCEPT ![c] = s]
    BY <1>8 DEF RankSort
  <2>2. OneEach(s)
    BY <1>0, SortedFacts
  <2>3. known_scores' = known_scores
    BY <1>8 DEF RankSort
  <2> QED BY <1>0, <1>2, <2>1, <2>2, <2>3 DEF TableOnce
<1>9. ASSUME NEW c \in Conns, RankPrint(c) PROVE TableOnce' /\ RankOnce'
  <2>1. known_scores' = known_scores /\ entries' = [entries EXCEPT ![c] = << >>]
    BY <1>9 DEF RankPrint
  <2> QED BY <1>0, <1>e, <1>2, <2>1 DEF TableOnce
<1> QED BY <1>1, <1>3, <1>4, <1>5, <1>6, <1>7, <1>8, <1>9, StepCases

(* Only qsort leaves an array to print, in the comparator's order. *)
LEMMA SortStep ==
    ASSUME TypeOK, CopyInv, RankOnce, SortInv, [Next]_vars
    PROVE  SortInv'
<1> USE DEF Step, At, Goto, list_vars, client_vars, rank_vars
<1>0. /\ pc \in [Conns -> Positions] /\ sorted_at \in [Conns -> Times]
      /\ entries \in [Conns -> Seq(ScoreEntry)]
      /\ \A d \in Conns : OneEach(entries[d])
  BY DEF TypeOK, RankOnce
<1>1. CASE Beside
  <2>1. \A d \in Conns : pc'[d] = "rank_print" <=> pc[d] = "rank_print"
    BY <1>1, PlacesAssumption DEF Beside, Moved, Busy, Places
  <2> QED BY <1>1, <2>1 DEF Beside, SortInv
<1>2. ASSUME NEW c \in Conns,
             \/ client_list_add(c) \/ client_list_remove(c) \/ remember_score(c)
             \/ RankKnown(c) \/ RankList(c) \/ RankNext(c) \/ RankPrint(c)
      PROVE  SortInv'
  <2>1. pc'[c] # "rank_print"
    BY <1>0, <1>2 DEF client_list_add, client_list_remove, remember_score,
                      RankKnown, RankList, RankNext, RankClient, RankPrint
  <2>2. \A d \in Conns \ {c} : /\ entries'[d] = entries[d] /\ pc'[d] = pc[d]
                               /\ sorted_at'[d] = sorted_at[d]
    BY <1>0, <1>2 DEF client_list_add, client_list_remove, remember_score,
                      RankKnown, RankList, RankNext, RankClient, RankPrint
  <2> QED BY <2>1, <2>2 DEF SortInv
<1>3. ASSUME NEW c \in Conns, RankSort(c) PROVE SortInv'
  <2>1. PICK s \in Sorted(entries[c], session_start_time) :
          entries' = [entries EXCEPT ![c] = s]
    BY <1>3 DEF RankSort
  <2>2. entries'[c] = s /\ sorted_at'[c] = session_start_time
    BY <1>0, <1>3, <2>1 DEF RankSort
  <2>3. \A i \in 1..(Len(s) - 1) :
            score_compare(s[i], s[i + 1], session_start_time) <= 0
    BY <1>0, SortedFacts
  <2>4. \A d \in Conns \ {c} : /\ entries'[d] = entries[d] /\ pc'[d] = pc[d]
                               /\ sorted_at'[d] = sorted_at[d]
    BY <1>0, <1>3 DEF RankSort
  <2>5. ASSUME NEW d \in Conns, pc'[d] = "rank_print"
        PROVE  \A i \in 1..(Len(entries'[d]) - 1) :
                 score_compare(entries'[d][i], entries'[d][i + 1], sorted_at'[d]) <= 0
    <3>1. CASE d = c
      BY <2>2, <2>3, <3>1
    <3>2. CASE d # c
      BY <2>4, <2>5, <3>2 DEF SortInv
    <3> QED BY <3>1, <3>2
  <2> QED BY <2>5 DEF SortInv
<1> QED BY <1>1, <1>2, <1>3, StepCases

(* A client that RANK came to stays in its array, or one of the same       *)
(* nickname that it came to later has taken the line.                      *)
LEMMA ShowsStep ==
    ASSUME TypeOK, ListInv, CopyInv, RankOnce, RankShowsCurrent, [Next]_vars
    PROVE  RankShowsCurrent'
<1> USE DEF Step, At, Goto, list_vars, client_vars, rank_vars
<1>0. /\ entries \in [Conns -> Seq(ScoreEntry)] /\ copied \in [Conns -> Seq(ScoreEntry)]
      /\ \A d \in Conns : OneEach(entries[d])
  BY DEF TypeOK, RankOnce
<1> DEFINE Shown(cs, es) ==
        \A e \in ToSet(cs) : \/ LeftOut(e, es)
                             \/ \E f \in ToSet(cs) : f # e /\ f.nickname = e.nickname
                             \/ e \in ToSet(es)
<1>a. \A d \in Conns : Shown(copied[d], entries[d])
  BY DEF RankShowsCurrent
<1>b. ASSUME NEW c \in Conns, Shown(copied'[c], entries'[c]),
             \A d \in Conns \ {c} : entries'[d] = entries[d] /\ copied'[d] = copied[d]
      PROVE  RankShowsCurrent'
  <2>1. \A d \in Conns : Shown(copied'[d], entries'[d])
    BY <1>a, <1>b
  <2> QED BY <2>1 DEF RankShowsCurrent
<1>c. \A es : Shown(<< >>, es)
  BY DEF ToSet
<1>1. CASE Beside \/ \E c \in Conns : client_list_add(c)
  BY <1>1 DEF Beside, client_list_add, RankShowsCurrent
<1>2. ASSUME NEW c \in Conns,
             client_list_remove(c) \/ remember_score(c) \/ RankKnown(c) \/ RankPrint(c)
      PROVE  RankShowsCurrent'
  <2>1. copied'[c] = << >>
    BY <1>0, <1>2 DEF client_list_remove, remember_score, RankKnown, RankPrint, CopyInv
  <2>2. \A d \in Conns \ {c} : entries'[d] = entries[d] /\ copied'[d] = copied[d]
    BY <1>0, <1>2 DEF client_list_remove, remember_score, RankKnown, RankPrint
  <2>3. Shown(copied'[c], entries'[c])
    BY <1>c, <2>1
  <2> QED BY <1>b, <2>2, <2>3
<1>3. ASSUME NEW c \in Conns, RankList(c) \/ RankNext(c) PROVE RankShowsCurrent'
  <2> DEFINE e == copy_client_score(client_list[Len(copied[c]) + 1])
             es == entries[c]
             new == merge_score_entry(es, e)
             cs == copied[c]
  <2>1. e \in ScoreEntry /\ RankClient(c)
    BY <1>3, RankFacts
  <2>2. entries'[c] = new /\ copied'[c] = Append(cs, e)
    BY <1>0, <2>1 DEF RankClient
  <2>3. \A d \in Conns \ {c} : entries'[d] = entries[d] /\ copied'[d] = copied[d]
    BY <1>0, <2>1 DEF RankClient
  <2>4. es \in Seq(ScoreEntry) /\ Len(es) <= Capacity /\ cs \in Seq(ScoreEntry)
    BY <1>0 DEF OneEach
  <2> HIDE DEF e
  <2>5. ToSet(copied'[c]) = ToSet(cs) \cup {e}
    BY <2>1, <2>2, <2>4, AppendFacts
  <2>6. /\ e \in ToSet(new) \/ LeftOut(e, new)
        /\ \A f : LeftOut(f, es) => f.nickname = e.nickname \/ LeftOut(f, new)
        /\ \A f \in ToSet(es) : f \in ToSet(new) \/ f.nickname = e.nickname
    BY <2>1, <2>4, MergeLines
  <2>7. Shown(cs, es)
    BY <1>a
  <2> HIDE DEF new, es, cs
  <2>8. Shown(copied'[c], new)
    <3> SUFFICES ASSUME NEW g \in ToSet(cs) \cup {e}
                 PROVE  \/ LeftOut(g, new)
                        \/ \E f \in ToSet(cs) \cup {e} : f # g /\ f.nickname = g.nickname
                        \/ g \in ToSet(new)
      BY <2>5
    <3>1. CASE g = e
      BY <2>6, <3>1
    <3>2. CASE g # e /\ g \in ToSet(cs)
      BY <2>6, <2>7, <3>2
    <3> QED BY <3>1, <3>2
  <2> QED BY <1>b, <2>2, <2>3, <2>8
<1>4. ASSUME NEW c \in Conns, RankSort(c) PROVE RankShowsCurrent'
  <2>1. PICK s \in Sorted(entries[c], session_start_time) :
          entries' = [entries EXCEPT ![c] = s]
    BY <1>4 DEF RankSort
  <2>2. ToSet(s) = ToSet(entries[c]) /\ Len(s) = Len(entries[c])
    BY <1>0, SortedFacts
  <2>3. entries'[c] = s /\ copied' = copied
    BY <1>0, <1>4, <2>1 DEF RankSort
  <2>4. \A d \in Conns \ {c} : entries'[d] = entries[d]
    BY <1>0, <2>1
  <2>5. Shown(copied'[c], entries'[c])
    BY <1>a, <2>2, <2>3 DEF LeftOut
  <2> QED BY <1>b, <2>3, <2>4, <2>5
<1> QED BY <1>1, <1>2, <1>3, <1>4, StepCases

-----------------------------------------------------------------------------
LEMMA InitInv == Init => IInv
<1> SUFFICES ASSUME Init PROVE IInv
  OBVIOUS
<1> USE DEF Init
<1>1. TypeOK
  <2>1. /\ 0 \in 0..MaxObjects /\ 0 \in 0..1 /\ 0 \in Times /\ 1 \in Times
        /\ 0 \in 0..MaxAccepts
    BY NumbersAssumption DEF Times
  <2>2. << >> \in Seq(Conns) /\ << >> \in Seq(ScoreEntry)
    OBVIOUS
  <2> QED BY <2>1, <2>2 DEF TypeOK, Names, Positions, Places
<1>2. ListInv
  BY DEF ListInv, Members, ToSet, IsInjective
<1>3. CopyInv /\ SortInv /\ RankShowsCurrent
  BY DEF CopyInv, SortInv, RankShowsCurrent, At, ToSet
<1>4. TableOnce /\ RankOnce
  BY NumbersAssumption DEF TableOnce, RankOnce, OneEach
<1> QED BY <1>1, <1>2, <1>3, <1>4 DEF IInv

(* Whatever the handler threads do between the sections of RANK, of RESET  *)
(* and of a departure, the types, the list, the copies of RANK and the     *)
(* table are as IInv says.                                                 *)
THEOREM ScoresInv == Spec => []IInv
<1>1. Init => IInv
  BY InitInv
<1>2. IInv /\ [Next]_vars => IInv'
  BY TypeStep, ListStep, CopyStep, OnceStep, SortStep, ShowsStep DEF IInv
<1> QED BY <1>1, <1>2, PTL DEF Spec

(* The table keeps one entry per nickname, within its capacity, in         *)
(* whatever order clients leave, return and leave again (server.c:1180).   *)
THEOREM TableStaysOnce == Spec => []TableOnce
<1>1. IInv => TableOnce
  BY DEF IInv
<1> QED BY <1>1, ScoresInv, PTL

(* So does every response to RANK, although it merges the table with the   *)
(* clients of some time later (server.c:1195).                             *)
THEOREM ResponsesOnce == Spec => []RankInv
<1>1. IInv => RankInv
  BY DEF IInv, RankInv
<1> QED BY <1>1, ScoresInv, PTL

(* RANK shows each client it came to, with the score it had at that        *)
(* moment, unless the array is full or a client of the same nickname was   *)
(* in the list (server.c:1239-1246).                                       *)
THEOREM ResponsesCurrent == Spec => []RankShowsCurrent
<1>1. IInv => RankShowsCurrent
  BY DEF IInv
<1> QED BY <1>1, ScoresInv, PTL

(* A printed ranking is in the documented order, unless START wrote a new  *)
(* start time after qsort had read the old one: what qsort leaves, with    *)
(* LinesFollowComparator (server.c:1249-1282).                             *)
THEOREM ResponsesOrdered == Spec => []RankOrder
<1>1. IInv => RankOrder
  <2> SUFFICES ASSUME IInv, NEW c \in Conns, At(c, "rank_print"),
                      sorted_at[c] = session_start_time,
                      NEW i \in DOMAIN entries[c], i + 1 \in DOMAIN entries[c]
               PROVE  Ordered(RankLine(entries[c][i]), RankLine(entries[c][i + 1]))
    BY DEF RankOrder
  <2>1. entries[c] \in Seq(ScoreEntry) /\ session_start_time \in Times
    BY DEF IInv, TypeOK
  <2>2. Len(entries[c]) \in Nat /\ DOMAIN entries[c] = 1..Len(entries[c])
    BY <2>1, LenProperties
  <2>3. i \in 1..Len(entries[c]) /\ i + 1 \in 1..Len(entries[c])
    BY <2>2
  <2>4. i \in 1..(Len(entries[c]) - 1)
    <3>1. Len(entries[c]) \in Nat
      BY <2>2
    <3> QED BY <2>3, <3>1
  <2>5. entries[c][i] \in ScoreEntry /\ entries[c][i + 1] \in ScoreEntry
    BY <2>1, <2>3, ElementOfSeq
  <2>6. score_compare(entries[c][i], entries[c][i + 1], session_start_time) <= 0
    BY <2>4 DEF IInv, SortInv
  <2> QED BY <2>1, <2>5, <2>6, LinesFollowComparator
<1> QED BY <1>1, ScoresInv, PTL

=============================================================================
