---------------------------- MODULE TimingProofs ----------------------------
(* Proofs about the virtual time scheduler of module Timing. *)
EXTENDS Timing, FiniteSetTheorems, SequenceTheorems, TLAPS

-----------------------------------------------------------------------------
(* Lemmas about the expiry list as a sequence. *)

\* A non-empty set of list positions has a smallest element.
LEMMA SmallestPosition ==
  ASSUME NEW n \in Nat, NEW T, T \subseteq 1..n, T # {}
  PROVE  \E m \in T : \A k \in T : m <= k
<1> DEFINE R == StrictSubsetOrdering(1..n)
<1> DEFINE Intervals == {1..k : k \in T}
<1>1. IsWellFoundedOn(R, SUBSET (1..n))
  <2>1. IsFiniteSet(1..n)
    BY FS_Interval
  <2>2. FiniteSubsetsOf(1..n) = SUBSET (1..n)
    BY <2>1, FS_FiniteSubsetsOfFinite
  <2>3. IsWellFoundedOn(StrictSubsetOrdering(1..n), FiniteSubsetsOf(1..n))
    BY FS_StrictSubsetOrderingWellFounded, Zenon
  <2> QED BY <2>2, <2>3, Zenon
<1>2. Intervals \subseteq SUBSET (1..n) /\ Intervals # {}
  <2>1. \A k \in T : 1..k \subseteq 1..n
    OBVIOUS
  <2> QED BY <2>1, Zenon
<1>3. PICK x \in Intervals : \A y \in Intervals : <<y, x>> \notin R
  <2> HIDE DEF R, Intervals
  <2> QED BY <1>1, <1>2, WFMin
<1>4. PICK m \in T : x = 1..m
  OBVIOUS
<1>5. ASSUME NEW k \in T, k < m  PROVE FALSE
  <2>1. 1..k \in Intervals /\ 1..k \subseteq 1..m /\ m \in 1..m /\ m \notin 1..k
    BY <1>5
  <2>2. <<1..k, 1..m>> \in R
    BY <2>1, <1>2, <1>4 DEF StrictSubsetOrdering
  <2> QED BY <2>1, <2>2, <1>3, <1>4
<1> QED BY <1>5

\* The elements of a sequence with one inserted.
LEMMA InsertAtElements ==
  ASSUME NEW S, NEW s \in Seq(S), NEW p \in 1..(Len(s) + 1), NEW e \in S
  PROVE  /\ InsertAt(s, p, e) \in Seq(S)
         /\ Len(InsertAt(s, p, e)) = Len(s) + 1
         /\ \A i \in 1..(p - 1) : InsertAt(s, p, e)[i] = s[i]
         /\ InsertAt(s, p, e)[p] = e
         /\ \A i \in (p + 1)..(Len(s) + 1) : InsertAt(s, p, e)[i] = s[i - 1]
<1> DEFINE a == SubSeq(s, 1, p - 1)
           b == SubSeq(s, p, Len(s))
<1>1. /\ a \in Seq(S) /\ Len(a) = p - 1
      /\ \A i \in 1..(p - 1) : a[i] = s[i]
  BY SubSeqProperties, LenProperties, ElementOfSeq
<1>2. /\ b \in Seq(S) /\ Len(b) = Len(s) - p + 1
      /\ \A i \in 1..(Len(s) - p + 1) : b[i] = s[p + i - 1]
  BY SubSeqProperties, LenProperties, ElementOfSeq
<1>3. <<e>> \in Seq(S) /\ Len(<<e>>) = 1 /\ <<e>>[1] = e
  OBVIOUS
<1> HIDE DEF a, b
<1>4. /\ a \o <<e>> \in Seq(S)
      /\ Len(a \o <<e>>) = p
      /\ \A i \in 1..p : (a \o <<e>>)[i] = IF i < p THEN s[i] ELSE e
  BY <1>1, <1>3, ConcatProperties
<1> DEFINE c == a \o <<e>>
<1> HIDE DEF c
<1>5. /\ c \o b \in Seq(S)
      /\ Len(c \o b) = Len(s) + 1
      /\ \A i \in 1..(Len(s) + 1) : (c \o b)[i] = IF i <= p THEN c[i] ELSE b[i - p]
  <2>1. c \in Seq(S) /\ Len(c) = p
    BY <1>4 DEF c
  <2>2. /\ c \o b \in Seq(S)
        /\ Len(c \o b) = Len(c) + Len(b)
        /\ \A i \in 1..(Len(c) + Len(b)) :
             (c \o b)[i] = IF i <= Len(c) THEN c[i] ELSE b[i - Len(c)]
    BY <2>1, <1>2, ConcatProperties
  <2>3. Len(c) + Len(b) = Len(s) + 1
    BY <2>1, <1>2, LenProperties
  <2> QED BY <2>1, <2>2, <2>3
<1>6. InsertAt(s, p, e) = c \o b
  BY DEF InsertAt, a, b, c
<1>7. \A i \in 1..p : c[i] = IF i < p THEN s[i] ELSE e
  BY <1>4 DEF c
<1>8. \A i \in 1..(p - 1) : (c \o b)[i] = s[i]
  BY <1>5, <1>7, LenProperties
<1>9. (c \o b)[p] = e
  BY <1>5, <1>7, LenProperties
<1>10. ASSUME NEW i \in (p + 1)..(Len(s) + 1)
       PROVE  (c \o b)[i] = s[i - 1]
  <2>1. i - p \in 1..(Len(s) - p + 1) /\ p + (i - p) - 1 = i - 1
    BY LenProperties
  <2>2. i \in 1..(Len(s) + 1) /\ ~(i <= p)
    BY LenProperties
  <2> QED BY <2>1, <2>2, <1>2, <1>5
<1> QED BY <1>5, <1>6, <1>8, <1>9, <1>10

\* The elements of a sequence with one removed.
LEMMA RemoveAtElements ==
  ASSUME NEW S, NEW s \in Seq(S), NEW p \in 1..Len(s)
  PROVE  /\ RemoveAt(s, p) \in Seq(S)
         /\ Len(RemoveAt(s, p)) = Len(s) - 1
         /\ \A i \in 1..(Len(s) - 1) :
              RemoveAt(s, p)[i] = IF i < p THEN s[i] ELSE s[i + 1]
<1> DEFINE a == SubSeq(s, 1, p - 1)
           b == SubSeq(s, p + 1, Len(s))
<1>1. /\ a \in Seq(S) /\ Len(a) = p - 1
      /\ \A i \in 1..(p - 1) : a[i] = s[i]
  BY SubSeqProperties, LenProperties, ElementOfSeq
<1>2. /\ b \in Seq(S) /\ Len(b) = Len(s) - p
      /\ \A i \in 1..(Len(s) - p) : b[i] = s[p + i]
  BY SubSeqProperties, LenProperties, ElementOfSeq
<1> HIDE DEF a, b
<1>3. /\ a \o b \in Seq(S)
      /\ Len(a \o b) = Len(s) - 1
      /\ \A i \in 1..(Len(s) - 1) :
           (a \o b)[i] = IF i < p THEN a[i] ELSE b[i - p + 1]
  <2>1. /\ a \o b \in Seq(S)
        /\ Len(a \o b) = Len(a) + Len(b)
        /\ \A i \in 1..(Len(a) + Len(b)) :
             (a \o b)[i] = IF i <= Len(a) THEN a[i] ELSE b[i - Len(a)]
    BY <1>1, <1>2, ConcatProperties
  <2>2. Len(a) + Len(b) = Len(s) - 1
    BY <1>1, <1>2, LenProperties
  <2>3. \A i \in 1..(Len(s) - 1) : (i <= Len(a) <=> i < p) /\ i - Len(a) = i - p + 1
    BY <1>1, LenProperties
  <2> QED BY <2>1, <2>2, <2>3
<1>4. RemoveAt(s, p) = a \o b
  BY DEF RemoveAt, a, b
<1>5. ASSUME NEW i \in 1..(Len(s) - 1)
      PROVE  (a \o b)[i] = IF i < p THEN s[i] ELSE s[i + 1]
  <2>0. i < p \/ i >= p
    BY LenProperties
  <2>1. CASE i < p
    BY <2>1, <1>1, <1>3
  <2>2. CASE i >= p
    <3>1. i - p + 1 \in 1..(Len(s) - p) /\ p + (i - p + 1) = i + 1
      BY <2>2, LenProperties
    <3> QED BY <3>1, <2>2, <1>2, <1>3
  <2> QED BY <2>0, <2>1, <2>2, Zenon
<1> QED BY <1>3, <1>4, <1>5

\* The insertion loop of timing_insert_expiring_timer always finds a place,
\* because the list is sorted.
LEMMA InsertPositionExists ==
  ASSUME NEW list \in Seq(Timers), NEW val \in [Timers -> Int], NEW v \in Int,
         \A i, j \in 1..Len(list) : i < j => val[list[i]] <= val[list[j]]
  PROVE  /\ InsertPosition(list, val, v) \in 1..(Len(list) + 1)
         /\ \A j \in 1..Len(list) :
              j < InsertPosition(list, val, v) <=> val[list[j]] <= v
<1> DEFINE Later == {i \in 1..(Len(list) + 1) : i <= Len(list) => v < val[list[i]]}
           Place(i) == /\ \A j \in 1..(i - 1) : v >= val[list[j]]
                       /\ i <= Len(list) => v < val[list[i]]
<1>1. Len(list) \in Nat /\ \A j \in 1..Len(list) : val[list[j]] \in Int
  BY LenProperties, ElementOfSeq
<1>2. PICK m \in Later : \A k \in Later : m <= k
  <2>1. Len(list) + 1 \in Later
    BY <1>1
  <2>2. Len(list) + 1 \in Nat /\ Later \subseteq 1..(Len(list) + 1)
    BY <1>1
  <2> HIDE DEF Later
  <2> QED BY <2>1, <2>2, SmallestPosition
<1>3. m \in 1..(Len(list) + 1) /\ Place(m)
  <2>1. ASSUME NEW j \in 1..(m - 1)  PROVE v >= val[list[j]]
    <3>1. j \in 1..Len(list) /\ j \notin Later
      BY <1>1, <1>2
    <3> QED BY <3>1, <1>1
  <2> QED BY <2>1, <1>2
<1>4. InsertPosition(list, val, v) = CHOOSE i \in 1..(Len(list) + 1) : Place(i)
  BY DEF InsertPosition
<1> DEFINE p == InsertPosition(list, val, v)
<1>5. p \in 1..(Len(list) + 1) /\ Place(p)
  BY <1>3, <1>4, Zenon
<1> HIDE DEF p
<1>6. ASSUME NEW j \in 1..Len(list)  PROVE j < p <=> val[list[j]] <= v
  <2>1. j < p => val[list[j]] <= v
    BY <1>1, <1>5
  <2>2. ASSUME j >= p  PROVE v < val[list[j]]
    BY <2>2, <1>1, <1>5
  <2> QED BY <2>1, <2>2, <1>1, <1>5
<1> QED BY <1>5, <1>6 DEF p

Listed(list, t) == \E i \in 1..Len(list) : list[i] = t

Unique(list) == \A i, j \in 1..Len(list) : list[i] = list[j] => i = j

Sorted(list, val) ==
  \A i, j \in 1..Len(list) : i < j => val[list[i]] <= val[list[j]]

\* timing_insert_expiring_timer adds the timer and nothing else, in order.
LEMMA InsertedList ==
  ASSUME NEW list \in Seq(Timers), NEW val \in [Timers -> Int], NEW t \in Timers,
         Unique(list), Sorted(list, val), ~Listed(list, t)
  PROVE  /\ Inserted(list, val, t) \in Seq(Timers)
         /\ Unique(Inserted(list, val, t))
         /\ Sorted(Inserted(list, val, t), val)
         /\ \A s \in Timers :
              Listed(Inserted(list, val, t), s) <=> s = t \/ Listed(list, s)
<1> DEFINE r == Inserted(list, val, t)
<1>1. PICK n \in Nat : n = Len(list)
  BY LenProperties
<1>2. \A i \in 1..n : list[i] \in Timers /\ val[list[i]] \in Int
  BY <1>1, ElementOfSeq
<1>3. /\ val[t] \in Int
      /\ InsertPosition(list, val, val[t]) \in 1..(n + 1)
      /\ \A j \in 1..n : j < InsertPosition(list, val, val[t]) <=> val[list[j]] <= val[t]
  BY <1>1, InsertPositionExists DEF Sorted
<1>4. PICK p :
        /\ p \in 1..(n + 1)
        /\ val[t] \in Int
        /\ p = InsertPosition(list, val, val[t])
        /\ \A j \in 1..n : j < p <=> val[list[j]] <= val[t]
  BY <1>3, Zenon
<1> HIDE DEF r
<1>5. /\ r \in Seq(Timers) /\ Len(r) = n + 1
      /\ \A i \in 1..(p - 1) : r[i] = list[i]
      /\ r[p] = t
      /\ \A i \in (p + 1)..(n + 1) : r[i] = list[i - 1]
  <2>1. p \in 1..(Len(list) + 1)
    BY <1>1, <1>4
  <2>2. r = InsertAt(list, p, t)
    BY <1>4 DEF Inserted, r
  <2>3. r \in Seq(Timers)
    BY <2>1, <2>2, InsertAtElements
  <2>4. Len(r) = n + 1
    BY <1>1, <2>1, <2>2, InsertAtElements
  <2>5. \A i \in 1..(p - 1) : r[i] = list[i]
    <3>1. \A i \in 1..(p - 1) : InsertAt(list, p, t)[i] = list[i]
      BY <2>1, InsertAtElements
    <3> QED BY <3>1, <2>2
  <2>6. r[p] = t
    <3>1. InsertAt(list, p, t)[p] = t
      BY <2>1, InsertAtElements
    <3> QED BY <3>1, <2>2
  <2>7. \A i \in (p + 1)..(n + 1) : r[i] = list[i - 1]
    <3>1. \A i \in (p + 1)..(Len(list) + 1) : InsertAt(list, p, t)[i] = list[i - 1]
      BY <2>1, InsertAtElements
    <3> QED BY <3>1, <2>2, <1>1
  <2> QED BY <2>3, <2>4, <2>5, <2>6, <2>7
<1>6. /\ \A i \in 1..n : i < p => r[i] = list[i]
      /\ r[p] = t
      /\ \A i \in 1..n : i >= p => r[i + 1] = list[i]
  <2>1. ASSUME NEW i \in 1..n, i >= p  PROVE r[i + 1] = list[i]
    <3>1. i + 1 \in (p + 1)..(n + 1) /\ (i + 1) - 1 = i
      BY <1>4, <2>1
    <3> QED BY <3>1, <1>5
  <2>2. ASSUME NEW i \in 1..n, i < p  PROVE r[i] = list[i]
    <3>1. i \in 1..(p - 1)
      BY <1>4, <2>2
    <3> QED BY <3>1, <1>5
  <2> QED BY <1>5, <2>1, <2>2
\* Each place of the new list is one of the old list, or the new timer's.
<1>7. /\ \A i \in 1..(n + 1) : i < p => i \in 1..n /\ r[i] = list[i]
      /\ r[p] = t
      /\ \A i \in 1..(n + 1) :
           i > p => i - 1 \in 1..n /\ ~(i - 1 < p) /\ r[i] = list[i - 1]
  <2>1. ASSUME NEW i \in 1..(n + 1), i < p  PROVE i \in 1..n /\ r[i] = list[i]
    <3>1. i \in 1..(p - 1) /\ i \in 1..n
      BY <1>4, <2>1
    <3> QED BY <3>1, <1>5
  <2>2. ASSUME NEW i \in 1..(n + 1), i > p
        PROVE  i - 1 \in 1..n /\ ~(i - 1 < p) /\ r[i] = list[i - 1]
    <3>1. i \in (p + 1)..(n + 1) /\ i - 1 \in 1..n /\ ~(i - 1 < p)
      BY <1>4, <2>2
    <3> QED BY <3>1, <1>5
  <2> QED BY <1>5, <2>1, <2>2
<1>8. Unique(r)
  <2> SUFFICES ASSUME NEW i \in 1..(n + 1), NEW j \in 1..(n + 1), r[i] = r[j]
               PROVE  i = j
    BY <1>5 DEF Unique
  <2>1. \A k, l \in 1..n : list[k] = list[l] => k = l
    BY <1>1 DEF Unique
  <2>2. \A k \in 1..n : list[k] # t
    BY <1>1 DEF Listed
  <2>3. CASE i = p \/ j = p
    BY <2>2, <2>3, <1>7
  <2>4. CASE i # p /\ j # p
    <3>1. CASE i < p /\ j < p
      BY <3>1, <2>1, <1>7, <1>4
    <3>2. CASE i > p /\ j > p
      <4>1. list[i - 1] = list[j - 1] /\ i - 1 \in 1..n /\ j - 1 \in 1..n
        BY <3>2, <1>4, <1>7
      <4> QED BY <4>1, <2>1
    <3>3. CASE i < p /\ j > p
      <4>1. list[i] = list[j - 1] /\ i \in 1..n /\ j - 1 \in 1..n /\ i # j - 1
        BY <3>3, <1>4, <1>7
      <4> QED BY <4>1, <2>1
    <3>4. CASE i > p /\ j < p
      <4>1. list[j] = list[i - 1] /\ j \in 1..n /\ i - 1 \in 1..n /\ j # i - 1
        BY <3>4, <1>4, <1>7
      <4> QED BY <4>1, <2>1
    <3> QED BY <3>1, <3>2, <3>3, <3>4, <2>4, <1>4
  <2> QED BY <2>3, <2>4
<1>9. Sorted(r, val)
  <2> SUFFICES ASSUME NEW i \in 1..(n + 1), NEW j \in 1..(n + 1), i < j
               PROVE  val[r[i]] <= val[r[j]]
    BY <1>5 DEF Sorted
  <2>1. \A k, l \in 1..n : k < l => val[list[k]] <= val[list[l]]
    BY <1>1 DEF Sorted
  <2>2. CASE i < p /\ j < p
    BY <2>2, <2>1, <1>4, <1>7
  <2>3. CASE i < p /\ j >= p
    <3>1. val[r[i]] <= val[t]
      BY <2>3, <1>4, <1>7
    <3>2. val[t] <= val[r[j]]
      <4>1. CASE j = p
        BY <4>1, <1>4, <1>7
      <4>2. CASE j > p
        <5>1. r[j] = list[j - 1] /\ j - 1 \in 1..n /\ ~(j - 1 < p)
          BY <4>2, <1>4, <1>7
        <5> QED BY <5>1, <1>2, <1>4
      <4> QED BY <2>3, <4>1, <4>2, <1>4
    <3>3. val[r[i]] \in Int /\ val[r[j]] \in Int
      <4>1. r[i] \in Timers /\ r[j] \in Timers
        BY <1>5, ElementOfSeq
      <4> QED BY <4>1
    <3> QED BY <3>1, <3>2, <3>3, <1>4
  <2>4. CASE i = p
    <3>1. r[j] = list[j - 1] /\ j - 1 \in 1..n /\ ~(j - 1 < p)
      BY <2>4, <1>4, <1>7
    <3> QED BY <3>1, <2>4, <1>2, <1>4, <1>5
  <2>5. CASE i > p
    <3>1. i - 1 \in 1..n /\ j - 1 \in 1..n /\ i - 1 < j - 1
      BY <2>5, <1>4
    <3>2. j > p
      BY <2>5, <1>4
    <3>3. r[i] = list[i - 1]
      BY <2>5, <1>4, <1>7
    <3>4. r[j] = list[j - 1]
      BY <3>2, <1>4, <1>7
    <3> QED BY <2>1, <3>1, <3>3, <3>4
  <2> QED BY <2>2, <2>3, <2>4, <2>5, <1>4
<1>10. ASSUME NEW s \in Timers
       PROVE  Listed(r, s) <=> s = t \/ Listed(list, s)
  <2>1. Listed(r, s) <=> \E i \in 1..(n + 1) : r[i] = s
    BY <1>5 DEF Listed
  <2>2. Listed(list, s) <=> \E i \in 1..n : list[i] = s
    BY <1>1 DEF Listed
  <2>3. ASSUME NEW i \in 1..n
        PROVE  \E k \in 1..(n + 1) : r[k] = list[i]
    BY <1>4, <1>6
  <2>4. Listed(r, s) => s = t \/ Listed(list, s)
    <3>1. ASSUME NEW i \in 1..(n + 1), r[i] = s, s # t
          PROVE  \E k \in 1..n : list[k] = s
      <4>1. CASE i < p
        BY <4>1, <3>1, <1>7
      <4>2. CASE i > p
        BY <4>2, <3>1, <1>7
      <4> QED BY <3>1, <4>1, <4>2, <1>4, <1>7
    <3> QED BY <3>1, <2>1, <2>2
  <2>5. Listed(r, t)
    BY <1>4, <1>6 , <1>5 DEF Listed
  <2>6. Listed(list, s) => Listed(r, s)
    BY <2>1, <2>2, <2>3
  <2> QED BY <2>4, <2>5, <2>6
<1> QED BY <1>5, <1>8, <1>9, <1>10 DEF r

\* The timer goes in after every entry that expires no later.
LEMMA InsertedAfter ==
  ASSUME NEW list \in Seq(Timers), NEW val \in [Timers -> Int], NEW t \in Timers,
         Sorted(list, val), NEW s \in Timers, Listed(list, s), val[s] <= val[t]
  PROVE  Before(Inserted(list, val, t), s, t)
<1>1. val[t] \in Int /\ Len(list) \in Nat
  BY LenProperties
<1>2. PICK p :
        /\ p \in 1..(Len(list) + 1)
        /\ p = InsertPosition(list, val, val[t])
        /\ \A j \in 1..Len(list) : j < p <=> val[list[j]] <= val[t]
  BY <1>1, InsertPositionExists DEF Sorted
<1>3. PICK i \in 1..Len(list) : list[i] = s
  BY DEF Listed
<1>4. i < p
  BY <1>2, <1>3
<1> DEFINE r == Inserted(list, val, t)
<1>5. r = InsertAt(list, p, t)
  BY <1>2 DEF Inserted
<1> HIDE DEF r
<1>6. i \in 1..(p - 1)
  BY <1>1, <1>2, <1>3, <1>4
<1>7. r[i] = s
  <2>1. \A j \in 1..(p - 1) : InsertAt(list, p, t)[j] = list[j]
    BY <1>2, InsertAtElements
  <2> QED BY <1>3, <1>5, <1>6, <2>1
<1>8. r[p] = t
  <2>0. p \in 1..(Len(list) + 1)
    BY <1>2
  <2>1. InsertAt(list, p, t)[p] = t
    BY <2>0, InsertAtElements
  <2> QED BY <1>5, <2>1
<1>9. Len(r) = Len(list) + 1
  BY <1>2, <1>5, InsertAtElements
<1>10. i \in 1..Len(r) /\ p \in 1..Len(r)
  BY <1>1, <1>2, <1>6, <1>9
<1> QED BY <1>4, <1>7, <1>8, <1>10 DEF Before, r

\* timing_remove_expiring_timer removes the timer and nothing else.
LEMMA RemovedList ==
  ASSUME NEW list \in Seq(Timers), NEW val \in [Timers -> Int], NEW t \in Timers,
         Unique(list), Sorted(list, val), Listed(list, t)
  PROVE  /\ Removed(list, t) \in Seq(Timers)
         /\ Unique(Removed(list, t))
         /\ Sorted(Removed(list, t), val)
         /\ \A s \in Timers :
              Listed(Removed(list, t), s) <=> s # t /\ Listed(list, s)
<1> DEFINE p == CHOOSE i \in 1..Len(list) : list[i] = t
           r == Removed(list, t)
<1>1. PICK n \in Nat : n = Len(list)
  BY LenProperties
<1>2. \A i \in 1..n : list[i] \in Timers /\ val[list[i]] \in Int
  BY <1>1, ElementOfSeq
<1>3. p \in 1..n /\ list[p] = t
  BY <1>1 DEF Listed
<1>4. r = RemoveAt(list, p)
  BY DEF Removed
<1> HIDE DEF p, r
<1>5. /\ r \in Seq(Timers) /\ Len(r) = n - 1
      /\ \A i \in 1..(n - 1) : r[i] = IF i < p THEN list[i] ELSE list[i + 1]
  BY <1>1, <1>3, <1>4, RemoveAtElements
<1>6. /\ \A i \in 1..(n - 1) : i < p => i \in 1..n /\ r[i] = list[i]
      /\ \A i \in 1..(n - 1) : i >= p => i + 1 \in 1..n /\ r[i] = list[i + 1]
  BY <1>3, <1>5
<1>7. \A k, l \in 1..n : list[k] = list[l] => k = l
  BY <1>1 DEF Unique
<1>8. Unique(r)
  <2> SUFFICES ASSUME NEW i \in 1..(n - 1), NEW j \in 1..(n - 1), r[i] = r[j]
               PROVE  i = j
    BY <1>5 DEF Unique
  <2>1. CASE i < p /\ j < p
    BY <2>1, <1>6, <1>7
  <2>2. CASE i >= p /\ j >= p
    BY <2>2, <1>3, <1>6, <1>7
  <2>3. CASE i < p /\ j >= p
    BY <2>3, <1>3, <1>6, <1>7
  <2>4. CASE i >= p /\ j < p
    BY <2>4, <1>3, <1>6, <1>7
  <2> QED BY <2>1, <2>2, <2>3, <2>4, <1>3
<1>9. Sorted(r, val)
  <2> SUFFICES ASSUME NEW i \in 1..(n - 1), NEW j \in 1..(n - 1), i < j
               PROVE  val[r[i]] <= val[r[j]]
    BY <1>5 DEF Sorted
  <2>1. \A k, l \in 1..n : k < l => val[list[k]] <= val[list[l]]
    BY <1>1 DEF Sorted
  <2>2. CASE i < p /\ j < p
    BY <2>2, <2>1, <1>6
  <2>3. CASE i >= p
    <3>1. i + 1 \in 1..n /\ j + 1 \in 1..n /\ i + 1 < j + 1
      BY <2>3, <1>3
    <3>2. r[i] = list[i + 1] /\ r[j] = list[j + 1]
      BY <2>3, <1>3, <1>6
    <3> QED BY <2>1, <3>1, <3>2
  <2>4. CASE i < p /\ j >= p
    <3>1. i \in 1..n /\ j + 1 \in 1..n /\ i < j + 1
      BY <2>4, <1>3
    <3>2. r[i] = list[i] /\ r[j] = list[j + 1]
      BY <2>4, <1>3, <1>6
    <3> QED BY <2>1, <3>1, <3>2
  <2> QED BY <2>2, <2>3, <2>4, <1>3
<1>10. ASSUME NEW s \in Timers
       PROVE  Listed(r, s) <=> s # t /\ Listed(list, s)
  <2>1. Listed(r, s) <=> \E i \in 1..(n - 1) : r[i] = s
    BY <1>5 DEF Listed
  <2>2. Listed(list, s) <=> \E i \in 1..n : list[i] = s
    BY <1>1 DEF Listed
  <2>3. ASSUME NEW i \in 1..(n - 1)
        PROVE  r[i] # t /\ \E k \in 1..n : list[k] = r[i]
    BY <1>3, <1>6, <1>7
  <2>4. ASSUME NEW i \in 1..n, i # p
        PROVE  \E k \in 1..(n - 1) : r[k] = list[i]
    <3>1. CASE i < p
      BY <3>1, <1>3, <1>6
    <3>2. CASE i > p
      <4>1. i - 1 \in 1..(n - 1) /\ i - 1 >= p /\ (i - 1) + 1 = i
        BY <3>2, <1>3
      <4> QED BY <4>1, <1>6
    <3> QED BY <3>1, <3>2, <2>4, <1>3
  <2> QED BY <1>3, <2>1, <2>2, <2>3, <2>4
<1> QED BY <1>5, <1>8, <1>9, <1>10 DEF r

\* The head of a sorted list is its minimum.
LEMMA HeadIsNearest ==
  ASSUME NEW list \in Seq(Timers), NEW val \in [Timers -> Int], Sorted(list, val)
  PROVE  /\ HeadValue(list, val) \in Int
         /\ \A s \in Timers : Listed(list, s) => HeadValue(list, val) <= val[s]
         /\ list # <<>> => /\ Head(list) \in Timers
                           /\ Listed(list, Head(list))
                           /\ HeadValue(list, val) = val[Head(list)]
         /\ list = <<>> => HeadValue(list, val) = Forever
<1>1. CASE list = <<>>
  <2>1. \A s \in Timers : ~Listed(list, s)
    BY <1>1 DEF Listed
  <2> QED BY <1>1, <2>1, TimingAssumption DEF HeadValue, TimingAssumption
<1>2. CASE list # <<>>
  <2>1. Head(list) = list[1] /\ 1 \in 1..Len(list)
    BY <1>2, LenProperties, EmptySeq
  <2>2. list[1] \in Timers /\ Listed(list, list[1])
    BY <2>1, ElementOfSeq DEF Listed
  <2>3. HeadValue(list, val) = val[list[1]]
    BY <1>2, <2>1 DEF HeadValue
  <2>4. ASSUME NEW i \in 1..Len(list)  PROVE val[list[1]] <= val[list[i]]
    <3>1. CASE i = 1
      BY <3>1, <2>2
    <3>2. CASE i # 1
      BY <3>2, <2>1, LenProperties DEF Sorted
    <3> QED BY <3>1, <3>2
  <2>5. \A s \in Timers : Listed(list, s) => val[list[1]] <= val[s]
    BY <2>4 DEF Listed
  <2>6. HeadValue(list, val) \in Int
    BY <2>2, <2>3
  <2> QED BY <1>2, <2>1, <2>2, <2>3, <2>5, <2>6
<1> QED BY <1>1, <1>2

\* The list pass 2 walks: what follows an entry is an entry.
LEMMA NextIsListed ==
  ASSUME NEW list \in Seq(Timers), NEW t
  PROVE  \/ NextInList(list, t) = NoTimer
         \/ NextInList(list, t) \in Timers /\ Listed(list, NextInList(list, t))
<1>1. CASE \E i \in 1..(Len(list) - 1) : list[i] = t
  <2> DEFINE k == CHOOSE i \in 1..(Len(list) - 1) : list[i] = t
  <2>1. k \in 1..(Len(list) - 1)
    BY <1>1
  <2>2. NextInList(list, t) = list[k + 1]
    BY <1>1 DEF NextInList
  <2> HIDE DEF k
  <2>3. k + 1 \in 1..Len(list)
    BY <2>1, LenProperties
  <2>4. list[k + 1] \in Timers
    BY <2>3, ElementOfSeq
  <2> QED BY <2>2, <2>3, <2>4 DEF Listed
<1>2. CASE ~ \E i \in 1..(Len(list) - 1) : list[i] = t
  BY <1>2 DEF NextInList
<1> QED BY <1>1, <1>2

\* A list that is what it should be for the given fields of the timers.
ListOK(list, val, tick, fire) ==
  /\ list \in Seq(Timers)
  /\ Unique(list)
  /\ Sorted(list, val)
  /\ \A s \in Timers : tick[s] /\ fire[s] <=> Listed(list, s)

\* Taking a timer out of the list, when it is there, and changing its time.
LEMMA Unlisting ==
  ASSUME NEW list \in Seq(Timers), NEW val \in [Timers -> Int],
         NEW val2 \in [Timers -> Int], NEW t \in Timers, NEW base,
         Unique(list), Sorted(list, val),
         \A s \in Timers : s # t => val2[s] = val[s],
         base = IF Listed(list, t) THEN Removed(list, t) ELSE list
  PROVE  /\ base \in Seq(Timers)
         /\ Unique(base)
         /\ Sorted(base, val2)
         /\ \A s \in Timers : Listed(base, s) <=> s # t /\ Listed(list, s)
<1>1. /\ base \in Seq(Timers) /\ Unique(base) /\ Sorted(base, val)
      /\ \A s \in Timers : Listed(base, s) <=> s # t /\ Listed(list, s)
  <2>1. CASE Listed(list, t)
    <3>1. base = Removed(list, t)
      BY <2>1
    <3> QED BY <2>1, <3>1, RemovedList
  <2>2. CASE ~Listed(list, t)
    <3>1. base = list
      BY <2>2
    <3> QED BY <2>2, <3>1
  <2> QED BY <2>1, <2>2
<1>2. \A i \in 1..Len(base) : base[i] \in Timers /\ base[i] # t
  <2>1. \A i \in 1..Len(base) : base[i] \in Timers /\ Listed(base, base[i])
    BY <1>1, ElementOfSeq DEF Listed
  <2> QED BY <1>1, <2>1
<1>3. \A i \in 1..Len(base) : val2[base[i]] = val[base[i]]
  BY <1>2
<1>4. Sorted(base, val2)
  BY <1>1, <1>3 DEF Sorted
<1> QED BY <1>1, <1>4

\* The timer comes after every other that was in the list for its time.
InsertedLast(list, list2, val2, t) ==
  \A s \in Timers :
    s # t /\ Listed(list, s) /\ val2[s] <= val2[t] => Before(list2, s, t)

\* Every operation takes its timer out of the list and puts it back in order
\* if it is to fire.
LEMMA Relisting ==
  ASSUME NEW list, NEW val \in [Timers -> Int], NEW tick, NEW fire,
         NEW val2 \in [Timers -> Int], NEW tick2, NEW fire2, NEW t \in Timers,
         ListOK(list, val, tick, fire),
         \A s \in Timers : s # t =>
           val2[s] = val[s] /\ tick2[s] = tick[s] /\ fire2[s] = fire[s],
         NEW base, NEW list2,
         base = IF Listed(list, t) THEN Removed(list, t) ELSE list,
         \/ tick2[t] /\ fire2[t] /\ list2 = Inserted(base, val2, t)
         \/ ~(tick2[t] /\ fire2[t]) /\ list2 = base
  PROVE  ListOK(list2, val2, tick2, fire2)
<1>1. /\ base \in Seq(Timers) /\ Unique(base) /\ Sorted(base, val2)
      /\ \A s \in Timers : Listed(base, s) <=> s # t /\ Listed(list, s)
  <2>1. list \in Seq(Timers) /\ Unique(list) /\ Sorted(list, val)
    BY DEF ListOK
  <2>2. \A s \in Timers : s # t => val2[s] = val[s]
    OBVIOUS
  <2> QED BY <2>1, <2>2, Unlisting
<1>2. \A s \in Timers : s # t => (tick2[s] /\ fire2[s] <=> Listed(list, s))
  BY DEF ListOK
<1>3. CASE tick2[t] /\ fire2[t] /\ list2 = Inserted(base, val2, t)
  <2>1. ~Listed(base, t)
    BY <1>1
  <2>2. /\ list2 \in Seq(Timers) /\ Unique(list2) /\ Sorted(list2, val2)
        /\ \A s \in Timers : Listed(list2, s) <=> s = t \/ Listed(base, s)
    BY <1>1, <1>3, <2>1, InsertedList
  <2>3. ASSUME NEW s \in Timers
        PROVE  tick2[s] /\ fire2[s] <=> Listed(list2, s)
    <3>1. CASE s = t
      BY <3>1, <1>3, <2>2
    <3>2. CASE s # t
      BY <3>2, <1>1, <1>2, <2>2
    <3> QED BY <3>1, <3>2
  <2> QED BY <2>2, <2>3 DEF ListOK
<1>4. CASE ~(tick2[t] /\ fire2[t]) /\ list2 = base
  <2>1. ASSUME NEW s \in Timers
        PROVE  tick2[s] /\ fire2[s] <=> Listed(list2, s)
    <3>1. CASE s = t
      BY <3>1, <1>1, <1>4
    <3>2. CASE s # t
      BY <3>2, <1>1, <1>2, <1>4
    <3> QED BY <3>1, <3>2
  <2> QED BY <1>1, <1>4, <2>1 DEF ListOK
<1> QED BY <1>3, <1>4

\* A timer put back in the list comes last among those with its time.
LEMMA RelistedLast ==
  ASSUME NEW list, NEW val \in [Timers -> Int], NEW tick, NEW fire,
         NEW val2 \in [Timers -> Int], NEW t \in Timers,
         ListOK(list, val, tick, fire),
         \A s \in Timers : s # t => val2[s] = val[s],
         NEW base, NEW list2,
         base = IF Listed(list, t) THEN Removed(list, t) ELSE list,
         list2 = Inserted(base, val2, t)
  PROVE  InsertedLast(list, list2, val2, t)
<1>1. /\ base \in Seq(Timers) /\ Sorted(base, val2)
      /\ \A s \in Timers : Listed(base, s) <=> s # t /\ Listed(list, s)
  <2>1. list \in Seq(Timers) /\ Unique(list) /\ Sorted(list, val)
    BY DEF ListOK
  <2> QED BY <2>1, Unlisting
<1> QED BY <1>1, InsertedAfter DEF InsertedLast

-----------------------------------------------------------------------------
(* The operations. *)

ListInv == ListOK(expiry, value, ticking, firing)

TimersOK ==
  /\ value \in [Timers -> Int]
  /\ ticking \in [Timers -> BOOLEAN]
  /\ firing \in [Timers -> BOOLEAN]
  /\ nextExpiry \in Int
  /\ countdown \in Int

\* What every operation on t leaves behind.
Effect(t) ==
  /\ TimersOK'
  /\ ListInv'
  /\ nextExpiry' = HeadValue(expiry', value')
  /\ Adjustment' = Adjustment
  /\ \A s \in Timers : s # t =>
       value'[s] = value[s] /\ ticking'[s] = ticking[s] /\ firing'[s] = firing[s]
  /\ Armed(t)' /\ (~Armed(t) \/ value'[t] # value[t])
       => InsertedLast(expiry, expiry', value', t)

\* timing_update_counts keeps the pending adjustment.
LEMMA UpdateCountsEffect ==
  ASSUME TimersOK, UpdateCounts, ListInv', value' \in [Timers -> Int]
  PROVE  /\ nextExpiry' = HeadValue(expiry', value')
         /\ nextExpiry' \in Int /\ countdown' \in Int
         /\ Adjustment' = Adjustment
<1>1. HeadValue(expiry', value') \in Int
  BY HeadIsNearest DEF ListInv, ListOK
<1>2. Adjustment \in Int
  BY DEF TimersOK, Adjustment
<1> QED BY <1>1, <1>2 DEF UpdateCounts, Adjustment

\* timing_start_timer_with_internal_value.
LEMMA StartEffect ==
  ASSUME TimersOK, ListInv, NEW t \in Timers, NEW v \in Int,
         StartTimerWithInternalValue(t, v)
  PROVE  Effect(t)
<1>1. Adjustment \in Int
  BY DEF TimersOK, Adjustment
<1>2. /\ value' \in [Timers -> Int]
      /\ ticking' \in [Timers -> BOOLEAN]
      /\ firing' \in [Timers -> BOOLEAN]
  BY <1>1 DEF StartTimerWithInternalValue, TimersOK
<1>3. \A s \in Timers : s # t =>
        value'[s] = value[s] /\ ticking'[s] = ticking[s] /\ firing'[s] = firing[s]
  BY DEF StartTimerWithInternalValue, TimersOK
<1>4. ~Listed(expiry, t)
  BY DEF StartTimerWithInternalValue, ListInv, ListOK
<1>5. expiry = IF Listed(expiry, t) THEN Removed(expiry, t) ELSE expiry
  BY <1>4
<1>6. \/ ticking'[t] /\ firing'[t] /\ expiry' = Inserted(expiry, value', t)
      \/ ~(ticking'[t] /\ firing'[t]) /\ expiry' = expiry
  BY DEF StartTimerWithInternalValue, TimersOK
<1>7. ListInv'
  BY <1>2, <1>3, <1>5, <1>6, Relisting DEF ListInv, TimersOK
<1>8. Armed(t)' => InsertedLast(expiry, expiry', value', t)
  <2>1. SUFFICES ASSUME Armed(t)' PROVE InsertedLast(expiry, expiry', value', t)
    OBVIOUS
  <2>2. expiry' = Inserted(expiry, value', t)
    BY <2>1, <1>6 DEF Armed
  <2> QED BY <2>2, <1>2, <1>3, <1>5, RelistedLast DEF ListInv, TimersOK
<1> QED BY <1>2, <1>3, <1>7, <1>8, UpdateCountsEffect DEF Effect, TimersOK, StartTimerWithInternalValue

\* timing_stop_timer.
LEMMA StopEffect ==
  ASSUME TimersOK, ListInv, NEW t \in Timers, StopTimer(t)
  PROVE  Effect(t)
<1>1. Adjustment \in Int
  BY DEF TimersOK, Adjustment
<1>2. /\ value' \in [Timers -> Int]
      /\ ticking' \in [Timers -> BOOLEAN]
      /\ firing' \in [Timers -> BOOLEAN]
  BY <1>1 DEF StopTimer, TimersOK
<1>3. \A s \in Timers : s # t =>
        value'[s] = value[s] /\ ticking'[s] = ticking[s] /\ firing'[s] = firing[s]
  BY DEF StopTimer, TimersOK
<1>4. firing[t] <=> Listed(expiry, t)
  BY DEF StopTimer, ListInv, ListOK
<1>5. expiry' = IF Listed(expiry, t) THEN Removed(expiry, t) ELSE expiry
  BY <1>4 DEF StopTimer
<1>6. ~(ticking'[t] /\ firing'[t])
  BY DEF StopTimer, TimersOK
<1>7. ListInv'
  BY <1>2, <1>3, <1>5, <1>6, Relisting DEF ListInv, TimersOK
<1> QED BY <1>2, <1>3, <1>6, <1>7, UpdateCountsEffect DEF Effect, TimersOK, StopTimer, Armed

\* The re-insertion of timing_set_timer_value and timing_adjust_timer_value.
LEMMA MoveEffect ==
  ASSUME TimersOK, ListInv, NEW t \in Timers, NEW v \in Int, MoveTimer(t, v)
  PROVE  Effect(t)
<1>2. /\ value' \in [Timers -> Int]
      /\ ticking' = ticking /\ firing' = firing
  BY DEF MoveTimer, TimersOK
<1>3. \A s \in Timers : s # t =>
        value'[s] = value[s] /\ ticking'[s] = ticking[s] /\ firing'[s] = firing[s]
  BY DEF MoveTimer, TimersOK
<1> DEFINE base == IF Listed(expiry, t) THEN Removed(expiry, t) ELSE expiry
<1>4. Armed(t) <=> Listed(expiry, t)
  BY DEF Armed, ListInv, ListOK
<1>5. \/ ticking'[t] /\ firing'[t] /\ expiry' = Inserted(base, value', t)
      \/ ~(ticking'[t] /\ firing'[t]) /\ expiry' = base
  BY <1>2, <1>4 DEF MoveTimer, Armed
<1> HIDE DEF base
<1>6. ListInv'
  <2>1. base = IF Listed(expiry, t) THEN Removed(expiry, t) ELSE expiry
    BY DEF base
  <2> QED BY <1>2, <1>3, <1>5, <2>1, Relisting DEF ListInv, TimersOK
<1>7. Armed(t)' => InsertedLast(expiry, expiry', value', t)
  <2>1. SUFFICES ASSUME Armed(t)' PROVE InsertedLast(expiry, expiry', value', t)
    OBVIOUS
  <2>2. expiry' = Inserted(base, value', t)
    BY <2>1, <1>5 DEF Armed
  <2>3. base = IF Listed(expiry, t) THEN Removed(expiry, t) ELSE expiry
    BY DEF base
  <2> QED BY <2>2, <2>3, <1>2, <1>3, RelistedLast DEF ListInv, TimersOK
<1> QED BY <1>2, <1>3, <1>6, <1>7, UpdateCountsEffect DEF Effect, TimersOK, MoveTimer

\* timing_set_firing.
LEMMA SetFiringEffect ==
  ASSUME TimersOK, ListInv, NEW t \in Timers, NEW fires \in BOOLEAN,
         SetFiring(t, fires)
  PROVE  Effect(t)
<1>2. /\ value' = value /\ ticking' = ticking
      /\ firing' \in [Timers -> BOOLEAN] /\ firing'[t] = fires
  BY DEF SetFiring, TimersOK
<1>3. \A s \in Timers : s # t =>
        value'[s] = value[s] /\ ticking'[s] = ticking[s] /\ firing'[s] = firing[s]
  BY DEF SetFiring, TimersOK
<1>4. ticking[t] /\ firing[t] <=> Listed(expiry, t)
  BY DEF ListInv, ListOK
<1>5. ListInv'
  <2>1. CASE firing[t] = fires
    <3>1. firing' = firing /\ expiry' = expiry
      BY <2>1 DEF SetFiring, TimersOK
    <3> QED BY <3>1, <1>2 DEF ListInv
  <2>2. CASE firing[t] # fires
    <3>1. PICK base : base = IF Listed(expiry, t) THEN Removed(expiry, t) ELSE expiry
      OBVIOUS
    <3>2. firing[t] \in BOOLEAN /\ ticking[t] \in BOOLEAN
      BY DEF TimersOK
    <3>3. CASE fires
      <4>1. base = expiry
        BY <1>4, <2>2, <3>1, <3>3
      <4>2. expiry' = IF ticking[t] THEN Inserted(expiry, value, t) ELSE expiry
        BY <2>2, <3>3 DEF SetFiring
      <4>3. \/ ticking'[t] /\ firing'[t] /\ expiry' = Inserted(base, value', t)
            \/ ~(ticking'[t] /\ firing'[t]) /\ expiry' = base
        BY <1>2, <3>2, <3>3, <4>1, <4>2
      <4> QED BY <1>2, <1>3, <3>1, <4>3, Relisting DEF ListInv, TimersOK
    <3>4. CASE ~fires
      <4>1. expiry' = IF ticking[t] THEN Removed(expiry, t) ELSE expiry
        BY <2>2, <3>4 DEF SetFiring
      <4>2. ~(ticking'[t] /\ firing'[t]) /\ expiry' = base
        BY <1>2, <1>4, <2>2, <3>1, <3>2, <3>4, <4>1
      <4> QED BY <1>2, <1>3, <3>1, <4>2, Relisting DEF ListInv, TimersOK
    <3> QED BY <3>3, <3>4
  <2> QED BY <2>1, <2>2
<1>6. Armed(t)' /\ (~Armed(t) \/ value'[t] # value[t])
        => InsertedLast(expiry, expiry', value', t)
  <2>1. SUFFICES ASSUME Armed(t)', ~Armed(t)
                 PROVE  InsertedLast(expiry, expiry', value', t)
    BY <1>2
  <2>2. ticking[t] /\ ~firing[t] /\ fires
    BY <2>1, <1>2 DEF Armed
  <2>3. ~Listed(expiry, t) /\ expiry' = Inserted(expiry, value', t)
    BY <2>2, <1>2, <1>4 DEF SetFiring
  <2>4. expiry = IF Listed(expiry, t) THEN Removed(expiry, t) ELSE expiry
    BY <2>3
  <2> QED BY <2>3, <2>4, <1>2, <1>3, RelistedLast DEF ListInv, TimersOK
<1> QED BY <1>2, <1>3, <1>5, <1>6, UpdateCountsEffect DEF Effect, TimersOK, SetFiring

\* Every operation a client can call.
LEMMA OperationEffect ==
  ASSUME TimersOK, ListInv, NEW t \in Timers, Operation(t)
  PROVE  Effect(t)
<1>1. Adjustment \in Int /\ value[t] \in Int
  BY DEF TimersOK, Adjustment
<1>2. \A n \in Times : n * Scale \in Int
  BY TimingAssumption DEF TimingAssumption
<1>3. \A n \in Deltas : n * Scale \in Int
  BY TimingAssumption DEF TimingAssumption, Deltas
<1>4. CASE value[t] # Forever /\ StartTimer(t)
  BY <1>1, <1>4, StartEffect DEF StartTimer
<1>5. CASE \E time \in Times : StartTimerWithValue(t, time)
  BY <1>2, <1>5, StartEffect DEF StartTimerWithValue
<1>6. CASE StopTimer(t)
  BY <1>6, StopEffect
<1>7. CASE \E time \in Times : SetTimerValue(t, time)
  <2>1. PICK time \in Times : SetTimerValue(t, time)
    BY <1>7
  <2>2. PICK v \in Int : MoveTimer(t, v)
    <3>1. CASE ticking[t]
      BY <3>1, <2>1, <1>1, <1>2 DEF SetTimerValue
    <3>2. CASE ~ticking[t]
      BY <3>2, <2>1, <1>1, <1>2 DEF SetTimerValue
    <3> QED BY <3>1, <3>2
  <2> QED BY <2>2, MoveEffect
<1>8. CASE \E delta \in Deltas : AdjustTimerValue(t, delta)
  BY <1>1, <1>3, <1>8, MoveEffect DEF AdjustTimerValue
<1>9. CASE t \in Mutable /\ \E fires \in BOOLEAN : SetFiring(t, fires)
  BY <1>9, SetFiringEffect
<1> QED BY <1>4, <1>5, <1>6, <1>7, <1>8, <1>9 DEF Operation

-----------------------------------------------------------------------------
(* The inductive invariant. *)

\* The invariant of the list is what the runs check of it.
LEMMA ListInvIsListProperties ==
  ListInv <=> expiry \in Seq(Timers) /\ ListIsArmed /\ ListIsSorted
BY DEF ListInv, ListOK, ListIsArmed, ListIsSorted, Listed, Unique, Sorted, Armed

\* What the invariant says of the countdown.
LEMMA CountdownFacts ==
  ASSUME WalkIsSound
  PROVE  /\ Adjustment \in Int /\ Adjustment >= 0
         /\ countdown \in Int /\ countdown >= 0
         /\ \A t \in Timers : Remaining(t) \in Int
         /\ \A t \in Timers : Armed(t) => countdown <= Remaining(t)
         /\ expiry # <<>> => /\ Head(expiry) \in Timers
                             /\ Armed(Head(expiry))
                             /\ countdown = Remaining(Head(expiry))
         /\ expiry = <<>> => countdown > MaxDelta
<1>1. /\ ListInv /\ TypeOK /\ nextExpiry = HeadValue(expiry, value)
      /\ Adjustment \in 0..(MaxIdle + MaxDelta) /\ NothingOverdue
  BY ListInvIsListProperties DEF WalkIsSound, TypeOK
<1>2. MaxIdle \in Int /\ MaxDelta \in Int /\ Forever > MaxIdle + 2 * MaxDelta
  BY TimingAssumption DEF TimingAssumption
<1>3. Adjustment \in Int /\ Adjustment >= 0 /\ Adjustment <= MaxIdle + MaxDelta
  BY <1>1, <1>2
<1>4. nextExpiry \in Int /\ countdown \in Int /\ countdown = nextExpiry - Adjustment
  BY <1>1 DEF TypeOK, Adjustment
<1>5. \A t \in Timers : value[t] \in Int /\ ticking[t] \in BOOLEAN
  BY <1>1 DEF TypeOK
<1>6. \A t \in Timers : Remaining(t) \in Int
  BY <1>3, <1>5 DEF Remaining
<1>7. \A t \in Timers : Armed(t) <=> Listed(expiry, t)
  BY <1>1 DEF ListInv, ListOK, Armed
<1>8. \A t \in Timers : Armed(t) => Remaining(t) = value[t] - Adjustment
  BY DEF Armed, Remaining
<1>9. /\ \A t \in Timers : Listed(expiry, t) => nextExpiry <= value[t]
      /\ expiry # <<>> => /\ Head(expiry) \in Timers
                          /\ Listed(expiry, Head(expiry))
                          /\ nextExpiry = value[Head(expiry)]
      /\ expiry = <<>> => nextExpiry = Forever
  <2>1. expiry \in Seq(Timers) /\ value \in [Timers -> Int] /\ Sorted(expiry, value)
    BY <1>1 DEF ListInv, ListOK, TypeOK
  <2>2. \A t \in Timers : Listed(expiry, t) => nextExpiry <= value[t]
    BY <1>1, <2>1, HeadIsNearest
  <2>3. expiry # <<>> => /\ Head(expiry) \in Timers
                         /\ Listed(expiry, Head(expiry))
                         /\ nextExpiry = value[Head(expiry)]
    BY <1>1, <2>1, HeadIsNearest
  <2>4. expiry = <<>> => nextExpiry = Forever
    BY <1>1, <2>1, HeadIsNearest
  <2> QED BY <2>2, <2>3, <2>4
<1>10. \A t \in Timers : Armed(t) => countdown <= Remaining(t)
  BY <1>3, <1>4, <1>5, <1>7, <1>8, <1>9
<1>11. expiry # <<>> => /\ Head(expiry) \in Timers
                        /\ Armed(Head(expiry))
                        /\ countdown = Remaining(Head(expiry))
  BY <1>4, <1>7, <1>8, <1>9
<1>12. expiry = <<>> => countdown > MaxDelta
  BY <1>2, <1>3, <1>4, <1>9, TimingAssumption DEF TimingAssumption
<1>13. countdown >= 0
  <2>1. CASE expiry = <<>>
    BY <2>1, <1>2, <1>4, <1>12, TimingAssumption DEF TimingAssumption
  <2>2. CASE expiry # <<>>
    BY <2>2, <1>1, <1>11 DEF NothingOverdue
  <2> QED BY <2>1, <2>2
<1> QED BY <1>3, <1>4, <1>6, <1>10, <1>11, <1>12, <1>13

\* Initially no timer ticks.
LEMMA InitWalk == Init => WalkIsSound
<1> SUFFICES ASSUME Init PROVE WalkIsSound
  OBVIOUS
<1>1. TypeOK
  BY TimingAssumption DEF Init, TypeOK, TimingAssumption
<1>2. ListIsArmed /\ ListIsSorted
  BY DEF Init, ListIsArmed, ListIsSorted, Armed
<1>3. nextExpiry = HeadValue(expiry, value)
  BY DEF Init, HeadValue
<1>4. Adjustment \in 0..(MaxIdle + MaxDelta)
  BY TimingAssumption DEF Init, Adjustment, TimingAssumption
<1>5. NothingOverdue
  BY DEF Init, NothingOverdue, Armed
<1> QED BY <1>1, <1>2, <1>3, <1>4, <1>5, TimingAssumption DEF Init, WalkIsSound, TimingAssumption

\* An operation, in or out of a callback, keeps the invariant when its client
\* leaves nothing overdue and the walk's next pointer good.
LEMMA OperationKeepsWalk ==
  ASSUME WalkIsSound, NEW t \in Timers, Operation(t),
         UNCHANGED <<ticks, pc, left, cursor, running>>,
         pc \in {"idle", "callback"}, NothingOverdue', pc = "callback" => NextStillDue'
  PROVE  WalkIsSound'
<1>1. TimersOK /\ ListInv /\ TypeOK
  BY ListInvIsListProperties DEF WalkIsSound, TypeOK, TimersOK
<1>2. Effect(t)
  BY <1>1, OperationEffect
<1>3. TypeOK'
  BY <1>1, <1>2 DEF Effect, TypeOK, TimersOK, ListInv, ListOK
<1>4. ListIsArmed' /\ ListIsSorted'
  BY <1>2, ListInvIsListProperties, PTL DEF Effect
<1> QED BY <1>2, <1>3, <1>4 DEF WalkIsSound, Effect

\* Time passing without reaching the next expiry.
LEMMA PassKeepsWalk ==
  ASSUME WalkIsSound, NEW d \in 0..MaxDelta, d <= countdown,
         Adjustment + d <= MaxIdle + MaxDelta, Pass(d), pc' = "idle",
         left' = left \/ left' = 0, running = NoTimer,
         UNCHANGED <<value, ticking, firing, expiry, nextExpiry, cursor, running>>
  PROVE  WalkIsSound'
<1>1. TypeOK /\ Adjustment \in Int /\ Adjustment >= 0 /\ countdown \in Int /\ d \in Int /\ d >= 0
  BY CountdownFacts, TimingAssumption DEF WalkIsSound, TimingAssumption
<1>2. TypeOK'
  <2>1. ticks' \in 0..(TickMod - 1)
    BY <1>1, TimingAssumption DEF Pass, TypeOK, TimingAssumption
  <2>2. countdown' \in Int
    BY <1>1 DEF Pass
  <2>3. left' \in 0..MaxDelta
    BY <1>1, TimingAssumption DEF TypeOK, TimingAssumption
  <2> QED BY <1>1, <2>1, <2>2, <2>3 DEF TypeOK
<1>3. Adjustment' = Adjustment + d
  BY <1>1 DEF Pass, Adjustment, TypeOK
<1>4. Adjustment' \in 0..(MaxIdle + MaxDelta)
  BY <1>1, <1>3, TimingAssumption DEF TimingAssumption
<1>5. NothingOverdue'
  <2> SUFFICES ASSUME NEW t \in Timers, Armed(t)'  PROVE Remaining(t)' >= 0
    BY DEF NothingOverdue
  <2>1. Armed(t) /\ ticking[t]
    BY DEF Armed
  <2>2. Remaining(t)' = Remaining(t) - d
    BY <1>1, <1>3, <2>1 DEF Remaining, TypeOK
  <2>3. d <= Remaining(t) /\ Remaining(t) \in Int
    BY <1>1, <2>1, CountdownFacts
  <2> QED BY <1>1, <2>2, <2>3
<1>6. ListIsArmed' /\ ListIsSorted'
  BY DEF WalkIsSound, ListIsArmed, ListIsSorted, Armed
<1>7. (nextExpiry = HeadValue(expiry, value))'
  BY DEF WalkIsSound
<1> QED BY <1>2, <1>4, <1>5, <1>6, <1>7 DEF WalkIsSound

\* Pass 1 brings every ticking timer up to date.
LEMMA ExpireKeepsWalk ==
  ASSUME WalkIsSound, ExpireCountdown
  PROVE  WalkIsSound'
<1>1. /\ TypeOK /\ TypeOK' /\ expiry # <<>>
      /\ Adjustment \in Int /\ Adjustment >= 0 /\ countdown \in Int /\ countdown >= 0
      /\ nextExpiry = countdown + Adjustment
  <2>1. /\ Adjustment \in Int /\ Adjustment >= 0 /\ countdown \in Int /\ countdown >= 0
        /\ nextExpiry = countdown + Adjustment
    BY CountdownFacts DEF WalkIsSound, TypeOK, Adjustment
  <2>2. left \in 0..MaxDelta /\ MaxDelta \in Int
    BY TimingAssumption DEF WalkIsSound, TypeOK, TimingAssumption
  <2>3. expiry # <<>>
    BY <2>1, <2>2, CountdownFacts DEF ExpireCountdown
  <2>4. Head(expiry) \in Timers
    BY <2>3, CountdownFacts
  <2>5. value' \in [Timers -> Int]
    BY <2>1 DEF WalkIsSound, TypeOK, ExpireCountdown
  <2>6. ticks' \in 0..(TickMod - 1)
    BY <2>1, TimingAssumption DEF WalkIsSound, TypeOK, ExpireCountdown, TimingAssumption
  <2>7. left' \in 0..MaxDelta
    BY <2>1, <2>2 DEF ExpireCountdown
  <2> QED BY <2>1, <2>3, <2>4, <2>5, <2>6, <2>7 DEF WalkIsSound, TypeOK, ExpireCountdown
<1>2. \A t \in Timers : Armed(t) => value'[t] = value[t] - nextExpiry
  BY <1>1 DEF ExpireCountdown, Armed
<1>3. Adjustment' = 0
  BY DEF ExpireCountdown, Adjustment
<1>4. \A t \in Timers : Armed(t) <=> Armed(t)'
  BY DEF ExpireCountdown, Armed
<1>5. NothingOverdue'
  <2> SUFFICES ASSUME NEW t \in Timers, Armed(t)'  PROVE Remaining(t)' >= 0
    BY DEF NothingOverdue
  <2>1. Armed(t) /\ ticking[t]
    BY DEF ExpireCountdown, Armed
  <2>2. countdown <= Remaining(t) /\ Remaining(t) = value[t] - Adjustment /\ value[t] \in Int
    BY <1>1, <2>1, CountdownFacts DEF Remaining, TypeOK
  <2>3. Remaining(t)' = value[t] - nextExpiry
    BY <1>2, <1>3, <2>1, <2>2, <1>1 DEF Remaining, ExpireCountdown, TypeOK
  <2> QED BY <1>1, <2>2, <2>3
<1>6. ListIsArmed'
  BY <1>4 DEF WalkIsSound, ListIsArmed, ExpireCountdown
<1>7. ListIsSorted'
  <2> SUFFICES ASSUME NEW i \in 1..Len(expiry), NEW j \in 1..Len(expiry), i < j
               PROVE  value'[expiry[i]] <= value'[expiry[j]]
    BY DEF ListIsSorted, ExpireCountdown
  <2>1. value[expiry[i]] <= value[expiry[j]]
    BY DEF WalkIsSound, ListIsSorted
  <2>2. expiry[i] \in Timers /\ expiry[j] \in Timers
    BY <1>1, ElementOfSeq DEF TypeOK
  <2>3. Armed(expiry[i]) /\ Armed(expiry[j])
    BY <2>2 DEF WalkIsSound, ListIsArmed
  <2>4. /\ value'[expiry[i]] = value[expiry[i]] - nextExpiry
        /\ value'[expiry[j]] = value[expiry[j]] - nextExpiry
    BY <1>2, <2>2, <2>3
  <2>5. value[expiry[i]] \in Int /\ value[expiry[j]] \in Int /\ nextExpiry \in Int
    BY <1>1, <2>2 DEF TypeOK
  <2> QED BY <2>1, <2>4, <2>5
<1>8. Head(expiry) \in Timers /\ Armed(Head(expiry))
      /\ countdown = Remaining(Head(expiry))
  BY <1>1, CountdownFacts
<1>9. (nextExpiry = HeadValue(expiry, value))'
  <2>1. value'[Head(expiry)] = value[Head(expiry)] - nextExpiry
    BY <1>2, <1>8
  <2>2. value[Head(expiry)] = nextExpiry
    BY <1>1 DEF WalkIsSound, HeadValue
  <2>3. nextExpiry \in Int
    BY <1>1 DEF TypeOK
  <2>4. value'[Head(expiry)] = 0
    BY <2>1, <2>2, <2>3
  <2>5. nextExpiry' = 0 /\ expiry' = expiry
    BY DEF ExpireCountdown
  <2> QED BY <1>1, <2>4, <2>5, Zenon DEF HeadValue
<1>10. NextStillDue'
  BY <1>1, <1>4, <1>8 DEF NextStillDue, ExpireCountdown
<1>11. Adjustment' \in 0..(MaxIdle + MaxDelta)
  BY <1>3, TimingAssumption DEF TimingAssumption
<1>12. running' = NoTimer
  BY DEF WalkIsSound, ExpireCountdown
<1> QED BY <1>1, <1>3, <1>5, <1>6, <1>7, <1>9, <1>10, <1>11, <1>12 DEF WalkIsSound, ExpireCountdown

\* Pass 2 loads the next pointer before it calls back.
LEMMA FireKeepsWalk ==
  ASSUME WalkIsSound, FireTimer
  PROVE  WalkIsSound'
<1>1. cursor \in Timers
  BY DEF WalkIsSound, TypeOK, FireTimer, IsDue
<1>2. NextInList(expiry, cursor) = NoTimer
      \/ /\ NextInList(expiry, cursor) \in Timers
         /\ Listed(expiry, NextInList(expiry, cursor))
  BY NextIsListed DEF WalkIsSound, TypeOK
<1>3. TypeOK'
  BY <1>1, <1>2 DEF WalkIsSound, TypeOK, FireTimer
<1>4. NextStillDue'
  BY <1>2 DEF WalkIsSound, ListIsArmed, Listed, NextStillDue, Armed, FireTimer
<1>5. ListIsArmed' /\ ListIsSorted' /\ NothingOverdue' /\ Adjustment' = Adjustment
  BY DEF WalkIsSound, ListIsArmed, ListIsSorted, NothingOverdue, Armed, Remaining,
         Adjustment, FireTimer
<1>6. (nextExpiry = HeadValue(expiry, value))'
  BY DEF WalkIsSound, FireTimer
<1>7. Adjustment = 0
  BY DEF WalkIsSound, FireTimer
<1>8. running' # NoTimer
  BY <1>1, TimingAssumption DEF FireTimer, TimingAssumption
<1> QED BY <1>3, <1>4, <1>5, <1>6, <1>7, <1>8 DEF WalkIsSound, FireTimer

\* Every step of the scheduler keeps the invariant.
LEMMA NextWalk == WalkIsSound /\ [Next]_vars => WalkIsSound'
<1> SUFFICES ASSUME WalkIsSound, [Next]_vars PROVE WalkIsSound'
  OBVIOUS
<1>1. TypeOK /\ Adjustment \in Int /\ countdown \in Int /\ countdown >= 0 /\ MaxDelta \in Int
  BY CountdownFacts, TimingAssumption DEF WalkIsSound, TimingAssumption
<1>2. CASE IdleOperation
  <2>1. PICK t \in Timers : Operation(t)
    BY <1>2 DEF IdleOperation
  <2> QED BY <1>2, <2>1, OperationKeepsWalk DEF IdleOperation
<1>3. CASE ResolveOperation
  <2>1. running \in Timers
    BY <1>3 DEF ResolveOperation, WalkIsSound, TypeOK
  <2> QED BY <1>3, <2>1, OperationKeepsWalk DEF ResolveOperation
<1>4. CASE OtherOperation
  <2>1. PICK t \in Timers : Operation(t)
    BY <1>4 DEF OtherOperation
  <2> QED BY <1>4, <2>1, OperationKeepsWalk DEF OtherOperation
<1>5. CASE ResetTotalTimerTicks
  <2>1. TypeOK'
    BY <1>5, TimingAssumption DEF ResetTotalTimerTicks, WalkIsSound, TypeOK, TimingAssumption
  <2>2. /\ ListIsArmed' /\ ListIsSorted' /\ NothingOverdue' /\ Adjustment' = Adjustment
        /\ (nextExpiry = HeadValue(expiry, value))'
    BY <1>5 DEF ResetTotalTimerTicks, WalkIsSound, ListIsArmed, ListIsSorted, NothingOverdue,
                Armed, Remaining, Adjustment
  <2> QED BY <1>5, <2>1, <2>2 DEF ResetTotalTimerTicks, WalkIsSound
<1>6. CASE SyncCountdown
  <2>1. PICK d \in 1..MaxDelta : d < countdown /\ Adjustment + d <= MaxIdle /\ Pass(d)
    BY <1>6 DEF SyncCountdown
  <2>2. /\ d \in 0..MaxDelta /\ d <= countdown
        /\ Adjustment + d <= MaxIdle + MaxDelta
    BY <1>1, <2>1, TimingAssumption DEF TimingAssumption
  <2>3. /\ pc' = "idle" /\ left' = left /\ running = NoTimer
        /\ UNCHANGED <<value, ticking, firing, expiry, nextExpiry, cursor, running>>
    BY <1>6 DEF SyncCountdown, WalkIsSound
  <2> QED BY <2>1, <2>2, <2>3, PassKeepsWalk
<1>7. CASE EnterAdvance
  <2>1. /\ pc' = "advance" /\ left' \in 1..MaxDelta /\ left' >= countdown
        /\ running = NoTimer
    BY <1>7 DEF EnterAdvance, WalkIsSound
  <2>2. TypeOK'
    BY <1>1, <1>7, <2>1 DEF EnterAdvance, TypeOK
  <2>3. /\ ListIsArmed' /\ ListIsSorted' /\ NothingOverdue' /\ Adjustment' = Adjustment
        /\ (nextExpiry = HeadValue(expiry, value))' /\ countdown' = countdown
    BY <1>7 DEF EnterAdvance, WalkIsSound, ListIsArmed, ListIsSorted, NothingOverdue,
                Armed, Remaining, Adjustment
  <2>4. left' > 0
    BY <2>1
  <2> QED BY <1>7, <2>1, <2>2, <2>3, <2>4 DEF EnterAdvance, WalkIsSound
<1>8. CASE LeaveAdvance
  <2>1. left \in 0..MaxDelta /\ left <= countdown
    BY <1>1, <1>8 DEF LeaveAdvance, TypeOK
  <2>2. Adjustment = 0
    BY <1>1, <1>8, <2>1 DEF LeaveAdvance, WalkIsSound
  <2>3. Adjustment + left <= MaxIdle + MaxDelta
    BY <1>1, <2>1, <2>2, TimingAssumption DEF TimingAssumption
  <2> QED BY <1>8, <2>1, <2>3, PassKeepsWalk DEF LeaveAdvance, WalkIsSound
<1>9. CASE ExpireCountdown
  BY <1>9, ExpireKeepsWalk
<1>10. CASE FireTimer
  BY <1>10, FireKeepsWalk
<1>11. CASE CallbackReturns
  <2>1. TypeOK'
    BY <1>1, <1>11 DEF CallbackReturns, TypeOK
  <2>2. /\ ListIsArmed' /\ ListIsSorted' /\ NothingOverdue' /\ Adjustment' = Adjustment
        /\ (nextExpiry = HeadValue(expiry, value))' /\ NextStillDue'
    BY <1>11 DEF CallbackReturns, WalkIsSound, ListIsArmed, ListIsSorted, NothingOverdue,
                 Armed, Remaining, Adjustment, NextStillDue
  <2> QED BY <1>11, <2>1, <2>2 DEF CallbackReturns, WalkIsSound
<1>12. CASE EndScan
  <2>1. TimersOK /\ ListInv' /\ value' \in [Timers -> Int] /\ expiry' \in Seq(Timers)
    BY <1>1, <1>12, ListInvIsListProperties
       DEF EndScan, TimersOK, TypeOK, WalkIsSound, ListInv
  <2>2. /\ (nextExpiry = HeadValue(expiry, value))'
        /\ nextExpiry' \in Int /\ countdown' \in Int /\ Adjustment' = Adjustment
    BY <1>12, <2>1, UpdateCountsEffect DEF EndScan
  <2>3. TypeOK'
    BY <1>1, <1>12, <2>2 DEF EndScan, TypeOK
  <2>4. ListIsArmed' /\ ListIsSorted' /\ NothingOverdue'
    BY <1>12, <2>2 DEF EndScan, WalkIsSound, ListIsArmed, ListIsSorted, NothingOverdue,
                       Armed, Remaining
  <2> QED BY <1>12, <2>2, <2>3, <2>4 DEF EndScan, WalkIsSound
<1>13. CASE UNCHANGED vars
  BY <1>13 DEF vars, WalkIsSound, TypeOK, ListIsArmed, ListIsSorted, NothingOverdue,
               Armed, Remaining, Adjustment, NextStillDue
<1> QED BY <1>2, <1>3, <1>4, <1>5, <1>6, <1>7, <1>8, <1>9, <1>10, <1>11, <1>12, <1>13 DEF Next

-----------------------------------------------------------------------------
(* The theorems. *)

\* The inductive invariant holds of every behaviour, whatever the timers, the
\* times, the scale and the bounds.
THEOREM WalkAlwaysSound == Spec => []WalkIsSound
BY InitWalk, NextWalk, PTL DEF Spec

\* The scheduler's variables keep their types.
THEOREM TypesAlwaysOK == Spec => []TypeOK
<1>1. WalkIsSound => TypeOK
  BY DEF WalkIsSound
<1> QED BY <1>1, WalkAlwaysSound, PTL

\* Start, stop, set_firing, set and adjust keep the list and the flags in step.
THEOREM ListAlwaysArmed == Spec => [](ListIsArmed /\ ListIsSorted)
<1>1. WalkIsSound => ListIsArmed /\ ListIsSorted
  BY DEF WalkIsSound
<1> QED BY <1>1, WalkAlwaysSound, PTL

\* The CPU is never allowed to run past an armed timer, nor stopped short of
\* the earliest one.
THEOREM CountdownAlwaysNearest == Spec => []CountdownIsNearest
<1>1. WalkIsSound => CountdownIsNearest
  BY CountdownFacts DEF CountdownIsNearest
<1> QED BY <1>1, WalkAlwaysSound, PTL

\* Pass 2 calls back only timers that are armed and expire at this very tick.
THEOREM AlwaysFiresOnTime == Spec => []FiresArmedAndOnTime
<1>1. WalkIsSound => FiresArmedAndOnTime
  <2> SUFFICES ASSUME WalkIsSound, pc = "scan", IsDue(cursor)
               PROVE  Armed(cursor) /\ value[cursor] = 0
    BY DEF FiresArmedAndOnTime
  <2>1. cursor \in Timers /\ value[cursor] \in Int /\ value[cursor] <= 0
    BY DEF IsDue, WalkIsSound, TypeOK
  <2>2. Armed(cursor) /\ Adjustment = 0
    BY <2>1 DEF WalkIsSound, NextStillDue, IsDue
  <2>3. Remaining(cursor) >= 0
    BY <2>1, <2>2 DEF WalkIsSound, NothingOverdue
  <2> QED BY <2>1, <2>2, <2>3 DEF Remaining, Armed
<1> QED BY <1>1, WalkAlwaysSound, PTL

-----------------------------------------------------------------------------
(* The scheduler implements the timer service. *)

\* What an operation on one timer does to the times remaining of the others.
LEMMA OperationRetimes ==
  ASSUME WalkIsSound, NEW t \in Timers, Effect(t)
  PROVE  \A s \in Timers \ {t} :
           [u \in Timers |-> Remaining(u)]'[s] = [u \in Timers |-> Remaining(u)][s]
BY DEF Effect, Remaining

\* Every operation is an operation of the service, or changes nothing it shows.
LEMMA OperationIsServed ==
  ASSUME WalkIsSound, NEW t \in Timers, Operation(t), running' = running
  PROVE  [Service!Next]_(Service!vars)
<1>1. /\ TimersOK /\ ListInv /\ TypeOK
      /\ Adjustment \in Int
      /\ \A n \in Times : n * Scale \in Int
      /\ \A n \in Deltas : n * Scale \in Int
  BY ListInvIsListProperties, CountdownFacts, TimingAssumption
     DEF WalkIsSound, TypeOK, TimersOK, TimingAssumption, Deltas
<1>2. Effect(t)
  BY <1>1, OperationEffect
<1>3. Service!Retimes(t)
  BY <1>2, OperationRetimes DEF Service!Retimes
<1>4. ASSUME NEW v, StartTimerWithInternalValue(t, v)  PROVE Service!Start(t)
  BY <1>3, <1>4 DEF StartTimerWithInternalValue, Service!Start
<1>5. ASSUME StopTimer(t)  PROVE Service!Stop(t)
  <2>1. Remaining(t)' = Remaining(t)
    BY <1>1, <1>5 DEF StopTimer, Remaining, TypeOK
  <2>2. \A s \in Timers : Remaining(s)' = Remaining(s)
    BY <1>2, <2>1 DEF Effect, Remaining
  <2>3. [u \in Timers |-> Remaining(u)]' = [u \in Timers |-> Remaining(u)]
    BY <2>2
  <2> QED BY <1>5, <2>3 DEF StopTimer, Service!Stop
<1>6. ASSUME NEW v, MoveTimer(t, v)  PROVE Service!SetTime(t)
  BY <1>3, <1>6 DEF MoveTimer, Service!SetTime
<1>7. ASSUME NEW fires \in BOOLEAN, SetFiring(t, fires)
      PROVE  [Service!Next]_(Service!vars)
  <2>1. \A s \in Timers : Remaining(s)' = Remaining(s)
    BY <1>2, <1>7 DEF Effect, SetFiring, Remaining
  <2>2. [u \in Timers |-> Remaining(u)]' = [u \in Timers |-> Remaining(u)]
    BY <2>1
  <2>3. CASE firing[t] = fires
    <3>1. firing' = firing /\ ticking' = ticking
      BY <1>1, <1>7, <2>3 DEF SetFiring, TypeOK
    <3> QED BY <2>2, <3>1 DEF Service!vars
  <2>4. CASE firing[t] # fires
    <3>1. firing' = [firing EXCEPT ![t] = ~@] /\ ticking' = ticking
      BY <1>1, <1>7, <2>4 DEF SetFiring, TypeOK
    <3>2. Service!Mute(t)
      BY <2>2, <3>1 DEF Service!Mute
    <3> QED BY <3>2 DEF Service!Next
  <2> QED BY <2>3, <2>4
<1>8. Service!Start(t) \/ Service!Stop(t) \/ Service!SetTime(t) => Service!Next
  BY DEF Service!Next
<1>9. CASE value[t] # Forever /\ StartTimer(t)
  BY <1>4, <1>8, <1>9 DEF StartTimer
<1>10. CASE \E time \in Times : StartTimerWithValue(t, time)
  BY <1>4, <1>8, <1>10 DEF StartTimerWithValue
<1>11. CASE StopTimer(t)
  BY <1>5, <1>8, <1>11
<1>12. CASE \E time \in Times : SetTimerValue(t, time)
  BY <1>6, <1>8, <1>12 DEF SetTimerValue
<1>13. CASE \E delta \in Deltas : AdjustTimerValue(t, delta)
  BY <1>6, <1>8, <1>13 DEF AdjustTimerValue
<1>14. CASE t \in Mutable /\ \E fires \in BOOLEAN : SetFiring(t, fires)
  BY <1>7, <1>14
<1> QED BY <1>9, <1>10, <1>11, <1>12, <1>13, <1>14 DEF Operation

\* Time that does not overtake the next expiry elapses for every timer alike.
LEMMA PassElapses ==
  ASSUME WalkIsSound, NEW d \in 0..MaxDelta, d <= countdown, pc # "callback",
         \A t \in Timers : ticking[t] => Remaining(t)' = Remaining(t) - d,
         \A t \in Timers : ~ticking[t] => Remaining(t)' = Remaining(t),
         UNCHANGED <<ticking, firing, running>>
  PROVE  Service!Next
<1>1. d \in 0..Forever
  BY TimingAssumption DEF TimingAssumption
<1>2. running = NoTimer
  BY DEF WalkIsSound
<1>3. \A t \in Timers : Service!Armed(t) => d <= [u \in Timers |-> Remaining(u)][t]
  <2> SUFFICES ASSUME NEW t \in Timers, Armed(t)  PROVE d <= Remaining(t)
    BY DEF Service!Armed, Armed
  <2>1. countdown <= Remaining(t) /\ countdown \in Int /\ Remaining(t) \in Int
    BY CountdownFacts
  <2> QED BY <2>1
<1>4. [u \in Timers |-> Remaining(u)]' =
        [t \in Timers |-> IF ticking[t] THEN [u \in Timers |-> Remaining(u)][t] - d
                                        ELSE [u \in Timers |-> Remaining(u)][t]]
  OBVIOUS
<1>5. Service!Elapse(d)
  BY <1>2, <1>3, <1>4 DEF Service!Elapse
<1> QED BY <1>1, <1>5 DEF Service!Next

\* Steps of advance_time that the service does not show.
LEMMA HiddenStep ==
  ASSUME UNCHANGED <<value, ticking, firing, running>>, Adjustment' = Adjustment
  PROVE  UNCHANGED Service!vars
<1>1. \A t \in Timers : Remaining(t)' = Remaining(t)
  BY DEF Remaining
<1>2. [u \in Timers |-> Remaining(u)]' = [u \in Timers |-> Remaining(u)]
  BY <1>1
<1> QED BY <1>2 DEF Service!vars

\* Every step of the scheduler is a step of the service or a stutter.
LEMMA NextIsServed ==
  WalkIsSound /\ [Next]_vars => [Service!Next]_(Service!vars)
<1> SUFFICES ASSUME WalkIsSound, [Next]_vars PROVE [Service!Next]_(Service!vars)
  OBVIOUS
<1>1. /\ TypeOK /\ Adjustment \in Int /\ countdown \in Int /\ countdown >= 0
      /\ MaxDelta \in Int /\ nextExpiry = countdown + Adjustment
      /\ \A t \in Timers : value[t] \in Int
  <2>1. Adjustment \in Int /\ countdown \in Int /\ countdown >= 0
    BY CountdownFacts
  <2>2. TypeOK /\ nextExpiry \in Int /\ \A t \in Timers : value[t] \in Int
    BY DEF WalkIsSound, TypeOK
  <2>3. nextExpiry = countdown + Adjustment
    BY <2>1, <2>2 DEF Adjustment
  <2>4. MaxDelta \in Int
    BY TimingAssumption DEF TimingAssumption
  <2> QED BY <2>1, <2>2, <2>3, <2>4
<1>2. CASE IdleOperation
  BY <1>2, OperationIsServed DEF IdleOperation
<1>3. CASE ResolveOperation
  BY <1>1, <1>3, OperationIsServed DEF ResolveOperation, WalkIsSound, TypeOK
<1>4. CASE OtherOperation
  BY <1>4, OperationIsServed DEF OtherOperation
<1>5. CASE ResetTotalTimerTicks
  BY <1>5, HiddenStep DEF ResetTotalTimerTicks, Adjustment
<1>6. CASE SyncCountdown
  <2>1. PICK d \in 1..MaxDelta : d < countdown /\ Pass(d)
    BY <1>6 DEF SyncCountdown
  <2>2. d \in 0..MaxDelta /\ d <= countdown /\ d \in Int
    BY <1>1, <2>1
  <2>3. Adjustment' = Adjustment + d
    BY <1>1, <1>6, <2>1, <2>2 DEF SyncCountdown, Pass, Adjustment
  <2>4. UNCHANGED <<value, ticking, firing, running>> /\ pc # "callback"
    BY <1>6 DEF SyncCountdown
  <2>5. /\ \A t \in Timers : ticking[t] => Remaining(t)' = Remaining(t) - d
        /\ \A t \in Timers : ~ticking[t] => Remaining(t)' = Remaining(t)
    BY <1>1, <2>2, <2>3, <2>4 DEF Remaining
  <2> QED BY <2>2, <2>4, <2>5, PassElapses
<1>7. CASE EnterAdvance
  BY <1>7, HiddenStep DEF EnterAdvance, Adjustment
<1>8. CASE LeaveAdvance
  <2>1. left \in 0..MaxDelta /\ left <= countdown /\ left \in Int
    BY <1>1, <1>8 DEF LeaveAdvance, TypeOK
  <2>2. Adjustment' = Adjustment + left
    BY <1>1, <1>8, <2>1 DEF LeaveAdvance, Pass, Adjustment
  <2>3. UNCHANGED <<value, ticking, firing, running>> /\ pc # "callback"
    BY <1>8 DEF LeaveAdvance
  <2>4. /\ \A t \in Timers : ticking[t] => Remaining(t)' = Remaining(t) - left
        /\ \A t \in Timers : ~ticking[t] => Remaining(t)' = Remaining(t)
    BY <1>1, <2>1, <2>2, <2>3 DEF Remaining
  <2> QED BY <2>1, <2>3, <2>4, PassElapses
<1>9. CASE ExpireCountdown
  <2>1. countdown \in 0..MaxDelta /\ countdown <= countdown
    BY <1>1, <1>9 DEF ExpireCountdown, TypeOK
  <2>2. Adjustment' = 0
    BY <1>9 DEF ExpireCountdown, Adjustment
  <2>3. UNCHANGED <<ticking, firing, running>> /\ pc # "callback"
    BY <1>9 DEF ExpireCountdown
  <2>4. ASSUME NEW t \in Timers
        PROVE  Remaining(t)' = IF ticking[t] THEN Remaining(t) - countdown ELSE Remaining(t)
    <3>1. value'[t] = IF ticking[t] THEN value[t] - (countdown + Adjustment) ELSE value[t]
      BY <1>9 DEF ExpireCountdown
    <3>2. CASE ticking[t]
      BY <1>1, <2>2, <2>3, <3>1, <3>2 DEF Remaining
    <3>3. CASE ~ticking[t]
      BY <1>1, <2>2, <2>3, <3>1, <3>3 DEF Remaining
    <3> QED BY <3>2, <3>3
  <2> QED BY <2>1, <2>3, <2>4, PassElapses
<1>10. CASE FireTimer
  <2>1. cursor \in Timers /\ value[cursor] <= 0 /\ Adjustment = 0 /\ running = NoTimer
    BY <1>10 DEF FireTimer, IsDue, WalkIsSound, TypeOK
  <2>2. Armed(cursor)
    <3>1. NextStillDue /\ cursor # NoTimer
      BY <1>10 DEF WalkIsSound, FireTimer, IsDue
    <3> QED BY <1>1, <2>1, <3>1 DEF NextStillDue
  <2>3. Remaining(cursor) = 0
    BY <1>1, <2>1, <2>2 DEF WalkIsSound, NothingOverdue, Remaining, Armed
  <2>4. \A t \in Timers : Remaining(t)' = Remaining(t)
    BY <1>10 DEF FireTimer, Remaining, Adjustment
  <2>5. [u \in Timers |-> Remaining(u)]' = [u \in Timers |-> Remaining(u)]
    BY <2>4
  <2>6. Service!Fire(cursor)
    BY <1>10, <2>1, <2>2, <2>3, <2>5 DEF FireTimer, Service!Fire, Service!Armed, Armed
  <2> QED BY <2>1, <2>6 DEF Service!Next
<1>11. CASE CallbackReturns
  <2>1. running \in Timers /\ running # NoTimer /\ Adjustment = 0
    BY <1>1, <1>11 DEF CallbackReturns, WalkIsSound, TypeOK
  <2>2. Armed(running) => Remaining(running) > 0
    BY <1>1, <1>11, <2>1 DEF CallbackReturns, Resolved, Remaining
  <2>3. \A t \in Timers : Remaining(t)' = Remaining(t)
    BY <1>11 DEF CallbackReturns, Remaining, Adjustment
  <2>4. [u \in Timers |-> Remaining(u)]' = [u \in Timers |-> Remaining(u)]
    BY <2>3
  <2>5. Service!Return
    BY <1>11, <2>1, <2>2, <2>4 DEF CallbackReturns, Service!Return, Service!Armed, Armed
  <2> QED BY <2>5 DEF Service!Next
<1>12. CASE EndScan
  <2>1. Adjustment' = Adjustment
    <3>1. TimersOK /\ ListInv /\ UNCHANGED <<value, ticking, firing, expiry>> /\ UpdateCounts
      BY <1>1, <1>12, ListInvIsListProperties DEF EndScan, TimersOK, TypeOK, WalkIsSound
    <3>2. ListInv' /\ value' \in [Timers -> Int]
      BY <1>1, <3>1 DEF ListInv, TypeOK
    <3> QED BY <3>1, <3>2, UpdateCountsEffect
  <2> QED BY <1>12, <2>1, HiddenStep DEF EndScan
<1>13. CASE UNCHANGED vars
  BY <1>13, HiddenStep DEF vars, Adjustment
<1> QED BY <1>2, <1>3, <1>4, <1>5, <1>6, <1>7, <1>8, <1>9, <1>10, <1>11, <1>12, <1>13 DEF Next

\* Initially the service has no timer ticking.
LEMMA InitIsServed == Init => Service!Init
<1> SUFFICES ASSUME Init PROVE Service!Init
  OBVIOUS
<1>1. [u \in Timers |-> Remaining(u)] = [t \in Timers |-> Forever]
  BY DEF Init, Remaining
<1> QED BY <1>1 DEF Init, Service!Init

\* timing.c keeps the promises of timing.h: whatever the interleaving of
\* operations, runs of the CPU and callbacks, each timer's time runs down
\* independently of the others and its callback comes at its zero.
THEOREM SchedulerImplementsService == Spec => ImplementsService
BY InitIsServed, NextIsServed, WalkAlwaysSound, PTL DEF Spec, Service!Spec, ImplementsService

-----------------------------------------------------------------------------
(* First in, first out. *)

\* A step that arms or moves a timer puts it behind those armed for its time.
LEMMA StepIsFifo ==
  WalkIsSound /\ [Next]_vars =>
    \A s, t \in Timers :
      /\ s # t
      /\ Armed(s) /\ Armed(s)' /\ value'[s] = value[s]
      /\ Armed(t)' /\ (~Armed(t) \/ value'[t] # value[t])
      /\ value'[s] = value'[t]
      => Before(expiry', s, t)
<1> SUFFICES ASSUME WalkIsSound, [Next]_vars, NEW s \in Timers, NEW t \in Timers,
                    s # t, Armed(s), Armed(s)', value'[s] = value[s],
                    Armed(t)', ~Armed(t) \/ value'[t] # value[t],
                    value'[s] = value'[t]
             PROVE  Before(expiry', s, t)
  OBVIOUS
<1>1. TimersOK /\ ListInv /\ TypeOK
  BY ListInvIsListProperties DEF WalkIsSound, TypeOK, TimersOK
<1>2. Listed(expiry, s)
  BY <1>1 DEF ListInv, ListOK, Armed
<1>3. ASSUME NEW u \in Timers, Operation(u)  PROVE Before(expiry', s, t)
  <2>1. Effect(u)
    BY <1>1, <1>3, OperationEffect
  <2>2. u = t
    BY <2>1 DEF Effect, Armed
  <2>3. InsertedLast(expiry, expiry', value', t)
    BY <2>1, <2>2 DEF Effect
  <2>4. value'[s] <= value'[t]
    <3>1. value'[s] \in Int
      BY <1>1 DEF TypeOK
    <3> QED BY <3>1
  <2> QED BY <1>2, <2>3, <2>4 DEF InsertedLast
<1>4. CASE IdleOperation
  BY <1>3, <1>4 DEF IdleOperation
<1>5. CASE ResolveOperation
  BY <1>1, <1>3, <1>5 DEF ResolveOperation, WalkIsSound, TypeOK
<1>6. CASE OtherOperation
  BY <1>3, <1>6 DEF OtherOperation
<1>7. CASE ExpireCountdown
  <2>1. /\ value'[s] = value[s] - (countdown + Adjustment)
        /\ value'[t] = value[t] - (countdown + Adjustment)
        /\ Armed(t)
    BY <1>7 DEF ExpireCountdown, Armed
  <2>2. /\ value[s] \in Int /\ value[t] \in Int
        /\ countdown \in Int /\ Adjustment \in Int
    BY <1>1, CountdownFacts DEF TypeOK
  <2>3. countdown + Adjustment = 0
    BY <2>1, <2>2
  <2>4. value'[t] = value[t]
    <3>1. value[t] - 0 = value[t]
      BY <2>2
    <3> QED BY <2>1, <2>3, <3>1, Zenon
  <2> QED BY <2>1, <2>4, Zenon
<1>8. CASE UNCHANGED <<value, ticking, firing>>
  BY <1>8 DEF Armed
<1> QED BY <1>4, <1>5, <1>6, <1>7, <1>8
        DEF Next, vars, ResetTotalTimerTicks, SyncCountdown, EnterAdvance, LeaveAdvance,
            FireTimer, CallbackReturns, EndScan

\* Timers that expire together are called back in the order they were armed.
THEOREM AlwaysFifo == Spec => FifoOrder
<1>1. WalkIsSound /\ [Next]_vars =>
        [\A s, t \in Timers :
           /\ s # t
           /\ Armed(s) /\ Armed(s)' /\ value'[s] = value[s]
           /\ Armed(t)' /\ (~Armed(t) \/ value'[t] # value[t])
           /\ value'[s] = value'[t]
           => Before(expiry', s, t)]_vars
  BY StepIsFifo
<1> QED BY <1>1, WalkAlwaysSound, PTL DEF Spec, FifoOrder
=============================================================================
