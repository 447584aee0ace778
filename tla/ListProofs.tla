----------------------------- MODULE ListProofs ------------------------------
(* Lemmas about lists and about filtering them.  Induction is over a set: a   *)
(* set of numbers, or of lists, that holds the first one and with each one    *)
(* the next.                                                                  *)
EXTENDS Selection, Integers, SequencesExt, SequenceTheorems, WellFoundedInduction, TLAPS

-----------------------------------------------------------------------------
(* Induction.                                                              *)

\* A set with 0 and with the successor of each of its numbers holds all of them.
LEMMA NumberInduction ==
  ASSUME NEW T, 0 \in T, \A n \in Nat : n \in T => n + 1 \in T
  PROVE  Nat \subseteq T
<1> DEFINE D == Nat \ T
           R == OpToRel(<, Nat)
<1>1. ASSUME D # {} PROVE FALSE
  <2>1. D \subseteq Nat
    OBVIOUS
  <2>2. IsWellFoundedOn(R, Nat)
    BY NatLessThanWellFounded
  <2> HIDE DEF D, R
  <2>3. PICK x \in D : \A y \in D : ~ (<<y, x>> \in R)
    BY <1>1, <2>1, <2>2, WFMin
  <2> USE DEF D
  <2>4. x # 0 /\ x \in Nat /\ x - 1 \in Nat
    BY <2>3
  <2>5. <<x - 1, x>> \in R
    BY <2>4 DEF R, OpToRel
  <2> QED BY <2>3, <2>4, <2>5
<1> QED BY <1>1

\* A list is a shorter one with an element appended.
LEMMA LastOff ==
  ASSUME NEW A, NEW n \in Nat, NEW s \in Seq(A), Len(s) = n + 1
  PROVE  \E t \in Seq(A), a \in A : s = Append(t, a) /\ Len(t) = n
<1> DEFINE t == SubSeq(s, 1, n)
<1>1. \A i \in 1..n : s[i] \in A
  OBVIOUS
<1>2. t \in Seq(A) /\ Len(t) = n /\ \A i \in 1..n : t[i] = s[i]
  BY <1>1, SubSeqProperties
<1>3. s[n + 1] \in A
  OBVIOUS
<1> HIDE DEF t
<1>4. Append(t, s[n + 1]) = s
  <2>1. /\ Append(t, s[n + 1]) \in Seq(A) /\ Len(Append(t, s[n + 1])) = n + 1
        /\ \A i \in 1..(n + 1) : Append(t, s[n + 1])[i] = s[i]
    BY <1>2, <1>3, AppendProperties
  <2> QED BY <2>1, SeqEqual
<1> QED BY <1>2, <1>3, <1>4

\* A set with the empty list, and with each of its lists those that have one more
\* element, holds all lists.
LEMMA ListInduction ==
  ASSUME NEW A, NEW T, <<>> \in T,
         \A s \in Seq(A), a \in A : s \in T => Append(s, a) \in T
  PROVE  Seq(A) \subseteq T
<1> DEFINE N == {n \in Nat : \A s \in Seq(A) : Len(s) = n => s \in T}
<1>1. 0 \in N
  <2>1. \A s \in Seq(A) : Len(s) = 0 => s = <<>>
    BY EmptySeq
  <2> QED BY <2>1
<1>2. ASSUME NEW n \in Nat, n \in N PROVE n + 1 \in N
  <2>1. ASSUME NEW s \in Seq(A), Len(s) = n + 1 PROVE s \in T
    <3>1. PICK t \in Seq(A), a \in A : s = Append(t, a) /\ Len(t) = n
      BY <2>1, LastOff
    <3> QED BY <1>2, <3>1
  <2> QED BY <2>1
<1> HIDE DEF N
<1>3. Nat \subseteq N
  BY <1>1, <1>2, NumberInduction
<1> USE DEF N
<1>4. \A s \in Seq(A) : Len(s) \in Nat
  OBVIOUS
<1> QED BY <1>3, <1>4

-----------------------------------------------------------------------------
(* Lists joined, appended to and removed from.                             *)

\* A list of whatever.
Listed(s) == \E S : s \in Seq(S)

\* No list is no list.
LEMMA NoList == Listed(<<>>) /\ Len(<<>>) = 0 /\ DOMAIN <<>> = {}
<1>1. <<>> \in Seq({})
  OBVIOUS
<1>2. Listed(<<>>)
  BY <1>1 DEF Listed
<1> QED BY <1>2

\* Two lists joined.
LEMMA Joined ==
  ASSUME NEW s, NEW t, Listed(s), Listed(t)
  PROVE  /\ Listed(s \o t) /\ Len(s) \in Nat /\ Len(t) \in Nat
         /\ DOMAIN s = 1..Len(s) /\ DOMAIN t = 1..Len(t)
         /\ Len(s \o t) = Len(s) + Len(t) /\ DOMAIN (s \o t) = 1..(Len(s) + Len(t))
         /\ \A i \in 1..(Len(s) + Len(t)) :
              (s \o t)[i] = IF i <= Len(s) THEN s[i] ELSE t[i - Len(s)]
<1>1. PICK A : s \in Seq(A)
  BY DEF Listed
<1>2. PICK B : t \in Seq(B)
  BY DEF Listed
<1>3. s \in Seq(A \cup B) /\ t \in Seq(A \cup B)
  BY <1>1, <1>2
<1>4. s \o t \in Seq(A \cup B)
  BY <1>3, ConcatProperties
<1> QED BY <1>3, <1>4, ConcatProperties DEF Listed

\* A list with one entry more.
LEMMA Appended1 ==
  ASSUME NEW s, NEW e, Listed(s)
  PROVE  /\ Listed(Append(s, e)) /\ Len(s) \in Nat /\ DOMAIN s = 1..Len(s)
         /\ Len(Append(s, e)) = Len(s) + 1 /\ DOMAIN Append(s, e) = 1..(Len(s) + 1)
         /\ \A i \in 1..(Len(s) + 1) :
              Append(s, e)[i] = IF i <= Len(s) THEN s[i] ELSE e
<1>1. PICK A : s \in Seq(A)
  BY DEF Listed
<1>2. s \in Seq(A \cup {e})
  BY <1>1
<1>3. Append(s, e) \in Seq(A \cup {e})
  BY <1>2, AppendProperties
<1> QED BY <1>2, <1>3, AppendProperties DEF Listed

\* A list with an element put before it.
LEMMA Prepended ==
  ASSUME NEW A, NEW s \in Seq(A), NEW a \in A
  PROVE  /\ <<a>> \o s \in Seq(A) /\ Len(<<a>> \o s) = Len(s) + 1 /\ Len(s) \in Nat
         /\ \A i \in 1..(Len(s) + 1) : (<<a>> \o s)[i] = IF i = 1 THEN a ELSE s[i - 1]
<1>1. <<a>> \in Seq(A) /\ Len(<<a>>) = 1 /\ <<a>>[1] = a /\ Len(s) \in Nat
  OBVIOUS
<1> DEFINE t == <<a>>
<1> HIDE DEF t
<1>2. t \in Seq(A) /\ Len(t) = 1 /\ t[1] = a
  BY <1>1 DEF t
<1>3. t \o s \in Seq(A) /\ Len(t \o s) = Len(s) + 1
  BY <1>1, <1>2, ConcatProperties
<1>4. ASSUME NEW i \in 1..(Len(s) + 1) PROVE (t \o s)[i] = IF i = 1 THEN a ELSE s[i - 1]
  <2>1. i \in 1..(Len(t) + Len(s)) /\ (i <= 1 <=> i = 1)
    BY <1>1, <1>2
  <2>2. (t \o s)[i] = IF i <= 1 THEN t[i] ELSE s[i - 1]
    <3>1. (t \o s)[i] = IF i <= Len(t) THEN t[i] ELSE s[i - Len(t)]
      BY <1>2, <2>1, ConcatProperties
    <3> QED BY <1>2, <3>1
  <2> QED BY <1>2, <2>1, <2>2
<1> QED BY <1>1, <1>3, <1>4 DEF t

\* A list with another element in one place.
LEMMA Replaced ==
  ASSUME NEW A, NEW s \in Seq(A), NEW k \in DOMAIN s, NEW a \in A
  PROVE  /\ [s EXCEPT ![k] = a] \in Seq(A) /\ Len([s EXCEPT ![k] = a]) = Len(s)
         /\ \A i \in DOMAIN s : [s EXCEPT ![k] = a][i] = IF i = k THEN a ELSE s[i]
  OBVIOUS

\* A list without its k-th entry is one shorter and has no other entries.
LEMMA Removed ==
  ASSUME NEW s, Listed(s), NEW k \in DOMAIN s
  PROVE  /\ Listed(RemoveAt(s, k)) /\ Len(RemoveAt(s, k)) = Len(s) - 1 /\ Len(s) \in Nat
         /\ \A i \in DOMAIN RemoveAt(s, k) : \E m \in DOMAIN s : RemoveAt(s, k)[i] = s[m]
<1>1. PICK S : s \in Seq(S)
  BY DEF Listed
<1> DEFINE T == {s[m] : m \in DOMAIN s}
<1>2. s \in Seq(T) /\ Len(s) \in Nat /\ DOMAIN s = 1..Len(s) /\ k \in 1..Len(s)
  BY <1>1
<1>3. \A m \in DOMAIN s : s[m] \in T
  OBVIOUS
<1> HIDE DEF T
<1>4. SubSeq(s, 1, k - 1) \in Seq(T)
  <2>1. \A i \in 1..(k - 1) : s[i] \in T
    BY <1>2, <1>3
  <2> QED BY <1>2, <2>1, SubSeqProperties
<1>5. SubSeq(s, k + 1, Len(s)) \in Seq(T)
  <2>1. \A i \in (k + 1)..Len(s) : s[i] \in T
    BY <1>2, <1>3
  <2> QED BY <1>2, <2>1, SubSeqProperties
<1>6. RemoveAt(s, k) \in Seq(T)
  BY <1>4, <1>5 DEF RemoveAt
<1>7. \A i \in DOMAIN RemoveAt(s, k) : RemoveAt(s, k)[i] \in T
  BY <1>6
<1>8. Len(RemoveAt(s, k)) = Len(s) - 1
  <2> DEFINE a == SubSeq(s, 1, k - 1)
             b == SubSeq(s, k + 1, Len(s))
  <2>1. k \in Int /\ Len(s) \in Int /\ 1 <= k /\ k <= Len(s)
    BY <1>2
  <2>2. Len(a) = k - 1
    <3>1. \A i \in 1..(k - 1) : s[i] \in T
      BY <1>2, <1>3
    <3>2. Len(a) = IF 1 <= k - 1 THEN (k - 1) - 1 + 1 ELSE 0
      BY <2>1, <3>1, SubSeqProperties
    <3> HIDE DEF a
    <3> QED BY <2>1, <3>2
  <2>3. Len(b) = Len(s) - k
    <3>1. \A i \in (k + 1)..Len(s) : s[i] \in T
      BY <1>2, <1>3
    <3>2. Len(b) = IF k + 1 <= Len(s) THEN Len(s) - (k + 1) + 1 ELSE 0
      BY <2>1, <3>1, SubSeqProperties
    <3> HIDE DEF b
    <3> QED BY <2>1, <3>2
  <2>4. RemoveAt(s, k) = a \o b
    BY DEF RemoveAt
  <2>5. a \in Seq(T) /\ b \in Seq(T)
    BY <1>4, <1>5
  <2> HIDE DEF a, b
  <2>6. Len(a \o b) = Len(a) + Len(b)
    BY <2>5, ConcatProperties
  <2> QED BY <2>1, <2>2, <2>3, <2>4, <2>6
<1> QED BY <1>2, <1>6, <1>7, <1>8 DEF Listed, T

\* The first element of a list put to the end of another one.
LEMMA HeadMoved ==
  ASSUME NEW s, NEW t, Listed(s), Listed(t), t # <<>>
  PROVE  /\ Listed(Tail(t)) /\ Listed(Append(s, Head(t)))
         /\ s \o t = Append(s, Head(t)) \o Tail(t)
         /\ Head(t) \in Elements(s \o t) /\ Head(t) \in Elements(t)
         /\ Elements(s) \subseteq Elements(s \o t) /\ Elements(Tail(t)) \subseteq Elements(t)
<1>1. PICK A : s \in Seq(A)
  BY DEF Listed
<1>2. PICK B : t \in Seq(B)
  BY DEF Listed
<1> DEFINE C == A \cup B
<1>3. s \in Seq(C) /\ t \in Seq(C)
  BY <1>1, <1>2
<1> HIDE DEF C
<1>4. /\ Head(t) \in C /\ Tail(t) \in Seq(C) /\ Len(Tail(t)) = Len(t) - 1 /\ Head(t) = t[1]
      /\ \A i \in 1..(Len(t) - 1) : Tail(t)[i] = t[i + 1]
  BY <1>3
<1>5. Len(s) \in Nat /\ Len(t) \in Nat /\ 1 <= Len(t) /\ DOMAIN t = 1..Len(t)
      /\ DOMAIN s = 1..Len(s)
  BY <1>3
<1> DEFINE h == Head(t)
           r == Tail(t)
           u == Append(s, h)
           v == s \o t
           w == u \o r
<1>6. u \in Seq(C) /\ Len(u) = Len(s) + 1 /\ u[Len(s) + 1] = h /\ \A i \in 1..Len(s) : u[i] = s[i]
  BY <1>3, <1>4
<1> HIDE DEF h, r, u
<1>7. /\ v \in Seq(C) /\ Len(v) = Len(s) + Len(t)
      /\ \A i \in 1..(Len(s) + Len(t)) : v[i] = IF i <= Len(s) THEN s[i] ELSE t[i - Len(s)]
  BY <1>3, ConcatProperties
<1>8. /\ w \in Seq(C) /\ Len(w) = Len(u) + Len(r)
      /\ \A i \in 1..(Len(u) + Len(r)) : w[i] = IF i <= Len(u) THEN u[i] ELSE r[i - Len(u)]
  BY <1>4, <1>6, ConcatProperties DEF r
<1> HIDE DEF v, w
<1>9. Len(w) = Len(s) + Len(t) /\ Len(r) = Len(t) - 1
  BY <1>4, <1>5, <1>6, <1>8 DEF r
<1>10. ASSUME NEW i \in 1..(Len(s) + Len(t)) PROVE v[i] = w[i]
  <2>1. CASE i <= Len(s)
    <3>1. i \in 1..Len(s) /\ i <= Len(s) + 1
      BY <1>5, <2>1
    <3>2. v[i] = s[i]
      BY <1>7, <3>1
    <3>3. i \in 1..(Len(u) + Len(r)) /\ i <= Len(u)
      BY <1>5, <1>6, <1>9, <3>1
    <3>4. w[i] = u[i] /\ u[i] = s[i]
      BY <1>6, <1>8, <3>1, <3>3
    <3> QED BY <3>2, <3>4
  <2>2. CASE i = Len(s) + 1
    <3>1. ~(i <= Len(s)) /\ i - Len(s) = 1 /\ i <= Len(s) + 1
      BY <1>5, <2>2
    <3>2. v[i] = t[1]
      BY <1>7, <3>1
    <3>3. w[i] = u[Len(s) + 1]
      BY <1>6, <1>8, <1>9, <2>2, <3>1
    <3> QED BY <1>4, <1>6, <3>2, <3>3 DEF h
  <2>3. CASE i > Len(s) + 1
    <3>1. /\ ~(i <= Len(s)) /\ ~(i <= Len(s) + 1) /\ i - (Len(s) + 1) \in 1..(Len(t) - 1)
          /\ (i - (Len(s) + 1)) + 1 = i - Len(s)
      BY <1>5, <2>3
    <3>2. w[i] = r[i - (Len(s) + 1)]
      BY <1>6, <1>8, <1>9, <3>1
    <3>3. r[i - (Len(s) + 1)] = t[i - Len(s)]
      BY <1>4, <3>1 DEF r
    <3>4. v[i] = t[i - Len(s)]
      BY <1>7, <3>1
    <3> QED BY <3>2, <3>3, <3>4
  <2> QED BY <1>5, <2>1, <2>2, <2>3
<1>11. v = w
  BY <1>7, <1>8, <1>9, <1>10, SeqEqual
<1>12. \E k \in DOMAIN v : v[k] = h
  <2>1. Len(s) + 1 \in 1..(Len(s) + Len(t)) /\ ~(Len(s) + 1 <= Len(s)) /\ (Len(s) + 1) - Len(s) = 1
    BY <1>5
  <2>2. v[Len(s) + 1] = h /\ DOMAIN v = 1..(Len(s) + Len(t))
    BY <1>4, <1>7, <2>1 DEF h
  <2> QED BY <2>1, <2>2
<1>13. \A i \in DOMAIN s : \E k \in DOMAIN v : v[k] = s[i]
  <2>1. \A i \in 1..Len(s) : i \in 1..(Len(s) + Len(t)) /\ i <= Len(s)
    BY <1>5
  <2>2. DOMAIN v = 1..(Len(s) + Len(t))
    BY <1>7
  <2> QED BY <1>5, <1>7, <2>1, <2>2
<1>14. \A i \in DOMAIN r : \E k \in DOMAIN t : r[i] = t[k]
  <2>1. DOMAIN r = 1..(Len(t) - 1) /\ \A i \in 1..(Len(t) - 1) : i + 1 \in 1..Len(t)
    BY <1>4, <1>5 DEF r
  <2> QED BY <1>4, <1>5, <2>1 DEF r
<1>15. Listed(r) /\ Listed(u)
  BY <1>4, <1>6 DEF Listed, r
<1>16. h \in Elements(t)
  BY <1>4, <1>5 DEF h, Elements
<1>17. h \in Elements(v) /\ Elements(s) \subseteq Elements(v) /\ Elements(r) \subseteq Elements(t)
  BY <1>12, <1>13, <1>14 DEF Elements
<1> QED BY <1>11, <1>15, <1>16, <1>17 DEF h, r, u, v, w

\* A list cut in two.
LEMMA Cut ==
  ASSUME NEW A, NEW s \in Seq(A), NEW h \in 0..Len(s), NEW m \in 0..h
  PROVE  /\ SubSeq(s, 1, h) \in Seq(A) /\ SubSeq(s, 1, m) \in Seq(A)
         /\ SubSeq(s, m + 1, h) \in Seq(A)
         /\ SubSeq(s, 1, h) = SubSeq(s, 1, m) \o SubSeq(s, m + 1, h)
<1> DEFINE a == SubSeq(s, 1, h)
           b == SubSeq(s, 1, m)
           c == SubSeq(s, m + 1, h)
<1>1. \A i \in 1..Len(s) : s[i] \in A
  OBVIOUS
<1>2. a \in Seq(A) /\ Len(a) = h /\ \A i \in 1..h : a[i] = s[i]
  BY <1>1, SubSeqProperties
<1>3. b \in Seq(A) /\ Len(b) = m /\ \A i \in 1..m : b[i] = s[i]
  BY <1>1, SubSeqProperties
<1>4. c \in Seq(A) /\ Len(c) = h - m /\ \A i \in 1..(h - m) : c[i] = s[m + i]
  <2>1. \A i \in (m + 1)..h : s[i] \in A
    BY <1>1
  <2>2. IF m + 1 <= h + 1 THEN Len(c) = h - (m + 1) + 1 ELSE Len(c) = 0
    BY <2>1, SubSeqProperties
  <2>3. \A i \in 1..(h - (m + 1) + 1) : c[i] = s[(m + 1) + i - 1]
    BY <2>1, SubSeqProperties
  <2> QED BY <2>1, <2>2, <2>3, SubSeqProperties
<1> HIDE DEF a, b, c
<1>5. b \o c \in Seq(A) /\ Len(b \o c) = h
  <2>1. b \o c \in Seq(A) /\ Len(b \o c) = Len(b) + Len(c)
    BY <1>3, <1>4, ConcatProperties
  <2>2. m + (h - m) = h
    OBVIOUS
  <2> QED BY <1>3, <1>4, <2>1, <2>2
<1>6. \A i \in 1..h : (b \o c)[i] = a[i]
  <2> SUFFICES ASSUME NEW i \in 1..h PROVE (b \o c)[i] = a[i]
    OBVIOUS
  <2>1. (b \o c)[i] = IF i <= Len(b) THEN b[i] ELSE c[i - Len(b)]
    <3>1. i \in 1..(Len(b) + Len(c))
      BY <1>3, <1>4
    <3> QED BY <1>3, <1>4, <3>1, ConcatProperties
  <2>2. CASE i <= m
    BY <1>2, <1>3, <2>1, <2>2
  <2>3. CASE ~(i <= m)
    <3>1. i - m \in 1..(h - m) /\ m + (i - m) = i
      BY <2>3
    <3> QED BY <1>2, <1>3, <1>4, <2>1, <2>3, <3>1
  <2> QED BY <2>2, <2>3
<1>7. a = b \o c
  BY <1>2, <1>5, <1>6, SeqEqual
<1> QED BY <1>2, <1>3, <1>4, <1>7 DEF a, b, c

-----------------------------------------------------------------------------
(* Filtering.                                                              *)

\* What the loop of Filter holds after each element.
KeptUpTo(k, s, S) ==
  k = [n \in 0..Len(s) |-> IF n = 0 THEN <<>>
                           ELSE IF s[n] \in S THEN Append(k[n - 1], s[n])
                           ELSE k[n - 1]]

\* The loop can be run.
LEMMA KeptExists ==
  ASSUME NEW A, NEW s \in Seq(A), NEW S
  PROVE  \E k : KeptUpTo(k, s, S)
<1> DEFINE Upto(k, m) == k = [n \in 0..m |-> IF n = 0 THEN <<>>
                                             ELSE IF s[n] \in S THEN Append(k[n - 1], s[n])
                                             ELSE k[n - 1]]
           N == {m \in Nat : \E k : Upto(k, m)}
<1>1. 0 \in N
  <2>1. Upto([n \in 0..0 |-> <<>>], 0)
    OBVIOUS
  <2> QED BY <2>1
<1>2. ASSUME NEW m \in Nat, m \in N PROVE m + 1 \in N
  <2>1. PICK k : Upto(k, m)
    BY <1>2
  <2> DEFINE h == [n \in 0..(m + 1) |->
                     IF n <= m THEN k[n]
                     ELSE IF s[m + 1] \in S THEN Append(k[m], s[m + 1]) ELSE k[m]]
  <2>2. \A n \in 0..m : k[n] = IF n = 0 THEN <<>>
                               ELSE IF s[n] \in S THEN Append(k[n - 1], s[n]) ELSE k[n - 1]
    BY <2>1
  <2>3. ASSUME NEW n \in 0..(m + 1)
        PROVE  h[n] = IF n = 0 THEN <<>>
                      ELSE IF s[n] \in S THEN Append(h[n - 1], s[n]) ELSE h[n - 1]
    <3>1. CASE n <= m
      <4>1. n \in 0..m /\ h[n] = k[n] /\ (n # 0 => n - 1 \in 0..(m + 1) /\ n - 1 <= m)
        BY <3>1
      <4>2. n # 0 => h[n - 1] = k[n - 1]
        BY <4>1
      <4> HIDE DEF h
      <4> QED BY <2>2, <4>1, <4>2
    <3>2. CASE ~(n <= m)
      <4>1. n = m + 1 /\ m \in 0..(m + 1) /\ n # 0 /\ n - 1 = m
        BY <3>2
      <4>2. h[m] = k[m]
        BY <4>1
      <4>3. h[m + 1] = IF s[m + 1] \in S THEN Append(k[m], s[m + 1]) ELSE k[m]
        OBVIOUS
      <4> HIDE DEF h
      <4> QED BY <4>1, <4>2, <4>3
    <3> QED BY <3>1, <3>2
  <2>4. DOMAIN h = 0..(m + 1) /\ h = [n \in 0..(m + 1) |-> h[n]]
    OBVIOUS
  <2> HIDE DEF h
  <2>5. Upto(h, m + 1)
    BY <2>3, <2>4
  <2>6. m + 1 \in Nat
    OBVIOUS
  <2> HIDE DEF Upto
  <2> QED BY <2>5, <2>6
<1> HIDE DEF N
<1>3. Nat \subseteq N
  BY <1>1, <1>2, NumberInduction
<1>4. Len(s) \in N
  BY <1>3
<1> USE DEF N
<1> QED BY <1>4 DEF KeptUpTo

\* Filter returns what the loop ends with, whatever function describes the loop.
LEMMA FilterLoop ==
  ASSUME NEW A, NEW s \in Seq(A), NEW S
  PROVE  \E k : KeptUpTo(k, s, S) /\ Filter(s, S) = k[Len(s)]
<1> DEFINE k == CHOOSE f : KeptUpTo(f, s, S)
<1>1. KeptUpTo(k, s, S)
  BY KeptExists
<1>2. Filter(s, S) = k[Len(s)]
  BY DEF Filter, KeptUpTo
<1> QED BY <1>1, <1>2

\* Nothing is kept of the empty list.
LEMMA FilterEmpty == \A S : Filter(<<>>, S) = <<>>
<1> SUFFICES ASSUME NEW S PROVE Filter(<<>>, S) = <<>>
  OBVIOUS
<1>1. <<>> \in Seq({}) /\ Len(<<>>) = 0
  OBVIOUS
<1>2. PICK k : KeptUpTo(k, <<>>, S) /\ Filter(<<>>, S) = k[Len(<<>>)]
  BY <1>1, FilterLoop
<1>3. Filter(<<>>, S) = k[0] /\ 0 \in 0..Len(<<>>)
  BY <1>1, <1>2
<1> QED BY <1>2, <1>3 DEF KeptUpTo

\* The last element is kept or not, whatever was kept before it.
LEMMA FilterAppend ==
  ASSUME NEW A, NEW s \in Seq(A), NEW a \in A, NEW S
  PROVE  Filter(Append(s, a), S) = IF a \in S THEN Append(Filter(s, S), a) ELSE Filter(s, S)
<1> DEFINE t == Append(s, a)
           L == Len(s)
<1>1. t \in Seq(A) /\ Len(t) = L + 1 /\ L \in Nat /\ \A i \in 1..L : t[i] = s[i]
  OBVIOUS
<1>2. t[L + 1] = a
  OBVIOUS
<1> HIDE DEF t
<1>3. PICK k : KeptUpTo(k, s, S) /\ Filter(s, S) = k[L]
  BY FilterLoop
<1>4. PICK h : KeptUpTo(h, t, S) /\ Filter(t, S) = h[L + 1]
  BY <1>1, FilterLoop
<1> HIDE DEF L
<1>5. \A n \in 0..L : k[n] = IF n = 0 THEN <<>>
                             ELSE IF s[n] \in S THEN Append(k[n - 1], s[n]) ELSE k[n - 1]
  BY <1>3 DEF KeptUpTo, L
<1>6. \A n \in 0..(L + 1) : h[n] = IF n = 0 THEN <<>>
                                   ELSE IF t[n] \in S THEN Append(h[n - 1], t[n]) ELSE h[n - 1]
  BY <1>1, <1>4 DEF KeptUpTo
<1> DEFINE N == {n \in Nat : n <= L => h[n] = k[n]}
<1>7. 0 \in N
  <2>1. 0 \in 0..L /\ 0 \in 0..(L + 1)
    BY <1>1
  <2>2. h[0] = <<>> /\ k[0] = <<>>
    BY <1>5, <1>6, <2>1
  <2> QED BY <2>2
<1>8. ASSUME NEW n \in Nat, n \in N PROVE n + 1 \in N
  <2>1. ASSUME n + 1 <= L PROVE h[n + 1] = k[n + 1]
    <3>1. /\ n + 1 \in 0..L /\ n + 1 \in 0..(L + 1) /\ n + 1 # 0 /\ n + 1 \in 1..L
          /\ (n + 1) - 1 = n /\ n <= L
      BY <1>1, <2>1
    <3>2. h[n] = k[n] /\ t[n + 1] = s[n + 1]
      BY <1>1, <1>8, <3>1
    <3>3. h[n + 1] = IF t[n + 1] \in S THEN Append(h[n], t[n + 1]) ELSE h[n]
      BY <1>6, <3>1
    <3>4. k[n + 1] = IF s[n + 1] \in S THEN Append(k[n], s[n + 1]) ELSE k[n]
      BY <1>5, <3>1
    <3> QED BY <3>2, <3>3, <3>4
  <2> QED BY <2>1
<1> HIDE DEF N
<1>9. Nat \subseteq N
  BY <1>7, <1>8, NumberInduction
<1>10. h[L] = k[L]
  BY <1>1, <1>9 DEF N
<1>11. h[L + 1] = IF t[L + 1] \in S THEN Append(h[L], t[L + 1]) ELSE h[L]
  <2>1. L + 1 \in 0..(L + 1) /\ L + 1 # 0 /\ (L + 1) - 1 = L
    BY <1>1
  <2> QED BY <1>6, <2>1
<1> QED BY <1>2, <1>3, <1>4, <1>10, <1>11 DEF t

\* What is kept is in the list and in the set, and everything that is in both is kept.
LEMMA FilterElements ==
  ASSUME NEW A, NEW s \in Seq(A), NEW S
  PROVE  /\ Filter(s, S) \in Seq(A)
         /\ Elements(Filter(s, S)) = Elements(s) \cap S
<1> DEFINE T == {u \in Seq(A) : /\ Filter(u, S) \in Seq(A)
                                /\ Elements(Filter(u, S)) = Elements(u) \cap S}
<1>1. \A u \in Seq(A), a \in A : Elements(Append(u, a)) = Elements(u) \cup {a}
  <2> SUFFICES ASSUME NEW u \in Seq(A), NEW a \in A
               PROVE  Elements(Append(u, a)) = Elements(u) \cup {a}
    OBVIOUS
  <2>1. /\ DOMAIN Append(u, a) = (DOMAIN u) \cup {Len(u) + 1}
        /\ \A i \in DOMAIN u : Append(u, a)[i] = u[i]
        /\ Append(u, a)[Len(u) + 1] = a
    OBVIOUS
  <2> QED BY <2>1 DEF Elements
<1>2. <<>> \in T
  <2>1. DOMAIN <<>> = {} /\ Elements(<<>>) = {}
    BY DEF Elements
  <2>2. Filter(<<>>, S) = <<>> /\ <<>> \in Seq(A)
    BY FilterEmpty
  <2> QED BY <2>1, <2>2
<1>3. ASSUME NEW u \in Seq(A), NEW a \in A, u \in T PROVE Append(u, a) \in T
  <2>1. Filter(Append(u, a), S) = IF a \in S THEN Append(Filter(u, S), a) ELSE Filter(u, S)
    BY FilterAppend
  <2>2. Filter(u, S) \in Seq(A) /\ Elements(Filter(u, S)) = Elements(u) \cap S
    BY <1>3
  <2> HIDE DEF T
  <2>3. Filter(Append(u, a), S) \in Seq(A)
    BY <2>1, <2>2
  <2>4. Elements(Filter(Append(u, a), S)) = Elements(Append(u, a)) \cap S
    <3>1. CASE a \in S
      BY <1>1, <2>1, <2>2, <3>1
    <3>2. CASE a \notin S
      BY <1>1, <2>1, <2>2, <3>2
    <3> QED BY <3>1, <3>2
  <2> QED BY <2>3, <2>4 DEF T
<1> HIDE DEF T
<1>4. Seq(A) \subseteq T
  BY <1>2, <1>3, ListInduction
<1> QED BY <1>4 DEF T

\* Two lists filtered and joined are the two lists joined and filtered.
LEMMA FilterJoin ==
  ASSUME NEW A, NEW s \in Seq(A), NEW t \in Seq(A), NEW S
  PROVE  Filter(s \o t, S) = Filter(s, S) \o Filter(t, S)
<1> DEFINE T == {u \in Seq(A) : Filter(s \o u, S) = Filter(s, S) \o Filter(u, S)}
<1>1. <<>> \in T
  BY FilterEmpty, FilterElements
<1>2. ASSUME NEW u \in Seq(A), NEW a \in A, u \in T PROVE Append(u, a) \in T
  <2>1. s \o Append(u, a) = Append(s \o u, a) /\ s \o u \in Seq(A)
    OBVIOUS
  <2>2. Filter(Append(u, a), S) = IF a \in S THEN Append(Filter(u, S), a) ELSE Filter(u, S)
    BY FilterAppend
  <2>3. Filter(Append(s \o u, a), S)
          = IF a \in S THEN Append(Filter(s \o u, S), a) ELSE Filter(s \o u, S)
    BY <2>1, FilterAppend
  <2>4. /\ Filter(s, S) \in Seq(A) /\ Filter(u, S) \in Seq(A)
        /\ Filter(s \o u, S) = Filter(s, S) \o Filter(u, S)
    BY <1>2, FilterElements
  <2>5. Filter(s, S) \o Append(Filter(u, S), a) = Append(Filter(s, S) \o Filter(u, S), a)
    BY <2>4
  <2>6. Filter(s \o Append(u, a), S) = Filter(s, S) \o Filter(Append(u, a), S)
    <3> HIDE DEF T
    <3>1. CASE a \in S
      BY <2>1, <2>2, <2>3, <2>4, <2>5, <3>1
    <3>2. CASE a \notin S
      BY <2>1, <2>2, <2>3, <2>4, <3>2
    <3> QED BY <3>1, <3>2
  <2> QED BY <2>6
<1> HIDE DEF T
<1>3. Seq(A) \subseteq T
  BY <1>1, <1>2, ListInduction
<1> QED BY <1>3 DEF T

\* Only what the set says of the elements of the list counts.
LEMMA FilterSame ==
  ASSUME NEW A, NEW s \in Seq(A), NEW S, NEW R, Elements(s) \cap S = Elements(s) \cap R
  PROVE  Filter(s, S) = Filter(s, R)
<1> DEFINE T == {u \in Seq(A) : (\A i \in DOMAIN u : u[i] \in S <=> u[i] \in R)
                                  => Filter(u, S) = Filter(u, R)}
<1>1. <<>> \in T
  BY FilterEmpty
<1>2. ASSUME NEW u \in Seq(A), NEW a \in A, u \in T PROVE Append(u, a) \in T
  <2>1. ASSUME \A i \in DOMAIN Append(u, a) : Append(u, a)[i] \in S <=> Append(u, a)[i] \in R
        PROVE  Filter(Append(u, a), S) = Filter(Append(u, a), R)
    <3>1. /\ DOMAIN Append(u, a) = (DOMAIN u) \cup {Len(u) + 1}
          /\ \A i \in DOMAIN u : Append(u, a)[i] = u[i]
          /\ Append(u, a)[Len(u) + 1] = a
      OBVIOUS
    <3>2. (\A i \in DOMAIN u : u[i] \in S <=> u[i] \in R) /\ (a \in S <=> a \in R)
      BY <2>1, <3>1
    <3>3. Filter(u, S) = Filter(u, R)
      BY <1>2, <3>2
    <3>4. /\ Filter(Append(u, a), S) = IF a \in S THEN Append(Filter(u, S), a) ELSE Filter(u, S)
          /\ Filter(Append(u, a), R) = IF a \in R THEN Append(Filter(u, R), a) ELSE Filter(u, R)
      BY FilterAppend
    <3> HIDE DEF T
    <3> QED BY <3>2, <3>3, <3>4
  <2>2. Append(u, a) \in Seq(A)
    OBVIOUS
  <2> QED BY <2>1, <2>2
<1> HIDE DEF T
<1>3. Seq(A) \subseteq T
  BY <1>1, <1>2, ListInduction
<1>4. \A i \in DOMAIN s : s[i] \in S <=> s[i] \in R
  BY DEF Elements
<1> QED BY <1>3, <1>4 DEF T

\* A list in which K tells the elements of S apart is, filtered, one that K tells apart.
LEMMA FilterApart ==
  ASSUME NEW A, NEW s \in Seq(A), NEW S, NEW K,
         \A i, j \in DOMAIN s : s[i] \in S /\ s[j] \in S /\ K[s[i]] = K[s[j]] => i = j
  PROVE  \A i, j \in DOMAIN Filter(s, S) : K[Filter(s, S)[i]] = K[Filter(s, S)[j]] => i = j
<1> DEFINE Apart(u) == \A i, j \in DOMAIN u : u[i] \in S /\ u[j] \in S /\ K[u[i]] = K[u[j]] => i = j
           Told(f) == \A i, j \in DOMAIN f : K[f[i]] = K[f[j]] => i = j
           T == {u \in Seq(A) : Apart(u) => Told(Filter(u, S))}
<1>1. <<>> \in T
  <2>1. DOMAIN <<>> = {} /\ <<>> \in Seq(A)
    OBVIOUS
  <2> QED BY <2>1, FilterEmpty
<1>2. ASSUME NEW u \in Seq(A), NEW a \in A, u \in T PROVE Append(u, a) \in T
  <2> DEFINE v == Append(u, a)
             f == Filter(u, S)
             L == Len(u)
  <2>1. /\ v \in Seq(A) /\ L \in Nat /\ DOMAIN u = 1..L /\ DOMAIN v = 1..(L + 1)
        /\ (\A i \in 1..L : v[i] = u[i]) /\ v[L + 1] = a
    OBVIOUS
  <2>2. f \in Seq(A) /\ Elements(f) = Elements(u) \cap S
    BY FilterElements
  <2>3. Filter(v, S) = IF a \in S THEN Append(f, a) ELSE f
    BY FilterAppend
  <2>4. ASSUME Apart(v) PROVE Told(Filter(v, S))
    <3>1. Apart(u)
      <4>1. ASSUME NEW i \in 1..L, NEW j \in 1..L, u[i] \in S, u[j] \in S, K[u[i]] = K[u[j]]
            PROVE  i = j
        <5>1. i \in DOMAIN v /\ j \in DOMAIN v /\ v[i] = u[i] /\ v[j] = u[j]
          BY <2>1
        <5> HIDE DEF v
        <5> QED BY <2>4, <4>1, <5>1
      <4> QED BY <2>1, <4>1
    <3>2. Told(f)
      BY <1>2, <3>1
    <3>3. CASE a \notin S
      BY <2>3, <3>2, <3>3
    <3>4. CASE a \in S
      <4> DEFINE g == Append(f, a)
                 n == Len(f)
      <4>1. /\ n \in Nat /\ DOMAIN f = 1..n /\ DOMAIN g = 1..(n + 1)
            /\ (\A i \in 1..n : g[i] = f[i]) /\ g[n + 1] = a
        BY <2>2
      <4>2. ASSUME NEW i \in 1..n PROVE K[f[i]] # K[a]
        <5>1. f[i] \in Elements(u) \cap S
          BY <2>2, <4>1 DEF Elements
        <5>2. PICK m \in 1..L : f[i] = u[m] /\ u[m] \in S
          BY <2>1, <5>1 DEF Elements
        <5>3. m \in DOMAIN v /\ L + 1 \in DOMAIN v /\ m # L + 1 /\ v[m] = f[i] /\ v[L + 1] = a
          BY <2>1, <5>2
        <5> HIDE DEF v, f
        <5> QED BY <2>4, <3>4, <5>2, <5>3
      <4> HIDE DEF f, g, n
      <4>3. ASSUME NEW i \in 1..(n + 1), NEW j \in 1..(n + 1), K[g[i]] = K[g[j]]
            PROVE  i = j
        <5>1. (i \in 1..n \/ i = n + 1) /\ (j \in 1..n \/ j = n + 1)
          BY <4>1
        <5>2. CASE i \in 1..n /\ j \in 1..n
          BY <3>2, <4>1, <4>3, <5>2
        <5>3. CASE i \in 1..n /\ j = n + 1
          BY <4>1, <4>2, <4>3, <5>3
        <5>4. CASE i = n + 1 /\ j \in 1..n
          BY <4>1, <4>2, <4>3, <5>4
        <5> QED BY <5>1, <5>2, <5>3, <5>4
      <4>4. Told(g)
        BY <4>1, <4>3
      <4>5. Filter(v, S) = g
        BY <2>3, <3>4 DEF g
      <4> QED BY <4>4, <4>5
    <3> QED BY <3>3, <3>4
  <2> HIDE DEF Apart, Told
  <2> QED BY <2>1, <2>4
<1> HIDE DEF T
<1>3. Seq(A) \subseteq T
  BY <1>1, <1>2, ListInduction
<1> QED BY <1>3 DEF T

\* A list that is in the set altogether is kept altogether, one that is apart from it not at all.
LEMMA FilterAll ==
  ASSUME NEW A, NEW s \in Seq(A), NEW S
  PROVE  /\ Elements(s) \subseteq S => Filter(s, S) = s
         /\ Elements(s) \cap S = {} => Filter(s, S) = <<>>
<1> DEFINE T == {u \in Seq(A) : /\ (\A i \in DOMAIN u : u[i] \in S) => Filter(u, S) = u
                                /\ (\A i \in DOMAIN u : u[i] \notin S) => Filter(u, S) = <<>>}
<1>1. <<>> \in T
  BY FilterEmpty
<1>2. ASSUME NEW u \in Seq(A), NEW a \in A, u \in T PROVE Append(u, a) \in T
  <2>1. Filter(Append(u, a), S) = IF a \in S THEN Append(Filter(u, S), a) ELSE Filter(u, S)
    BY FilterAppend
  <2>2. /\ DOMAIN Append(u, a) = (DOMAIN u) \cup {Len(u) + 1}
        /\ \A i \in DOMAIN u : Append(u, a)[i] = u[i]
        /\ Append(u, a)[Len(u) + 1] = a
    OBVIOUS
  <2>3. Append(u, a) \in Seq(A)
    OBVIOUS
  <2>4. ASSUME \A i \in DOMAIN Append(u, a) : Append(u, a)[i] \in S
        PROVE  Filter(Append(u, a), S) = Append(u, a)
    <3>1. (\A i \in DOMAIN u : u[i] \in S) /\ a \in S
      BY <2>2, <2>4
    <3>2. Filter(u, S) = u
      BY <1>2, <3>1
    <3> HIDE DEF T
    <3> QED BY <2>1, <3>1, <3>2
  <2>5. ASSUME \A i \in DOMAIN Append(u, a) : Append(u, a)[i] \notin S
        PROVE  Filter(Append(u, a), S) = <<>>
    <3>1. (\A i \in DOMAIN u : u[i] \notin S) /\ a \notin S
      BY <2>2, <2>5
    <3>2. Filter(u, S) = <<>>
      BY <1>2, <3>1
    <3> HIDE DEF T
    <3> QED BY <2>1, <3>1, <3>2
  <2> QED BY <2>3, <2>4, <2>5
<1> HIDE DEF T
<1>3. Seq(A) \subseteq T
  BY <1>1, <1>2, ListInduction
<1>4. /\ Elements(s) \subseteq S => \A i \in DOMAIN s : s[i] \in S
      /\ Elements(s) \cap S = {} => \A i \in DOMAIN s : s[i] \notin S
  BY DEF Elements
<1> QED BY <1>3, <1>4 DEF T

-----------------------------------------------------------------------------
(* Lists of lists joined.                                                  *)

\* What the loop of FlattenSeq holds after each of the first m lists.
JoinedUpTo(k, ss, m) ==
  k = [i \in 1..m |-> IF i = 1 THEN ss[i] ELSE k[i - 1] \o ss[i]]

\* The loop can be run.
LEMMA JoinedExists ==
  ASSUME NEW ss, NEW m \in Nat
  PROVE  \E k : JoinedUpTo(k, ss, m)
<1> DEFINE N == {n \in Nat : \E k : JoinedUpTo(k, ss, n)}
<1>1. 0 \in N
  <2> DEFINE k == [i \in 1..0 |-> <<>>]
  <2>1. k = [i \in 1..0 |-> IF i = 1 THEN ss[i] ELSE k[i - 1] \o ss[i]]
    OBVIOUS
  <2> HIDE DEF k
  <2> QED BY <2>1 DEF JoinedUpTo
<1>2. ASSUME NEW n \in Nat, n \in N PROVE n + 1 \in N
  <2>1. PICK k : JoinedUpTo(k, ss, n)
    BY <1>2
  <2> DEFINE h == [i \in 1..(n + 1) |-> IF i <= n THEN k[i]
                                        ELSE IF i = 1 THEN ss[i] ELSE k[i - 1] \o ss[i]]
  <2>2. \A i \in 1..n : k[i] = IF i = 1 THEN ss[i] ELSE k[i - 1] \o ss[i]
    BY <2>1 DEF JoinedUpTo
  <2>3. ASSUME NEW i \in 1..(n + 1)
        PROVE  h[i] = IF i = 1 THEN ss[i] ELSE h[i - 1] \o ss[i]
    <3>1. i # 1 => i - 1 \in 1..(n + 1) /\ i - 1 <= n /\ h[i - 1] = k[i - 1]
      OBVIOUS
    <3>2. CASE i <= n
      <4>1. i \in 1..n /\ h[i] = k[i]
        BY <3>2
      <4> HIDE DEF h
      <4> QED BY <2>2, <3>1, <4>1
    <3>3. CASE ~(i <= n)
      <4>1. h[i] = IF i = 1 THEN ss[i] ELSE k[i - 1] \o ss[i]
        BY <3>3
      <4> HIDE DEF h
      <4> QED BY <3>1, <4>1
    <3> QED BY <3>2, <3>3
  <2>4. h = [i \in 1..(n + 1) |-> h[i]]
    OBVIOUS
  <2> HIDE DEF h
  <2>5. JoinedUpTo(h, ss, n + 1)
    BY <2>3, <2>4 DEF JoinedUpTo
  <2> QED BY <2>5
<1> HIDE DEF N
<1>3. Nat \subseteq N
  BY <1>1, <1>2, NumberInduction
<1> QED BY <1>3 DEF N

\* Joining no lists gives none, and one list more is joined at the end.
LEMMA FlattenAppend ==
  ASSUME NEW A, NEW ss \in Seq(Seq(A)), NEW s \in Seq(A)
  PROVE  /\ FlattenSeq(<<>>) = <<>>
         /\ FlattenSeq(ss) \in Seq(A)
         /\ FlattenSeq(Append(ss, s)) = FlattenSeq(ss) \o s
<1>1. FlattenSeq(<<>>) = <<>>
  BY DEF FlattenSeq
<1> DEFINE Loop(u) == CHOOSE k : JoinedUpTo(k, u, Len(u))
<1>2. ASSUME NEW u \in Seq(Seq(A)), Len(u) # 0
      PROVE  JoinedUpTo(Loop(u), u, Len(u)) /\ FlattenSeq(u) = Loop(u)[Len(u)]
  <2>1. Len(u) \in Nat
    OBVIOUS
  <2>2. \E k : JoinedUpTo(k, u, Len(u))
    BY <2>1, JoinedExists
  <2>3. JoinedUpTo(Loop(u), u, Len(u))
    BY <2>2
  <2>4. FlattenSeq(u) = Loop(u)[Len(u)]
    BY <1>2 DEF FlattenSeq, JoinedUpTo
  <2> QED BY <2>3, <2>4
<1> HIDE DEF Loop
<1> DEFINE L == Len(ss)
           t == Append(ss, s)
<1>3. /\ t \in Seq(Seq(A)) /\ Len(t) = L + 1 /\ L \in Nat /\ L + 1 # 0
      /\ (\A i \in 1..L : t[i] = ss[i] /\ ss[i] \in Seq(A)) /\ t[L + 1] = s
  OBVIOUS
<1> HIDE DEF t
<1>4. JoinedUpTo(Loop(t), t, L + 1) /\ FlattenSeq(t) = Loop(t)[L + 1]
  BY <1>2, <1>3
<1> HIDE DEF L
<1> DEFINE h == Loop(t)
<1>5. \A i \in 1..(L + 1) : h[i] = IF i = 1 THEN t[i] ELSE h[i - 1] \o t[i]
  BY <1>4 DEF JoinedUpTo
<1> HIDE DEF h
<1>6. CASE L = 0
  <2>1. h[1] = t[1] /\ t[1] = s
    BY <1>3, <1>5, <1>6
  <2>2. FlattenSeq(t) = s
    BY <1>4, <1>6, <2>1 DEF h
  <2>3. ss = <<>>
    BY <1>6 DEF L
  <2>4. <<>> \o s = s /\ <<>> \in Seq(A)
    OBVIOUS
  <2> QED BY <1>1, <2>2, <2>3, <2>4 DEF t
<1>7. CASE L # 0
  <2> DEFINE k == Loop(ss)
  <2>1. JoinedUpTo(k, ss, L) /\ FlattenSeq(ss) = k[L]
    BY <1>2, <1>7 DEF L
  <2> HIDE DEF k
  <2>2. \A i \in 1..L : k[i] = IF i = 1 THEN ss[i] ELSE k[i - 1] \o ss[i]
    BY <2>1 DEF JoinedUpTo
  <2> DEFINE N == {n \in Nat : n \in 1..L => h[n] = k[n] /\ k[n] \in Seq(A)}
  <2>3. 0 \in N
    OBVIOUS
  <2>4. ASSUME NEW n \in Nat, n \in N PROVE n + 1 \in N
    <3>1. ASSUME n + 1 \in 1..L PROVE h[n + 1] = k[n + 1] /\ k[n + 1] \in Seq(A)
      <4>1. /\ n + 1 \in 1..(L + 1) /\ (n + 1) - 1 = n /\ (n + 1 = 1 <=> n = 0)
            /\ (n # 0 => n \in 1..L)
        BY <1>3, <3>1
      <4>2. t[n + 1] = ss[n + 1] /\ ss[n + 1] \in Seq(A)
        BY <1>3, <3>1
      <4>3. /\ h[n + 1] = IF n = 0 THEN t[n + 1] ELSE h[n] \o t[n + 1]
            /\ k[n + 1] = IF n = 0 THEN ss[n + 1] ELSE k[n] \o ss[n + 1]
        BY <1>5, <2>2, <3>1, <4>1
      <4>4. n # 0 => h[n] = k[n] /\ k[n] \in Seq(A)
        BY <2>4, <4>1
      <4> HIDE DEF N
      <4>5. n # 0 => k[n] \o ss[n + 1] \in Seq(A)
        BY <4>2, <4>4
      <4> QED BY <4>2, <4>3, <4>4, <4>5
    <3> QED BY <3>1
  <2> HIDE DEF N
  <2>5. Nat \subseteq N
    BY <2>3, <2>4, NumberInduction
  <2>6. h[L] = k[L] /\ k[L] \in Seq(A)
    BY <1>3, <1>7, <2>5 DEF N
  <2>7. h[L + 1] = h[L] \o t[L + 1]
    <3>1. L + 1 \in 1..(L + 1) /\ L + 1 # 1 /\ (L + 1) - 1 = L
      BY <1>3, <1>7
    <3> QED BY <1>5, <3>1
  <2> QED BY <1>1, <1>3, <1>4, <2>1, <2>6, <2>7 DEF h, t
<1> QED BY <1>6, <1>7
=============================================================================
