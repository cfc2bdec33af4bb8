-------------------------- MODULE CollectionLemmas --------------------------
(***************************************************************************)
(* What the list operations of the models do to the set of elements of a   *)
(* list, and to the fact that no element is in it twice; and what one      *)
(* thread that moves does to the number of threads in a place.             *)
(***************************************************************************)
EXTENDS Integers, Sequences, SequencesExt, SequenceTheorems, FiniteSets,
        FiniteSetTheorems, WellFoundedInduction, TLAPS

(* An element of a list is a member of what the list is over, and a list   *)
(* without elements is the empty one.                                      *)
LEMMA RangeElements ==
    ASSUME NEW S, NEW s \in Seq(S)
    PROVE  /\ Range(s) \subseteq S
           /\ Len(s) \in Nat /\ DOMAIN s = 1..Len(s)
           /\ \A e : e \in Range(s) <=> \E i \in 1..Len(s) : s[i] = e
           /\ \A e : e \in Range(s) <=> Contains(s, e)
           /\ s = <<>> <=> Range(s) = {}
<1>1. Len(s) \in Nat /\ DOMAIN s = 1..Len(s) /\ \A i \in 1..Len(s) : s[i] \in S
  BY LenProperties, ElementOfSeq
<1>2. \A e : e \in Range(s) <=> \E i \in 1..Len(s) : s[i] = e
  BY <1>1 DEF Range
<1>3. s = <<>> <=> Range(s) = {}
  <2>1. s = <<>> => Range(s) = {}
    BY DEF Range
  <2>2. ASSUME s # <<>> PROVE Range(s) # {}
    <3>1. 1 \in 1..Len(s)
      BY <1>1, <2>2, EmptySeq
    <3>2. QED BY <1>2, <3>1
  <2>3. QED BY <2>1, <2>2
<1>4. QED BY <1>1, <1>2, <1>3 DEF Contains

LEMMA EmptyList ==
    /\ Range(<<>>) = {} /\ IsInjective(<<>>)
    /\ \A S : <<>> \in Seq(S)
BY EmptySeq DEF Range, IsInjective

(* Append: the new element comes last.                                     *)
LEMMA AppendList ==
    ASSUME NEW S, NEW s \in Seq(S), NEW e \in S
    PROVE  /\ Append(s, e) \in Seq(S)
           /\ Append(s, e) # <<>>
           /\ Range(Append(s, e)) = Range(s) \union {e}
           /\ IsInjective(s) /\ e \notin Range(s) => IsInjective(Append(s, e))
<1> DEFINE t == Append(s, e)
<1>1. /\ t \in Seq(S) /\ Len(t) = Len(s) + 1 /\ t # <<>>
      /\ \A i \in 1..Len(s) : t[i] = s[i]
      /\ t[Len(s) + 1] = e
  BY AppendProperties
<1> HIDE DEF t
<1>2. Len(s) \in Nat /\ DOMAIN s = 1..Len(s) /\ DOMAIN t = 1..(Len(s) + 1)
  BY <1>1, LenProperties
<1>3. Range(t) = Range(s) \union {e}
  <2>1. \A i \in DOMAIN t : i \in 1..Len(s) \/ i = Len(s) + 1
    BY <1>2
  <2>2. \A i \in DOMAIN s : i \in DOMAIN t /\ t[i] = s[i]
    BY <1>1, <1>2
  <2>3. Len(s) + 1 \in DOMAIN t
    BY <1>2
  <2>4. QED BY <1>1, <1>2, <2>1, <2>2, <2>3 DEF Range
<1>4. ASSUME IsInjective(s), e \notin Range(s) PROVE IsInjective(t)
  <2>1. \A i \in 1..Len(s) : s[i] # e
    BY <1>2, <1>4 DEF Range
  <2>2. QED BY <1>1, <1>2, <1>4, <2>1 DEF IsInjective
<1>5. QED BY <1>1, <1>3, <1>4 DEF t

(* <<e>> \o s: the new element comes first.                                *)
LEMMA PrependList ==
    ASSUME NEW S, NEW s \in Seq(S), NEW e \in S
    PROVE  /\ <<e>> \o s \in Seq(S)
           /\ <<e>> \o s # <<>>
           /\ Range(<<e>> \o s) = Range(s) \union {e}
           /\ IsInjective(s) /\ e \notin Range(s) => IsInjective(<<e>> \o s)
<1> DEFINE t == <<e>> \o s
<1>0. <<e>> \in Seq(S) /\ Len(<<e>>) = 1 /\ <<e>>[1] = e
  OBVIOUS
<1>1. /\ t \in Seq(S) /\ Len(t) = Len(s) + 1
      /\ \A i \in 1 .. (1 + Len(s)) : t[i] = IF i <= 1 THEN <<e>>[i] ELSE s[i - 1]
  BY <1>0, ConcatProperties, LenProperties
<1> HIDE DEF t
<1>2. Len(s) \in Nat /\ DOMAIN s = 1..Len(s) /\ DOMAIN t = 1..(Len(s) + 1)
  BY <1>1, LenProperties
<1>3. t[1] = e /\ 1 \in DOMAIN t
  BY <1>0, <1>1, <1>2
<1>4. \A i \in DOMAIN s : i + 1 \in DOMAIN t /\ t[i + 1] = s[i]
  BY <1>1, <1>2
<1>5. \A i \in DOMAIN t : i = 1 \/ (i - 1 \in DOMAIN s /\ t[i] = s[i - 1])
  BY <1>1, <1>2
<1>6. Range(t) = Range(s) \union {e}
  BY <1>3, <1>4, <1>5 DEF Range
<1>7. ASSUME IsInjective(s), e \notin Range(s) PROVE IsInjective(t)
  <2>1. \A i \in DOMAIN s : s[i] # e
    BY <1>2, <1>7 DEF Range
  <2>2. QED BY <1>2, <1>3, <1>5, <1>7, <2>1 DEF IsInjective
<1>8. t # <<>>
  BY <1>1, <1>2
<1>9. QED BY <1>1, <1>6, <1>7, <1>8 DEF t

(* Head and Tail: the first element leaves.                                *)
LEMMA TailList ==
    ASSUME NEW S, NEW s \in Seq(S), s # <<>>
    PROVE  /\ Head(s) \in S /\ Head(s) \in Range(s)
           /\ Tail(s) \in Seq(S)
           /\ Range(s) = Range(Tail(s)) \union {Head(s)}
           /\ IsInjective(s) => /\ IsInjective(Tail(s))
                                /\ Range(Tail(s)) = Range(s) \ {Head(s)}
<1> DEFINE t == Tail(s)
<1>1. /\ t \in Seq(S) /\ Len(t) = Len(s) - 1
      /\ \A i \in 1..Len(t) : t[i] = s[i + 1]
  BY HeadTailProperties
<1>2. Head(s) = s[1] /\ Head(s) \in S
  BY HeadTailProperties
<1> HIDE DEF t
<1>3. Len(s) \in Nat \ {0} /\ DOMAIN s = 1..Len(s) /\ DOMAIN t = 1..(Len(s) - 1)
  BY <1>1, LenProperties, EmptySeq
<1>4. \A i \in DOMAIN t : i + 1 \in DOMAIN s /\ t[i] = s[i + 1]
  BY <1>1, <1>3
<1>5. \A i \in DOMAIN s : i = 1 \/ (i - 1 \in DOMAIN t /\ s[i] = t[i - 1])
  BY <1>1, <1>3
<1>6. 1 \in DOMAIN s
  BY <1>3
<1>7. Range(s) = Range(t) \union {Head(s)} /\ Head(s) \in Range(s)
  BY <1>2, <1>4, <1>5, <1>6 DEF Range
<1>8. ASSUME IsInjective(s) PROVE IsInjective(t) /\ Head(s) \notin Range(t)
  <2>1. IsInjective(t)
    BY <1>3, <1>4, <1>8 DEF IsInjective
  <2>2. \A i \in DOMAIN t : t[i] # s[1]
    BY <1>3, <1>4, <1>6, <1>8 DEF IsInjective
  <2>3. QED BY <1>2, <2>1, <2>2 DEF Range
<1>9. QED BY <1>1, <1>2, <1>7, <1>8 DEF t

(* RemoveAt: the element at one position leaves.                           *)
LEMMA RemoveAtList ==
    ASSUME NEW S, NEW s \in Seq(S), NEW k \in 1..Len(s), IsInjective(s)
    PROVE  /\ RemoveAt(s, k) \in Seq(S)
           /\ Range(RemoveAt(s, k)) = Range(s) \ {s[k]}
           /\ IsInjective(RemoveAt(s, k))
           /\ Len(RemoveAt(s, k)) = Len(s) - 1
           /\ \A i \in 1..(Len(s) - 1) :
                 RemoveAt(s, k)[i] = IF i < k THEN s[i] ELSE s[i + 1]
<1> DEFINE a == SubSeq(s, 1, k - 1)
           b == SubSeq(s, k + 1, Len(s))
           t == RemoveAt(s, k)
<1>1. Len(s) \in Nat /\ DOMAIN s = 1..Len(s) /\ \A i \in 1..Len(s) : s[i] \in S
  BY LenProperties, ElementOfSeq
<1>2. /\ a \in Seq(S) /\ Len(a) = k - 1
      /\ \A i \in 1..(k - 1) : a[i] = s[i]
  BY <1>1, SubSeqProperties
<1>3. /\ b \in Seq(S) /\ Len(b) = Len(s) - k
      /\ \A i \in 1..(Len(s) - k) : b[i] = s[k + i]
  <2>1. k + 1 \in Int /\ Len(s) \in Int /\ \A i \in (k + 1)..Len(s) : s[i] \in S
    BY <1>1
  <2>2. /\ b \in Seq(S) /\ Len(b) = IF k + 1 <= Len(s) THEN Len(s) - (k + 1) + 1 ELSE 0
        /\ \A i \in 1..(Len(s) - (k + 1) + 1) : b[i] = s[(k + 1) + i - 1]
    BY <2>1, SubSeqProperties
  <2>3. \A i \in 1..(Len(s) - k) : i \in 1..(Len(s) - (k + 1) + 1) /\ (k + 1) + i - 1 = k + i
    BY <1>1
  <2>4. \A i \in 1..(Len(s) - k) : b[i] = s[k + i]
    BY <2>2, <2>3
  <2>5. Len(b) = Len(s) - k
    BY <1>1, <2>2
  <2>6. QED BY <2>2, <2>4, <2>5
<1>4. t = a \o b
  BY DEF RemoveAt
<1> HIDE DEF a, b, t
<1>5. /\ t \in Seq(S) /\ Len(t) = Len(s) - 1
      /\ \A i \in 1..(Len(s) - 1) : t[i] = IF i <= k - 1 THEN a[i] ELSE b[i - (k - 1)]
  <2>1. /\ t \in Seq(S) /\ Len(t) = Len(a) + Len(b)
        /\ \A i \in 1..(Len(a) + Len(b)) : t[i] = IF i <= Len(a) THEN a[i] ELSE b[i - Len(a)]
    BY <1>2, <1>3, <1>4, ConcatProperties
  <2>2. Len(a) + Len(b) = Len(s) - 1
    BY <1>1, <1>2, <1>3
  <2>3. QED BY <1>2, <2>1, <2>2
<1>6. DOMAIN t = 1..(Len(s) - 1)
  BY <1>5, LenProperties
<1>7. \A i \in 1..(Len(s) - 1) : t[i] = IF i < k THEN s[i] ELSE s[i + 1]
  <2> SUFFICES ASSUME NEW i \in 1..(Len(s) - 1)
               PROVE  t[i] = IF i < k THEN s[i] ELSE s[i + 1]
    OBVIOUS
  <2>1. CASE i < k
    BY <1>1, <1>2, <1>5, <2>1
  <2>2. CASE i >= k
    <3>1. i - (k - 1) \in 1..(Len(s) - k) /\ k + (i - (k - 1)) = i + 1
      BY <1>1, <2>2
    <3>2. b[i - (k - 1)] = s[i + 1]
      BY <1>3, <3>1
    <3>3. QED BY <1>1, <1>5, <2>2, <3>2
  <2>3. QED BY <1>1, <2>1, <2>2
<1>8. \A i \in DOMAIN t : \E h \in DOMAIN s : h # k /\ t[i] = s[h]
  BY <1>1, <1>6, <1>7
<1>9. \A h \in DOMAIN s : h # k => \E i \in DOMAIN t : t[i] = s[h]
  <2> SUFFICES ASSUME NEW h \in DOMAIN s, h # k PROVE \E i \in DOMAIN t : t[i] = s[h]
    OBVIOUS
  <2>1. CASE h < k
    BY <1>1, <1>6, <1>7, <2>1
  <2>2. CASE h > k
    <3>1. h - 1 \in DOMAIN t /\ ~(h - 1 < k) /\ (h - 1) + 1 = h
      BY <1>1, <1>6, <2>2
    <3>2. QED BY <1>6, <1>7, <3>1
  <2>3. QED BY <1>1, <2>1, <2>2
<1>10. Range(t) = Range(s) \ {s[k]}
  BY <1>1, <1>8, <1>9 DEF Range, IsInjective
<1>11. IsInjective(t)
  <2> SUFFICES ASSUME NEW i \in DOMAIN t, NEW j \in DOMAIN t, t[i] = t[j] PROVE i = j
    BY DEF IsInjective
  <2> DEFINE Old(n) == IF n < k THEN n ELSE n + 1
  <2>1. Old(i) \in DOMAIN s /\ Old(j) \in DOMAIN s
    BY <1>1, <1>6
  <2>2. s[Old(i)] = s[Old(j)]
    BY <1>6, <1>7
  <2>3. Old(i) = Old(j)
    BY <2>1, <2>2 DEF IsInjective
  <2>4. QED BY <1>1, <1>6, <2>3
<1>12. QED BY <1>5, <1>7, <1>10, <1>11 DEF t

(* RemoveFirst: an element leaves, if it is there.                         *)
LEMMA RemoveFirstList ==
    ASSUME NEW S, NEW s \in Seq(S), NEW e, IsInjective(s)
    PROVE  /\ RemoveFirst(s, e) \in Seq(S)
           /\ Range(RemoveFirst(s, e)) = Range(s) \ {e}
           /\ IsInjective(RemoveFirst(s, e))
<1>1. CASE \E i \in 1..Len(s) : s[i] = e
  <2> DEFINE I == {i \in 1..Len(s) : s[i] = e}
  <2>1. PICK k \in 1..Len(s) : s[k] = e
    BY <1>1
  <2>2. I = {k}
    BY <2>1, LenProperties DEF IsInjective
  <2>3. Min(I) = k
    BY <2>2 DEF Min
  <2>4. RemoveFirst(s, e) = RemoveAt(s, k)
    BY <1>1, <2>2, <2>3 DEF RemoveFirst, SelectInSeq
  <2>5. QED BY <2>1, <2>4, RemoveAtList
<1>2. CASE ~(\E i \in 1..Len(s) : s[i] = e)
  <2>1. RemoveFirst(s, e) = s
    BY <1>2 DEF RemoveFirst
  <2>2. QED BY <1>2, <2>1, RangeElements
<1>3. QED BY <1>1, <1>2
(* s \o t: the elements of both.                                           *)
LEMMA ConcatList ==
    ASSUME NEW S, NEW s \in Seq(S), NEW t \in Seq(S)
    PROVE  /\ s \o t \in Seq(S)
           /\ Len(s \o t) = Len(s) + Len(t)
           /\ Range(s \o t) = Range(s) \union Range(t)
           /\ IsInjective(s) /\ IsInjective(t) /\ Range(s) \intersect Range(t) = {}
                 => IsInjective(s \o t)
<1> DEFINE u == s \o t
<1>1. /\ u \in Seq(S) /\ Len(u) = Len(s) + Len(t)
      /\ \A i \in 1 .. Len(s) + Len(t) : u[i] = IF i <= Len(s) THEN s[i] ELSE t[i - Len(s)]
  BY ConcatProperties
<1> HIDE DEF u
<1>2. /\ Len(s) \in Nat /\ Len(t) \in Nat
      /\ DOMAIN s = 1..Len(s) /\ DOMAIN t = 1..Len(t) /\ DOMAIN u = 1..(Len(s) + Len(t))
  BY <1>1, LenProperties
<1>3. \A i \in DOMAIN s : i \in DOMAIN u /\ u[i] = s[i]
  BY <1>1, <1>2
<1>4. \A i \in DOMAIN t : i + Len(s) \in DOMAIN u /\ u[i + Len(s)] = t[i]
  <2> SUFFICES ASSUME NEW i \in DOMAIN t
               PROVE  i + Len(s) \in DOMAIN u /\ u[i + Len(s)] = t[i]
    OBVIOUS
  <2>1. i + Len(s) \in 1 .. Len(s) + Len(t) /\ ~(i + Len(s) <= Len(s)) /\ (i + Len(s)) - Len(s) = i
    BY <1>2
  <2>2. QED BY <1>1, <1>2, <2>1
<1>5. \A i \in DOMAIN u :
         \/ i \in DOMAIN s /\ u[i] = s[i]
         \/ i > Len(s) /\ i - Len(s) \in DOMAIN t /\ u[i] = t[i - Len(s)]
  BY <1>1, <1>2
<1>6. Range(u) = Range(s) \union Range(t)
  BY <1>3, <1>4, <1>5 DEF Range
<1>7. ASSUME IsInjective(s), IsInjective(t), Range(s) \intersect Range(t) = {}
      PROVE  IsInjective(u)
  <2>1. \A h \in DOMAIN s : \A i \in DOMAIN t : s[h] # t[i]
    BY <1>7 DEF Range
  <2> SUFFICES ASSUME NEW h \in DOMAIN u, NEW i \in DOMAIN u, u[h] = u[i] PROVE h = i
    BY DEF IsInjective
  <2>2. CASE h \in DOMAIN s /\ u[h] = s[h]
    BY <1>2, <1>5, <1>7, <2>1, <2>2 DEF IsInjective
  <2>3. CASE h > Len(s) /\ h - Len(s) \in DOMAIN t /\ u[h] = t[h - Len(s)]
    <3>1. ~(i \in DOMAIN s /\ u[i] = s[i])
      BY <2>1, <2>3
    <3>2. i > Len(s) /\ i - Len(s) \in DOMAIN t /\ u[i] = t[i - Len(s)]
      BY <1>5, <3>1
    <3>3. h - Len(s) = i - Len(s)
      BY <1>7, <2>3, <3>2 DEF IsInjective
    <3>4. QED BY <1>2, <3>3
  <2>4. QED BY <1>5, <2>2, <2>3
<1>8. QED BY <1>1, <1>6, <1>7 DEF u

(* InsertAt: an element enters at one position.                            *)
LEMMA InsertAtList ==
    ASSUME NEW S, NEW s \in Seq(S), NEW k \in 1..Len(s), NEW e \in S
    PROVE  /\ InsertAt(s, k, e) \in Seq(S)
           /\ Len(InsertAt(s, k, e)) = Len(s) + 1
           /\ \A i \in 1..(Len(s) + 1) : InsertAt(s, k, e)[i] =
                 IF i < k THEN s[i] ELSE IF i = k THEN e ELSE s[i - 1]
           /\ Range(InsertAt(s, k, e)) = Range(s) \union {e}
           /\ IsInjective(s) /\ e \notin Range(s) => IsInjective(InsertAt(s, k, e))
<1> DEFINE a == SubSeq(s, 1, k - 1)
           b == SubSeq(s, k, Len(s))
           c == <<e>>
           t == InsertAt(s, k, e)
<1>1. Len(s) \in Nat /\ DOMAIN s = 1..Len(s) /\ \A i \in 1..Len(s) : s[i] \in S
  BY LenProperties, ElementOfSeq
<1>2. /\ a \in Seq(S) /\ Len(a) = k - 1
      /\ \A i \in 1..(k - 1) : a[i] = s[i]
  BY <1>1, SubSeqProperties
<1>3. /\ b \in Seq(S) /\ Len(b) = Len(s) - k + 1
      /\ \A i \in 1..(Len(s) - k + 1) : b[i] = s[k + i - 1]
  BY <1>1, SubSeqProperties
<1>4. c \in Seq(S) /\ Len(c) = 1 /\ c[1] = e
  OBVIOUS
<1>5. t = (a \o c) \o b
  BY DEF InsertAt
<1> HIDE DEF a, b, c, t
<1>6. /\ a \o c \in Seq(S) /\ Len(a \o c) = k
      /\ \A i \in 1..k : (a \o c)[i] = IF i < k THEN s[i] ELSE e
  <2>1. /\ a \o c \in Seq(S) /\ Len(a \o c) = k
        /\ \A i \in 1..k : (a \o c)[i] = IF i <= k - 1 THEN a[i] ELSE c[i - (k - 1)]
    <3>1. Len(a) + Len(c) = k
      BY <1>1, <1>2, <1>4
    <3>2. /\ a \o c \in Seq(S) /\ Len(a \o c) = Len(a) + Len(c)
          /\ \A i \in 1..(Len(a) + Len(c)) :
                (a \o c)[i] = IF i <= Len(a) THEN a[i] ELSE c[i - Len(a)]
      BY <1>2, <1>4, ConcatProperties
    <3>3. QED BY <1>2, <3>1, <3>2
  <2>2. QED BY <1>1, <1>2, <1>4, <2>1
<1>7. /\ t \in Seq(S) /\ Len(t) = Len(s) + 1
      /\ \A i \in 1..(Len(s) + 1) : t[i] = IF i <= k THEN (a \o c)[i] ELSE b[i - k]
  <2>1. k + (Len(s) - k + 1) = Len(s) + 1
    BY <1>1
  <2> DEFINE d == a \o c
  <2>2. d \in Seq(S) /\ Len(d) = k
    BY <1>6
  <2> HIDE DEF d
  <2>3. /\ d \o b \in Seq(S) /\ Len(d \o b) = Len(d) + Len(b)
        /\ \A i \in 1..(Len(d) + Len(b)) :
              (d \o b)[i] = IF i <= Len(d) THEN d[i] ELSE b[i - Len(d)]
    BY <1>3, <2>2, ConcatProperties
  <2>4. QED BY <1>3, <1>5, <2>1, <2>2, <2>3 DEF d
<1>8. ASSUME NEW i \in 1..(Len(s) + 1)
      PROVE  t[i] = IF i < k THEN s[i] ELSE IF i = k THEN e ELSE s[i - 1]
  <2>1. CASE i <= k
    <3>1. i \in 1..k /\ t[i] = (a \o c)[i]
      <4>1. i \in 1..k
        BY <1>1, <2>1
      <4>2. t[i] = IF i <= k THEN (a \o c)[i] ELSE b[i - k]
        BY <1>7
      <4>3. QED BY <2>1, <4>1, <4>2
    <3>2. (a \o c)[i] = IF i < k THEN s[i] ELSE e
      BY <1>6, <3>1
    <3>3. QED BY <1>1, <2>1, <3>1, <3>2
  <2>2. CASE i > k
    <3>1. i - k \in 1..(Len(s) - k + 1) /\ k + (i - k) - 1 = i - 1
      BY <1>1, <2>2
    <3>2. b[i - k] = s[i - 1]
      BY <1>3, <3>1
    <3>3. QED BY <1>1, <1>7, <2>2, <3>2
  <2>3. QED BY <1>1, <2>1, <2>2
<1>9. DOMAIN t = 1..(Len(s) + 1)
  BY <1>7, LenProperties
<1>10. t[k] = e /\ k \in DOMAIN t
  BY <1>1, <1>8, <1>9
<1>11. \A i \in DOMAIN t : i = k \/ \E h \in DOMAIN s : t[i] = s[h]
  BY <1>1, <1>8, <1>9
<1>12. \A h \in DOMAIN s : \E i \in DOMAIN t : t[i] = s[h]
  <2> SUFFICES ASSUME NEW h \in DOMAIN s PROVE \E i \in DOMAIN t : t[i] = s[h]
    OBVIOUS
  <2>1. CASE h < k
    BY <1>1, <1>8, <1>9, <2>1
  <2>2. CASE h >= k
    <3>1. h + 1 \in DOMAIN t /\ ~(h + 1 < k) /\ h + 1 # k /\ (h + 1) - 1 = h
      BY <1>1, <1>9, <2>2
    <3>2. QED BY <1>8, <1>9, <3>1
  <2>3. QED BY <1>1, <2>1, <2>2
<1>13. Range(t) = Range(s) \union {e}
  BY <1>10, <1>11, <1>12 DEF Range
<1>14. ASSUME IsInjective(s), e \notin Range(s) PROVE IsInjective(t)
  <2>1. \A h \in DOMAIN s : s[h] # e
    BY <1>14 DEF Range
  <2> SUFFICES ASSUME NEW i \in DOMAIN t, NEW j \in DOMAIN t, t[i] = t[j] PROVE i = j
    BY DEF IsInjective
  <2> DEFINE Old(n) == IF n < k THEN n ELSE n - 1
  <2>2. \A n \in DOMAIN t : n # k => Old(n) \in DOMAIN s /\ t[n] = s[Old(n)]
    BY <1>1, <1>8, <1>9
  <2>3. CASE i = k \/ j = k
    BY <1>10, <2>1, <2>2, <2>3
  <2>4. CASE i # k /\ j # k
    <3>1. Old(i) = Old(j)
      BY <1>14, <2>2, <2>4 DEF IsInjective
    <3>2. QED BY <1>1, <1>9, <2>4, <3>1
  <2>5. QED BY <2>3, <2>4
<1>15. QED BY <1>7, <1>8, <1>13, <1>14 DEF t

(* A list without repetition is as long as its set of elements.            *)
LEMMA RangeCount ==
    ASSUME NEW S, NEW s \in Seq(S), IsInjective(s)
    PROVE  IsFiniteSet(Range(s)) /\ Cardinality(Range(s)) = Len(s)
<1>1. Len(s) \in Nat /\ DOMAIN s = 1..Len(s) /\ s \in [1..Len(s) -> Range(s)]
  BY LenProperties, RangeElements
<1>2. s \in Bijection(1..Len(s), Range(s))
  BY <1>1 DEF Bijection, Injection, Surjection, IsInjective, Range
<1>3. IsFiniteSet(1..Len(s)) /\ Cardinality(1..Len(s)) = Len(s)
  BY <1>1, FS_Interval
<1>4. QED BY <1>2, <1>3, FS_Bijection DEF ExistsBijection

(* A non-empty set of numbers has a least one.                             *)
LEMMA MinInSet ==
    ASSUME NEW T, T \subseteq Nat, T # {}
    PROVE  Min(T) \in T /\ \A n \in T : Min(T) <= n
<1>1. PICK x \in T : \A y \in T : ~(<<y, x>> \in OpToRel(<, Nat))
  BY WFMin, NatLessThanWellFounded
<1>2. \A y \in T : x <= y
  <2>1. \A y \in T : ~(y < x)
    <3> SUFFICES ASSUME NEW y \in T, y < x PROVE FALSE
      OBVIOUS
    <3>1. x \in Nat /\ y \in Nat
      OBVIOUS
    <3>2. <<y, x>> \in OpToRel(<, Nat)
      BY <3>1 DEF OpToRel
    <3>3. QED BY <1>1, <3>2
  <2>2. QED BY <2>1
<1>3. QED BY <1>1, <1>2 DEF Min
-----------------------------------------------------------------------------
(* One element enters or leaves a finite set.                              *)
LEMMA CountStep ==
    ASSUME NEW S, IsFiniteSet(S), NEW x
    PROVE  /\ IsFiniteSet(S \union {x}) /\ IsFiniteSet(S \ {x})
           /\ Cardinality(S) \in Nat
           /\ Cardinality(S \union {x}) \in Nat /\ Cardinality(S \ {x}) \in Nat
           /\ x \notin S => Cardinality(S \union {x}) = Cardinality(S) + 1
           /\ x \in S => Cardinality(S \ {x}) = Cardinality(S) - 1
           /\ x \in S => Cardinality(S) > 0
           /\ x \in S => S \union {x} = S
           /\ x \notin S => S \ {x} = S
<1>1. IsFiniteSet(S \union {x}) /\ IsFiniteSet(S \ {x})
  BY FS_AddElement, FS_RemoveElement
<1>2. /\ Cardinality(S) \in Nat
      /\ Cardinality(S \union {x}) \in Nat /\ Cardinality(S \ {x}) \in Nat
  BY <1>1, FS_CardinalityType
<1>3. x \notin S => Cardinality(S \union {x}) = Cardinality(S) + 1
  BY FS_AddElement
<1>4. x \in S => Cardinality(S \ {x}) = Cardinality(S) - 1
  BY FS_RemoveElement
<1>5. QED BY <1>1, <1>2, <1>3, <1>4

(* Two sets that agree except perhaps on one element.                      *)
In(b) == IF b THEN 1 ELSE 0

LEMMA OneMoves ==
    ASSUME NEW A, NEW B, NEW j, IsFiniteSet(A), A \ {j} = B \ {j}
    PROVE  /\ IsFiniteSet(B) /\ Cardinality(A) \in Nat /\ Cardinality(B) \in Nat
           /\ Cardinality(B) = Cardinality(A) + In(j \in B) - In(j \in A)
<1> DEFINE C == A \ {j}
<1>1. IsFiniteSet(C) /\ Cardinality(C) \in Nat /\ j \notin C
  BY FS_RemoveElement, FS_CardinalityType
<1>2. IsFiniteSet(C \union {j}) /\ Cardinality(C \union {j}) = Cardinality(C) + 1
  BY <1>1, FS_AddElement
<1>3. A = IF j \in A THEN C \union {j} ELSE C
  OBVIOUS
<1>4. B = IF j \in B THEN C \union {j} ELSE C
  OBVIOUS
<1> HIDE DEF C
<1>5. Cardinality(A) = Cardinality(C) + In(j \in A)
  BY <1>1, <1>2, <1>3 DEF In
<1>6. Cardinality(B) = Cardinality(C) + In(j \in B) /\ IsFiniteSet(B)
  <2>1. CASE j \in B
    BY <1>1, <1>2, <1>4, <2>1 DEF In
  <2>2. CASE j \notin B
    BY <1>1, <1>4, <2>2 DEF In
  <2>3. QED BY <2>1, <2>2
<1>7. In(j \in A) \in 0..1 /\ In(j \in B) \in 0..1
  BY DEF In
<1>8. QED BY <1>1, <1>5, <1>6, <1>7
=============================================================================
