----------------------------- MODULE TimersProofs -----------------------------
(***************************************************************************)
(* For any timers, buffers, durations and word width: a buffer is in one   *)
(* place, and a stopped or restarted timer never fires, provided that the  *)
(* handlers of expiries reset their timers.                                *)
(***************************************************************************)
EXTENDS Timers, FiniteSetTheorems, NaturalsInduction, WellFoundedInduction, SequenceTheorems, TLAPS

Mark == Timer \cup {"message", "DISCARDED"}

(* The places of buffers are sequences without repetitions that share      *)
(* nothing and leave nothing out.                                          *)
Separate ==
  /\ list \in Seq(Buffer) /\ IsInjective(list)
  /\ pool \in Seq(Buffer) /\ IsInjective(pool)
  /\ mbx \in Seq(Buffer) /\ IsInjective(mbx)
  /\ current \in Buffer \cup {NoBuffer}
  /\ Range(list) \cap Range(pool) = {} /\ Range(list) \cap Range(mbx) = {}
  /\ Range(pool) \cap Range(mbx) = {}
  /\ current \notin Range(list) \cup Range(pool) \cup Range(mbx)
  /\ Buffer \subseteq Range(list) \cup Range(pool) \cup Range(mbx) \cup {current}

Fields ==
  /\ count \in [Buffer -> 0 .. Word - 1]
  /\ code \in [Buffer -> Mark]
  /\ TimerBuffer \in [Timer -> Buffer \cup {NoBuffer}]

IInv == Separate /\ Fields

-----------------------------------------------------------------------------
(* Sequences without repetitions.                                          *)
LEMMA RangeFacts ==
  ASSUME NEW S, NEW s \in Seq(S)
  PROVE  /\ \A i \in DOMAIN s : s[i] \in Range(s)
         /\ \A x \in Range(s) : \E i \in DOMAIN s : s[i] = x
         /\ Range(s) \subseteq S
         /\ DOMAIN s = 1 .. Len(s) /\ Len(s) \in Nat
BY DEF Range

LEMMA WithoutFirst ==
  ASSUME NEW S, NEW s \in Seq(S), IsInjective(s), s # <<>>
  PROVE  /\ Head(s) \in Range(s) /\ Head(s) \in S
         /\ Tail(s) \in Seq(S) /\ IsInjective(Tail(s))
         /\ Range(Tail(s)) = Range(s) \ {Head(s)}
<1>1. /\ Tail(s) \in Seq(S) /\ Head(s) = s[1] /\ s[1] \in S
      /\ 1 \in DOMAIN s /\ DOMAIN s = 1 .. Len(s) /\ Len(s) \in Nat
      /\ DOMAIN Tail(s) = 1 .. Len(s) - 1
      /\ \A i \in DOMAIN Tail(s) : i + 1 \in DOMAIN s /\ i + 1 # 1 /\ Tail(s)[i] = s[i + 1]
  OBVIOUS
<1>2. \A i \in DOMAIN s : i # 1 => i - 1 \in DOMAIN Tail(s) /\ Tail(s)[i - 1] = s[i]
  BY <1>1
<1>3. IsInjective(Tail(s))
  <2>1. \A i, j \in DOMAIN Tail(s) : i + 1 = j + 1 => i = j
    BY <1>1
  <2> QED BY <1>1, <2>1 DEF IsInjective
<1>4. ASSUME NEW x \in Range(Tail(s)) PROVE x \in Range(s) /\ x # s[1]
  <2>1. PICK i \in DOMAIN Tail(s) : x = Tail(s)[i]
    BY DEF Range
  <2> QED BY <1>1, <2>1 DEF Range, IsInjective
<1>5. ASSUME NEW x \in Range(s), x # s[1] PROVE x \in Range(Tail(s))
  <2>1. PICK i \in DOMAIN s : x = s[i]
    BY DEF Range
  <2>2. i # 1
    BY <1>5, <2>1
  <2> QED BY <1>2, <2>1, <2>2 DEF Range
<1>6. Head(s) \in Range(s)
  BY <1>1 DEF Range
<1> QED BY <1>1, <1>3, <1>4, <1>5, <1>6

LEMMA Joined ==
  ASSUME NEW S, NEW s \in Seq(S), NEW t \in Seq(S), IsInjective(s), IsInjective(t),
         Range(s) \cap Range(t) = {}
  PROVE  /\ s \o t \in Seq(S) /\ IsInjective(s \o t)
         /\ Range(s \o t) = Range(s) \cup Range(t)
<1> DEFINE u == s \o t
<1>1. /\ u \in Seq(S) /\ Len(s) \in Nat /\ Len(t) \in Nat /\ Len(u) = Len(s) + Len(t)
      /\ \A i \in 1 .. Len(s) + Len(t) : u[i] = IF i <= Len(s) THEN s[i] ELSE t[i - Len(s)]
  BY ConcatProperties
<1>2. /\ DOMAIN u = 1 .. Len(u) /\ DOMAIN s = 1 .. Len(s) /\ DOMAIN t = 1 .. Len(t)
      /\ \A i \in DOMAIN s : s[i] \in Range(s)
      /\ \A i \in DOMAIN t : t[i] \in Range(t)
  BY <1>1 DEF Range
<1> HIDE DEF u
<1>3. \A i \in DOMAIN u : \/ i \in DOMAIN s /\ u[i] = s[i]
                          \/ i > Len(s) /\ i - Len(s) \in DOMAIN t /\ u[i] = t[i - Len(s)]
  BY <1>1, <1>2
<1>4. ASSUME NEW i \in DOMAIN u, NEW j \in DOMAIN u, u[i] = u[j] PROVE i = j
  <2>1. CASE i \in DOMAIN s /\ u[i] = s[i] /\ j \in DOMAIN s /\ u[j] = s[j]
    BY <1>4, <2>1 DEF IsInjective
  <2>2. CASE /\ i > Len(s) /\ i - Len(s) \in DOMAIN t /\ u[i] = t[i - Len(s)]
             /\ j > Len(s) /\ j - Len(s) \in DOMAIN t /\ u[j] = t[j - Len(s)]
    <3>1. i - Len(s) = j - Len(s)
      BY <1>4, <2>2 DEF IsInjective
    <3>2. i \in Nat /\ j \in Nat
      BY <1>1, <1>2
    <3> QED BY <1>1, <3>1, <3>2
  <2> QED BY <1>2, <1>3, <1>4, <2>1, <2>2
<1>5. Range(u) = Range(s) \cup Range(t)
  BY RangeConcatenation DEF u
<1> QED BY <1>1, <1>4, <1>5 DEF u, IsInjective

LEMMA OneElement ==
  ASSUME NEW S, NEW e \in S
  PROVE  <<e>> \in Seq(S) /\ IsInjective(<<e>>) /\ Range(<<e>>) = {e}
<1>1. <<e>> \in Seq(S) /\ DOMAIN <<e>> = {1} /\ <<e>>[1] = e
  OBVIOUS
<1> QED BY <1>1 DEF IsInjective, Range

LEMMA WithLast ==
  ASSUME NEW S, NEW s \in Seq(S), IsInjective(s), NEW e \in S, e \notin Range(s)
  PROVE  /\ Append(s, e) \in Seq(S) /\ IsInjective(Append(s, e))
         /\ Range(Append(s, e)) = Range(s) \cup {e}
<1>1. <<e>> \in Seq(S) /\ IsInjective(<<e>>) /\ Range(<<e>>) = {e}
  BY OneElement
<1>2. Append(s, e) = s \o <<e>>
  BY AppendIsConcat
<1>3. Range(s) \cap Range(<<e>>) = {}
  BY <1>1
<1>4. /\ s \o <<e>> \in Seq(S) /\ IsInjective(s \o <<e>>)
      /\ Range(s \o <<e>>) = Range(s) \cup Range(<<e>>)
  BY <1>1, <1>3, Joined
<1> QED BY <1>1, <1>2, <1>4

LEMMA Rest ==
  ASSUME NEW n \in Nat, NEW k \in Nat, k <= n
  PROVE  (IF k + 1 <= n THEN n - (k + 1) + 1 ELSE 0) = n - k
<1>1. CASE k + 1 <= n
  BY <1>1
<1>2. CASE ~(k + 1 <= n)
  <2>1. k = n
    BY <1>2
  <2> QED BY <1>2, <2>1
<1> QED BY <1>1, <1>2

(* The two parts of a sequence that is cut behind its k-th element.        *)
CutInto(S, s, k, u, v) ==
  /\ u \in Seq(S) /\ IsInjective(u) /\ Len(u) = k /\ \A i \in 1 .. k : u[i] = s[i]
  /\ v \in Seq(S) /\ IsInjective(v) /\ Len(v) = Len(s) - k
  /\ \A i \in 1 .. Len(s) - k : v[i] = s[k + i]
  /\ Range(u) = {s[i] : i \in 1 .. k}
  /\ Range(u) \cup Range(v) = Range(s) /\ Range(u) \cap Range(v) = {}

LEMMA Cut ==
  ASSUME NEW S, NEW s \in Seq(S), IsInjective(s), NEW k \in 0 .. Len(s)
  PROVE  CutInto(S, s, k, SubSeq(s, 1, k), SubSeq(s, k + 1, Len(s)))
<1> DEFINE u == SubSeq(s, 1, k)
           v == SubSeq(s, k + 1, Len(s))
<1>1. Len(s) \in Nat /\ k \in Nat /\ k <= Len(s) /\ DOMAIN s = 1 .. Len(s) /\ \A i \in 1 .. Len(s) : s[i] \in S
  OBVIOUS
<1>2. u \in Seq(S) /\ Len(u) = k /\ \A i \in 1 .. k : u[i] = s[i]
  <2>1. \A i \in 1 .. k : s[i] \in S
    BY <1>1
  <2>2. /\ u \in Seq(S) /\ Len(u) = (IF 1 <= k THEN k - 1 + 1 ELSE 0)
        /\ \A i \in 1 .. k - 1 + 1 : u[i] = s[1 + i - 1]
    BY <1>1, <2>1, SubSeqProperties
  <2> HIDE DEF u
  <2> QED BY <1>1, <2>2
<1>3. v \in Seq(S) /\ Len(v) = Len(s) - k /\ \A i \in 1 .. Len(s) - k : v[i] = s[k + i]
  <2>1. \A i \in k + 1 .. Len(s) : s[i] \in S
    BY <1>1
  <2>2. /\ v \in Seq(S)
        /\ Len(v) = (IF k + 1 <= Len(s) THEN Len(s) - (k + 1) + 1 ELSE 0)
        /\ \A i \in 1 .. Len(s) - (k + 1) + 1 : v[i] = s[k + 1 + i - 1]
    BY <1>1, <2>1, SubSeqProperties
  <2> HIDE DEF v
  <2>3. Len(v) = Len(s) - k
    <3>1. (IF k + 1 <= Len(s) THEN Len(s) - (k + 1) + 1 ELSE 0) = Len(s) - k
      BY <1>1, Rest
    <3> QED BY <2>2, <3>1
  <2>4. ASSUME NEW i \in 1 .. Len(s) - k PROVE v[i] = s[k + i]
    <3>1. i \in 1 .. Len(s) - (k + 1) + 1 /\ k + 1 + i - 1 = k + i
      BY <1>1
    <3> QED BY <2>2, <3>1
  <2> QED BY <2>2, <2>3, <2>4
<1> HIDE DEF u, v
<1>4. /\ DOMAIN u = 1 .. k /\ DOMAIN v = 1 .. Len(s) - k
      /\ \A i \in DOMAIN u : i \in DOMAIN s /\ i <= k /\ u[i] = s[i]
      /\ \A i \in DOMAIN v : k + i \in DOMAIN s /\ k + i > k /\ v[i] = s[k + i]
      /\ \A i \in DOMAIN s : \/ i \in DOMAIN u /\ i \in 1 .. k
                             \/ i - k \in DOMAIN v /\ k + (i - k) = i
  BY <1>1, <1>2, <1>3
<1>5. IsInjective(u)
  BY <1>4 DEF IsInjective
<1>6. IsInjective(v)
  <2>1. \A i, j \in DOMAIN v : k + i = k + j => i = j
    BY <1>1, <1>4
  <2> QED BY <1>4, <2>1 DEF IsInjective
<1>7. Range(u) = {s[i] : i \in 1 .. k}
  BY <1>4 DEF Range
<1>8. Range(u) \cup Range(v) = Range(s)
  <2>1. \A x \in Range(u) \cup Range(v) : x \in Range(s)
    BY <1>4 DEF Range
  <2>2. ASSUME NEW i \in DOMAIN s PROVE s[i] \in Range(u) \cup Range(v)
    BY <1>4 DEF Range
  <2> QED BY <2>1, <2>2 DEF Range
<1>9. Range(u) \cap Range(v) = {}
  <2> SUFFICES ASSUME NEW i \in DOMAIN u, NEW j \in DOMAIN v, u[i] = v[j] PROVE FALSE
    BY DEF Range
  <2>1. i = k + j
    BY <1>4 DEF IsInjective
  <2> QED BY <1>1, <1>4, <2>1
<1>10. CutInto(S, s, k, u, v)
  BY <1>2, <1>3, <1>5, <1>6, <1>7, <1>8, <1>9 DEF CutInto
<1> QED BY <1>10 DEF u, v

-----------------------------------------------------------------------------
(* Natural numbers.                                                        *)
LEMMA LeastNatural ==
  ASSUME NEW S, S \subseteq Nat, S # {}
  PROVE  \E k \in S : \A j \in S : k <= j
<1>1. PICK R : IsWellFoundedOn(R, Nat) /\ \A j, k \in Nat : j < k => <<j, k>> \in R
  <2>1. IsWellFoundedOn(OpToRel(<, Nat), Nat)
    BY NatLessThanWellFounded
  <2>2. \A j, k \in Nat : j < k => <<j, k>> \in OpToRel(<, Nat)
    BY DEF OpToRel
  <2> QED BY <2>1, <2>2
<1>2. IsWellFoundedOn(R, Nat)
  BY <1>1
<1>3. PICK k \in S : \A j \in S : ~(<<j, k>> \in R)
  <2>1. \E k \in S : \A j \in S : ~(<<j, k>> \in R)
    BY <1>2, WFMin, Zenon
  <2> QED BY <2>1
<1>4. ASSUME NEW j \in S PROVE k <= j
  <2>1. j \in Nat /\ k \in Nat
    OBVIOUS
  <2>2. ~(j < k)
    BY <1>1, <1>3, <2>1
  <2> QED BY <2>1, <2>2
<1> QED BY <1>4

LEMMA Induction ==
  ASSUME NEW S, 0 \in S, \A n \in Nat : n \in S => n + 1 \in S
  PROVE  Nat \subseteq S
<1> SUFFICES ASSUME Nat \ S # {} PROVE FALSE
  OBVIOUS
<1>1. PICK k \in Nat \ S : \A j \in Nat \ S : k <= j
  BY LeastNatural
<1>2. k \in Nat /\ k # 0 /\ k \notin S
  OBVIOUS
<1>3. k - 1 \in Nat /\ ~(k <= k - 1) /\ (k - 1) + 1 = k
  BY <1>2
<1>4. k - 1 \in S
  BY <1>1, <1>3
<1> QED BY <1>2, <1>3, <1>4

(* A first part of 1 .. n is counted by where it ends.                     *)
LEMMA FirstPart ==
  ASSUME NEW n \in Nat, NEW K, K \subseteq 1 .. n,
         \A i \in K : \A j \in 1 .. n : j <= i => j \in K
  PROVE  Cardinality(K) \in 0 .. n /\ K = 1 .. Cardinality(K)
<1> DEFINE M == {m \in 0 .. n : m + 1 \notin K}
<1>1. M \subseteq Nat /\ M # {}
  <2>1. n \in 0 .. n /\ n + 1 \notin K
    OBVIOUS
  <2> QED BY <2>1
<1>2. PICK m \in M : \A j \in M : m <= j
  BY <1>1, LeastNatural
<1>3. m \in 0 .. n /\ m \in Nat /\ m + 1 \notin K
  OBVIOUS
<1>4. ASSUME NEW j \in 1 .. m PROVE j \in K
  <2>1. j - 1 \in 0 .. n /\ ~(m <= j - 1) /\ (j - 1) + 1 = j
    BY <1>3
  <2>2. j - 1 \notin M
    BY <1>2, <2>1
  <2> QED BY <2>1, <2>2
<1>5. ASSUME NEW j \in K PROVE j \in 1 .. m
  <2>1. j \in 1 .. n
    OBVIOUS
  <2>2. CASE m + 1 <= j
    <3>1. m + 1 \in 1 .. n
      BY <1>3, <2>1, <2>2
    <3> QED BY <1>3, <2>2, <3>1
  <2> QED BY <1>3, <2>1, <2>2
<1>6. K = 1 .. m
  BY <1>4, <1>5
<1>7. Cardinality(1 .. m) = m
  <2>1. Cardinality(1 .. m) = IF 1 > m THEN 0 ELSE m - 1 + 1
    BY <1>3, FS_Interval
  <2> QED BY <1>3, <2>1
<1> QED BY <1>3, <1>6, <1>7

-----------------------------------------------------------------------------
(* Due times.                                                              *)
Sum(l, c, f, i) == IF i = 0 THEN 0 ELSE f[i - 1] + c[l[i]]

LEMMA SumExists ==
  ASSUME NEW l, NEW c
  PROVE  \A n \in Nat : \E f : f = [i \in 0 .. n |-> Sum(l, c, f, i)]
<1> DEFINE S == {n \in Nat : \E f : f = [i \in 0 .. n |-> Sum(l, c, f, i)]}
<1>1. 0 \in S
  <2>1. PICK f : f = [i \in 0 .. 0 |-> 0]
    OBVIOUS
  <2>2. \A i \in 0 .. 0 : Sum(l, c, f, i) = 0
    BY DEF Sum
  <2>3. f = [i \in 0 .. 0 |-> Sum(l, c, f, i)]
    BY <2>1, <2>2
  <2> QED BY <2>3
<1>2. ASSUME NEW n \in Nat, n \in S PROVE n + 1 \in S
  <2>1. PICK f : f = [i \in 0 .. n |-> Sum(l, c, f, i)]
    BY <1>2
  <2>2. PICK w : w = Sum(l, c, f, n + 1)
    OBVIOUS
  <2>3. PICK g : g = [i \in 0 .. n + 1 |-> IF i = n + 1 THEN w ELSE f[i]]
    OBVIOUS
  <2>4. /\ \A i \in 0 .. n : i \in 0 .. n + 1 /\ i # n + 1
        /\ \A i \in 0 .. n + 1 : i = n + 1 \/ i \in 0 .. n
        /\ \A i \in 0 .. n + 1 : i # 0 => i - 1 \in 0 .. n
    OBVIOUS
  <2>5. \A i \in 0 .. n : g[i] = f[i]
    BY <2>3, <2>4
  <2>6. ASSUME NEW i \in 0 .. n + 1 PROVE Sum(l, c, g, i) = Sum(l, c, f, i)
    <3>1. i # 0 => g[i - 1] = f[i - 1]
      BY <2>4, <2>5
    <3> QED BY <3>1 DEF Sum
  <2>7. ASSUME NEW i \in 0 .. n + 1 PROVE g[i] = Sum(l, c, g, i)
    <3>1. CASE i = n + 1
      BY <2>2, <2>3, <2>6, <3>1
    <3>2. CASE i # n + 1
      <4>1. i \in 0 .. n
        BY <2>4, <3>2
      <4>2. f[i] = Sum(l, c, f, i)
        BY <2>1, <4>1
      <4> QED BY <2>5, <2>6, <4>1, <4>2
    <3> QED BY <3>1, <3>2
  <2>8. g = [i \in 0 .. n + 1 |-> Sum(l, c, g, i)]
    BY <2>3, <2>7
  <2> QED BY <2>8
<1> HIDE DEF S
<1>3. Nat \subseteq S
  BY <1>1, <1>2, Induction
<1> QED BY <1>3 DEF S

LEMMA DueStep ==
  ASSUME NEW l \in Seq(Buffer), NEW c
  PROVE  \A i \in 0 .. Len(l) :
           DueIn(l, c)[i] = IF i = 0 THEN 0 ELSE DueIn(l, c)[i - 1] + c[l[i]]
<1>1. Len(l) \in Nat
  OBVIOUS
<1> DEFINE D == CHOOSE f : f = [i \in 0 .. Len(l) |-> Sum(l, c, f, i)]
<1>2. DueIn(l, c) = D
  BY DEF DueIn, Sum
<1>3. D = [i \in 0 .. Len(l) |-> Sum(l, c, D, i)]
  BY <1>1, SumExists
<1> HIDE DEF D
<1>4. \A i \in 0 .. Len(l) : D[i] = Sum(l, c, D, i)
  BY <1>3
<1> QED BY <1>2, <1>4 DEF Sum

(* Timers further behind are due no earlier.                               *)
LEMMA DueGrows ==
  ASSUME NEW l \in Seq(Buffer), NEW c \in [Buffer -> Nat]
  PROVE  /\ \A i \in 0 .. Len(l) : DueIn(l, c)[i] \in Nat
         /\ \A j \in 0 .. Len(l) : \A i \in 0 .. j : DueIn(l, c)[i] <= DueIn(l, c)[j]
<1> DEFINE D == DueIn(l, c)
           S == {j \in Nat : j <= Len(l) => D[j] \in Nat /\ \A i \in 0 .. j : D[i] \in Nat /\ D[i] <= D[j]}
<1>1. Len(l) \in Nat /\ \A i \in 1 .. Len(l) : l[i] \in Buffer /\ c[l[i]] \in Nat
  OBVIOUS
<1>2. \A i \in 0 .. Len(l) : D[i] = IF i = 0 THEN 0 ELSE D[i - 1] + c[l[i]]
  BY DueStep
<1> HIDE DEF D
<1>3. 0 \in S
  <2>1. 0 \in 0 .. Len(l) /\ 0 .. 0 = {0}
    BY <1>1
  <2>2. D[0] = 0
    BY <1>2, <2>1
  <2> QED BY <2>1, <2>2
<1>4. ASSUME NEW j \in Nat, j \in S PROVE j + 1 \in S
  <2> SUFFICES ASSUME j + 1 <= Len(l)
               PROVE  D[j + 1] \in Nat /\ \A i \in 0 .. j + 1 : D[i] \in Nat /\ D[i] <= D[j + 1]
    OBVIOUS
  <2>1. j <= Len(l) /\ j + 1 \in 0 .. Len(l) /\ j + 1 # 0 /\ j + 1 \in 1 .. Len(l) /\ (j + 1) - 1 = j
    BY <1>1
  <2>2. D[j + 1] = D[j] + c[l[j + 1]]
    BY <1>2, <2>1
  <2>3. PICK x \in Nat, y \in Nat : x = D[j] /\ y = c[l[j + 1]]
    BY <1>1, <1>4, <2>1
  <2>4. D[j + 1] \in Nat /\ x <= D[j + 1]
    BY <2>2, <2>3
  <2>5. ASSUME NEW i \in 0 .. j + 1 PROVE D[i] \in Nat /\ D[i] <= D[j + 1]
    <3>1. CASE i = j + 1
      BY <2>4, <3>1
    <3>2. CASE i # j + 1
      <4>1. i \in 0 .. j
        BY <3>2
      <4>2. D[i] \in Nat /\ D[i] <= x
        BY <1>4, <2>1, <2>3, <4>1
      <4> QED BY <2>4, <4>2
    <3> QED BY <3>1, <3>2
  <2> QED BY <2>4, <2>5
<1>5. Nat \subseteq S
  <2> HIDE DEF S
  <2> QED BY <1>3, <1>4, Induction
<1>6. ASSUME NEW j \in 0 .. Len(l)
      PROVE  D[j] \in Nat /\ \A i \in 0 .. j : D[i] <= D[j]
  BY <1>5
<1> QED BY <1>6 DEF D

(* CTimer::Add stops behind the last timer due no later than n ticks.      *)
LEMMA Place ==
  ASSUME NEW l \in Seq(Buffer), NEW c \in [Buffer -> Nat], NEW n \in Nat
  PROVE  LET k == Cardinality({i \in DOMAIN l : DueIn(l, c)[i] <= n})
         IN /\ k \in 0 .. Len(l)
            /\ DueIn(l, c)[k] \in Nat /\ DueIn(l, c)[k] <= n
            /\ k < Len(l) => /\ DueIn(l, c)[k + 1] \in Nat /\ DueIn(l, c)[k + 1] > n
                             /\ c[l[k + 1]] = DueIn(l, c)[k + 1] - DueIn(l, c)[k]
<1>1. PICK D : D = DueIn(l, c)
  OBVIOUS
<1> DEFINE K == {i \in DOMAIN l : D[i] <= n}
           k == Cardinality(K)
<1>2. Len(l) \in Nat /\ DOMAIN l = 1 .. Len(l)
  OBVIOUS
<1>3. /\ \A i \in 0 .. Len(l) : D[i] \in Nat
      /\ \A j \in 0 .. Len(l) : \A i \in 0 .. j : D[i] <= D[j]
      /\ \A i \in 0 .. Len(l) : D[i] = IF i = 0 THEN 0 ELSE D[i - 1] + c[l[i]]
  BY <1>1, DueGrows, DueStep
<1>4. ASSUME NEW i \in K, NEW j \in 1 .. Len(l), j <= i PROVE j \in K
  <2>1. i \in 0 .. Len(l) /\ j \in 0 .. i /\ j \in 0 .. Len(l) /\ D[i] <= n
    BY <1>2, <1>4
  <2>2. D[j] <= D[i] /\ D[j] \in Nat /\ D[i] \in Nat
    BY <1>3, <2>1
  <2>3. D[j] <= n
    BY <2>1, <2>2
  <2> QED BY <1>2, <2>3
<1>5. k \in 0 .. Len(l) /\ K = 1 .. k
  <2>1. K \subseteq 1 .. Len(l)
    BY <1>2
  <2> HIDE DEF K
  <2> QED BY <1>2, <1>4, <2>1, FirstPart
<1> HIDE DEF k
<1>6. D[k] \in Nat /\ D[k] <= n
  <2>1. CASE k = 0
    BY <1>2, <1>3, <1>5, <2>1
  <2>2. CASE k # 0
    <3>1. k \in K
      BY <1>2, <1>5, <2>2
    <3> QED BY <1>3, <1>5, <3>1
  <2> QED BY <2>1, <2>2
<1>7. ASSUME k < Len(l) PROVE D[k + 1] \in Nat /\ D[k + 1] > n /\ c[l[k + 1]] = D[k + 1] - D[k]
  <2>1. k + 1 \in DOMAIN l /\ k + 1 \in 0 .. Len(l) /\ k + 1 # 0 /\ (k + 1) - 1 = k /\ k + 1 \notin 1 .. k
    BY <1>2, <1>5, <1>7
  <2>2. D[k + 1] \in Nat /\ ~(D[k + 1] <= n)
    BY <1>3, <1>5, <2>1
  <2>3. D[k + 1] = D[k] + c[l[k + 1]]
    BY <1>3, <2>1
  <2>4. c[l[k + 1]] \in Nat
    BY <2>1
  <2> QED BY <1>6, <2>2, <2>3, <2>4
<1> QED BY <1>1, <1>5, <1>6, <1>7 DEF k

-----------------------------------------------------------------------------
LEMMA InitIInv == Init => IInv
<1> SUFFICES ASSUME Init PROVE IInv
  OBVIOUS
<1> USE TimersAssumption DEF Init
<1>1. /\ <<>> \in Seq(Buffer) /\ IsInjective(<<>>) /\ Range(<<>>) = {}
      /\ Queue \in Seq(Buffer) /\ IsInjective(Queue) /\ Range(Queue) = Buffer
  BY DEF IsInjective, Range
<1>2. Separate
  BY <1>1 DEF Separate
<1>3. Fields
  <2>1. 0 \in 0 .. Word - 1
    OBVIOUS
  <2> QED BY <2>1 DEF Fields, Mark
<1> QED BY <1>2, <1>3 DEF IInv

LEMMA SendMessageIInv == ASSUME IInv, SendMessage PROVE IInv'
<1>1. PICK b \in Buffer : b = Head(pool) /\ b \in Range(pool)
  BY WithoutFirst DEF IInv, Separate, SendMessage
<1>2. /\ Tail(pool) \in Seq(Buffer) /\ IsInjective(Tail(pool))
      /\ Range(Tail(pool)) = Range(pool) \ {b}
  BY <1>1, WithoutFirst DEF IInv, Separate, SendMessage
<1>3. b \notin Range(mbx) /\ b \notin Range(list) /\ b # current
  BY <1>1 DEF IInv, Separate
<1>4. /\ Append(mbx, b) \in Seq(Buffer) /\ IsInjective(Append(mbx, b))
      /\ Range(Append(mbx, b)) = Range(mbx) \cup {b}
  BY <1>3, WithLast DEF IInv, Separate
<1>5. /\ mbx' = Append(mbx, b) /\ pool' = Tail(pool) /\ code' = [code EXCEPT ![b] = "message"]
      /\ UNCHANGED <<list, count, current, TimerBuffer>>
  BY <1>1 DEF SendMessage
<1>6. Separate'
  BY <1>1, <1>2, <1>3, <1>4, <1>5 DEF IInv, Separate
<1>7. Fields'
  BY <1>5 DEF IInv, Fields, Mark
<1> QED BY <1>6, <1>7 DEF IInv

(* CTimer::Add makes no count negative.                                    *)
LEMMA InsertFacts ==
  ASSUME IInv, NEW b \in Buffer, b \notin Range(list), NEW n \in 1 .. Word - 1, Insert(b, n)
  PROVE  /\ list' \in Seq(Buffer) /\ IsInjective(list') /\ Range(list') = Range(list) \cup {b}
         /\ count' \in [Buffer -> 0 .. Word - 1]
<1>1. list \in Seq(Buffer) /\ IsInjective(list) /\ count \in [Buffer -> 0 .. Word - 1]
  BY DEF IInv, Separate, Fields
<1>2. count \in [Buffer -> Nat] /\ n \in Nat /\ Word \in Nat
  BY <1>1, TimersAssumption
<1> DEFINE k == Cardinality({i \in DOMAIN list : Due[i] <= n})
           rest == n - Due[k]
           u == SubSeq(list, 1, k)
           v == SubSeq(list, k + 1, Len(list))
<1>3. /\ k \in 0 .. Len(list)
      /\ Due[k] \in Nat /\ Due[k] <= n
      /\ k < Len(list) => /\ Due[k + 1] \in Nat /\ Due[k + 1] > n
                          /\ count[list[k + 1]] = Due[k + 1] - Due[k]
  BY <1>1, <1>2, Place DEF Due
<1>4. /\ list' = (u \o <<b>>) \o v
      /\ count' = [x \in Buffer |->
                    CASE x = b -> rest
                      [] k < Len(list) /\ x = list[k + 1] -> count[x] - rest
                      [] OTHER -> count[x]]
  BY DEF Insert
<1> HIDE DEF k
<1>5. /\ u \in Seq(Buffer) /\ IsInjective(u) /\ v \in Seq(Buffer) /\ IsInjective(v)
      /\ Range(u) \cup Range(v) = Range(list) /\ Range(u) \cap Range(v) = {}
  <2>1. CutInto(Buffer, list, k, u, v)
    BY <1>1, <1>3, Cut
  <2> HIDE DEF u, v
  <2> QED BY <2>1 DEF CutInto
<1> HIDE DEF u, v
<1>6. /\ u \o <<b>> \in Seq(Buffer) /\ IsInjective(u \o <<b>>)
      /\ Range(u \o <<b>>) = Range(u) \cup {b}
  <2>1. PICK e \in Seq(Buffer) : e = <<b>> /\ IsInjective(e) /\ Range(e) = {b}
    BY OneElement
  <2>2. Range(u) \cap Range(e) = {} /\ IsInjective(u) /\ u \in Seq(Buffer) /\ IsInjective(e)
    BY <1>5, <2>1
  <2>3. /\ u \o e \in Seq(Buffer) /\ IsInjective(u \o e)
        /\ Range(u \o e) = Range(u) \cup Range(e)
    BY <2>2, Joined
  <2> QED BY <2>1, <2>3
<1>7. list' \in Seq(Buffer) /\ IsInjective(list') /\ Range(list') = Range(list) \cup {b}
  <2>1. PICK w \in Seq(Buffer) : w = u \o <<b>>
    BY <1>6
  <2>2. IsInjective(w) /\ Range(w) = Range(u) \cup {b}
    BY <1>6, <2>1
  <2>3. Range(w) \cap Range(v) = {} /\ v \in Seq(Buffer) /\ IsInjective(v)
    BY <1>5, <2>2
  <2>4. /\ w \o v \in Seq(Buffer) /\ IsInjective(w \o v)
        /\ Range(w \o v) = Range(w) \cup Range(v)
    BY <2>2, <2>3, Joined
  <2> QED BY <1>4, <1>5, <2>1, <2>2, <2>4
<1>8. rest \in 0 .. Word - 1
  BY <1>2, <1>3
<1>9. ASSUME k < Len(list) PROVE count[list[k + 1]] - rest \in 0 .. Word - 1
  <2>1. list[k + 1] \in Buffer
    BY <1>1, <1>3, <1>9
  <2>2. PICK x \in 0 .. Word - 1 : x = count[list[k + 1]]
    BY <1>1, <2>1
  <2>3. PICK d \in Nat, e \in Nat : d = Due[k] /\ e = Due[k + 1]
    BY <1>3, <1>9
  <2>4. x = e - d /\ e > n /\ d <= n
    BY <1>3, <1>9, <2>2, <2>3
  <2>5. x - (n - d) \in 0 .. Word - 1
    BY <1>2, <2>4
  <2> QED BY <2>2, <2>3, <2>5
<1> HIDE DEF rest
<1>10. count' \in [Buffer -> 0 .. Word - 1]
  <2>1. ASSUME NEW x \in Buffer PROVE count'[x] \in 0 .. Word - 1
    <3>1. CASE x = b
      <4>1. k < Len(list) => list[k + 1] \in Range(list)
        BY <1>1, <1>3 DEF Range
      <4>2. ~(k < Len(list) /\ b = list[k + 1])
        BY <4>1
      <4>3. count'[x] = rest
        BY <1>4, <3>1, <4>2
      <4> QED BY <1>8, <4>3
    <3>2. CASE x # b /\ k < Len(list) /\ x = list[k + 1]
      BY <1>4, <1>9, <3>2
    <3>3. CASE x # b /\ ~(k < Len(list) /\ x = list[k + 1])
      BY <1>1, <1>4, <3>3
    <3> QED BY <3>1, <3>2, <3>3
  <2> QED BY <1>4, <2>1
<1> QED BY <1>7, <1>10

LEMMA StartTimerIInv == ASSUME IInv, NEW t \in Timer, StartTimer(t) PROVE IInv'
<1>1. PICK b \in Buffer : b = Head(pool) /\ b \in Range(pool)
  BY WithoutFirst DEF IInv, Separate, StartTimer
<1>2. /\ Tail(pool) \in Seq(Buffer) /\ IsInjective(Tail(pool))
      /\ Range(Tail(pool)) = Range(pool) \ {b}
  BY <1>1, WithoutFirst DEF IInv, Separate, StartTimer
<1>3. b \notin Range(mbx) /\ b \notin Range(list) /\ b # current
  BY <1>1 DEF IInv, Separate
<1>4. /\ pool' = Tail(pool) /\ code' = [code EXCEPT ![b] = t] /\ Insert(b, Ticks(t))
      /\ TimerBuffer' = [TimerBuffer EXCEPT ![t] = b] /\ UNCHANGED <<mbx, current>>
  BY <1>1 DEF StartTimer
<1>5. /\ list' \in Seq(Buffer) /\ IsInjective(list') /\ Range(list') = Range(list) \cup {b}
      /\ count' \in [Buffer -> 0 .. Word - 1]
  <2>1. Ticks(t) \in 1 .. Word - 1
    BY TimersAssumption
  <2> QED BY <1>3, <1>4, <2>1, InsertFacts
<1>6. Separate'
  BY <1>1, <1>2, <1>3, <1>4, <1>5 DEF IInv, Separate
<1>7. Fields'
  BY <1>4, <1>5 DEF IInv, Fields, Mark
<1> QED BY <1>6, <1>7 DEF IInv

LEMMA StopTimerIInv ==
  ASSUME IInv, NEW t \in Timer, StopTimer(t) \/ ResetTimer(t) PROVE IInv'
<1>1. UNCHANGED <<list, count, pool, mbx, current>>
  BY DEF StopTimer, ResetTimer
<1>2. Separate'
  BY <1>1 DEF IInv, Separate
<1>3. Fields'
  <2>1. TimerBuffer' = [TimerBuffer EXCEPT ![t] = NoBuffer]
    BY DEF StopTimer, ResetTimer
  <2>2. code' = code \/ code' = [code EXCEPT ![TimerBuffer[t]] = "DISCARDED"]
    BY DEF StopTimer, ResetTimer
  <2>3. code' \in [Buffer -> Mark]
    BY <2>2 DEF IInv, Fields, Mark
  <2> QED BY <1>1, <2>1, <2>3 DEF IInv, Fields
<1> QED BY <1>2, <1>3 DEF IInv

(* The callback posts the front of the list.                               *)
LEMMA ExpiredFacts ==
  ASSUME NEW l \in Seq(Buffer), NEW c \in [Buffer -> Nat]
  PROVE  /\ Expired(l, c) \in 0 .. Len(l)
         /\ \A j \in 1 .. Expired(l, c) : c[l[j]] = 0
         /\ Expired(l, c) < Len(l) => c[l[Expired(l, c) + 1]] # 0
<1> DEFINE S == {i \in 0 .. Len(l) : i < Len(l) => c[l[i + 1]] # 0}
           P(i) == (\A j \in 1 .. i : c[l[j]] = 0) /\ (i < Len(l) => c[l[i + 1]] # 0)
<1>1. Len(l) \in Nat
  OBVIOUS
<1>2. S \subseteq Nat /\ S # {}
  <2>1. Len(l) \in S
    BY <1>1
  <2> QED BY <2>1
<1>3. PICK k \in S : \A j \in S : k <= j
  <2> HIDE DEF S
  <2> QED BY <1>2, LeastNatural
<1>4. k \in 0 .. Len(l) /\ (k < Len(l) => c[l[k + 1]] # 0)
  OBVIOUS
<1>5. ASSUME NEW j \in 1 .. k PROVE c[l[j]] = 0
  <2>1. j - 1 \in 0 .. Len(l) /\ ~(k <= j - 1) /\ j - 1 < Len(l) /\ (j - 1) + 1 = j
    BY <1>1, <1>4
  <2>2. j - 1 \notin S
    BY <1>3, <2>1
  <2> QED BY <2>1, <2>2
<1>6. P(k)
  BY <1>4, <1>5
<1>7. Expired(l, c) = CHOOSE i \in 0 .. Len(l) : P(i)
  BY DEF Expired
<1> HIDE DEF P
<1>8. Expired(l, c) \in 0 .. Len(l) /\ P(Expired(l, c))
  BY <1>4, <1>6, <1>7
<1> QED BY <1>8 DEF P

LEMMA TickFacts ==
  ASSUME IInv, Tick
  PROVE  \E k \in 0 .. Len(list) :
           /\ k = Expired(list, count')
           /\ mbx' = mbx \o SubSeq(list, 1, k) /\ list' = SubSeq(list, k + 1, Len(list))
           /\ count' = [count EXCEPT ![list[1]] = (@ - 1 + Word) % Word]
           /\ count' \in [Buffer -> 0 .. Word - 1]
           /\ UNCHANGED <<code, pool, current, TimerBuffer>>
<1>1. /\ list # <<>> /\ count' = [count EXCEPT ![list[1]] = (@ - 1 + Word) % Word]
      /\ UNCHANGED <<code, pool, current, TimerBuffer>>
      /\ mbx' = mbx \o SubSeq(list, 1, Expired(list, count'))
      /\ list' = SubSeq(list, Expired(list, count') + 1, Len(list))
  BY DEF Tick
<1>2. list \in Seq(Buffer) /\ count \in [Buffer -> 0 .. Word - 1] /\ Word \in Nat \ {0}
  BY TimersAssumption DEF IInv, Separate, Fields
<1>3. list[1] \in Buffer
  BY <1>1, <1>2
<1>4. PICK x \in 0 .. Word - 1 : x = count[list[1]]
  BY <1>2, <1>3
<1>5. (x - 1 + Word) % Word \in 0 .. Word - 1
  BY <1>2
<1>6. count' = [count EXCEPT ![list[1]] = (x - 1 + Word) % Word]
  BY <1>1, <1>4
<1>7. count' \in [Buffer -> 0 .. Word - 1]
  BY <1>2, <1>5, <1>6
<1>8. count' \in [Buffer -> Nat]
  BY <1>2, <1>7
<1>9. Expired(list, count') \in 0 .. Len(list)
  BY <1>2, <1>8, ExpiredFacts
<1> QED BY <1>1, <1>7, <1>9

LEMMA TickIInv == ASSUME IInv, Tick
                  PROVE  IInv' /\ Range(list') \cup Range(mbx') = Range(list) \cup Range(mbx)
<1>1. PICK k \in 0 .. Len(list) :
        /\ mbx' = mbx \o SubSeq(list, 1, k) /\ list' = SubSeq(list, k + 1, Len(list))
        /\ count' \in [Buffer -> 0 .. Word - 1]
        /\ UNCHANGED <<code, pool, current, TimerBuffer>>
  BY TickFacts
<1>2. list \in Seq(Buffer) /\ IsInjective(list) /\ mbx \in Seq(Buffer) /\ IsInjective(mbx)
      /\ Range(list) \cap Range(mbx) = {}
  BY DEF IInv, Separate
<1> DEFINE u == SubSeq(list, 1, k)
           v == SubSeq(list, k + 1, Len(list))
<1>3. /\ u \in Seq(Buffer) /\ IsInjective(u) /\ v \in Seq(Buffer) /\ IsInjective(v)
      /\ Range(u) \cup Range(v) = Range(list) /\ Range(u) \cap Range(v) = {}
  <2>1. CutInto(Buffer, list, k, u, v)
    BY <1>2, Cut
  <2> HIDE DEF u, v
  <2> QED BY <2>1 DEF CutInto
<1>4. mbx' = mbx \o u /\ list' = v
  BY <1>1
<1> HIDE DEF u, v
<1>5. /\ mbx \o u \in Seq(Buffer) /\ IsInjective(mbx \o u)
      /\ Range(mbx \o u) = Range(mbx) \cup Range(u)
  <2>1. Range(mbx) \cap Range(u) = {}
    BY <1>2, <1>3
  <2> QED BY <1>2, <1>3, <2>1, Joined
<1>6. Separate'
  BY <1>1, <1>2, <1>3, <1>4, <1>5 DEF IInv, Separate
<1>7. Fields'
  BY <1>1 DEF IInv, Fields
<1> QED BY <1>3, <1>4, <1>5, <1>6, <1>7 DEF IInv

LEMMA GetIInv == ASSUME IInv, Get PROVE IInv'
<1>1. PICK b \in Buffer : b = Head(mbx) /\ b \in Range(mbx)
  BY WithoutFirst DEF IInv, Separate, Get
<1>2. /\ Tail(mbx) \in Seq(Buffer) /\ IsInjective(Tail(mbx))
      /\ Range(Tail(mbx)) = Range(mbx) \ {b}
  BY <1>1, WithoutFirst DEF IInv, Separate, Get
<1>3. b \notin Range(pool) /\ b \notin Range(list) /\ current = NoBuffer /\ NoBuffer \notin Buffer
  BY <1>1, TimersAssumption DEF IInv, Separate, Get
<1>4. mbx' = Tail(mbx) /\ UNCHANGED <<list, count, code, TimerBuffer>>
  BY DEF Get
<1>5. Fields'
  BY <1>4 DEF IInv, Fields
<1>6. CASE pool' = Append(pool, b) /\ UNCHANGED current
  <2>1. /\ Append(pool, b) \in Seq(Buffer) /\ IsInjective(Append(pool, b))
        /\ Range(Append(pool, b)) = Range(pool) \cup {b}
    BY <1>3, WithLast DEF IInv, Separate
  <2>2. Separate'
    BY <1>2, <1>3, <1>4, <1>6, <2>1 DEF IInv, Separate
  <2> QED BY <1>5, <2>2 DEF IInv
<1>7. CASE current' = b /\ UNCHANGED pool
  <2>1. Separate'
    BY <1>2, <1>3, <1>4, <1>7 DEF IInv, Separate
  <2> QED BY <1>5, <2>1 DEF IInv
<1> QED BY <1>1, <1>6, <1>7 DEF Get

LEMMA ClearMessageIInv == ASSUME IInv, ClearMessage PROVE IInv'
<1>1. /\ current \in Buffer /\ current \notin Range(list) \cup Range(pool) \cup Range(mbx)
      /\ pool' = Append(pool, current) /\ current' = NoBuffer
      /\ UNCHANGED <<list, count, code, mbx, TimerBuffer>>
  BY DEF IInv, Separate, ClearMessage
<1>2. /\ Append(pool, current) \in Seq(Buffer) /\ IsInjective(Append(pool, current))
      /\ Range(Append(pool, current)) = Range(pool) \cup {current}
  BY <1>1, WithLast DEF IInv, Separate
<1>3. Range(list) \cup Range(mbx) \subseteq Buffer /\ Range(pool) \subseteq Buffer
  BY RangeFacts DEF IInv, Separate
<1>4. Separate'
  BY <1>1, <1>2, <1>3, TimersAssumption DEF IInv, Separate
<1>5. Fields'
  BY <1>1 DEF IInv, Fields
<1> QED BY <1>4, <1>5 DEF IInv

LEMMA NextIInv == ASSUME IInv, [Next]_vars PROVE IInv'
<1>1. CASE UNCHANGED vars
  BY <1>1 DEF IInv, Separate, Fields, vars
<1>2. ASSUME NEW t \in Timer, StartTimer(t) \/ StopTimer(t) \/ ResetTimer(t) PROVE IInv'
  BY <1>2, StartTimerIInv, StopTimerIInv
<1> QED BY <1>1, <1>2, SendMessageIInv, TickIInv, GetIInv, ClearMessageIInv DEF Next

LEMMA Invariance == Spec => []IInv
<1>1. IInv /\ [Next]_vars => IInv'
  BY NextIInv
<1> QED BY InitIInv, <1>1, PTL DEF Spec

-----------------------------------------------------------------------------
(* Every buffer is in the free queue, the delta list, the mailbox or the   *)
(* running handler, in one of them and once, whatever is started, stopped  *)
(* and expires (timer.cpp, fsm.cpp).                                       *)
LEMMA TypesFollow == ASSUME IInv PROVE TypeOK
<1> DEFINE last == IF current = NoBuffer THEN <<>> ELSE <<current>>
<1>1. last \in Seq(Buffer) /\ IsInjective(last) /\ Range(last) = {current} \ {NoBuffer}
  <2>1. CASE current = NoBuffer
    <3>1. <<>> \in Seq(Buffer) /\ IsInjective(<<>>) /\ Range(<<>>) = {}
      BY DEF IsInjective, Range
    <3> QED BY <2>1, <3>1
  <2>2. CASE current # NoBuffer
    <3>1. current \in Buffer
      BY <2>2 DEF IInv, Separate
    <3>2. <<current>> \in Seq(Buffer) /\ IsInjective(<<current>>) /\ Range(<<current>>) = {current}
      BY <3>1, OneElement
    <3> QED BY <2>2, <3>2
  <2> QED BY <2>1, <2>2
<1>2. Places[1] = list /\ Places[2] = pool /\ Places[3] = mbx /\ Places[4] = last
  BY DEF Places
<1> HIDE DEF last
<1>3. \A p \in 1 .. 4 : p = 1 \/ p = 2 \/ p = 3 \/ p = 4
  OBVIOUS
<1>4. ASSUME NEW p \in 1 .. 4 PROVE Places[p] \in Seq(Buffer) /\ IsInjective(Places[p])
  BY <1>1, <1>2, <1>3, Zenon DEF IInv, Separate
<1>5. ASSUME NEW b \in Buffer
      PROVE  Cardinality({p \in 1 .. 4 : b \in Range(Places[p])}) = 1
  <2> DEFINE At == {p \in 1 .. 4 : b \in Range(Places[p])}
  <2>1. b # NoBuffer
    BY TimersAssumption
  <2>2. b \in Range(list) \/ b \in Range(pool) \/ b \in Range(mbx) \/ b = current
    BY DEF IInv, Separate
  <2>3. \A p \in 1 .. 4 : p \in At <=> \/ p = 1 /\ b \in Range(list)
                                       \/ p = 2 /\ b \in Range(pool)
                                       \/ p = 3 /\ b \in Range(mbx)
                                       \/ p = 4 /\ b = current
    <3>1. (1 \in At <=> b \in Range(list)) /\ (2 \in At <=> b \in Range(pool))
          /\ (3 \in At <=> b \in Range(mbx)) /\ (4 \in At <=> b = current)
      BY <1>1, <1>2, <2>1
    <3> HIDE DEF At
    <3> QED BY <1>3, <3>1
  <2>4. At \subseteq 1 .. 4
    OBVIOUS
  <2> HIDE DEF At
  <2>5. PICK i \in 1 .. 4 : \A p \in 1 .. 4 : p \in At <=> p = i
    <3>1. CASE b \in Range(list)
      <4>1. b \notin Range(pool) /\ b \notin Range(mbx) /\ b # current
        BY <3>1 DEF IInv, Separate
      <4>2. \A p \in 1 .. 4 : p \in At <=> p = 1
        BY <2>3, <3>1, <4>1, Zenon
      <4> QED BY <4>2
    <3>2. CASE b \in Range(pool)
      <4>1. b \notin Range(list) /\ b \notin Range(mbx) /\ b # current
        BY <3>2 DEF IInv, Separate
      <4>2. \A p \in 1 .. 4 : p \in At <=> p = 2
        BY <2>3, <3>2, <4>1, Zenon
      <4> QED BY <4>2
    <3>3. CASE b \in Range(mbx)
      <4>1. b \notin Range(pool) /\ b \notin Range(list) /\ b # current
        BY <3>3 DEF IInv, Separate
      <4>2. \A p \in 1 .. 4 : p \in At <=> p = 3
        BY <2>3, <3>3, <4>1, Zenon
      <4> QED BY <4>2
    <3>4. CASE b = current
      <4>1. b \notin Range(pool) /\ b \notin Range(mbx) /\ b \notin Range(list)
        BY <3>4 DEF IInv, Separate
      <4>2. \A p \in 1 .. 4 : p \in At <=> p = 4
        BY <2>3, <3>4, <4>1, Zenon
      <4> QED BY <4>2
    <3> QED BY <2>2, <3>1, <3>2, <3>3, <3>4
  <2>6. Cardinality(At) = 1
    <3>1. At = {i}
      BY <2>4, <2>5
    <3> QED BY <3>1, FS_Singleton
  <2> QED BY <2>6 DEF At
<1>6. Fields
  BY DEF IInv
<1> QED BY <1>4, <1>5, <1>6 DEF TypeOK, Fields, Mark

THEOREM TypeCorrect == Spec => []TypeOK
<1>1. IInv => TypeOK
  BY TypesFollow
<1> QED BY Invariance, <1>1, PTL

-----------------------------------------------------------------------------
(* Buffers that may still fire, and what is known of them: IInv keeps a    *)
(* buffer that is reused out of the list, the mailbox and every handle.    *)
Waiting == Range(list) \cup Range(mbx)

LEMMA WaitingFacts ==
  ASSUME IInv, StoppedNeverFires
  PROVE  /\ \A t \in Timer : t # "message" /\ t # "DISCARDED"
         /\ NoBuffer \notin Waiting /\ current \notin Waiting /\ Waiting \subseteq Buffer
         /\ \A t \in Timer, b \in Buffer : Live(t, b) <=> code[b] = t /\ b \in Waiting
         /\ \A t \in Timer : \A b \in Buffer : code[b] = t /\ b \in Waiting => TimerBuffer[t] = b
         /\ \A t \in Timer : TimerBuffer[t] # NoBuffer =>
              /\ TimerBuffer[t] \in Buffer
              /\ code[TimerBuffer[t]] = t
              /\ TimerBuffer[t] \in Waiting \/ TimerBuffer[t] = current
<1>1. Range(list) \subseteq Buffer /\ Range(mbx) \subseteq Buffer
  BY RangeFacts DEF IInv, Separate
<1>2. NoBuffer \notin Waiting /\ current \notin Waiting /\ Waiting \subseteq Buffer
  BY <1>1, TimersAssumption DEF IInv, Separate, Waiting
<1>3. \A t \in Timer, b \in Buffer : Live(t, b) <=> code[b] = t /\ b \in Waiting
  BY DEF Live, Waiting
<1>4. \A t \in Timer : t # "message" /\ t # "DISCARDED"
  BY TimersAssumption
<1>5. \A t \in Timer : \A b \in Buffer : code[b] = t /\ b \in Waiting => TimerBuffer[t] = b
  BY <1>3 DEF StoppedNeverFires
<1>6. ASSUME NEW t \in Timer, TimerBuffer[t] # NoBuffer
      PROVE  /\ TimerBuffer[t] \in Buffer
             /\ code[TimerBuffer[t]] = t
             /\ TimerBuffer[t] \in Waiting \/ TimerBuffer[t] = current
  <2>1. TimerBuffer[t] \in Buffer
    BY <1>6 DEF IInv, Fields
  <2>2. Live(t, TimerBuffer[t]) \/ (TimerBuffer[t] = current /\ code[current] = t)
    BY <1>6 DEF StoppedNeverFires
  <2> QED BY <1>3, <2>1, <2>2
<1> QED BY <1>2, <1>3, <1>4, <1>5, <1>6

(* The same, as what has to be shown of the state after a step.            *)
LEMMA WaitingSuffices ==
  ASSUME \A t \in Timer : \A b \in Buffer :
           code'[b] = t /\ b \in Waiting' => TimerBuffer'[t] = b,
         \A t \in Timer : TimerBuffer'[t] # NoBuffer =>
           /\ code'[TimerBuffer'[t]] = t
           /\ TimerBuffer'[t] \in Waiting' \/ TimerBuffer'[t] = current'
  PROVE  StoppedNeverFires'
BY DEF StoppedNeverFires, Live, Waiting

LEMMA InitStopped == Init => StoppedNeverFires
<1> SUFFICES ASSUME Init PROVE StoppedNeverFires
  OBVIOUS
<1>1. Range(<<>>) = {}
  BY DEF Range
<1> QED BY <1>1 DEF Init, StoppedNeverFires, Live

LEMMA SendMessageStopped ==
  ASSUME IInv, StoppedNeverFires, SendMessage PROVE StoppedNeverFires'
<1>1. PICK b \in Buffer : b = Head(pool) /\ b \in Range(pool)
  BY WithoutFirst DEF IInv, Separate, SendMessage
<1>2. b \notin Waiting /\ b # current
  BY <1>1 DEF IInv, Separate, Waiting
<1>3. /\ mbx' = Append(mbx, b) /\ code' = [code EXCEPT ![b] = "message"]
      /\ UNCHANGED <<list, current, TimerBuffer>>
  BY <1>1 DEF SendMessage
<1>4. Waiting' = Waiting \cup {b}
  <2>1. Range(Append(mbx, b)) = Range(mbx) \cup {b}
    BY <1>2, WithLast DEF IInv, Separate, Waiting
  <2> QED BY <1>3, <2>1 DEF Waiting
<1>5. code'[b] = "message" /\ \A x \in Buffer : x # b => code'[x] = code[x]
  BY <1>3 DEF IInv, Fields
<1>6. ASSUME NEW t \in Timer, NEW x \in Buffer, code'[x] = t, x \in Waiting'
      PROVE  TimerBuffer'[t] = x
  <2>1. x # b
    BY <1>5, <1>6, WaitingFacts
  <2>2. code[x] = t /\ x \in Waiting
    BY <1>4, <1>5, <1>6, <2>1
  <2> QED BY <1>3, <2>2, WaitingFacts
<1>7. ASSUME NEW t \in Timer, TimerBuffer'[t] # NoBuffer
      PROVE  /\ code'[TimerBuffer'[t]] = t
             /\ TimerBuffer'[t] \in Waiting' \/ TimerBuffer'[t] = current'
  <2>1. /\ TimerBuffer[t] \in Buffer /\ code[TimerBuffer[t]] = t
        /\ TimerBuffer[t] \in Waiting \/ TimerBuffer[t] = current
    BY <1>3, <1>7, WaitingFacts
  <2>2. TimerBuffer[t] # b
    BY <1>2, <2>1
  <2> QED BY <1>3, <1>4, <1>5, <2>1, <2>2
<1> QED BY <1>6, <1>7, WaitingSuffices

LEMMA StartTimerStopped ==
  ASSUME IInv, StoppedNeverFires, NEW s \in Timer, StartTimer(s) PROVE StoppedNeverFires'
<1>1. PICK b \in Buffer : b = Head(pool) /\ b \in Range(pool)
  BY WithoutFirst DEF IInv, Separate, StartTimer
<1>2. b \notin Waiting /\ b # current /\ b \notin Range(list)
  BY <1>1 DEF IInv, Separate, Waiting
<1>3. /\ code' = [code EXCEPT ![b] = s] /\ Insert(b, Ticks(s)) /\ TimerBuffer[s] = NoBuffer
      /\ TimerBuffer' = [TimerBuffer EXCEPT ![s] = b] /\ UNCHANGED <<mbx, current>>
  BY <1>1 DEF StartTimer
<1>4. Waiting' = Waiting \cup {b}
  <2>1. Ticks(s) \in 1 .. Word - 1
    BY TimersAssumption
  <2>2. Range(list') = Range(list) \cup {b}
    BY <1>2, <1>3, <2>1, InsertFacts
  <2> QED BY <1>3, <2>2 DEF Waiting
<1>5. /\ code'[b] = s /\ \A x \in Buffer : x # b => code'[x] = code[x]
      /\ TimerBuffer'[s] = b /\ \A t \in Timer : t # s => TimerBuffer'[t] = TimerBuffer[t]
  BY <1>3 DEF IInv, Fields
<1>6. ASSUME NEW t \in Timer, NEW x \in Buffer, code'[x] = t, x \in Waiting'
      PROVE  TimerBuffer'[t] = x
  <2>1. CASE x = b
    BY <1>5, <1>6, <2>1
  <2>2. CASE x # b
    <3>1. code[x] = t /\ x \in Waiting
      BY <1>4, <1>5, <1>6, <2>2
    <3>2. TimerBuffer[t] = x /\ x # NoBuffer
      BY <3>1, WaitingFacts
    <3> QED BY <1>3, <1>5, <3>2
  <2> QED BY <2>1, <2>2
<1>7. ASSUME NEW t \in Timer, TimerBuffer'[t] # NoBuffer
      PROVE  /\ code'[TimerBuffer'[t]] = t
             /\ TimerBuffer'[t] \in Waiting' \/ TimerBuffer'[t] = current'
  <2>1. CASE t = s
    BY <1>4, <1>5, <2>1
  <2>2. CASE t # s
    <3>1. /\ TimerBuffer[t] \in Buffer /\ code[TimerBuffer[t]] = t
          /\ TimerBuffer[t] \in Waiting \/ TimerBuffer[t] = current
      BY <1>5, <1>7, <2>2, WaitingFacts
    <3>2. TimerBuffer[t] # b
      BY <1>2, <3>1
    <3> QED BY <1>3, <1>4, <1>5, <2>2, <3>1, <3>2
  <2> QED BY <2>1, <2>2
<1> QED BY <1>6, <1>7, WaitingSuffices

LEMMA StopTimerStopped ==
  ASSUME IInv, StoppedNeverFires, NEW s \in Timer, StopTimer(s) PROVE StoppedNeverFires'
<1>1. PICK h \in Buffer : h = TimerBuffer[s] /\ code[h] = s
  BY WaitingFacts DEF StopTimer
<1>2. /\ code' = [code EXCEPT ![h] = "DISCARDED"] /\ UNCHANGED <<list, mbx, current>>
      /\ TimerBuffer' = [TimerBuffer EXCEPT ![s] = NoBuffer]
  BY <1>1 DEF StopTimer
<1>3. Waiting' = Waiting
  BY <1>2 DEF Waiting
<1>4. /\ code'[h] = "DISCARDED" /\ \A x \in Buffer : x # h => code'[x] = code[x]
      /\ TimerBuffer'[s] = NoBuffer /\ \A t \in Timer : t # s => TimerBuffer'[t] = TimerBuffer[t]
  BY <1>2 DEF IInv, Fields
<1>5. ASSUME NEW t \in Timer, NEW x \in Buffer, code'[x] = t, x \in Waiting'
      PROVE  TimerBuffer'[t] = x
  <2>1. x # h
    BY <1>4, <1>5, WaitingFacts
  <2>2. code[x] = t /\ x \in Waiting
    BY <1>3, <1>4, <1>5, <2>1
  <2>3. TimerBuffer[t] = x
    BY <2>2, WaitingFacts
  <2> QED BY <1>1, <1>4, <2>1, <2>3
<1>6. ASSUME NEW t \in Timer, TimerBuffer'[t] # NoBuffer
      PROVE  /\ code'[TimerBuffer'[t]] = t
             /\ TimerBuffer'[t] \in Waiting' \/ TimerBuffer'[t] = current'
  <2>1. t # s /\ TimerBuffer'[t] = TimerBuffer[t]
    BY <1>4, <1>6
  <2>2. /\ TimerBuffer[t] \in Buffer /\ code[TimerBuffer[t]] = t
        /\ TimerBuffer[t] \in Waiting \/ TimerBuffer[t] = current
    BY <1>6, <2>1, WaitingFacts
  <2>3. TimerBuffer[t] # h
    BY <1>1, <2>1, <2>2
  <2> QED BY <1>2, <1>3, <1>4, <2>1, <2>2, <2>3
<1> QED BY <1>5, <1>6, WaitingSuffices

LEMMA ResetTimerStopped ==
  ASSUME IInv, StoppedNeverFires, NEW s \in Timer, ResetTimer(s) PROVE StoppedNeverFires'
<1>1. /\ TimerBuffer[s] = current /\ UNCHANGED <<list, mbx, current, code>>
      /\ TimerBuffer' = [TimerBuffer EXCEPT ![s] = NoBuffer]
  BY DEF ResetTimer
<1>2. Waiting' = Waiting
  BY <1>1 DEF Waiting
<1>3. TimerBuffer'[s] = NoBuffer /\ \A t \in Timer : t # s => TimerBuffer'[t] = TimerBuffer[t]
  BY <1>1 DEF IInv, Fields
<1>4. ASSUME NEW t \in Timer, NEW x \in Buffer, code'[x] = t, x \in Waiting'
      PROVE  TimerBuffer'[t] = x
  <2>1. TimerBuffer[t] = x /\ x # current
    BY <1>1, <1>2, <1>4, WaitingFacts
  <2> QED BY <1>1, <1>3, <2>1
<1>5. ASSUME NEW t \in Timer, TimerBuffer'[t] # NoBuffer
      PROVE  /\ code'[TimerBuffer'[t]] = t
             /\ TimerBuffer'[t] \in Waiting' \/ TimerBuffer'[t] = current'
  <2>1. TimerBuffer'[t] = TimerBuffer[t]
    BY <1>3, <1>5
  <2> QED BY <1>1, <1>2, <1>5, <2>1, WaitingFacts
<1> QED BY <1>4, <1>5, WaitingSuffices

LEMMA TickStopped == ASSUME IInv, StoppedNeverFires, Tick PROVE StoppedNeverFires'
<1>1. Waiting' = Waiting
  BY TickIInv DEF Waiting
<1>2. UNCHANGED <<code, current, TimerBuffer>>
  BY DEF Tick
<1>3. /\ \A t \in Timer : \A b \in Buffer : code[b] = t /\ b \in Waiting => TimerBuffer[t] = b
      /\ \A t \in Timer : TimerBuffer[t] # NoBuffer =>
           /\ code[TimerBuffer[t]] = t
           /\ TimerBuffer[t] \in Waiting \/ TimerBuffer[t] = current
  BY WaitingFacts
<1> QED BY <1>1, <1>2, <1>3, WaitingSuffices

LEMMA GetStopped == ASSUME IInv, StoppedNeverFires, Get PROVE StoppedNeverFires'
<1>1. PICK b \in Buffer : b = Head(mbx) /\ b \in Range(mbx)
  BY WithoutFirst DEF IInv, Separate, Get
<1>2. /\ mbx' = Tail(mbx) /\ current = NoBuffer /\ UNCHANGED <<list, code, TimerBuffer>>
      /\ code[b] = "DISCARDED" \/ current' = b
  BY <1>1 DEF Get
<1>3. Waiting' = Waiting \ {b}
  <2>1. Range(Tail(mbx)) = Range(mbx) \ {b}
    BY <1>1, WithoutFirst DEF IInv, Separate, Get
  <2>2. b \notin Range(list)
    BY <1>1 DEF IInv, Separate
  <2> QED BY <1>2, <2>1, <2>2 DEF Waiting
<1>4. ASSUME NEW t \in Timer, NEW x \in Buffer, code'[x] = t, x \in Waiting'
      PROVE  TimerBuffer'[t] = x
  BY <1>2, <1>3, <1>4, WaitingFacts
<1>5. ASSUME NEW t \in Timer, TimerBuffer'[t] # NoBuffer
      PROVE  /\ code'[TimerBuffer'[t]] = t
             /\ TimerBuffer'[t] \in Waiting' \/ TimerBuffer'[t] = current'
  <2>1. TimerBuffer'[t] = TimerBuffer[t] /\ code' = code
    BY <1>2
  <2>2. code[TimerBuffer[t]] = t /\ TimerBuffer[t] \in Waiting
    BY <1>2, <1>5, <2>1, WaitingFacts
  <2>3. t # "DISCARDED"
    BY WaitingFacts
  <2> QED BY <1>2, <1>3, <2>1, <2>2, <2>3
<1> QED BY <1>4, <1>5, WaitingSuffices

LEMMA ClearMessageStopped ==
  ASSUME ResetsExpired, IInv, StoppedNeverFires, ClearMessage PROVE StoppedNeverFires'
<1>1. /\ \A t \in Timer : TimerBuffer[t] # current
      /\ UNCHANGED <<list, code, mbx, TimerBuffer>>
  BY DEF ClearMessage
<1>2. Waiting' = Waiting
  BY <1>1 DEF Waiting
<1>3. ASSUME NEW t \in Timer, NEW x \in Buffer, code'[x] = t, x \in Waiting'
      PROVE  TimerBuffer'[t] = x
  BY <1>1, <1>2, <1>3, WaitingFacts
<1>4. ASSUME NEW t \in Timer, TimerBuffer'[t] # NoBuffer
      PROVE  /\ code'[TimerBuffer'[t]] = t
             /\ TimerBuffer'[t] \in Waiting' \/ TimerBuffer'[t] = current'
  BY <1>1, <1>2, <1>4, WaitingFacts
<1> QED BY <1>3, <1>4, WaitingSuffices

LEMMA NextStopped ==
  ASSUME ResetsExpired, IInv, StoppedNeverFires, [Next]_vars PROVE StoppedNeverFires'
<1>1. CASE UNCHANGED vars
  BY <1>1 DEF StoppedNeverFires, Live, vars
<1>2. ASSUME NEW t \in Timer, StartTimer(t) \/ StopTimer(t) \/ ResetTimer(t)
      PROVE  StoppedNeverFires'
  BY <1>2, StartTimerStopped, StopTimerStopped, ResetTimerStopped
<1> QED BY <1>1, <1>2, SendMessageStopped, TickStopped, GetStopped, ClearMessageStopped DEF Next

(* When every handler of an expiry resets its timer, a timer that was      *)
(* stopped or restarted never fires, and IsTimerRunning tells the truth    *)
(* (fsm.cpp:192-281), whatever number of timers share the buffers.         *)
THEOREM NeverFires == ResetsExpired => (Spec => []StoppedNeverFires)
<1> SUFFICES ASSUME ResetsExpired PROVE Spec => []StoppedNeverFires
  OBVIOUS
<1>1. IInv /\ StoppedNeverFires /\ [Next]_vars => StoppedNeverFires'
  BY NextStopped
<1> QED BY InitStopped, <1>1, Invariance, PTL DEF Spec

(* Under the same condition StopTimer marks its own timer and nothing      *)
(* else, as its comment says (fsm.cpp:227); the run TimersStale shows that *)
(* the condition is needed.                                                *)
THEOREM MarksOwn == ResetsExpired => (Spec => []StopMarksOwnTimer)
<1> SUFFICES ASSUME ResetsExpired PROVE Spec => []StopMarksOwnTimer
  OBVIOUS
<1>1. ASSUME IInv, StoppedNeverFires PROVE StopMarksOwnTimer
  <2> SUFFICES ASSUME NEW t \in Timer, TimerBuffer[t] \in Range(list) \cup Range(mbx)
               PROVE  code[TimerBuffer[t]] = t
    BY DEF StopMarksOwnTimer
  <2>1. TimerBuffer[t] # NoBuffer
    BY WaitingFacts, <1>1 DEF Waiting
  <2> QED BY <1>1, <2>1, WaitingFacts
<1>2. Spec => []StoppedNeverFires
  BY NeverFires
<1> QED BY <1>1, <1>2, Invariance, PTL

-----------------------------------------------------------------------------
(* Parts of a sequence: the positions in increasing order.                 *)
Increasing(p) == \A i, j \in DOMAIN p : i < j => p[i] < p[j]

LEMMA Counted ==
  ASSUME NEW n \in Nat, NEW I, I \subseteq 1 .. n
  PROVE  /\ IsFiniteSet(I) /\ Cardinality(I) \in Nat
         /\ \A i \in I : Cardinality({j \in I : j <= i}) \in 1 .. Cardinality(I)
         /\ \A h, i \in I : h < i =>
              Cardinality({j \in I : j <= h}) < Cardinality({j \in I : j <= i})
         /\ \A k \in 1 .. Cardinality(I) : \E i \in I : Cardinality({j \in I : j <= i}) = k
<1> DEFINE upTo(i) == {j \in I : j <= i}
           c == Cardinality(I)
<1>1. IsFiniteSet(1 .. n)
  BY FS_Interval
<1>2. IsFiniteSet(I) /\ c \in Nat
  BY <1>1, FS_Subset, FS_CardinalityType
<1>3. ASSUME NEW i \in I
      PROVE  IsFiniteSet(upTo(i)) /\ Cardinality(upTo(i)) \in 1 .. c
  <2>1. upTo(i) \in SUBSET I
    OBVIOUS
  <2>2. IsFiniteSet(upTo(i)) /\ Cardinality(upTo(i)) <= c
    BY <1>2, <2>1, FS_Subset
  <2>3. Cardinality(upTo(i)) \in Nat /\ Cardinality(upTo(i)) # 0
    <3>1. i \in upTo(i)
      OBVIOUS
    <3> QED BY <2>2, <3>1, FS_CardinalityType, FS_EmptySet
  <2> QED BY <1>2, <2>2, <2>3
<1>4. ASSUME NEW h \in I, NEW i \in I, h < i
      PROVE  Cardinality(upTo(h)) < Cardinality(upTo(i))
  <2>1. h \in Int /\ i \in Int /\ \A j \in I : j \in Int
    OBVIOUS
  <2>2. upTo(h) \in SUBSET upTo(i) /\ i \in upTo(i) /\ i \notin upTo(h)
    <3>1. ASSUME NEW j \in I, j <= h PROVE j <= i
      BY <1>4, <2>1, <3>1
    <3>2. i <= i /\ ~(i <= h)
      BY <1>4, <2>1
    <3> QED BY <3>1, <3>2
  <2>3. /\ Cardinality(upTo(h)) <= Cardinality(upTo(i))
        /\ Cardinality(upTo(i)) = Cardinality(upTo(h)) => upTo(i) = upTo(h)
    BY <1>3, <2>2, FS_Subset
  <2>4. Cardinality(upTo(h)) \in Int /\ Cardinality(upTo(i)) \in Int
    BY <1>3
  <2>5. Cardinality(upTo(i)) # Cardinality(upTo(h))
    BY <2>2, <2>3
  <2> QED BY <2>3, <2>4, <2>5
<1>5. PICK r : r = [i \in I |-> Cardinality(upTo(i))]
  OBVIOUS
<1> HIDE DEF upTo
<1>6. r \in [I -> 1 .. c] /\ \A i \in I : r[i] = Cardinality(upTo(i))
  BY <1>3, <1>5
<1>7. r \in Injection(I, 1 .. c)
  <2>1. ASSUME NEW h \in I, NEW i \in I, r[h] = r[i] PROVE h = i
    <3>1. h \in Int /\ i \in Int /\ r[h] \in Int /\ r[i] \in Int
      BY <1>6
    <3>2. ~(h < i) /\ ~(i < h)
      BY <1>4, <1>6, <2>1, <3>1
    <3> QED BY <3>1, <3>2
  <2> QED BY <1>6, <2>1 DEF Injection, IsInjective
<1>8. r \in Surjection(I, 1 .. c)
  <2>1. IsFiniteSet(1 .. c) /\ Cardinality(1 .. c) = IF 1 > c THEN 0 ELSE c - 1 + 1
    BY <1>2, FS_Interval
  <2>2. Cardinality(1 .. c) = c
    BY <1>2, <2>1
  <2> HIDE DEF c
  <2>3. Cardinality(I) = Cardinality(1 .. c)
    BY <2>2 DEF c
  <2> QED BY <1>7, <2>1, <2>3, FS_Injection
<1>9. ASSUME NEW k \in 1 .. c PROVE \E i \in I : Cardinality(upTo(i)) = k
  <2>1. \E i \in I : r[i] = k
    BY <1>8 DEF Surjection
  <2> QED BY <1>6, <2>1
<1> QED BY <1>2, <1>3, <1>4, <1>9 DEF upTo

(* p lists the positions I in their order.                                 *)
Lists(p, I) ==
  /\ Increasing(p) /\ Range(p) = I
  /\ \A x : Subsequence(x, I) = [k \in 1 .. Len(p) |-> x[p[k]]]

LEMMA Positions ==
  ASSUME NEW n \in Nat, NEW I, I \subseteq 1 .. n
  PROVE  \E p \in Seq(Nat) : Lists(p, I)
<1> DEFINE rank(i) == Cardinality({j \in I : j <= i})
           c == Cardinality(I)
           at(k) == CHOOSE i \in I : rank(i) = k
<1>1. /\ c \in Nat
      /\ \A i \in I : rank(i) \in 1 .. c
      /\ \A h, i \in I : h < i => rank(h) < rank(i)
      /\ \A k \in 1 .. c : \E i \in I : rank(i) = k
  BY Counted
<1>0. \A x \in I : x \in Nat /\ x \in Int
  OBVIOUS
<1>2. PICK p : p = [k \in 1 .. c |-> at(k)]
  OBVIOUS
<1>3. \A s : Subsequence(s, I) = [k \in 1 .. c |-> s[at(k)]]
  BY DEF Subsequence
<1> HIDE DEF rank, c
<1>4. \A k \in 1 .. c : p[k] \in I /\ rank(p[k]) = k
  BY <1>1, <1>2
<1>5. p \in Seq(Nat) /\ Len(p) = c /\ DOMAIN p = 1 .. c
  <2>1. c \in Nat /\ DOMAIN p = 1 .. c /\ \A k \in 1 .. c : p[k] \in Nat
    BY <1>0, <1>1, <1>2, <1>4
  <2>2. p \in [1 .. c -> Nat]
    BY <1>2, <2>1
  <2> QED BY <2>1, <2>2
<1>6. Increasing(p)
  <2> SUFFICES ASSUME NEW i \in 1 .. c, NEW j \in 1 .. c, i < j PROVE p[i] < p[j]
    BY <1>5 DEF Increasing
  <2>1. p[i] \in I /\ p[j] \in I /\ p[i] \in Int /\ p[j] \in Int /\ i \in Int /\ j \in Int
    <3>1. p[i] \in I /\ p[j] \in I
      BY <1>4
    <3>2. \A k \in 1 .. c : k \in Int
      OBVIOUS
    <3> QED BY <1>0, <3>1, <3>2
  <2>2. p[i] # p[j]
    BY <1>4, <2>1
  <2>3. ~(p[j] < p[i])
    <3>1. ASSUME p[j] < p[i] PROVE FALSE
      <4>1. rank(p[j]) < rank(p[i])
        BY <1>1, <2>1, <3>1
      <4> QED BY <1>4, <2>1, <4>1
    <3> QED BY <3>1
  <2> QED BY <2>1, <2>2, <2>3
<1>7. Range(p) = I
  <2>1. ASSUME NEW i \in I PROVE \E k \in 1 .. c : p[k] = i
    <3>1. rank(i) \in 1 .. c
      BY <1>1
    <3>2. PICK k \in 1 .. c : k = rank(i)
      BY <3>1
    <3>3. p[k] \in I /\ rank(p[k]) = rank(i)
      BY <1>4, <3>2
    <3>4. i \in Int /\ p[k] \in Int /\ rank(i) \in Int
      <4>1. \A x \in I : x \in Int
        OBVIOUS
      <4>2. \A x \in 1 .. c : x \in Int
        OBVIOUS
      <4> QED BY <3>1, <3>3, <4>1, <4>2
    <3>5. ~(p[k] < i) /\ ~(i < p[k])
      BY <1>1, <3>3, <3>4
    <3> QED BY <3>4, <3>5
  <2> QED BY <1>4, <1>5, <2>1 DEF Range
<1>8. ASSUME NEW s PROVE Subsequence(s, I) = [k \in 1 .. Len(p) |-> s[p[k]]]
  <2> HIDE DEF at
  <2>1. \A k \in 1 .. c : p[k] = at(k)
    BY <1>2
  <2> QED BY <1>3, <1>5, <2>1
<1>9. Lists(p, I)
  BY <1>6, <1>7, <1>8 DEF Lists
<1> QED BY <1>5, <1>9

LEMMA NextSame ==
  ASSUME NEW p \in Seq(Nat), NEW q \in Seq(Nat), Increasing(p), Increasing(q),
         Range(p) = Range(q), NEW k \in Nat, k + 1 <= Len(p), k <= Len(q),
         \A i \in 1 .. k : p[i] = q[i]
  PROVE  k + 1 <= Len(q) /\ p[k + 1] = q[k + 1]
<1>1. /\ DOMAIN p = 1 .. Len(p) /\ DOMAIN q = 1 .. Len(q)
      /\ Len(p) \in Nat /\ Len(q) \in Nat
      /\ \A i \in DOMAIN p : p[i] \in Nat
      /\ \A i \in DOMAIN q : q[i] \in Nat
  OBVIOUS
<1>2. k + 1 \in DOMAIN p
  BY <1>1
<1>3. PICK j \in DOMAIN q : q[j] = p[k + 1]
  BY <1>2 DEF Range
<1>4. j >= k + 1
  <2> SUFFICES ASSUME j \in 1 .. k PROVE FALSE
    BY <1>1
  <2>1. j \in DOMAIN p /\ j < k + 1 /\ p[j] = q[j]
    BY <1>1
  <2>2. p[j] < p[k + 1]
    BY <1>2, <2>1 DEF Increasing
  <2> QED BY <1>1, <1>2, <1>3, <2>1, <2>2
<1>5. k + 1 \in DOMAIN q
  BY <1>1, <1>4
<1>6. PICK m \in DOMAIN p : p[m] = q[k + 1]
  BY <1>5 DEF Range
<1>7. m >= k + 1
  <2> SUFFICES ASSUME m \in 1 .. k PROVE FALSE
    BY <1>1
  <2>1. m \in DOMAIN q /\ m < k + 1 /\ p[m] = q[m]
    BY <1>1
  <2>2. q[m] < q[k + 1]
    BY <1>5, <2>1 DEF Increasing
  <2> QED BY <1>1, <1>5, <1>6, <2>1, <2>2
<1>8. q[k + 1] <= p[k + 1]
  <2>1. CASE j = k + 1
    BY <1>1, <1>2, <1>3, <2>1
  <2>2. CASE j > k + 1
    <3>1. q[k + 1] < q[j]
      BY <1>5, <2>2 DEF Increasing
    <3> QED BY <1>1, <1>2, <1>3, <1>5, <3>1
  <2>3. j \in Int /\ k + 1 \in Int
    BY <1>1
  <2> QED BY <1>4, <2>1, <2>2, <2>3
<1>9. p[k + 1] <= q[k + 1]
  <2>1. CASE m = k + 1
    BY <1>1, <1>5, <1>6, <2>1
  <2>2. CASE m > k + 1
    <3>1. p[k + 1] < p[m]
      BY <1>2, <2>2 DEF Increasing
    <3> QED BY <1>1, <1>2, <1>5, <1>6, <3>1
  <2>3. m \in Int /\ k + 1 \in Int
    BY <1>1
  <2> QED BY <1>7, <2>1, <2>2, <2>3
<1>10. p[k + 1] \in Nat /\ q[k + 1] \in Nat
  BY <1>1, <1>2, <1>5
<1> QED BY <1>1, <1>5, <1>8, <1>9, <1>10

LEMMA SameOrder ==
  ASSUME NEW p \in Seq(Nat), NEW q \in Seq(Nat), Increasing(p), Increasing(q),
         Range(p) = Range(q)
  PROVE  p = q
<1> DEFINE S == {k \in Nat : /\ k <= Len(p) <=> k <= Len(q)
                             /\ k <= Len(p) => \A i \in 1 .. k : p[i] = q[i]}
<1>1. Len(p) \in Nat /\ Len(q) \in Nat /\ DOMAIN p = 1 .. Len(p) /\ DOMAIN q = 1 .. Len(q)
  OBVIOUS
<1>2. 0 \in S
  BY <1>1
<1>3. ASSUME NEW k \in Nat, k \in S PROVE k + 1 \in S
  <2>1. CASE k + 1 <= Len(p)
    <3>1. k <= Len(p) /\ k <= Len(q) /\ \A i \in 1 .. k : p[i] = q[i]
      BY <1>1, <1>3, <2>1
    <3>2. k + 1 <= Len(q) /\ p[k + 1] = q[k + 1]
      BY <2>1, <3>1, NextSame
    <3>3. \A i \in 1 .. k + 1 : i \in 1 .. k \/ i = k + 1
      OBVIOUS
    <3> QED BY <2>1, <3>1, <3>2, <3>3
  <2>2. CASE k + 1 <= Len(q)
    <3>1. k <= Len(p) /\ k <= Len(q) /\ \A i \in 1 .. k : q[i] = p[i]
      BY <1>1, <1>3, <2>2
    <3>2. k + 1 <= Len(p) /\ q[k + 1] = p[k + 1]
      BY <2>2, <3>1, NextSame
    <3>3. \A i \in 1 .. k + 1 : i \in 1 .. k \/ i = k + 1
      OBVIOUS
    <3> QED BY <2>2, <3>1, <3>2, <3>3
  <2> QED BY <2>1, <2>2
<1>4. Nat \subseteq S
  <2> HIDE DEF S
  <2> QED BY <1>2, <1>3, Induction
<1>5. Len(p) \in S /\ Len(q) \in S
  BY <1>1, <1>4
<1>6. Len(p) = Len(q) /\ \A i \in 1 .. Len(p) : p[i] = q[i]
  <2>1. Len(p) <= Len(p) /\ Len(q) <= Len(q)
    BY <1>1
  <2>2. Len(p) <= Len(q) /\ Len(q) <= Len(p) /\ \A i \in 1 .. Len(p) : p[i] = q[i]
    BY <1>5, <2>1
  <2>3. PICK a \in Nat, b \in Nat : a = Len(p) /\ b = Len(q)
    BY <1>1
  <2>4. a = b
    <3>1. a <= b /\ b <= a
      BY <2>2, <2>3
    <3> QED BY <3>1
  <2> QED BY <2>2, <2>3, <2>4
<1>7. p = [i \in 1 .. Len(p) |-> p[i]] /\ q = [i \in 1 .. Len(q) |-> q[i]]
  OBVIOUS
<1> QED BY <1>6, <1>7

-----------------------------------------------------------------------------
(* The delta list as countdowns.                                           *)
LEMMA SumsAre ==
  ASSUME NEW l \in Seq(Buffer), NEW c, NEW e, e[0] = 0,
         \A i \in 1 .. Len(l) : e[i] = e[i - 1] + c[l[i]]
  PROVE  \A i \in 0 .. Len(l) : DueIn(l, c)[i] = e[i]
<1> DEFINE S == {i \in Nat : i <= Len(l) => DueIn(l, c)[i] = e[i]}
<1>1. Len(l) \in Nat
  OBVIOUS
<1>2. \A i \in 0 .. Len(l) :
        DueIn(l, c)[i] = IF i = 0 THEN 0 ELSE DueIn(l, c)[i - 1] + c[l[i]]
  BY DueStep
<1>3. 0 \in S
  <2>1. 0 \in 0 .. Len(l)
    BY <1>1
  <2> QED BY <1>2, <2>1
<1>4. ASSUME NEW i \in Nat, i \in S PROVE i + 1 \in S
  <2> SUFFICES ASSUME i + 1 <= Len(l) PROVE DueIn(l, c)[i + 1] = e[i + 1]
    OBVIOUS
  <2>1. i + 1 \in 0 .. Len(l) /\ i + 1 \in 1 .. Len(l) /\ i + 1 # 0 /\ (i + 1) - 1 = i /\ i <= Len(l)
    BY <1>1
  <2>2. DueIn(l, c)[i + 1] = DueIn(l, c)[i] + c[l[i + 1]]
    BY <1>2, <2>1
  <2>3. e[i + 1] = e[i] + c[l[i + 1]]
    BY <2>1
  <2> QED BY <1>4, <2>1, <2>2, <2>3
<1> HIDE DEF S
<1>5. Nat \subseteq S
  BY <1>3, <1>4, Induction
<1> QED BY <1>1, <1>5 DEF S

(* A timer gets its place by the ticks left, and no other countdown        *)
(* changes.                                                                *)
Inserted(b, n, k) ==
  /\ Len(list') = Len(list) + 1
  /\ \A i \in 1 .. k : list'[i] = list[i] /\ Due'[i] = Due[i] /\ Due[i] <= n
  /\ list'[k + 1] = b /\ Due'[k + 1] = n
  /\ \A i \in k + 1 .. Len(list) :
       list'[i + 1] = list[i] /\ Due'[i + 1] = Due[i] /\ Due[i] > n
  /\ k = 0 => count'[b] = n
  /\ k > 0 => count'[list[1]] = count[list[1]]

LEMMA InsertDue ==
  ASSUME IInv, NEW b \in Buffer, b \notin Range(list), NEW n \in 1 .. Word - 1, Insert(b, n)
  PROVE  \E k \in 0 .. Len(list) : Inserted(b, n, k)
<1>1. /\ list \in Seq(Buffer) /\ IsInjective(list) /\ count \in [Buffer -> 0 .. Word - 1]
      /\ Len(list) \in Nat /\ DOMAIN list = 1 .. Len(list)
      /\ \A i \in 1 .. Len(list) : list[i] \in Buffer /\ list[i] \in Range(list)
  BY RangeFacts DEF IInv, Separate, Fields
<1>2. count \in [Buffer -> Nat] /\ n \in Nat /\ Word \in Nat
  BY <1>1, TimersAssumption
<1> DEFINE K == Cardinality({i \in DOMAIN list : Due[i] <= n})
<1>3. PICK k \in 0 .. Len(list) :
        /\ k = K
        /\ Due[k] \in Nat /\ Due[k] <= n
        /\ k < Len(list) => /\ Due[k + 1] \in Nat /\ Due[k + 1] > n
                            /\ count[list[k + 1]] = Due[k + 1] - Due[k]
  BY <1>1, <1>2, Place DEF Due
<1>4. /\ list' = (SubSeq(list, 1, K) \o <<b>>) \o SubSeq(list, K + 1, Len(list))
      /\ count' = [x \in Buffer |->
                    CASE x = b -> n - Due[K]
                      [] K < Len(list) /\ x = list[K + 1] -> count[x] - (n - Due[K])
                      [] OTHER -> count[x]]
  BY DEF Insert
<1> HIDE DEF K
<1>5. /\ list' = (SubSeq(list, 1, k) \o <<b>>) \o SubSeq(list, k + 1, Len(list))
      /\ count' = [x \in Buffer |->
                    CASE x = b -> n - Due[k]
                      [] k < Len(list) /\ x = list[k + 1] -> count[x] - (n - Due[k])
                      [] OTHER -> count[x]]
  BY <1>3, <1>4
<1>6. /\ Len(list') = Len(list) + 1
      /\ \A i \in 1 .. k : list'[i] = list[i]
      /\ list'[k + 1] = b
      /\ \A i \in k + 1 .. Len(list) : list'[i + 1] = list[i]
  <2>10. PICK u, v : u = SubSeq(list, 1, k) /\ v = SubSeq(list, k + 1, Len(list))
    OBVIOUS
  <2>11. /\ u \in Seq(Buffer) /\ Len(u) = k /\ v \in Seq(Buffer) /\ Len(v) = Len(list) - k
         /\ \A i \in 1 .. k : u[i] = list[i]
         /\ \A i \in 1 .. Len(list) - k : v[i] = list[k + i]
    <3> DEFINE U == SubSeq(list, 1, k)
               V == SubSeq(list, k + 1, Len(list))
    <3>1. list \in Seq(Buffer) /\ IsInjective(list) /\ k \in 0 .. Len(list)
      BY <1>1
    <3>2. CutInto(Buffer, list, k, U, V)
      BY <3>1, Cut
    <3>3. u = U /\ v = V
      BY <2>10
    <3> HIDE DEF U, V
    <3>4. CutInto(Buffer, list, k, u, v)
      BY <3>2, <3>3
    <3> QED BY <3>4 DEF CutInto
  <2>12. PICK e \in Seq(Buffer) : e = <<b>> /\ Len(e) = 1 /\ e[1] = b
    <3>1. <<b>> \in Seq(Buffer) /\ Len(<<b>>) = 1 /\ <<b>>[1] = b
      OBVIOUS
    <3> QED BY <3>1, Zenon
  <2>1. /\ u \in Seq(Buffer) /\ v \in Seq(Buffer)
        /\ u = SubSeq(list, 1, k) /\ v = SubSeq(list, k + 1, Len(list)) /\ e = <<b>>
        /\ Len(u) = k /\ Len(v) = Len(list) - k /\ Len(e) = 1 /\ e[1] = b
        /\ \A i \in 1 .. k : u[i] = list[i]
        /\ \A i \in 1 .. Len(list) - k : v[i] = list[k + i]
    BY <2>10, <2>11, <2>12
  <2>2. PICK w \in Seq(Buffer) : w = u \o e
    <3>1. u \o e \in Seq(Buffer)
      BY <2>1, ConcatProperties
    <3> QED BY <3>1, Zenon
  <2>3. /\ Len(w) = k + 1
        /\ \A i \in 1 .. k + 1 : w[i] = IF i <= k THEN u[i] ELSE e[i - k]
    <3>1. /\ Len(u \o e) = Len(u) + Len(e)
          /\ \A i \in 1 .. Len(u) + Len(e) :
               (u \o e)[i] = IF i <= Len(u) THEN u[i] ELSE e[i - Len(u)]
      BY <2>1, ConcatProperties
    <3>2. Len(u) = k /\ Len(e) = 1
      BY <2>1
    <3> QED BY <2>2, <3>1, <3>2
  <2>4. list' = w \o v
    BY <1>5, <2>1, <2>2
  <2>5. /\ Len(list') = (k + 1) + (Len(list) - k)
        /\ \A i \in 1 .. (k + 1) + (Len(list) - k) :
             list'[i] = IF i <= k + 1 THEN w[i] ELSE v[i - (k + 1)]
    <3>1. /\ Len(w \o v) = Len(w) + Len(v)
          /\ \A i \in 1 .. Len(w) + Len(v) :
               (w \o v)[i] = IF i <= Len(w) THEN w[i] ELSE v[i - Len(w)]
      BY <2>1, ConcatProperties
    <3> QED BY <2>1, <2>3, <2>4, <3>1
  <2>6. ASSUME NEW i \in 1 .. k PROVE list'[i] = list[i]
    <3>1. i \in 1 .. (k + 1) + (Len(list) - k) /\ i <= k + 1 /\ i \in 1 .. k + 1 /\ i <= k
      BY <1>1
    <3> QED BY <2>1, <2>3, <2>5, <3>1
  <2>7. list'[k + 1] = b
    <3>1. /\ k + 1 \in 1 .. (k + 1) + (Len(list) - k) /\ k + 1 <= k + 1
          /\ k + 1 \in 1 .. k + 1 /\ ~(k + 1 <= k) /\ (k + 1) - k = 1
      BY <1>1
    <3> QED BY <2>1, <2>3, <2>5, <3>1
  <2>8. ASSUME NEW i \in k + 1 .. Len(list) PROVE list'[i + 1] = list[i]
    <3>1. /\ i + 1 \in 1 .. (k + 1) + (Len(list) - k) /\ ~(i + 1 <= k + 1)
          /\ (i + 1) - (k + 1) = i - k /\ i - k \in 1 .. Len(list) - k /\ k + (i - k) = i
      BY <1>1
    <3>2. list'[i + 1] = v[i - k]
      BY <2>5, <3>1
    <3>3. v[i - k] = list[k + (i - k)]
      BY <2>1, <3>1
    <3> QED BY <3>1, <3>2, <3>3
  <2>9. Len(list') = Len(list) + 1
    BY <1>1, <2>5
  <2> QED BY <2>6, <2>7, <2>8, <2>9
<1>7. list' \in Seq(Buffer)
  BY InsertFacts
<1>8. \A i \in 0 .. Len(list) : /\ Due[i] \in Nat
                                /\ i # 0 => Due[i] = Due[i - 1] + count[list[i]]
                                /\ i = 0 => Due[i] = 0
  BY <1>1, <1>2, DueGrows, DueStep DEF Due
<1>21. \A j \in 0 .. Len(list) : \A i \in 0 .. j : Due[i] <= Due[j]
  BY <1>1, <1>2, DueGrows DEF Due
<1>9. \A i, j \in 1 .. Len(list) : list[i] = list[j] => i = j
  BY <1>1 DEF IsInjective
<1>10. /\ \A i \in 1 .. Len(list) : list[i] # b
       /\ count'[b] = n - Due[k]
       /\ k < Len(list) => count'[list[k + 1]] = count[list[k + 1]] - (n - Due[k])
       /\ \A i \in 1 .. Len(list) : i # k + 1 => count'[list[i]] = count[list[i]]
  <2>1. \A i \in 1 .. Len(list) : list[i] # b
    BY <1>1
  <2>3. k < Len(list) => k + 1 \in 1 .. Len(list)
    BY <1>1
  <2>2. count'[b] = n - Due[k]
    <3>1. ~(k < Len(list) /\ b = list[k + 1])
      BY <2>1, <2>3
    <3> QED BY <1>5, <3>1
  <2>4. k < Len(list) => count'[list[k + 1]] = count[list[k + 1]] - (n - Due[k])
    BY <1>1, <1>5, <2>1, <2>3
  <2>5. ASSUME NEW i \in 1 .. Len(list), i # k + 1 PROVE count'[list[i]] = count[list[i]]
    <3>1. ~(k < Len(list) /\ list[i] = list[k + 1])
      BY <1>9, <2>3, <2>5
    <3> QED BY <1>1, <1>5, <2>1, <3>1
  <2> QED BY <2>1, <2>2, <2>4, <2>5
<1>11. PICK e : e = [i \in 0 .. Len(list) + 1 |->
                       IF i <= k THEN Due[i] ELSE IF i = k + 1 THEN n ELSE Due[i - 1]]
  OBVIOUS
<1>12. /\ \A i \in 0 .. k : e[i] = Due[i]
       /\ e[k + 1] = n
       /\ \A i \in k + 1 .. Len(list) : e[i + 1] = Due[i]
  <2>1. ASSUME NEW i \in 0 .. k PROVE e[i] = Due[i]
    <3>1. i \in 0 .. Len(list) + 1 /\ i <= k
      BY <1>1
    <3> QED BY <1>11, <3>1
  <2>2. k + 1 \in 0 .. Len(list) + 1 /\ ~(k + 1 <= k)
    BY <1>1
  <2>3. ASSUME NEW i \in k + 1 .. Len(list) PROVE e[i + 1] = Due[i]
    <3>1. i + 1 \in 0 .. Len(list) + 1 /\ ~(i + 1 <= k) /\ i + 1 # k + 1 /\ (i + 1) - 1 = i
      BY <1>1
    <3> QED BY <1>11, <3>1
  <2> QED BY <1>11, <2>1, <2>2, <2>3
<1>13. e[0] = 0
  <2>1. 0 \in 0 .. k /\ 0 \in 0 .. Len(list)
    BY <1>1
  <2> QED BY <1>8, <1>12, <2>1
<1>14. ASSUME NEW i \in 1 .. Len(list') PROVE e[i] = e[i - 1] + count'[list'[i]]
  <2>1. i \in 1 .. Len(list) + 1
    BY <1>6
  <2>2. CASE i <= k
    <3>1. /\ i \in 1 .. k /\ i \in 0 .. k /\ i - 1 \in 0 .. k /\ i \in 1 .. Len(list)
          /\ i # k + 1 /\ i \in 0 .. Len(list) /\ i # 0
      BY <1>1, <2>1, <2>2
    <3> QED BY <1>6, <1>8, <1>10, <1>12, <3>1
  <2>3. CASE i = k + 1
    <3>1. e[i - 1] = Due[k] /\ e[i] = n /\ count'[list'[i]] = n - Due[k]
      <4>1. i - 1 = k /\ k \in 0 .. k
        BY <2>3
      <4> QED BY <1>6, <1>10, <1>12, <2>3, <4>1
    <3> QED BY <1>2, <1>3, <3>1
  <2>4. CASE i = k + 2
    <3>1. k < Len(list) /\ i - 1 = k + 1 /\ k + 1 \in k + 1 .. Len(list) /\ (k + 1) + 1 = i
      BY <1>1, <2>1, <2>4
    <3>2. e[i] = Due[k + 1] /\ e[i - 1] = n /\ list'[i] = list[k + 1]
      BY <1>6, <1>12, <3>1
    <3>3. count'[list'[i]] = (Due[k + 1] - Due[k]) - (n - Due[k])
      BY <1>3, <1>10, <3>1, <3>2
    <3> QED BY <1>2, <1>3, <3>1, <3>2, <3>3
  <2>5. CASE i > k + 2
    <3>1. /\ i - 1 \in k + 1 .. Len(list) /\ i - 2 \in k + 1 .. Len(list) /\ (i - 1) + 1 = i
          /\ (i - 2) + 1 = i - 1 /\ (i - 1) - 1 = i - 2 /\ i - 1 \in 1 .. Len(list)
          /\ i - 1 # k + 1 /\ i - 1 \in 0 .. Len(list) /\ i - 1 # 0
      BY <1>1, <2>1, <2>5
    <3>2. e[i] = Due[i - 1] /\ e[i - 1] = Due[i - 2] /\ list'[i] = list[i - 1]
      BY <1>6, <1>12, <3>1
    <3>3. count'[list[i - 1]] = count[list[i - 1]]
      BY <1>10, <3>1
    <3>4. Due[i - 1] = Due[i - 2] + count[list[i - 1]]
      BY <1>8, <3>1
    <3> QED BY <3>2, <3>3, <3>4
  <2>6. i <= k \/ i = k + 1 \/ i = k + 2 \/ i > k + 2
    BY <2>1
  <2> QED BY <2>2, <2>3, <2>4, <2>5, <2>6
<1>15. \A i \in 0 .. Len(list') : Due'[i] = e[i]
  BY <1>7, <1>13, <1>14, SumsAre DEF Due
<1>16. ASSUME NEW i \in 1 .. k PROVE Due'[i] = Due[i] /\ Due[i] <= n
  <2>1. i \in 0 .. Len(list') /\ i \in 0 .. Len(list) /\ i \in 0 .. k /\ k \in 0 .. Len(list)
    BY <1>1, <1>6
  <2>2. Due[i] <= Due[k] /\ Due[i] \in Nat
    BY <1>8, <1>21, <2>1
  <2> QED BY <1>2, <1>3, <1>12, <1>15, <2>1, <2>2
<1>17. Due'[k + 1] = n
  <2>1. k + 1 \in 0 .. Len(list')
    BY <1>1, <1>6
  <2> QED BY <1>12, <1>15, <2>1
<1>18. ASSUME NEW i \in k + 1 .. Len(list) PROVE Due'[i + 1] = Due[i] /\ Due[i] > n
  <2>1. i + 1 \in 0 .. Len(list') /\ k + 1 \in 0 .. i /\ i \in 0 .. Len(list) /\ k < Len(list)
    BY <1>1, <1>6
  <2>2. Due[k + 1] <= Due[i] /\ Due[i] \in Nat
    BY <1>8, <1>21, <2>1
  <2>3. Due[k + 1] > n /\ Due[k + 1] \in Nat
    BY <1>3, <2>1
  <2>4. Due'[i + 1] = Due[i]
    BY <1>12, <1>15, <2>1
  <2> QED BY <1>2, <2>2, <2>3, <2>4
<1>19. k = 0 => count'[b] = n
  <2>1. 0 \in 0 .. Len(list)
    BY <1>1
  <2>2. Due[0] = 0
    BY <1>8, <2>1
  <2> QED BY <1>2, <1>10, <2>2
<1>20. k > 0 => count'[list[1]] = count[list[1]]
  <2>1. k > 0 => 1 \in 1 .. Len(list) /\ 1 # k + 1
    BY <1>1
  <2> QED BY <1>10, <2>1
<1> QED BY <1>6, <1>16, <1>17, <1>18, <1>19, <1>20 DEF Inserted

(* started is the delta list in the order of starts; timers due at the     *)
(* same tick are in that order in the delta list too, and a tick leaves no *)
(* timer at the front that has nothing left.                               *)
Earlier(s, x, y) == \E i, j \in DOMAIN s : i < j /\ s[i] = x /\ s[j] = y
Order ==
  /\ started \in Seq(Buffer) /\ IsInjective(started) /\ Range(started) = Range(list)
  /\ \A i, j \in DOMAIN list :
       i < j /\ Due[i] = Due[j] => Earlier(started, list[i], list[j])
  /\ list # <<>> => count[list[1]] # 0

LEMMA ListFacts ==
  ASSUME IInv
  PROVE  /\ list \in Seq(Buffer) /\ IsInjective(list) /\ count \in [Buffer -> Nat]
         /\ Len(list) \in Nat /\ DOMAIN list = 1 .. Len(list)
         /\ \A i \in 1 .. Len(list) : list[i] \in Buffer /\ list[i] \in Range(list)
         /\ \A i, j \in 1 .. Len(list) : list[i] = list[j] => i = j
         /\ \A i \in 0 .. Len(list) : /\ Due[i] \in Nat
                                      /\ i # 0 => Due[i] = Due[i - 1] + count[list[i]]
                                      /\ i = 0 => Due[i] = 0
         /\ \A j \in 0 .. Len(list) : \A i \in 0 .. j : Due[i] <= Due[j]
<1>1. /\ list \in Seq(Buffer) /\ IsInjective(list) /\ count \in [Buffer -> 0 .. Word - 1]
      /\ Len(list) \in Nat /\ DOMAIN list = 1 .. Len(list)
      /\ \A i \in 1 .. Len(list) : list[i] \in Buffer /\ list[i] \in Range(list)
  BY RangeFacts DEF IInv, Separate, Fields
<1>2. count \in [Buffer -> Nat]
  BY <1>1, TimersAssumption
<1>3. \A i, j \in 1 .. Len(list) : list[i] = list[j] => i = j
  BY <1>1 DEF IsInjective
<1>4. \A i \in 0 .. Len(list) : /\ Due[i] \in Nat
                                /\ i # 0 => Due[i] = Due[i - 1] + count[list[i]]
                                /\ i = 0 => Due[i] = 0
  BY <1>1, <1>2, DueGrows, DueStep DEF Due
<1>5. \A j \in 0 .. Len(list) : \A i \in 0 .. j : Due[i] <= Due[j]
  BY <1>1, <1>2, DueGrows DEF Due
<1> QED BY <1>1, <1>2, <1>3, <1>4, <1>5

(* One tick less at the front is one tick less for every timer of the      *)
(* list, wherever the list is cut behind its timers that have nothing left.*)
Ticked(l, c, d, k, m) ==
  /\ IsInjective(l) /\ l # <<>> /\ d[l[1]] = c[l[1]] - 1
  /\ \A i \in 1 .. Len(l) : i # 1 => d[l[i]] = c[l[i]]
  /\ \A i \in 1 .. k : d[l[i]] = 0
  /\ k < Len(l) => d[l[k + 1]] # 0
  /\ Len(m) = Len(l) - k
  /\ \A i \in 1 .. Len(l) - k : m[i] = l[k + i]

Sums(l, c, D) ==
  /\ \A i \in 0 .. Len(l) : D[i] \in Nat
  /\ \A j \in 0 .. Len(l) : \A i \in 0 .. j : D[i] <= D[j]
  /\ \A i \in 0 .. Len(l) : D[i] = IF i = 0 THEN 0 ELSE D[i - 1] + c[l[i]]

LEMMA SumFacts ==
  ASSUME NEW l \in Seq(Buffer), NEW c \in [Buffer -> Nat]
  PROVE  Sums(l, c, DueIn(l, c))
<1>1. \A i \in 0 .. Len(l) : DueIn(l, c)[i] \in Nat
  BY DueGrows
<1>2. \A j \in 0 .. Len(l) : \A i \in 0 .. j : DueIn(l, c)[i] <= DueIn(l, c)[j]
  BY DueGrows
<1>3. \A i \in 0 .. Len(l) :
        DueIn(l, c)[i] = IF i = 0 THEN 0 ELSE DueIn(l, c)[i - 1] + c[l[i]]
  BY DueStep
<1> QED BY <1>1, <1>2, <1>3 DEF Sums

(* e is what DueIn adds up to.                                             *)
AddsUp(l, c, e) == e[0] = 0 /\ \A i \in 1 .. Len(l) : e[i] = e[i - 1] + c[l[i]]

LEMMA AddsUpFacts ==
  ASSUME NEW l \in Seq(Buffer), NEW c, NEW e, AddsUp(l, c, e)
  PROVE  \A i \in 0 .. Len(l) : DueIn(l, c)[i] = e[i]
<1>1. e[0] = 0 /\ \A i \in 1 .. Len(l) : e[i] = e[i - 1] + c[l[i]]
  BY DEF AddsUp
<1> QED BY <1>1, SumsAre

(* v is s without its first k elements.                                    *)
IsRest(v, s, k) == Len(v) = Len(s) - k /\ \A i \in 1 .. Len(s) - k : v[i] = s[k + i]

LEMMA Behind ==
  ASSUME NEW s \in Seq(Buffer), IsInjective(s), NEW k \in 0 .. Len(s)
  PROVE  IsRest(SubSeq(s, k + 1, Len(s)), s, k)
BY Cut DEF CutInto, IsRest

CountedDown(l, k, D, E) ==
  /\ \A i \in 1 .. k : D[i] = 1
  /\ \A i \in k + 1 .. Len(l) : D[i] > 1
  /\ \A i \in 1 .. Len(l) - k : E[i] = D[k + i] - 1

LEMMA CountDown ==
  ASSUME NEW l \in Seq(Buffer), NEW c \in [Buffer -> Nat], NEW d \in [Buffer -> Nat],
         NEW k \in 0 .. Len(l), NEW m \in Seq(Buffer), Ticked(l, c, d, k, m)
  PROVE  CountedDown(l, k, DueIn(l, c), DueIn(m, d))
<1> SUFFICES ASSUME NEW D, D = DueIn(l, c), NEW E, E = DueIn(m, d)
             PROVE  CountedDown(l, k, D, E)
  OBVIOUS
<1>0. /\ IsInjective(l) /\ l # <<>> /\ d[l[1]] = c[l[1]] - 1
      /\ \A i \in 1 .. Len(l) : i # 1 => d[l[i]] = c[l[i]]
      /\ \A i \in 1 .. k : d[l[i]] = 0
      /\ k < Len(l) => d[l[k + 1]] # 0
      /\ Len(m) = Len(l) - k
      /\ \A i \in 1 .. Len(l) - k : m[i] = l[k + i]
  BY DEF Ticked
<1>1. /\ Len(l) \in Nat /\ DOMAIN l = 1 .. Len(l) /\ 1 \in 1 .. Len(l)
      /\ \A i \in 1 .. Len(l) : l[i] \in Buffer
  BY <1>0
<1>2. /\ \A i \in 0 .. Len(l) : D[i] \in Nat
      /\ \A j \in 0 .. Len(l) : \A i \in 0 .. j : D[i] <= D[j]
      /\ \A i \in 0 .. Len(l) : D[i] = IF i = 0 THEN 0 ELSE D[i - 1] + c[l[i]]
  <2>1. Sums(l, c, D)
    BY SumFacts
  <2> QED BY <2>1 DEF Sums
<1>3. \A i \in 1 .. Len(l) : c[l[i]] \in Nat /\ d[l[i]] \in Nat
  BY <1>1
<1>4. D[0] = 0 /\ D[1] = c[l[1]]
  <2>1. 0 \in 0 .. Len(l) /\ 1 \in 0 .. Len(l) /\ 1 # 0 /\ 1 - 1 = 0
    BY <1>1
  <2>2. D[0] = 0 /\ D[1] = 0 + c[l[1]]
    BY <1>2, <2>1
  <2> QED BY <1>1, <1>3, <2>2
<1>5. \A i \in 1 .. Len(l) : i # 1 =>
         D[i] = D[i - 1] + d[l[i]] /\ D[i - 1] \in Nat /\ D[i] \in Nat /\ d[l[i]] \in Nat
  <2> SUFFICES ASSUME NEW i \in 1 .. Len(l), i # 1
               PROVE  D[i] = D[i - 1] + d[l[i]] /\ D[i - 1] \in Nat /\ D[i] \in Nat /\ d[l[i]] \in Nat
    OBVIOUS
  <2>1. i \in 0 .. Len(l) /\ i # 0 /\ i - 1 \in 0 .. Len(l)
    BY <1>1
  <2>2. D[i] = D[i - 1] + c[l[i]]
    BY <1>2, <2>1
  <2>3. d[l[i]] = c[l[i]]
    BY <1>0
  <2> QED BY <1>2, <1>3, <2>1, <2>2, <2>3
<1>6. D[1] = d[l[1]] + 1 /\ D[1] \in Nat
  BY <1>0, <1>1, <1>3, <1>4
<1>7. \A i \in 1 .. k : D[i] = 1
  <2> DEFINE S == {i \in Nat : i + 1 <= k => D[i + 1] = 1}
  <2>1. 0 \in S
    <3>1. ASSUME 0 + 1 <= k PROVE D[0 + 1] = 1
      <4>1. 0 + 1 = 1 /\ 1 \in 1 .. k
        BY <3>1
      <4>2. d[l[1]] = 0
        BY <1>0, <4>1
      <4> QED BY <1>6, <4>1, <4>2
    <3> QED BY <3>1
  <2>2. ASSUME NEW i \in Nat, i \in S PROVE i + 1 \in S
    <3> SUFFICES ASSUME (i + 1) + 1 <= k PROVE D[(i + 1) + 1] = 1
      OBVIOUS
    <3>1. PICK j \in Nat : j = (i + 1) + 1
      OBVIOUS
    <3>2. j \in 1 .. Len(l) /\ j \in 1 .. k /\ j # 1 /\ j - 1 = i + 1 /\ i + 1 <= k
      BY <1>1, <3>1
    <3>3. D[j] = D[j - 1] + d[l[j]] /\ d[l[j]] = 0
      BY <1>0, <1>5, <3>2
    <3>4. D[j - 1] = 1
      BY <2>2, <3>2
    <3>5. D[j] = 1
      BY <3>3, <3>4
    <3> QED BY <3>1, <3>5
  <2>3. Nat \subseteq S
    <3> HIDE DEF S
    <3> QED BY <2>1, <2>2, Induction
  <2>4. ASSUME NEW i \in 1 .. k PROVE D[i] = 1
    <3>1. i - 1 \in Nat /\ (i - 1) + 1 = i /\ i <= k
      BY <1>1
    <3> QED BY <2>3, <3>1
  <2> QED BY <2>4
<1>8. ASSUME k < Len(l) PROVE D[k + 1] > 1 /\ D[k + 1] = d[l[k + 1]] + 1
  <2>1. PICK j \in Nat : j = k + 1
    OBVIOUS
  <2>2. j \in 1 .. Len(l) /\ d[l[j]] # 0
    BY <1>0, <1>1, <1>8, <2>1
  <2>3. D[j] = d[l[j]] + 1
    <3>1. CASE j = 1
      BY <1>6, <3>1
    <3>2. CASE j # 1
      <4>1. j - 1 = k /\ k \in 1 .. k
        BY <2>1, <2>2, <3>2
      <4>2. D[j - 1] = 1
        BY <1>7, <4>1
      <4>3. D[j] = D[j - 1] + d[l[j]] /\ d[l[j]] \in Nat
        BY <1>5, <2>2, <3>2
      <4> QED BY <4>2, <4>3
    <3> QED BY <3>1, <3>2
  <2>4. d[l[j]] \in Nat /\ d[l[j]] # 0
    BY <1>3, <2>2
  <2>5. D[j] > 1
    BY <2>3, <2>4
  <2> QED BY <2>1, <2>3, <2>5
<1>9. ASSUME NEW i \in k + 1 .. Len(l) PROVE D[i] > 1
  <2>1. PICK j \in Nat : j = k + 1
    OBVIOUS
  <2>2. k < Len(l) /\ j \in 0 .. i /\ j \in 0 .. Len(l) /\ i \in 0 .. Len(l)
    BY <1>1, <2>1
  <2>3. D[j] <= D[i] /\ D[j] \in Nat /\ D[i] \in Nat
    BY <1>2, <2>2
  <2>4. D[j] > 1
    BY <1>8, <2>1, <2>2
  <2> QED BY <2>3, <2>4
<1>10. PICK e : e = [i \in 0 .. Len(l) - k |-> IF i = 0 THEN 0 ELSE D[k + i] - 1]
  OBVIOUS
<1>11. e[0] = 0 /\ \A i \in 1 .. Len(l) - k : e[i] = D[k + i] - 1
  <2>1. 0 \in 0 .. Len(l) - k
    BY <1>1
  <2>2. \A i \in 1 .. Len(l) - k : i \in 0 .. Len(l) - k /\ i # 0
    OBVIOUS
  <2> QED BY <1>10, <2>1, <2>2
<1>12. ASSUME NEW i \in 1 .. Len(m) PROVE e[i] = e[i - 1] + d[m[i]]
  <2>0. k \in Nat /\ i \in Nat /\ k + i \in Nat /\ Len(l) \in Nat
    BY <1>1
  <2>1. PICK n \in Nat, a \in Nat, j \in Nat : n = Len(l) /\ a = k /\ j = k + i
    BY <2>0, Zenon
  <2>2. i \in 1 .. Len(l) - k /\ i \in 1 .. n - a /\ m[i] = l[j] /\ e[i] = D[j] - 1
    BY <1>0, <1>11, <2>1
  <2>3. i \in Nat /\ j \in 1 .. n /\ j = a + i
    BY <2>1, <2>2
  <2>4. CASE i = 1
    <3>1. k < Len(l) /\ j = k + 1 /\ e[i - 1] = 0
      BY <1>11, <2>1, <2>2, <2>4
    <3>2. D[j] = d[l[j]] + 1 /\ d[l[j]] \in Nat
      BY <1>3, <1>8, <2>1, <2>3, <3>1
    <3>3. PICK x \in Nat : x = d[l[j]]
      BY <3>2
    <3>4. e[i] = (x + 1) - 1 /\ e[i - 1] = 0 /\ d[m[i]] = x
      BY <2>2, <3>1, <3>2, <3>3
    <3> QED BY <3>4
  <2>5. CASE i # 1
    <3>1. i - 1 \in 1 .. Len(l) - k /\ k + (i - 1) = j - 1
      BY <1>1, <2>1, <2>2, <2>3, <2>5
    <3>2. e[i - 1] = D[j - 1] - 1
      BY <1>11, <3>1
    <3>3. j \in 1 .. Len(l) /\ j # 1
      BY <2>1, <2>3, <2>5
    <3>4. D[j] = D[j - 1] + d[l[j]] /\ D[j - 1] \in Nat /\ d[l[j]] \in Nat
      BY <1>5, <3>3
    <3>5. PICK x \in Nat, y \in Nat : x = d[l[j]] /\ y = D[j - 1]
      BY <3>4
    <3>6. e[i] = (y + x) - 1 /\ e[i - 1] = y - 1 /\ d[m[i]] = x
      BY <2>2, <3>2, <3>4, <3>5
    <3> QED BY <3>6
  <2> QED BY <2>4, <2>5
<1>13. \A i \in 0 .. Len(m) : DueIn(m, d)[i] = e[i]
  <2>1. AddsUp(m, d, e)
    BY <1>11, <1>12 DEF AddsUp
  <2> QED BY <2>1, AddsUpFacts
<1>14. \A i \in 1 .. Len(l) - k : E[i] = D[k + i] - 1
  <2>1. \A i \in 1 .. Len(l) - k : i \in 0 .. Len(m)
    BY <1>0, <1>1
  <2> QED BY <1>11, <1>13, <2>1
<1> QED BY <1>7, <1>9, <1>14 DEF CountedDown

(* A tick counts every timer down by one and posts those due.              *)
LEMMA TickDue ==
  ASSUME IInv, Order, Tick
  PROVE  \E k \in 0 .. Len(list) :
           /\ mbx' = mbx \o SubSeq(list, 1, k)
           /\ started' = Subsequence(started,
                           {i \in DOMAIN started : \A j \in 1 .. k : list[j] # started[i]})
           /\ \A i \in 1 .. k : Due[i] = 1
           /\ \A i \in k + 1 .. Len(list) : Due[i] > 1
           /\ Len(list') = Len(list) - k
           /\ \A i \in 1 .. Len(list) - k : list'[i] = list[k + i] /\ Due'[i] = Due[k + i] - 1
           /\ list' # <<>> => count'[list'[1]] # 0
<1>1. PICK k \in 0 .. Len(list) :
        /\ k = Expired(list, count')
        /\ mbx' = mbx \o SubSeq(list, 1, k) /\ list' = SubSeq(list, k + 1, Len(list))
        /\ count' = [count EXCEPT ![list[1]] = (@ - 1 + Word) % Word]
        /\ count' \in [Buffer -> 0 .. Word - 1]
  BY TickFacts
<1>2. started' = Subsequence(started,
                   {i \in DOMAIN started : \A j \in 1 .. k : list[j] # started[i]})
  BY <1>1 DEF Tick
<1>3. /\ list \in Seq(Buffer) /\ IsInjective(list) /\ count \in [Buffer -> Nat]
      /\ count \in [Buffer -> 0 .. Word - 1] /\ Word \in Nat \ {0}
      /\ Len(list) \in Nat /\ DOMAIN list = 1 .. Len(list)
      /\ \A i \in 1 .. Len(list) : list[i] \in Buffer
      /\ \A i, j \in 1 .. Len(list) : list[i] = list[j] => i = j
  BY ListFacts, TimersAssumption DEF IInv, Fields
<1>4. list # <<>> /\ count[list[1]] # 0
  BY DEF Order, Tick
<1>5. 1 \in 1 .. Len(list)
  BY <1>3, <1>4
<1>6. PICK d \in [Buffer -> Nat] : d = count'
  <2>1. \A x \in 0 .. Word - 1 : x \in Nat
    BY <1>3
  <2>2. count' \in [Buffer -> Nat]
    BY <1>1, <2>1
  <2> QED BY <2>2
<1>7. PICK m \in Seq(Buffer) : m = list'
  <2>1. list' \in Seq(Buffer)
    BY TickIInv DEF IInv, Separate
  <2> QED BY <2>1, Zenon
<1>8. /\ d[list[1]] = count[list[1]] - 1
      /\ \A i \in 1 .. Len(list) : i # 1 => d[list[i]] = count[list[i]]
  <2>1. PICK x \in 0 .. Word - 1, w \in Nat : x = count[list[1]] /\ w = Word
    BY <1>3, <1>5
  <2>2. (x - 1 + w) % w = x - 1
    <3>1. PICK y \in Int : y = x - 1
      OBVIOUS
    <3>2. y \in 0 .. w - 1 /\ w > 0
      BY <1>3, <1>4, <2>1, <3>1
    <3>3. (y + w) % w = y
      BY <3>2
    <3> QED BY <3>1, <3>3
  <2>3. d = [count EXCEPT ![list[1]] = x - 1]
    BY <1>1, <1>6, <2>1, <2>2
  <2>4. \A i \in 1 .. Len(list) : i # 1 => list[i] # list[1]
    BY <1>3, <1>5
  <2> QED BY <1>3, <1>5, <2>1, <2>3, <2>4
<1>9. /\ \A i \in 1 .. k : d[list[i]] = 0
      /\ k < Len(list) => d[list[k + 1]] # 0
  <2>1. k = Expired(list, d)
    BY <1>1, <1>6
  <2> QED BY <1>3, <2>1, ExpiredFacts
<1>10. Len(m) = Len(list) - k /\ \A i \in 1 .. Len(list) - k : m[i] = list[k + i]
  <2>1. IsRest(SubSeq(list, k + 1, Len(list)), list, k)
    BY <1>3, Behind
  <2>2. IsRest(m, list, k)
    BY <1>1, <1>7, <2>1
  <2> QED BY <2>2 DEF IsRest
<1>11. PICK D, E : D = DueIn(list, count) /\ E = DueIn(m, d)
  OBVIOUS
<1>12. /\ \A i \in 1 .. k : D[i] = 1
       /\ \A i \in k + 1 .. Len(list) : D[i] > 1
       /\ \A i \in 1 .. Len(list) - k : E[i] = D[k + i] - 1
  <2>1. Ticked(list, count, d, k, m)
    BY <1>3, <1>4, <1>8, <1>9, <1>10 DEF Ticked
  <2>2. list \in Seq(Buffer) /\ count \in [Buffer -> Nat]
    BY <1>3
  <2>3. CountedDown(list, k, DueIn(list, count), DueIn(m, d))
    BY <2>1, <2>2, CountDown
  <2>4. CountedDown(list, k, D, E)
    BY <1>11, <2>3
  <2> QED BY <2>4 DEF CountedDown
<1>13. Due = D /\ Due' = E
  BY <1>6, <1>7, <1>11 DEF Due
<1>14. m # <<>> => d[m[1]] # 0
  <2> SUFFICES ASSUME m # <<>> PROVE d[m[1]] # 0
    OBVIOUS
  <2>1. 1 \in 1 .. Len(list) - k /\ k < Len(list)
    <3>1. PICK a \in Nat, b \in Nat, n \in Nat : a = Len(m) /\ b = Len(list) /\ n = k
      <4>1. Len(m) \in Nat /\ Len(list) \in Nat /\ k \in Nat
        BY <1>3
      <4> QED BY <4>1
    <3>2. a # 0 /\ a = b - n
      BY <1>10, <3>1
    <3>3. 1 \in 1 .. b - n /\ n < b
      BY <3>2
    <3> QED BY <3>1, <3>3
  <2> QED BY <1>9, <1>10, <2>1
<1>15. \A i \in 1 .. Len(list) - k : m[i] = list[k + i] /\ E[i] = D[k + i] - 1
  BY <1>10, <1>12
<1>16. /\ \A i \in 1 .. k : Due[i] = 1
       /\ \A i \in k + 1 .. Len(list) : Due[i] > 1
  BY <1>12, <1>13
<1>17. /\ Len(list') = Len(list) - k
       /\ \A i \in 1 .. Len(list) - k : list'[i] = list[k + i] /\ Due'[i] = Due[k + i] - 1
       /\ list' # <<>> => count'[list'[1]] # 0
  BY <1>6, <1>7, <1>10, <1>13, <1>14, <1>15
<1> QED BY <1>1, <1>2, <1>16, <1>17

-----------------------------------------------------------------------------
(* Part of a sequence without repetitions.                                 *)
IsPart(u, s, I) ==
  /\ u \in Seq(Buffer) /\ IsInjective(u) /\ Range(u) = {s[i] : i \in I}
  /\ \A i, j \in I : i < j => Earlier(u, s[i], s[j])

LEMMA Kept ==
  ASSUME NEW s \in Seq(Buffer), IsInjective(s), NEW I, I \subseteq DOMAIN s
  PROVE  IsPart(Subsequence(s, I), s, I)
<1>1. Len(s) \in Nat /\ DOMAIN s = 1 .. Len(s) /\ \A i \in DOMAIN s : s[i] \in Buffer
  OBVIOUS
<1>2. PICK p \in Seq(Nat) :
        /\ Increasing(p) /\ Range(p) = I
        /\ \A x : Subsequence(x, I) = [k \in 1 .. Len(p) |-> x[p[k]]]
  <2>1. PICK p \in Seq(Nat) : Lists(p, I)
    BY <1>1, Positions
  <2> QED BY <2>1 DEF Lists
<1>3. PICK u : u = Subsequence(s, I)
  OBVIOUS
<1>4. u = [k \in 1 .. Len(p) |-> s[p[k]]]
  BY <1>2, <1>3
<1>5. /\ Len(p) \in Nat /\ DOMAIN p = 1 .. Len(p) /\ \A k \in DOMAIN p : p[k] \in Nat
      /\ \A k \in DOMAIN p : p[k] \in I /\ p[k] \in DOMAIN s
      /\ \A i \in I : \E k \in DOMAIN p : p[k] = i
  BY <1>2 DEF Range
<1>6. u \in Seq(Buffer) /\ DOMAIN u = 1 .. Len(p) /\ \A k \in 1 .. Len(p) : u[k] = s[p[k]]
  <2>1. \A k \in 1 .. Len(p) : s[p[k]] \in Buffer
    BY <1>1, <1>5
  <2>2. u \in [1 .. Len(p) -> Buffer]
    BY <1>4, <2>1
  <2>3. u \in Seq(Buffer)
    <3>1. PICK n \in Nat : n = Len(p)
      BY <1>5
    <3>2. u \in [1 .. n -> Buffer]
      BY <2>2, <3>1
    <3> QED BY <3>2
  <2> QED BY <1>4, <2>3
<1>7. ASSUME NEW x \in DOMAIN p, NEW y \in DOMAIN p, p[x] = p[y] PROVE x = y
  <2>1. x \in Int /\ y \in Int /\ p[x] \in Int /\ p[y] \in Int
    BY <1>5
  <2>2. ~(x < y) /\ ~(y < x)
    BY <1>2, <1>7, <2>1 DEF Increasing
  <2> QED BY <2>1, <2>2
<1>8. IsInjective(u)
  <2> SUFFICES ASSUME NEW x \in DOMAIN u, NEW y \in DOMAIN u, u[x] = u[y] PROVE x = y
    BY DEF IsInjective
  <2>1. x \in DOMAIN p /\ y \in DOMAIN p /\ s[p[x]] = s[p[y]]
    BY <1>5, <1>6
  <2>2. p[x] = p[y]
    BY <1>5, <2>1 DEF IsInjective
  <2> QED BY <1>7, <2>1, <2>2
<1>9. Range(u) = {s[i] : i \in I}
  <2>1. ASSUME NEW k \in DOMAIN u PROVE u[k] \in {s[i] : i \in I}
    BY <1>5, <1>6
  <2>2. ASSUME NEW i \in I PROVE s[i] \in Range(u)
    <3>1. PICK k \in DOMAIN p : p[k] = i
      BY <1>5
    <3>2. k \in DOMAIN u /\ u[k] = s[i]
      BY <1>5, <1>6, <3>1
    <3> QED BY <3>2 DEF Range
  <2> QED BY <2>1, <2>2 DEF Range
<1>10. ASSUME NEW i \in I, NEW j \in I, i < j PROVE Earlier(u, s[i], s[j])
  <2>1. PICK x \in DOMAIN p, y \in DOMAIN p : p[x] = i /\ p[y] = j
    BY <1>5
  <2>2. x \in Int /\ y \in Int /\ i \in Int /\ j \in Int
    BY <1>5, <2>1
  <2>3. x < y
    <3>1. ~(y < x)
      BY <1>2, <1>10, <2>1, <2>2 DEF Increasing
    <3>2. x # y
      BY <1>10, <2>1, <2>2
    <3> QED BY <2>2, <3>1, <3>2
  <2>4. x \in DOMAIN u /\ y \in DOMAIN u /\ u[x] = s[i] /\ u[y] = s[j]
    BY <1>5, <1>6, <2>1
  <2> QED BY <2>3, <2>4 DEF Earlier
<1> QED BY <1>3, <1>6, <1>8, <1>9, <1>10 DEF IsPart

(* The first k of l are the elements of s that are among them, in the      *)
(* order of s, when l has them in that order.                              *)
InOrder(l, s, k) == \A x, y \in 1 .. k : x < y => Earlier(s, l[x], l[y])

LEMMA Selected ==
  ASSUME NEW l \in Seq(Buffer), NEW s \in Seq(Buffer), IsInjective(s), IsInjective(l),
         Range(s) = Range(l), NEW k \in 0 .. Len(l), InOrder(l, s, k)
  PROVE  SubSeq(l, 1, k) = Subsequence(s, {i \in DOMAIN s : \E j \in 1 .. k : l[j] = s[i]})
<1> DEFINE I == {i \in DOMAIN s : \E j \in 1 .. k : l[j] = s[i]}
<1>1. /\ Len(s) \in Nat /\ DOMAIN s = 1 .. Len(s) /\ Len(l) \in Nat /\ DOMAIN l = 1 .. Len(l)
      /\ \A j \in 1 .. k : j \in DOMAIN l
      /\ \A j \in DOMAIN l : l[j] \in Range(l)
      /\ \A x \in Range(s) : \E i \in DOMAIN s : s[i] = x
  BY DEF Range
<1>2. PICK q \in Seq(Nat) :
        /\ Increasing(q) /\ Range(q) = I
        /\ \A x : Subsequence(x, I) = [m \in 1 .. Len(q) |-> x[q[m]]]
  <2>1. I \subseteq 1 .. Len(s)
    BY <1>1
  <2> HIDE DEF I
  <2>2. PICK q \in Seq(Nat) : Lists(q, I)
    BY <1>1, <2>1, Positions
  <2> QED BY <2>2 DEF Lists
<1>3. \A j \in 1 .. k : \E i \in DOMAIN s : s[i] = l[j]
  BY <1>1
<1>4. PICK r : r = [j \in 1 .. k |-> CHOOSE i \in DOMAIN s : s[i] = l[j]]
  OBVIOUS
<1>5. DOMAIN r = 1 .. k /\ \A j \in 1 .. k : r[j] \in DOMAIN s /\ s[r[j]] = l[j]
  BY <1>3, <1>4
<1>6. r \in Seq(Nat) /\ Len(r) = k
  <2>1. \A j \in 1 .. k : r[j] \in Nat
    BY <1>1, <1>5
  <2>2. r \in [1 .. k -> Nat]
    BY <1>4, <1>5, <2>1
  <2> QED BY <2>2
<1>7. Increasing(r)
  <2> SUFFICES ASSUME NEW x \in 1 .. k, NEW y \in 1 .. k, x < y PROVE r[x] < r[y]
    BY <1>5 DEF Increasing
  <2>1. PICK a, b \in DOMAIN s : a < b /\ s[a] = l[x] /\ s[b] = l[y]
    BY DEF InOrder, Earlier
  <2>2. r[x] = a /\ r[y] = b
    BY <1>5, <2>1 DEF IsInjective
  <2> QED BY <2>1, <2>2
<1>8. Range(r) = I
  <2>1. ASSUME NEW j \in 1 .. k PROVE r[j] \in I
    BY <1>5
  <2>2. ASSUME NEW i \in I PROVE \E j \in 1 .. k : r[j] = i
    <3>1. PICK j \in 1 .. k : l[j] = s[i]
      OBVIOUS
    <3>2. r[j] = i
      BY <1>5, <3>1 DEF IsInjective
    <3> QED BY <3>2
  <2> HIDE DEF I
  <2>3. Range(r) = {r[j] : j \in 1 .. k}
    BY <1>5 DEF Range
  <2> QED BY <2>1, <2>2, <2>3
<1> HIDE DEF I
<1>9. r = q
  BY <1>2, <1>6, <1>7, <1>8, SameOrder
<1>10. Subsequence(s, I) = [m \in 1 .. k |-> l[m]]
  <2>1. Subsequence(s, I) = [m \in 1 .. k |-> s[r[m]]]
    <3>1. Subsequence(s, I) = [m \in 1 .. Len(q) |-> s[q[m]]]
      BY <1>2
    <3>2. Len(q) = k
      BY <1>6, <1>9
    <3> QED BY <1>9, <3>1, <3>2
  <2> QED BY <1>5, <2>1
<1>11. SubSeq(l, 1, k) = [m \in 1 .. k |-> l[m]]
  <2>1. PICK u \in Seq(Buffer) : u = SubSeq(l, 1, k) /\ Len(u) = k /\ \A i \in 1 .. k : u[i] = l[i]
    <3> DEFINE U == SubSeq(l, 1, k)
    <3>1. U \in Seq(Buffer) /\ Len(U) = k /\ \A i \in 1 .. k : U[i] = l[i]
      <4>1. CutInto(Buffer, l, k, U, SubSeq(l, k + 1, Len(l)))
        BY Cut
      <4> HIDE DEF U
      <4> QED BY <4>1 DEF CutInto
    <3> HIDE DEF U
    <3>2. \E u \in Seq(Buffer) : u = U /\ Len(u) = k /\ \A i \in 1 .. k : u[i] = l[i]
      BY <3>1
    <3> QED BY <3>2 DEF U
  <2>2. u = [i \in 1 .. k |-> u[i]]
    BY <2>1
  <2> QED BY <2>1, <2>2
<1> QED BY <1>10, <1>11 DEF I

-----------------------------------------------------------------------------
LEMMA InitOrder == Init => Order
<1> SUFFICES ASSUME Init PROVE Order
  OBVIOUS
<1>1. <<>> \in Seq(Buffer) /\ DOMAIN <<>> = {} /\ IsInjective(<<>>)
  BY DEF IsInjective
<1> QED BY <1>1 DEF Init, Order

LEMMA SameListOrder == ASSUME Order, UNCHANGED <<list, count, started>> PROVE Order'
BY DEF Order, Due, Earlier

LEMMA StartTimerFacts ==
  ASSUME IInv, NEW t \in Timer, StartTimer(t)
  PROVE  \E b \in Buffer :
           /\ b \notin Range(list) /\ Insert(b, Ticks(t)) /\ Ticks(t) \in 1 .. Word - 1
           /\ started' = Append(started, b) /\ mbx' = mbx
           /\ list' \in Seq(Buffer) /\ Range(list') = Range(list) \cup {b}
<1>1. PICK b \in Buffer : b = Head(pool) /\ b \in Range(pool)
  BY WithoutFirst DEF IInv, Separate, StartTimer
<1>2. b \notin Range(list)
  BY <1>1 DEF IInv, Separate
<1>3. Insert(b, Ticks(t)) /\ started' = Append(started, b) /\ mbx' = mbx
  BY <1>1 DEF StartTimer
<1>4. Ticks(t) \in 1 .. Word - 1
  BY TimersAssumption
<1>5. list' \in Seq(Buffer) /\ Range(list') = Range(list) \cup {b}
  BY <1>2, <1>3, <1>4, InsertFacts
<1> QED BY <1>2, <1>3, <1>4, <1>5

LEMMA EarlierKept ==
  ASSUME NEW s \in Seq(Buffer), NEW b \in Buffer, NEW x, NEW y
  PROVE  /\ Earlier(s, x, y) => Earlier(Append(s, b), x, y)
         /\ x \in Range(s) => Earlier(Append(s, b), x, b)
<1>1. PICK u : u = Append(s, b)
  OBVIOUS
<1>2. /\ Len(s) \in Nat /\ DOMAIN s = 1 .. Len(s) /\ DOMAIN u = 1 .. Len(s) + 1
      /\ u[Len(s) + 1] = b /\ \A i \in 1 .. Len(s) : u[i] = s[i]
  BY <1>1
<1>3. \A i \in 1 .. Len(s) : i \in DOMAIN u /\ i < Len(s) + 1
  BY <1>2
<1>4. Len(s) + 1 \in DOMAIN u
  BY <1>2
<1>5. ASSUME Earlier(s, x, y) PROVE Earlier(u, x, y)
  <2>1. PICK i, j \in DOMAIN s : i < j /\ s[i] = x /\ s[j] = y
    BY <1>5 DEF Earlier
  <2>2. i \in DOMAIN u /\ j \in DOMAIN u /\ i < j /\ u[i] = x /\ u[j] = y
    BY <1>2, <1>3, <2>1
  <2> QED BY <2>2 DEF Earlier
<1>6. ASSUME x \in Range(s) PROVE Earlier(u, x, b)
  <2>1. PICK i \in DOMAIN s : s[i] = x
    BY <1>6 DEF Range
  <2>2. i \in DOMAIN u /\ i < Len(s) + 1 /\ u[i] = x
    BY <1>2, <1>3, <2>1
  <2> QED BY <1>2, <1>4, <2>2 DEF Earlier
<1> QED BY <1>1, <1>5, <1>6

LEMMA StartTimerOrder ==
  ASSUME IInv, Order, NEW t \in Timer, StartTimer(t) PROVE Order'
<1>1. PICK b \in Buffer :
        /\ b \notin Range(list) /\ Insert(b, Ticks(t)) /\ Ticks(t) \in 1 .. Word - 1
        /\ started' = Append(started, b)
        /\ list' \in Seq(Buffer) /\ Range(list') = Range(list) \cup {b}
  BY StartTimerFacts
<1>2. PICK n \in 1 .. Word - 1 : n = Ticks(t) /\ Insert(b, n)
  BY <1>1
<1>3. PICK k \in 0 .. Len(list) :
        /\ Len(list') = Len(list) + 1
        /\ \A i \in 1 .. k : list'[i] = list[i] /\ Due'[i] = Due[i] /\ Due[i] <= n
        /\ list'[k + 1] = b /\ Due'[k + 1] = n
        /\ \A i \in k + 1 .. Len(list) :
             list'[i + 1] = list[i] /\ Due'[i + 1] = Due[i] /\ Due[i] > n
        /\ k = 0 => count'[b] = n
        /\ k > 0 => count'[list[1]] = count[list[1]]
  <2>1. PICK k \in 0 .. Len(list) : Inserted(b, n, k)
    BY <1>1, <1>2, InsertDue
  <2> QED BY <2>1 DEF Inserted
<1>4. /\ started \in Seq(Buffer) /\ IsInjective(started) /\ Range(started) = Range(list)
      /\ \A i, j \in DOMAIN list :
           i < j /\ Due[i] = Due[j] => Earlier(started, list[i], list[j])
      /\ list # <<>> => count[list[1]] # 0
  BY DEF Order
<1>5. /\ list \in Seq(Buffer) /\ Len(list) \in Nat /\ DOMAIN list = 1 .. Len(list)
      /\ \A i \in 1 .. Len(list) : list[i] \in Range(list)
      /\ \A i \in 1 .. Len(list) : Due[i] \in Nat
      /\ DOMAIN list' = 1 .. Len(list) + 1
  <2>1. /\ list \in Seq(Buffer) /\ Len(list) \in Nat /\ DOMAIN list = 1 .. Len(list)
        /\ \A i \in 1 .. Len(list) : list[i] \in Buffer /\ list[i] \in Range(list)
        /\ \A i \in 0 .. Len(list) : Due[i] \in Nat
    BY ListFacts
  <2>2. \A i \in 1 .. Len(list) : i \in 0 .. Len(list)
    BY <2>1
  <2>3. DOMAIN list' = 1 .. Len(list')
    BY <1>1
  <2> QED BY <1>3, <2>1, <2>2, <2>3
<1>6. started' \in Seq(Buffer) /\ IsInjective(started') /\ Range(started') = Range(list')
  BY <1>1, <1>4, WithLast
<1>7. ASSUME NEW i \in 1 .. Len(list) + 1, NEW j \in 1 .. Len(list) + 1, i < j, Due'[i] = Due'[j]
      PROVE  Earlier(started', list'[i], list'[j])
  <2>0. i \in Int /\ j \in Int /\ k \in Int /\ n \in Int
    BY <1>5
  <2>1. CASE j <= k
    <3>1. i \in 1 .. k /\ j \in 1 .. k /\ i \in 1 .. Len(list) /\ j \in 1 .. Len(list)
      BY <1>5, <1>7, <2>1
    <3>2. Due[i] = Due[j] /\ list'[i] = list[i] /\ list'[j] = list[j]
      BY <1>3, <1>7, <3>1
    <3>3. Earlier(started, list[i], list[j])
      BY <1>4, <1>5, <1>7, <3>1, <3>2
    <3> QED BY <1>1, <1>4, <3>2, <3>3, EarlierKept
  <2>2. CASE j = k + 1
    <3>1. i \in 1 .. k /\ i \in 1 .. Len(list)
      BY <1>5, <1>7, <2>2
    <3>2. list'[i] = list[i] /\ list'[j] = b /\ list[i] \in Range(started)
      BY <1>3, <1>4, <1>5, <2>2, <3>1
    <3> QED BY <1>1, <1>4, <3>2, EarlierKept
  <2>3. CASE j > k + 1
    <3>1. PICK m \in k + 1 .. Len(list) : j = m + 1
      <4>1. j - 1 \in k + 1 .. Len(list) /\ j = (j - 1) + 1
        BY <1>5, <2>0, <2>3
      <4> QED BY <4>1
    <3>2. /\ list'[j] = list[m] /\ Due'[j] = Due[m] /\ Due[m] > n /\ m \in 1 .. Len(list)
          /\ Due[m] \in Int
      BY <1>3, <1>5, <3>1
    <3>3. CASE i <= k
      <4>1. i \in 1 .. k /\ i \in 1 .. Len(list)
        BY <1>5, <3>3
      <4>2. Due'[i] <= n /\ Due'[i] \in Int
        BY <1>3, <1>5, <4>1
      <4> QED BY <1>7, <2>0, <3>2, <4>2
    <3>4. CASE i = k + 1
      BY <1>3, <1>7, <2>0, <3>2, <3>4
    <3>5. CASE i > k + 1
      <4>1. PICK h \in k + 1 .. Len(list) : i = h + 1
        <5>1. i - 1 \in k + 1 .. Len(list) /\ i = (i - 1) + 1
          BY <1>5, <2>0, <3>5
        <5> QED BY <5>1
      <4>2. list'[i] = list[h] /\ Due'[i] = Due[h] /\ h \in 1 .. Len(list) /\ h < m
        BY <1>3, <1>5, <1>7, <3>1, <4>1
      <4>3. Earlier(started, list[h], list[m])
        BY <1>4, <1>5, <1>7, <3>2, <4>2
      <4> QED BY <1>1, <1>4, <3>2, <4>2, <4>3, EarlierKept
    <3> QED BY <2>0, <3>3, <3>4, <3>5
  <2> QED BY <2>0, <2>1, <2>2, <2>3
<1>8. count'[list'[1]] # 0
  <2>1. CASE k = 0
    BY <1>3, <2>1
  <2>2. CASE k > 0
    <3>1. 1 \in 1 .. k /\ list # <<>>
      BY <1>5, <2>2
    <3> QED BY <1>3, <1>4, <2>2, <3>1
  <2>3. k \in Nat
    BY <1>5
  <2> QED BY <2>1, <2>2, <2>3
<1> QED BY <1>5, <1>6, <1>7, <1>8 DEF Order

(* What a tick keeps of the history.                                       *)
LEMMA TickOrder == ASSUME IInv, Order, Tick PROVE Order'
<1>1. PICK k \in 0 .. Len(list) :
        /\ started' = Subsequence(started,
                        {i \in DOMAIN started : \A j \in 1 .. k : list[j] # started[i]})
        /\ Len(list') = Len(list) - k
        /\ \A i \in 1 .. Len(list) - k : list'[i] = list[k + i] /\ Due'[i] = Due[k + i] - 1
        /\ list' # <<>> => count'[list'[1]] # 0
  BY TickDue
<1>2. /\ started \in Seq(Buffer) /\ IsInjective(started) /\ Range(started) = Range(list)
      /\ \A i, j \in DOMAIN list :
           i < j /\ Due[i] = Due[j] => Earlier(started, list[i], list[j])
  BY DEF Order
<1>3. /\ list \in Seq(Buffer) /\ Len(list) \in Nat /\ DOMAIN list = 1 .. Len(list)
      /\ \A i, j \in 1 .. Len(list) : list[i] = list[j] => i = j
      /\ \A i \in 1 .. Len(list) : Due[i] \in Nat
      /\ list' \in Seq(Buffer) /\ DOMAIN list' = 1 .. Len(list) - k
  <2>1. /\ list \in Seq(Buffer) /\ Len(list) \in Nat /\ DOMAIN list = 1 .. Len(list)
        /\ \A i, j \in 1 .. Len(list) : list[i] = list[j] => i = j
        /\ \A i \in 0 .. Len(list) : Due[i] \in Nat
    BY ListFacts
  <2>2. \A i \in 1 .. Len(list) : i \in 0 .. Len(list)
    BY <2>1
  <2>3. list' \in Seq(Buffer)
    BY TickIInv DEF IInv, Separate
  <2>4. DOMAIN list' = 1 .. Len(list')
    BY <2>3
  <2> QED BY <1>1, <2>1, <2>2, <2>3, <2>4
<1> DEFINE I == {i \in DOMAIN started : \A j \in 1 .. k : list[j] # started[i]}
<1>4. IsPart(Subsequence(started, I), started, I)
  BY <1>2, Kept
<1>5. IsPart(started', started, I)
  BY <1>1, <1>4
<1>6. /\ started' \in Seq(Buffer) /\ IsInjective(started')
      /\ Range(started') = {started[i] : i \in I}
      /\ \A i, j \in I : i < j => Earlier(started', started[i], started[j])
  BY <1>5 DEF IsPart
<1>7. ASSUME NEW x \in 1 .. Len(list) - k
      PROVE  /\ k + x \in 1 .. Len(list)
             /\ \A i \in DOMAIN started : started[i] = list[k + x] => i \in I
  <2>1. k + x \in 1 .. Len(list) /\ \A j \in 1 .. k : j \in 1 .. Len(list) /\ j # k + x
    BY <1>3
  <2>2. \A j \in 1 .. k : list[j] # list[k + x]
    BY <1>3, <2>1
  <2> QED BY <2>1, <2>2
<1>8. Range(started') = Range(list')
  <2>1. ASSUME NEW i \in I PROVE started[i] \in Range(list')
    <3>1. started[i] \in Range(list)
      BY <1>2 DEF Range
    <3>2. PICK j \in 1 .. Len(list) : list[j] = started[i]
      BY <1>3, <3>1 DEF Range
    <3>3. j \notin 1 .. k
      BY <3>2
    <3>4. j - k \in 1 .. Len(list) - k /\ k + (j - k) = j
      BY <1>3, <3>3
    <3>5. list'[j - k] = started[i] /\ j - k \in DOMAIN list'
      BY <1>1, <1>3, <3>2, <3>4
    <3> QED BY <3>5 DEF Range
  <2>2. ASSUME NEW x \in 1 .. Len(list) - k PROVE list'[x] \in {started[i] : i \in I}
    <3>1. list'[x] = list[k + x] /\ k + x \in DOMAIN list
      BY <1>1, <1>3, <1>7
    <3>2. list[k + x] \in Range(started)
      BY <1>2, <3>1 DEF Range
    <3>3. PICK i \in DOMAIN started : started[i] = list[k + x]
      BY <3>2 DEF Range
    <3>4. i \in I
      BY <1>7, <3>3
    <3> HIDE DEF I
    <3> QED BY <3>1, <3>3, <3>4
  <2>3. \A z \in Range(list') : \E x \in 1 .. Len(list) - k : list'[x] = z
    BY <1>3 DEF Range
  <2> HIDE DEF I
  <2> QED BY <1>6, <2>1, <2>2, <2>3
<1>9. ASSUME NEW x \in 1 .. Len(list) - k, NEW y \in 1 .. Len(list) - k, x < y, Due'[x] = Due'[y]
      PROVE  Earlier(started', list'[x], list'[y])
  <2>1. PICK a \in Nat, c \in Nat : a = k + x /\ c = k + y
    <3>1. k + x \in Nat /\ k + y \in Nat
      BY <1>3
    <3> QED BY <3>1, Zenon
  <2>2. /\ a \in 1 .. Len(list) /\ c \in 1 .. Len(list) /\ a < c
        /\ list'[x] = list[a] /\ list'[y] = list[c]
        /\ Due'[x] = Due[a] - 1 /\ Due'[y] = Due[c] - 1
    BY <1>1, <1>3, <1>7, <1>9, <2>1
  <2>3. Due[a] = Due[c]
    <3>1. PICK u \in Nat, v \in Nat : u = Due[a] /\ v = Due[c]
      BY <1>3, <2>2
    <3>2. u - 1 = v - 1
      BY <1>9, <2>2, <3>1
    <3>3. u = v
      BY <3>2
    <3> QED BY <3>1, <3>3
  <2>4. Earlier(started, list[a], list[c])
    BY <1>2, <1>3, <2>2, <2>3
  <2>5. PICK i, j \in DOMAIN started : i < j /\ started[i] = list[a] /\ started[j] = list[c]
    BY <2>4 DEF Earlier
  <2>6. i \in I /\ j \in I
    BY <1>7, <2>1, <2>5
  <2> HIDE DEF I
  <2>7. Earlier(started', started[i], started[j])
    BY <1>6, <2>5, <2>6
  <2> QED BY <2>2, <2>5, <2>7
<1> QED BY <1>1, <1>3, <1>6, <1>8, <1>9 DEF Order

LEMMA NextOrder == ASSUME IInv, Order, [Next]_vars PROVE Order'
<1>1. CASE UNCHANGED vars
  <2>1. UNCHANGED <<list, count, started>>
    BY <1>1 DEF vars
  <2> QED BY <2>1, SameListOrder
<1>2. CASE SendMessage \/ Get \/ ClearMessage
  <2>1. UNCHANGED <<list, count, started>>
    BY <1>2 DEF SendMessage, Get, ClearMessage
  <2> QED BY <2>1, SameListOrder
<1>3. ASSUME NEW t \in Timer, StopTimer(t) \/ ResetTimer(t) PROVE Order'
  <2>1. UNCHANGED <<list, count, started>>
    BY <1>3 DEF StopTimer, ResetTimer
  <2> QED BY <2>1, SameListOrder
<1> QED BY <1>1, <1>2, <1>3, StartTimerOrder, TickOrder DEF Next

LEMMA OrderInvariance == Spec => []Order
<1>1. IInv /\ Order /\ [Next]_vars => Order'
  BY NextOrder
<1> QED BY InitOrder, <1>1, Invariance, PTL DEF Spec

-----------------------------------------------------------------------------
(* A is the countdowns of the timers in s, and D the due times of l.       *)
RunningIs(A, D, l, s) ==
  /\ DOMAIN A = DOMAIN s
  /\ \A i \in DOMAIN s : A[i].buf = s[i]
  /\ \A i \in DOMAIN s, j \in DOMAIN l : l[j] = s[i] =>
       A[i] = [buf |-> s[i], left |-> D[j]] /\ A[i].left = D[j]
  /\ \A i \in DOMAIN s : \E j \in DOMAIN l : l[j] = s[i]

LEMMA CountdownFacts ==
  ASSUME NEW l \in Seq(Buffer), IsInjective(l), NEW s \in Seq(Buffer), Range(s) = Range(l), NEW D
  PROVE  RunningIs([i \in DOMAIN s |->
                      [buf |-> s[i], left |-> D[CHOOSE j \in DOMAIN l : l[j] = s[i]]]], D, l, s)
<1> DEFINE at(i) == CHOOSE j \in DOMAIN l : l[j] = s[i]
           A == [i \in DOMAIN s |-> [buf |-> s[i], left |-> D[at(i)]]]
<1>1. ASSUME NEW i \in DOMAIN s, NEW j \in DOMAIN l, l[j] = s[i] PROVE at(i) = j
  <2>1. at(i) \in DOMAIN l /\ l[at(i)] = s[i]
    BY <1>1
  <2> HIDE DEF at
  <2> QED BY <1>1, <2>1 DEF IsInjective
<1>2. ASSUME NEW i \in DOMAIN s PROVE \E j \in DOMAIN l : l[j] = s[i]
  <2>1. s[i] \in Range(l)
    BY DEF Range
  <2> QED BY <2>1 DEF Range
<1>3. RunningIs(A, D, l, s)
  <2> HIDE DEF at
  <2> QED BY <1>1, <1>2 DEF RunningIs
<1> QED BY <1>3

LEMMA RunningFacts == ASSUME IInv, Order PROVE RunningIs(Running, Due, list, started)
BY CountdownFacts DEF IInv, Separate, Order, Running

LEMMA RunningNext == ASSUME IInv', Order' PROVE RunningIs(Running', Due', list', started')
BY CountdownFacts DEF IInv, Separate, Order, Running

LEMMA InitRefines == Init => TS!TInit
<1> SUFFICES ASSUME Init PROVE TS!TInit
  OBVIOUS
<1>1. started = <<>> /\ mbx = <<>>
  BY DEF Init
<1>2. Running = <<>>
  BY <1>1 DEF Running
<1> QED BY <1>1, <1>2 DEF TS!TInit

(* The buffer a timer has is another one than those of running timers, and *)
(* its place in the list leaves their countdowns alone.                    *)
LEMMA StartTimerRefines ==
  ASSUME IInv, Order, NEW t \in Timer, StartTimer(t)
  PROVE  \E b \in Buffer : TS!Arm(b, Ticks(t))
<1>1. PICK b \in Buffer :
        /\ b \notin Range(list) /\ Insert(b, Ticks(t)) /\ Ticks(t) \in 1 .. Word - 1
        /\ started' = Append(started, b) /\ mbx' = mbx
  BY StartTimerFacts
<1>2. PICK n \in 1 .. Word - 1 : n = Ticks(t) /\ Insert(b, n)
  BY <1>1
<1>3. PICK k \in 0 .. Len(list) :
        /\ Len(list') = Len(list) + 1
        /\ \A i \in 1 .. k : list'[i] = list[i] /\ Due'[i] = Due[i]
        /\ list'[k + 1] = b /\ Due'[k + 1] = n
        /\ \A i \in k + 1 .. Len(list) : list'[i + 1] = list[i] /\ Due'[i + 1] = Due[i]
  <2>1. PICK k \in 0 .. Len(list) : Inserted(b, n, k)
    BY <1>1, <1>2, InsertDue
  <2> QED BY <2>1 DEF Inserted
<1>4. IInv' /\ Order'
  BY StartTimerIInv, StartTimerOrder
<1>5. /\ started \in Seq(Buffer) /\ Len(started) \in Nat /\ DOMAIN started = 1 .. Len(started)
      /\ Len(list) \in Nat /\ DOMAIN list = 1 .. Len(list)
      /\ list' \in Seq(Buffer) /\ DOMAIN list' = 1 .. Len(list) + 1
  <2>1. started \in Seq(Buffer) /\ list \in Seq(Buffer) /\ list' \in Seq(Buffer)
    BY <1>4 DEF Order, IInv, Separate
  <2>2. DOMAIN list' = 1 .. Len(list')
    BY <2>1
  <2> QED BY <1>3, <2>1, <2>2
<1>6. /\ DOMAIN started' = 1 .. Len(started) + 1 /\ started'[Len(started) + 1] = b
      /\ \A i \in 1 .. Len(started) : started'[i] = started[i]
  BY <1>1, <1>5
<1>7. /\ DOMAIN Running = DOMAIN started
      /\ \A i \in DOMAIN started, j \in DOMAIN list : list[j] = started[i] =>
           Running[i] = [buf |-> started[i], left |-> Due[j]]
      /\ \A i \in DOMAIN started : \E j \in DOMAIN list : list[j] = started[i]
  BY RunningFacts DEF RunningIs
<1>8. /\ DOMAIN Running' = DOMAIN started'
      /\ \A i \in DOMAIN started', j \in DOMAIN list' : list'[j] = started'[i] =>
           Running'[i] = [buf |-> started'[i], left |-> Due'[j]]
  BY <1>4, RunningNext DEF RunningIs
<1>9. ASSUME NEW i \in DOMAIN started PROVE Running'[i] = Running[i]
  <2>1. PICK j \in DOMAIN list : list[j] = started[i]
    BY <1>7
  <2>2. Running[i] = [buf |-> started[i], left |-> Due[j]]
    BY <1>7, <2>1
  <2>3. i \in DOMAIN started' /\ started'[i] = started[i]
    BY <1>5, <1>6
  <2>4. CASE j <= k
    <3>1. j \in 1 .. k /\ j \in DOMAIN list'
      BY <1>5, <2>4
    <3>2. list'[j] = started'[i] /\ Due'[j] = Due[j]
      BY <1>3, <2>1, <2>3, <3>1
    <3> QED BY <1>8, <2>2, <2>3, <3>1, <3>2
  <2>5. CASE j > k
    <3>1. PICK h \in Nat : h = j + 1
      <4>1. j + 1 \in Nat
        BY <1>5
      <4> QED BY <4>1, Zenon
    <3>2. j \in k + 1 .. Len(list) /\ h \in DOMAIN list'
      BY <1>5, <2>5, <3>1
    <3>3. list'[h] = started'[i] /\ Due'[h] = Due[j]
      BY <1>3, <2>1, <2>3, <3>1, <3>2
    <3> QED BY <1>8, <2>2, <2>3, <3>2, <3>3
  <2>6. j \in Int /\ k \in Int
    BY <1>5
  <2> QED BY <2>4, <2>5, <2>6
<1>10. Running'[Len(started) + 1] = [buf |-> b, left |-> n]
  <2>1. PICK h \in Nat, i \in Nat : h = k + 1 /\ i = Len(started) + 1
    <3>1. k + 1 \in Nat /\ Len(started) + 1 \in Nat
      BY <1>5
    <3> QED BY <3>1, Zenon
  <2>2. h \in DOMAIN list' /\ i \in DOMAIN started'
    BY <1>5, <1>6, <2>1
  <2>3. list'[h] = started'[i] /\ started'[i] = b /\ Due'[h] = n
    BY <1>3, <1>6, <2>1
  <2> QED BY <1>8, <2>1, <2>2, <2>3
<1>11. Running' = Append(Running, [buf |-> b, left |-> n])
  <2>1. PICK x, y, e : x = Running /\ y = Running' /\ e = [buf |-> b, left |-> n]
    OBVIOUS
  <2>2. PICK m \in Nat : m = Len(started)
    BY <1>5
  <2>3. DOMAIN x = 1 .. m /\ DOMAIN y = 1 .. m + 1 /\ y[m + 1] = e /\ \A i \in 1 .. m : y[i] = x[i]
    BY <1>5, <1>6, <1>7, <1>8, <1>9, <1>10, <2>1, <2>2
  <2>4. x = [i \in 1 .. m |-> x[i]] /\ y = [i \in 1 .. m + 1 |-> y[i]]
    <3>1. x = [i \in DOMAIN x |-> x[i]]
      BY <2>1 DEF Running
    <3>2. y = [i \in DOMAIN y |-> y[i]]
      BY <2>1 DEF Running
    <3> QED BY <2>3, <3>1, <3>2
  <2>5. PICK S : e \in S /\ \A i \in 1 .. m : x[i] \in S
    <3>1. /\ e \in {x[h] : h \in 1 .. m} \cup {e}
          /\ \A i \in 1 .. m : x[i] \in {x[h] : h \in 1 .. m} \cup {e}
      OBVIOUS
    <3> QED BY <3>1
  <2>6. x \in Seq(S) /\ Len(x) = m
    <3>1. x \in [1 .. m -> S]
      BY <2>4, <2>5
    <3> QED BY <3>1
  <2>7. Append(x, e) = [i \in 1 .. m + 1 |-> IF i = m + 1 THEN e ELSE x[i]]
    <3>1. PICK z : z = Append(x, e)
      OBVIOUS
    <3>2. /\ z \in Seq(S) /\ Len(z) = m + 1 /\ z[m + 1] = e
          /\ \A i \in 1 .. m : z[i] = x[i]
      BY <2>5, <2>6, <3>1
    <3>3. \A i \in 1 .. m + 1 : i = m + 1 \/ (i # m + 1 /\ i \in 1 .. m)
      OBVIOUS
    <3>4. \A i \in 1 .. m + 1 : z[i] = IF i = m + 1 THEN e ELSE x[i]
      BY <3>2, <3>3
    <3>5. z = [i \in 1 .. m + 1 |-> z[i]]
      BY <3>2
    <3> QED BY <3>1, <3>4, <3>5
  <2>8. \A i \in 1 .. m + 1 : y[i] = IF i = m + 1 THEN e ELSE x[i]
    <3>1. \A i \in 1 .. m + 1 : i = m + 1 \/ i \in 1 .. m
      OBVIOUS
    <3> QED BY <2>3, <3>1
  <2> QED BY <2>1, <2>4, <2>7, <2>8
<1> QED BY <1>1, <1>2, <1>11 DEF TS!Arm

(* A tick posts exactly the timers with one tick left, in the order of     *)
(* their starts, and takes one tick from the others.                       *)
LEMMA TickRefines == ASSUME IInv, Order, Tick PROVE TS!Elapse
<1>1. PICK k \in 0 .. Len(list) :
        /\ mbx' = mbx \o SubSeq(list, 1, k)
        /\ started' = Subsequence(started,
                        {i \in DOMAIN started : \A j \in 1 .. k : list[j] # started[i]})
        /\ \A i \in 1 .. k : Due[i] = 1
        /\ \A i \in k + 1 .. Len(list) : Due[i] > 1
        /\ Len(list') = Len(list) - k
        /\ \A i \in 1 .. Len(list) - k : list'[i] = list[k + i] /\ Due'[i] = Due[k + i] - 1
  BY TickDue
<1>2. /\ started \in Seq(Buffer) /\ IsInjective(started) /\ Range(started) = Range(list)
      /\ \A i, j \in DOMAIN list :
           i < j /\ Due[i] = Due[j] => Earlier(started, list[i], list[j])
  BY DEF Order
<1>3. IInv' /\ Order'
  BY TickIInv, TickOrder
<1>4. /\ Len(started) \in Nat /\ DOMAIN started = 1 .. Len(started)
      /\ list \in Seq(Buffer) /\ IsInjective(list)
      /\ Len(list) \in Nat /\ DOMAIN list = 1 .. Len(list)
      /\ list' \in Seq(Buffer) /\ DOMAIN list' = 1 .. Len(list) - k
  <2>1. list \in Seq(Buffer) /\ IsInjective(list) /\ list' \in Seq(Buffer)
    BY <1>3 DEF IInv, Separate
  <2>2. DOMAIN list' = 1 .. Len(list')
    BY <2>1
  <2> QED BY <1>1, <1>2, <2>1, <2>2
<1>5. /\ DOMAIN Running = DOMAIN started
      /\ \A i \in DOMAIN started : Running[i].buf = started[i]
      /\ \A i \in DOMAIN started, j \in DOMAIN list : list[j] = started[i] =>
           Running[i].left = Due[j]
      /\ \A i \in DOMAIN started : \E j \in DOMAIN list : list[j] = started[i]
  BY RunningFacts DEF RunningIs
<1> DEFINE due  == {i \in DOMAIN Running : Running[i].left = 1}
           I    == {i \in DOMAIN started : \A j \in 1 .. k : list[j] # started[i]}
           part == {i \in DOMAIN started : \E j \in 1 .. k : list[j] = started[i]}
           F    == [i \in DOMAIN Running |->
                      [buf |-> Running[i].buf, left |-> Running[i].left - 1]]
<1>6. ASSUME NEW i \in DOMAIN started
      PROVE  Running[i].left = 1 <=> \E j \in 1 .. k : list[j] = started[i]
  <2>1. PICK j \in DOMAIN list : list[j] = started[i]
    BY <1>5
  <2>2. Running[i].left = Due[j]
    BY <1>5, <2>1
  <2>3. CASE j \in 1 .. k
    BY <1>1, <2>1, <2>2, <2>3
  <2>4. CASE j \notin 1 .. k
    <3>1. j \in k + 1 .. Len(list)
      BY <1>4, <2>4
    <3>2. Due[j] > 1
      BY <1>1, <3>1
    <3>3. Due[j] # 1
      BY <3>2
    <3>4. \A h \in 1 .. k : h \in DOMAIN list /\ h # j
      BY <1>4, <2>4
    <3>5. \A h \in 1 .. k : list[h] # list[j]
      BY <1>4, <3>4 DEF IsInjective
    <3> QED BY <2>1, <2>2, <3>3, <3>5
  <2> QED BY <2>3, <2>4
<1>7. due = part /\ DOMAIN Running \ due = I
  BY <1>5, <1>6
<1>8. mbx' = mbx \o Subsequence([i \in DOMAIN Running |-> Running[i].buf], due)
  <2>1. InOrder(list, started, k)
    <3> SUFFICES ASSUME NEW x \in 1 .. k, NEW y \in 1 .. k, x < y
                 PROVE  Earlier(started, list[x], list[y])
      BY DEF InOrder
    <3>1. x \in DOMAIN list /\ y \in DOMAIN list
      BY <1>4
    <3> QED BY <1>1, <1>2, <3>1
  <2>2. SubSeq(list, 1, k) = Subsequence(started, part)
    BY <1>2, <1>4, <2>1, Selected
  <2>3. [i \in DOMAIN Running |-> Running[i].buf] = started
    <3>1. started = [i \in DOMAIN started |-> started[i]]
      BY <1>2
    <3> QED BY <1>5, <3>1
  <2> HIDE DEF due, part
  <2> QED BY <1>1, <1>7, <2>2, <2>3
<1>9. I \subseteq 1 .. Len(started)
  BY <1>4
<1>10. PICK p \in Seq(Nat) : Lists(p, I)
  <2> HIDE DEF I
  <2> QED BY <1>4, <1>9, Positions
<1>11. /\ Subsequence(F, I) = [m \in 1 .. Len(p) |-> F[p[m]]]
       /\ Subsequence(started, I) = [m \in 1 .. Len(p) |-> started[p[m]]]
       /\ \A m \in 1 .. Len(p) : p[m] \in I
  <2> HIDE DEF I, F
  <2>1. DOMAIN p = 1 .. Len(p)
    OBVIOUS
  <2>2. \A m \in DOMAIN p : p[m] \in Range(p)
    BY DEF Range
  <2> QED BY <1>10, <2>1, <2>2 DEF Lists
<1>12. DOMAIN started' = 1 .. Len(p) /\ \A m \in 1 .. Len(p) : started'[m] = started[p[m]]
  BY <1>1, <1>11
<1>13. ASSUME NEW m \in 1 .. Len(p) PROVE Running'[m] = F[p[m]]
  <2>1. p[m] \in DOMAIN started /\ \A j \in 1 .. k : list[j] # started[p[m]]
    BY <1>11
  <2>2. PICK j \in DOMAIN list : list[j] = started[p[m]]
    BY <1>5, <2>1
  <2>3. j \notin 1 .. k
    BY <2>1, <2>2
  <2>4. PICK x \in 1 .. Len(list) - k : k + x = j
    <3>1. j - k \in 1 .. Len(list) - k /\ k + (j - k) = j
      BY <1>4, <2>3
    <3> QED BY <3>1
  <2>5. x \in DOMAIN list' /\ list'[x] = started'[m] /\ Due'[x] = Due[j] - 1 /\ m \in DOMAIN started'
    BY <1>1, <1>4, <1>12, <2>2, <2>4
  <2>6. Running'[m] = [buf |-> started'[m], left |-> Due'[x]]
    <3>1. RunningIs(Running', Due', list', started')
      BY <1>3, RunningNext
    <3>2. x \in DOMAIN list' /\ m \in DOMAIN started' /\ list'[x] = started'[m]
      BY <2>5
    <3> QED BY <3>1, <3>2 DEF RunningIs
  <2>7. Running[p[m]].left = Due[j] /\ Running[p[m]].buf = started[p[m]]
    BY <1>5, <2>1, <2>2
  <2>8. F[p[m]] = [buf |-> Running[p[m]].buf, left |-> Running[p[m]].left - 1]
    BY <1>5, <2>1
  <2> QED BY <1>12, <2>5, <2>6, <2>7, <2>8
<1>14. Running' = Subsequence(F, I)
  <2>1. Running' = [m \in DOMAIN started' |-> Running'[m]]
    BY DEF Running
  <2> HIDE DEF F, I
  <2> QED BY <1>11, <1>12, <1>13, <2>1
<1>15. Running' = Subsequence(F, DOMAIN Running \ due)
  BY <1>7, <1>14
<1>16. \A s, J : TS!Subsequence(s, J) = Subsequence(s, J)
  BY DEF TS!Subsequence, Subsequence, TS!Cardinality, Cardinality
<1> QED BY <1>8, <1>15, <1>16 DEF TS!Elapse

LEMMA NextRefines == ASSUME IInv, Order, [Next]_vars PROVE [TS!TNext]_(TS!tvars)
<1> SUFFICES ASSUME ~UNCHANGED <<Running, mbx>> PROVE TS!TNext
  BY DEF TS!tvars
<1>1. \/ SendMessage \/ Tick \/ Get
      \/ \E t \in Timer : StartTimer(t)
      \/ UNCHANGED <<list, count, started, mbx>>
  BY DEF Next, vars, StopTimer, ResetTimer, ClearMessage
<1>2. ~UNCHANGED <<list, count, started, mbx>>
  BY DEF Running, Due
<1>3. UNCHANGED <<list, count, started>> => Running' = Running
  BY DEF Running, Due
<1>4. CASE SendMessage
  <2>1. PICK b \in Buffer : b = Head(pool)
    BY <1>4, WithoutFirst DEF IInv, Separate, SendMessage
  <2>2. TS!Send(b)
    BY <1>3, <1>4, <2>1 DEF SendMessage, TS!Send
  <2> QED BY <2>2 DEF TS!TNext
<1>5. CASE Get
  <2>1. TS!Fetch
    BY <1>3, <1>5 DEF Get, TS!Fetch
  <2> QED BY <2>1 DEF TS!TNext
<1>6. CASE Tick
  BY <1>6, TickRefines DEF TS!TNext
<1>7. ASSUME NEW t \in Timer, StartTimer(t) PROVE TS!TNext
  <2>1. PICK b \in Buffer : TS!Arm(b, Ticks(t))
    BY <1>7, StartTimerRefines
  <2> QED BY <2>1 DEF TS!TNext
<1> QED BY <1>1, <1>2, <1>4, <1>5, <1>6, <1>7

(* For any timers, durations and number of buffers the delta list does     *)
(* what CTimer promises: Add and TimerIntHandler (timer.cpp) post every    *)
(* timer at the tick it was started for, timers of the same tick in the    *)
(* order of their starts.                                                  *)
THEOREM Refinement == Spec => ImplementsTimerService
<1>1. IInv /\ Order /\ [Next]_vars => [TS!TNext]_(TS!tvars)
  BY NextRefines
<1> QED
  BY <1>1, InitRefines, Invariance, OrderInvariance, PTL
  DEF Spec, ImplementsTimerService, TS!TSpec
=============================================================================
