---------------------------- MODULE MessagesProofs ----------------------------
(***************************************************************************)
(* For any size classes, formats and parameters, with assertions active or *)
(* not: messages neither lose a buffer nor give one back twice, and a      *)
(* class with as many buffers as there can be messages is never empty when *)
(* a buffer is wanted.  The contents of messages do not matter for this,   *)
(* except that a message grows into a class longer than its own.           *)
(*                                                                         *)
(* Then the contents: every message encodes a sorted list of parameters,   *)
(* every operation does to the cells what ParamLists does to the list, and *)
(* the messages of an automate implement ParamLists.                       *)
(***************************************************************************)
EXTENDS Messages, FiniteSetTheorems, NaturalsInduction, WellFoundedInduction,
        SequenceTheorems, TLAPS

(* Queues of classes: each holds buffers of its own class, once.           *)
Pools ==
  {p \in [Class -> Seq(Buffer)] :
     \A i \in Class : IsInjective(p[i]) /\ \A b \in Range(p[i]) : ClassOf[b] = i}
Free(b, p) == b \in Range(p[ClassOf[b]])

Places ==
  /\ pool \in Pools
  /\ mail \in Seq(Buffer) /\ IsInjective(mail) /\ Len(mail) <= MaxMail
  /\ current \in Buffer \cup {NoBuffer} /\ new \in Buffer \cup {NoBuffer}
  /\ current # NoBuffer => current # new /\ current \notin Range(mail) /\ ~Free(current, pool)
  /\ new # NoBuffer => new \notin Range(mail) /\ ~Free(new, pool)
  /\ \A b \in Range(mail) : ~Free(b, pool)
  /\ \A b \in Buffer : Free(b, pool) \/ b \in Range(mail) \/ b = current \/ b = new

(* The coder's pointers are those of the handler while it has a message.   *)
Pointers ==
  /\ coder = [current |-> coder.current, new |-> coder.new, offset |-> coder.offset]
  /\ current # NoBuffer => coder.current = current
  /\ new # NoBuffer => coder.new = new

HasLength(r) == r = [info |-> r.info, mem |-> r.mem] /\ r.info \in Int

Lengths ==
  /\ coding \in Codings
  /\ msg = [b \in Buffer |-> msg[b]]
  /\ \A b \in Buffer : HasLength(msg[b])

IInv == Places /\ Pointers /\ Lengths /\ EnoughBuffers

-----------------------------------------------------------------------------
(* Sequences without repetitions, and natural numbers.                     *)
LEMMA RangeFacts ==
  ASSUME NEW S, NEW s \in Seq(S)
  PROVE  /\ \A i \in DOMAIN s : s[i] \in Range(s)
         /\ \A x \in Range(s) : \E i \in DOMAIN s : s[i] = x
         /\ Range(s) \subseteq S
         /\ DOMAIN s = 1 .. Len(s) /\ Len(s) \in Nat
BY DEF Range

LEMMA WithoutFirst ==
  ASSUME NEW S, NEW s \in Seq(S), IsInjective(s), s # <<>>
  PROVE  /\ Head(s) \in Range(s) /\ Head(s) \in S
         /\ Tail(s) \in Seq(S) /\ IsInjective(Tail(s)) /\ Len(Tail(s)) = Len(s) - 1
         /\ Range(Tail(s)) = Range(s) \ {Head(s)}
<1>1. /\ Tail(s) \in Seq(S) /\ Head(s) = s[1] /\ s[1] \in S
      /\ 1 \in DOMAIN s /\ DOMAIN s = 1 .. Len(s) /\ Len(s) \in Nat
      /\ DOMAIN Tail(s) = 1 .. Len(s) - 1 /\ Len(Tail(s)) = Len(s) - 1
      /\ \A i \in DOMAIN Tail(s) : i + 1 \in DOMAIN s /\ i + 1 # 1 /\ Tail(s)[i] = s[i + 1]
  OBVIOUS
<1>2. \A i \in DOMAIN s : i # 1 => i - 1 \in DOMAIN Tail(s) /\ Tail(s)[i - 1] = s[i]
  BY <1>1
<1>3. IsInjective(Tail(s))
  <2>1. \A i, j \in DOMAIN Tail(s) : i + 1 = j + 1 => i = j
    BY <1>1
  <2> QED BY <1>1, <2>1 DEF IsInjective
<1>4. ASSUME NEW x \in Range(Tail(s)) PROVE x \in Range(s) /\ x # s[1]
  <2>1. PICK i \in DOMAIN Tail(s) : x = Tail(s)[i]
    BY DEF Range
  <2> QED BY <1>1, <2>1 DEF Range, IsInjective
<1>5. ASSUME NEW x \in Range(s), x # s[1] PROVE x \in Range(Tail(s))
  <2>1. PICK i \in DOMAIN s : x = s[i]
    BY DEF Range
  <2>2. i # 1
    BY <1>5, <2>1
  <2> QED BY <1>2, <2>1, <2>2 DEF Range
<1>6. Head(s) \in Range(s)
  BY <1>1 DEF Range
<1> QED BY <1>1, <1>3, <1>4, <1>5, <1>6

LEMMA WithLast ==
  ASSUME NEW S, NEW s \in Seq(S), IsInjective(s), NEW e \in S, e \notin Range(s)
  PROVE  /\ Append(s, e) \in Seq(S) /\ IsInjective(Append(s, e))
         /\ Len(Append(s, e)) = Len(s) + 1
         /\ Range(Append(s, e)) = Range(s) \cup {e}
<1> DEFINE u == Append(s, e)
<1>1. /\ u \in Seq(S) /\ Len(u) = Len(s) + 1 /\ DOMAIN u = 1 .. Len(s) + 1
      /\ DOMAIN s = 1 .. Len(s) /\ Len(s) \in Nat
      /\ \A i \in DOMAIN s : u[i] = s[i] /\ s[i] \in Range(s)
      /\ u[Len(s) + 1] = e
  BY DEF Range
<1> HIDE DEF u
<1>2. \A i \in DOMAIN u : i \in DOMAIN s \/ i = Len(s) + 1
  BY <1>1
<1>3. \A i \in DOMAIN s : i \in DOMAIN u
  BY <1>1
<1>4. IsInjective(u)
  <2> SUFFICES ASSUME NEW i \in DOMAIN u, NEW j \in DOMAIN u, u[i] = u[j] PROVE i = j
    BY DEF IsInjective
  <2>1. CASE i \in DOMAIN s /\ j \in DOMAIN s
    BY <1>1, <2>1 DEF IsInjective
  <2>2. CASE i = Len(s) + 1 /\ j \in DOMAIN s
    BY <1>1, <2>2
  <2>3. CASE i \in DOMAIN s /\ j = Len(s) + 1
    BY <1>1, <2>3
  <2> QED BY <1>2, <2>1, <2>2, <2>3
<1>5. Range(u) = Range(s) \cup {e}
  <2>1. Len(s) + 1 \in DOMAIN u
    BY <1>1
  <2>2. \A i \in DOMAIN u : u[i] \in Range(s) \cup {e}
    BY <1>1, <1>2
  <2>3. \A i \in DOMAIN s : s[i] \in Range(u)
    BY <1>1, <1>3 DEF Range
  <2>4. e \in Range(u)
    BY <1>1, <2>1 DEF Range
  <2>5. Range(s) \subseteq Range(u)
    BY <2>3 DEF Range
  <2>6. Range(u) \subseteq Range(s) \cup {e}
    BY <2>2 DEF Range
  <2> QED BY <2>4, <2>5, <2>6
<1> QED BY <1>1, <1>4, <1>5 DEF u

LEMMA LeastNatural ==
  ASSUME NEW S, S \subseteq Nat, S # {}
  PROVE  \E k \in S : \A j \in S : k <= j
<1>1. PICK R : IsWellFoundedOn(R, Nat) /\ \A j, k \in Nat : j < k => <<j, k>> \in R
  <2>1. IsWellFoundedOn(OpToRel(<, Nat), Nat)
    BY NatLessThanWellFounded
  <2>2. \A j, k \in Nat : j < k => <<j, k>> \in OpToRel(<, Nat)
    BY DEF OpToRel
  <2> QED BY <2>1, <2>2
<1>2. IsWellFoundedOn(R, Nat)
  BY <1>1
<1>3. PICK k \in S : \A j \in S : ~(<<j, k>> \in R)
  <2>1. \E k \in S : \A j \in S : ~(<<j, k>> \in R)
    BY <1>2, WFMin, Zenon
  <2> QED BY <2>1
<1>4. ASSUME NEW j \in S PROVE k <= j
  <2>1. j \in Nat /\ k \in Nat
    OBVIOUS
  <2>2. ~(j < k)
    BY <1>1, <1>3, <2>1
  <2> QED BY <2>1, <2>2
<1> QED BY <1>4

-----------------------------------------------------------------------------
(* The pool.                                                               *)
LEMMA Classes ==
  /\ NoBuffer \notin Buffer
  /\ \A i \in Class : /\ Stock[i].length \in Nat
                      /\ Stock[i].buffers \in Seq(Buffer) /\ IsInjective(Stock[i].buffers)
                      /\ Range(Stock[i].buffers) \subseteq Buffer
  /\ \A i, j \in Class : i # j => Stock[i].length # Stock[j].length
  /\ \A b \in Buffer : ClassOf[b] \in Class /\ b \in Range(Stock[ClassOf[b]].buffers)
  /\ \A i \in Class : \A b \in Range(Stock[i].buffers) : b \in Buffer /\ ClassOf[b] = i
<1>1. /\ NoBuffer \notin Buffer
      /\ \A i \in Class : IsInjective(Stock[i].buffers)
      /\ \A i, j \in Class : i # j =>
           /\ Stock[i].length # Stock[j].length
           /\ Range(Stock[i].buffers) \cap Range(Stock[j].buffers) = {}
      /\ Stock \in Seq([length : Nat, buffers : Seq(Buffer)])
  BY MessagesAssumption DEF Class
<1>2. ASSUME NEW i \in Class
      PROVE  Stock[i].length \in Nat /\ Stock[i].buffers \in Seq(Buffer)
  <2>1. Stock[i] \in [length : Nat, buffers : Seq(Buffer)]
    <3>1. /\ \A j \in DOMAIN Stock : Stock[j] \in Range(Stock)
          /\ Range(Stock) \subseteq [length : Nat, buffers : Seq(Buffer)]
      BY <1>1, RangeFacts
    <3> QED BY <3>1 DEF Class
  <2> QED BY <2>1
<1>3. \A i \in Class : Range(Stock[i].buffers) \subseteq Buffer
  BY DEF Buffer, Class
<1>4. ASSUME NEW b \in Buffer
      PROVE  ClassOf[b] \in Class /\ b \in Range(Stock[ClassOf[b]].buffers)
  <2>1. \E i \in Class : b \in Range(Stock[i].buffers)
    BY DEF Buffer, Class
  <2>2. ClassOf[b] = CHOOSE i \in Class : b \in Range(Stock[i].buffers)
    BY DEF ClassOf
  <2> QED BY <2>1, <2>2
<1>5. ASSUME NEW i \in Class, NEW b \in Range(Stock[i].buffers)
      PROVE  b \in Buffer /\ ClassOf[b] = i
  <2>1. b \in Buffer
    BY <1>3
  <2> QED BY <1>1, <1>4, <2>1
<1> QED BY <1>1, <1>2, <1>3, <1>4, <1>5

(* The class that serves a request, and the classes before it.             *)
LEMMA SourceFacts ==
  ASSUME NEW p \in Pools, NEW n \in Int
  PROVE  /\ CanGet(n, p) => Source(n, p) \in Serving(n, p)
         /\ Serving(n, p) \subseteq Class
         /\ \A i \in AskedInVain(n, p) : i \in Fitting(n) /\ i \in Class /\ p[i] = <<>>
<1>1. Serving(n, p) \subseteq Class
  BY DEF Serving, Fitting
<1>2. ASSUME NEW i \in AskedInVain(n, p) PROVE i \in Fitting(n) /\ i \in Class /\ p[i] = <<>>
  <2>1. i \in Fitting(n) /\ i \in Class /\ (i \in Serving(n, p) => Shorter(i, i))
    BY DEF AskedInVain, Fitting
  <2>2. ~Shorter(i, i)
    BY <2>1, Classes DEF Shorter
  <2> QED BY <2>1, <2>2 DEF Serving
<1>3. ASSUME CanGet(n, p) PROVE Source(n, p) \in Serving(n, p)
  <2>1. PICK L : L = {Stock[i].length : i \in Serving(n, p)}
    OBVIOUS
  <2>2. L \subseteq Nat /\ L # {}
    BY <1>1, <1>3, <2>1, Classes DEF CanGet
  <2>3. PICK k \in L : \A j \in L : k <= j
    BY <2>2, LeastNatural
  <2>4. PICK i \in Serving(n, p) : k = Stock[i].length
    BY <2>1
  <2>5. ASSUME NEW j \in Serving(n, p) \ {i} PROVE Shorter(i, j)
    <3>1. i \in Class /\ j \in Class /\ i # j
      BY <1>1
    <3>2. Stock[i].length <= Stock[j].length
      BY <2>1, <2>3, <2>4
    <3>3. Stock[i].length # Stock[j].length /\ Stock[i].length \in Nat /\ Stock[j].length \in Nat
      BY <3>1, Classes
    <3> QED BY <3>2, <3>3 DEF Shorter
  <2> QED BY <2>5 DEF Source
<1> QED BY <1>1, <1>2, <1>3

LEMMA Taken ==
  ASSUME NEW p \in Pools, NEW n \in Int, CanGet(n, p)
  PROVE  /\ GetBuffer(n, p) \in Buffer /\ Free(GetBuffer(n, p), p)
         /\ Without(n, p) \in Pools
         /\ \A b \in Buffer : Free(b, Without(n, p)) <=> Free(b, p) /\ b # GetBuffer(n, p)
<1>1. PICK i \in Class : i = Source(n, p) /\ p[i] # <<>>
  <2>1. Source(n, p) \in Serving(n, p)
    BY SourceFacts
  <2> QED BY <2>1 DEF Serving, Fitting
<1>2. /\ p \in [Class -> Seq(Buffer)]
      /\ \A j \in Class : IsInjective(p[j]) /\ \A b \in Range(p[j]) : ClassOf[b] = j
  BY DEF Pools
<1>3. PICK h \in Buffer : h = Head(p[i]) /\ h \in Range(p[i])
  BY <1>1, <1>2, WithoutFirst
<1>4. PICK t \in Seq(Buffer) : t = Tail(p[i]) /\ IsInjective(t) /\ Range(t) = Range(p[i]) \ {h}
  BY <1>1, <1>2, <1>3, WithoutFirst
<1>5. PICK q : q = [p EXCEPT ![i] = t]
  OBVIOUS
<1>6. GetBuffer(n, p) = h /\ Without(n, p) = q
  BY <1>1, <1>3, <1>4, <1>5 DEF GetBuffer, Without
<1>7. q \in [Class -> Seq(Buffer)] /\ q[i] = t /\ \A j \in Class : j # i => q[j] = p[j]
  BY <1>2, <1>5
<1>8. q \in Pools
  <2>1. ASSUME NEW j \in Class
        PROVE  IsInjective(q[j]) /\ \A b \in Range(q[j]) : ClassOf[b] = j
    <3>1. CASE j = i
      BY <1>2, <1>4, <1>7, <3>1
    <3>2. CASE j # i
      BY <1>2, <1>7, <3>2
    <3> QED BY <3>1, <3>2
  <2> QED BY <1>7, <2>1 DEF Pools
<1>9. ASSUME NEW b \in Buffer PROVE Free(b, q) <=> Free(b, p) /\ b # h
  <2>1. ClassOf[h] = i /\ ClassOf[b] \in Class
    BY <1>2, <1>3, Classes
  <2>2. CASE ClassOf[b] = i
    BY <1>4, <1>7, <2>2 DEF Free
  <2>3. CASE ClassOf[b] # i
    BY <1>7, <2>1, <2>3 DEF Free
  <2> QED BY <2>2, <2>3
<1>10. Free(h, p)
  BY <1>2, <1>3 DEF Free
<1> QED BY <1>6, <1>8, <1>9, <1>10

LEMMA Returned ==
  ASSUME NEW p \in Pools, NEW r \in Buffer, ~Free(r, p)
  PROVE  /\ RetBuffer(r, p) \in Pools
         /\ \A b \in Buffer : Free(b, RetBuffer(r, p)) <=> Free(b, p) \/ b = r
         /\ \A i \in Class : RetBuffer(r, p)[i] = <<>> => p[i] = <<>> /\ i # ClassOf[r]
<1>1. PICK i \in Class : i = ClassOf[r]
  BY Classes
<1>2. /\ p \in [Class -> Seq(Buffer)]
      /\ \A j \in Class : IsInjective(p[j]) /\ \A b \in Range(p[j]) : ClassOf[b] = j
  BY DEF Pools
<1>3. r \notin Range(p[i]) /\ p[i] \in Seq(Buffer) /\ IsInjective(p[i])
  BY <1>1, <1>2 DEF Free
<1>4. PICK t \in Seq(Buffer) : t = Append(p[i], r) /\ IsInjective(t) /\ Range(t) = Range(p[i]) \cup {r}
  <2>1. PICK q \in Seq(Buffer) : q = p[i] /\ IsInjective(q) /\ r \notin Range(q)
    BY <1>3
  <2>2. /\ Append(q, r) \in Seq(Buffer) /\ IsInjective(Append(q, r))
        /\ Range(Append(q, r)) = Range(q) \cup {r}
    BY <2>1, WithLast
  <2> QED BY <2>1, <2>2
<1>5. t # <<>>
  BY <1>4 DEF Range
<1>6. PICK q : q = [p EXCEPT ![i] = t]
  OBVIOUS
<1>7. RetBuffer(r, p) = q
  BY <1>1, <1>4, <1>6 DEF RetBuffer
<1>8. q \in [Class -> Seq(Buffer)] /\ q[i] = t /\ \A j \in Class : j # i => q[j] = p[j]
  BY <1>2, <1>6
<1>9. q \in Pools
  <2>1. ASSUME NEW j \in Class
        PROVE  IsInjective(q[j]) /\ \A b \in Range(q[j]) : ClassOf[b] = j
    <3>1. CASE j = i
      BY <1>1, <1>2, <1>4, <1>8, <3>1
    <3>2. CASE j # i
      BY <1>2, <1>8, <3>2
    <3> QED BY <3>1, <3>2
  <2> QED BY <1>8, <2>1 DEF Pools
<1>10. ASSUME NEW b \in Buffer PROVE Free(b, q) <=> Free(b, p) \/ b = r
  <2>1. CASE ClassOf[b] = i
    BY <1>4, <1>8, <2>1 DEF Free
  <2>2. CASE ClassOf[b] # i
    <3>1. ClassOf[b] \in Class /\ b # r
      BY <1>1, <2>2, Classes
    <3> QED BY <1>8, <2>2, <3>1 DEF Free
  <2> QED BY <2>1, <2>2
<1>11. ASSUME NEW j \in Class, q[j] = <<>> PROVE p[j] = <<>> /\ j # i
  BY <1>5, <1>8, <1>11
<1> QED BY <1>1, <1>7, <1>9, <1>10, <1>11

-----------------------------------------------------------------------------
LEMMA UpTo == ASSUME NEW n \in Nat
              PROVE  IsFiniteSet(1 .. n) /\ Cardinality(1 .. n) = n
<1>1. /\ IsFiniteSet(1 .. n)
      /\ Cardinality(1 .. n) = IF 1 > n THEN 0 ELSE n - 1 + 1
  BY FS_Interval
<1> QED BY <1>1

(* A class without free buffers has as many as are used; messages that are *)
(* on their way, the one being processed and one of another class are      *)
(* fewer than an ample class has.                                          *)
LEMMA Counting ==
  ASSUME Places, NEW i \in Class, pool[i] = <<>>,
         \A b \in Buffer : b = new => ClassOf[b] # i
  PROVE  ~Ample(i)
<1> DEFINE M == Range(mail)
           U == M \cup {current}
<1>1. mail \in Seq(Buffer) /\ Len(mail) \in Nat /\ Len(mail) <= MaxMail /\ MaxMail \in Nat
  BY MessagesAssumption DEF Places
<1>2. IsFiniteSet(M) /\ Cardinality(M) \in Nat /\ Cardinality(M) <= Len(mail)
  <2>1. mail \in Surjection(1 .. Len(mail), M)
    <3>1. mail \in [1 .. Len(mail) -> M]
      BY <1>1 DEF Range
    <3>2. \A x \in M : \E k \in 1 .. Len(mail) : mail[k] = x
      BY <1>1, RangeFacts
    <3> QED BY <3>1, <3>2 DEF Surjection
  <2>2. IsFiniteSet(1 .. Len(mail)) /\ Cardinality(1 .. Len(mail)) = Len(mail)
    BY <1>1, UpTo
  <2>3. IsFiniteSet(M) /\ Cardinality(M) <= Cardinality(1 .. Len(mail))
    <3> HIDE DEF M
    <3> QED BY <2>1, <2>2, FS_Surjection
  <2>4. Cardinality(M) \in Nat
    BY <2>3, FS_CardinalityType
  <2> QED BY <2>2, <2>3, <2>4
<1>3. IsFiniteSet(U) /\ Cardinality(U) <= MaxMail + 1
  <2>1. /\ IsFiniteSet(U)
        /\ Cardinality(U) = IF current \in M THEN Cardinality(M) ELSE Cardinality(M) + 1
    <3> HIDE DEF M
    <3> QED BY <1>2, FS_AddElement
  <2>2. PICK m \in Nat : m = Cardinality(M)
    BY <1>2
  <2>3. m <= MaxMail
    BY <1>1, <1>2, <2>2
  <2>4. Cardinality(U) = m \/ Cardinality(U) = m + 1
    BY <2>1, <2>2
  <2> QED BY <1>1, <2>1, <2>3, <2>4
<1>4. Stock[i].buffers \in Seq(Buffer) /\ IsInjective(Stock[i].buffers)
  BY Classes
<1>5. PICK s \in Seq(Buffer) : s = Stock[i].buffers
  BY <1>4
<1>6. \A k \in DOMAIN s : s[k] \in U
  <2> SUFFICES ASSUME NEW k \in DOMAIN s PROVE s[k] \in U
    OBVIOUS
  <2>1. s[k] \in Range(Stock[i].buffers)
    BY <1>5, RangeFacts
  <2>2. PICK b \in Buffer : b = s[k] /\ ClassOf[b] = i
    BY <2>1, Classes
  <2>3. ~Free(b, pool)
    <3>1. Range(<<>>) = {}
      BY DEF Range
    <3> QED BY <2>2, <3>1 DEF Free
  <2>4. b # new
    BY <2>2
  <2>5. b \in Range(mail) \/ b = current
    BY <2>3, <2>4 DEF Places
  <2> QED BY <2>2, <2>5
<1>7. Len(s) <= Cardinality(U)
  <2>1. s \in Injection(1 .. Len(s), U)
    <3>1. s \in [1 .. Len(s) -> U]
      <4> HIDE DEF U
      <4> QED BY <1>6
    <3> QED BY <1>4, <1>5, <3>1 DEF Injection
  <2>2. Len(s) \in Nat
    OBVIOUS
  <2>3. Cardinality(1 .. Len(s)) = Len(s)
    BY <2>2, UpTo
  <2>4. Cardinality(1 .. Len(s)) <= Cardinality(U)
    <3> HIDE DEF U
    <3> QED BY <1>3, <2>1, FS_Injection
  <2> QED BY <2>3, <2>4
<1>8. Cardinality(U) \in Nat
  BY <1>3, FS_CardinalityType
<1>9. Len(s) \in Nat
  OBVIOUS
<1> HIDE DEF U
<1>10. Len(s) < MaxMail + 2
  BY <1>1, <1>3, <1>7, <1>8, <1>9
<1> QED BY <1>1, <1>5, <1>9, <1>10 DEF Ample

(* Asking for a buffer asks no ample class in vain.                        *)
LEMMA AskPool ==
  ASSUME IInv, NEW n \in Int, new # NoBuffer => ClassOf[new] \notin Fitting(n)
  PROVE  \A i \in Class : Ample(i) => i \notin locked \cup AskedInVain(n, pool)
<1> SUFFICES ASSUME NEW i \in Class, Ample(i), i \in AskedInVain(n, pool) PROVE FALSE
  BY DEF IInv, EnoughBuffers
<1>1. pool \in Pools /\ Places
  BY DEF IInv, Places
<1>2. i \in Fitting(n) /\ pool[i] = <<>>
  BY <1>1, SourceFacts
<1>3. \A b \in Buffer : b = new => ClassOf[b] # i
  BY <1>2, Classes
<1> QED BY <1>1, <1>2, <1>3, Counting

LEMMA AskAfterReturn ==
  ASSUME IInv, NEW n \in Int
  PROVE  \A i \in Class : Ample(i) => i \notin locked \cup AskedInVain(n, ReturnNew(pool))
<1> SUFFICES ASSUME NEW i \in Class, Ample(i), i \in AskedInVain(n, ReturnNew(pool)) PROVE FALSE
  BY DEF IInv, EnoughBuffers
<1>1. pool \in Pools /\ Places
  BY DEF IInv, Places
<1>2. CASE new = NoBuffer
  <2>1. pool[i] = <<>>
    BY <1>1, <1>2, SourceFacts DEF ReturnNew
  <2>2. \A b \in Buffer : b # new
    BY <1>2, Classes
  <2> QED BY <1>1, <2>1, <2>2, Counting
<1>3. CASE new # NoBuffer
  <2>1. new \in Buffer /\ ~Free(new, pool)
    BY <1>3 DEF IInv, Places
  <2>2. ReturnNew(pool) = RetBuffer(new, pool) /\ RetBuffer(new, pool) \in Pools
    BY <1>1, <1>3, <2>1, Returned DEF ReturnNew
  <2>3. RetBuffer(new, pool)[i] = <<>>
    BY <2>2, SourceFacts
  <2>4. pool[i] = <<>> /\ i # ClassOf[new]
    BY <1>1, <2>1, <2>3, Returned
  <2> QED BY <1>1, <2>4, Counting
<1> QED BY <1>2, <1>3

-----------------------------------------------------------------------------
LEMMA InitIInv == Init => IInv
<1> SUFFICES ASSUME Init PROVE IInv
  OBVIOUS
<1>1. <<>> \in Seq(Buffer) /\ IsInjective(<<>>) /\ Range(<<>>) = {} /\ Len(<<>>) = 0
  BY DEF IsInjective, Range
<1>2. pool = [i \in Class |-> Stock[i].buffers]
  BY DEF Init
<1>3. pool \in Pools
  <2>1. pool \in [Class -> Seq(Buffer)]
    BY <1>2, Classes
  <2>2. ASSUME NEW i \in Class
        PROVE  IsInjective(pool[i]) /\ \A b \in Range(pool[i]) : ClassOf[b] = i
    <3>1. pool[i] = Stock[i].buffers
      BY <1>2
    <3> QED BY <3>1, Classes
  <2> QED BY <2>1, <2>2 DEF Pools
<1>4. \A b \in Buffer : Free(b, pool)
  <2> SUFFICES ASSUME NEW b \in Buffer PROVE Free(b, pool)
    OBVIOUS
  <2>1. ClassOf[b] \in Class /\ b \in Range(Stock[ClassOf[b]].buffers)
    BY Classes
  <2> QED BY <1>2, <2>1 DEF Free
<1>5. Places
  <2>1. mail = <<>> /\ current = NoBuffer /\ new = NoBuffer /\ MaxMail \in Nat
    BY MessagesAssumption DEF Init
  <2> QED BY <1>1, <1>3, <1>4, <2>1 DEF Places
<1>6. Pointers
  BY DEF Init, Pointers
<1>7. Lengths
  BY DEF Init, Lengths, HasLength, Unwritten, Junk
<1> QED BY <1>5, <1>6, <1>7 DEF IInv, EnoughBuffers, Init

(* What the steps do to messages and their lengths.                        *)
LEMMA Stored ==
  ASSUME Lengths, NEW b \in Buffer, NEW r, HasLength(r),
         msg' = [msg EXCEPT ![b] = r], UNCHANGED coding
  PROVE  Lengths'
<1>1. msg'[b] = r /\ \A a \in Buffer : a # b => msg'[a] = msg[a]
  BY DEF Lengths
<1>2. ASSUME NEW a \in Buffer PROVE HasLength(msg'[a])
  BY <1>1 DEF Lengths
<1>3. msg' = [a \in Buffer |-> msg'[a]]
  BY DEF Lengths
<1> QED BY <1>2, <1>3 DEF Lengths

LEMMA FormatFacts ==
  ASSUME coding \in Codings PROVE coding.header \in Int /\ coding.end \in Int
BY MessagesAssumption DEF Pc16, Pc8

LEMMA Extended ==
  ASSUME coding \in Codings, NEW w, HasLength(w)
  PROVE  /\ HasLength(WithEnd(w))
         /\ \A p \in Param : HasLength(InsertParam(w, p))
<1>1. coding.header \in Int /\ coding.end \in Int
  BY FormatFacts
<1>2. WithEnd(w) = w \/ WithEnd(w) = [info |-> w.info + coding.end,
                                      mem |-> Write(w.mem, w.info, Number(0))]
  BY DEF WithEnd, SetENDOfParams
<1>3. HasLength(WithEnd(w))
  BY <1>1, <1>2 DEF HasLength
<1>4. ASSUME NEW p \in Param PROVE HasLength(InsertParam(w, p))
  <2>1. PICK v : v = WithEnd(w)
    OBVIOUS
  <2>2. PICK place : place = FindParamPlace(w, p.code)
    OBVIOUS
  <2>3. PICK cells : cells = Write(v.mem, place, Number(p.code) \o Number(Len(p.data)) \o p.data
                                                   \o Cells(v.mem, place, v.info - place))
    OBVIOUS
  <2>4. InsertParam(w, p) = [info |-> v.info + Len(p.data) + coding.header, mem |-> cells]
    BY <2>1, <2>2, <2>3 DEF InsertParam
  <2>5. v.info \in Int
    BY <1>3, <2>1 DEF HasLength
  <2>6. Len(p.data) \in Int
    BY MessagesAssumption
  <2>7. v.info + Len(p.data) + coding.header \in Int
    BY <1>1, <2>5, <2>6
  <2> QED BY <2>4, <2>7 DEF HasLength
<1> QED BY <1>3, <1>4

LEMMA CopiedLength ==
  ASSUME Lengths, NEW b \in Buffer
  PROVE  HasLength(Copied(b)) /\ HasLength(Unwritten) /\ msg[b].info \in Int
<1>1. msg[b].info \in Int
  BY DEF Lengths, HasLength
<1> QED BY <1>1 DEF Copied, HasLength, Unwritten, Junk

-----------------------------------------------------------------------------
LEMMA ParseMessageIInv == ASSUME IInv, ParseMessage PROVE IInv'
<1>1. /\ mail # <<>> /\ mail \in Seq(Buffer) /\ IsInjective(mail)
      /\ current' = Head(mail) /\ mail' = Tail(mail) /\ UNCHANGED <<pool, new, coding, msg, locked>>
      /\ coder' = [coder EXCEPT !.current = Head(mail), !.offset = Unknown]
      /\ current = NoBuffer
  BY DEF IInv, Places, ParseMessage
<1>2. PICK h \in Buffer : h = Head(mail) /\ h \in Range(mail)
  BY <1>1, WithoutFirst
<1>3. PICK t \in Seq(Buffer) : /\ t = Tail(mail) /\ IsInjective(t) /\ Len(t) = Len(mail) - 1
                               /\ Range(t) = Range(mail) \ {h}
  BY <1>1, <1>2, WithoutFirst
<1>4. h # NoBuffer /\ MaxMail \in Nat /\ Len(mail) \in Nat
  BY <1>1, MessagesAssumption
<1>5. Len(t) <= MaxMail
  BY <1>3, <1>4 DEF IInv, Places
<1>6. h # new /\ ~Free(h, pool)
  BY <1>2, <1>4 DEF IInv, Places
<1>7. Places'
  <2>1. pool' = pool /\ mail' = t /\ current' = h /\ new' = new
    BY <1>1, <1>2, <1>3
  <2>2. \A b \in Range(t) : ~Free(b, pool)
    BY <1>3 DEF IInv, Places
  <2>3. ASSUME NEW b \in Buffer PROVE Free(b, pool) \/ b \in Range(t) \/ b = h \/ b = new
    <3>1. b # current
      BY <1>1, Classes
    <3>2. Free(b, pool) \/ b \in Range(mail) \/ b = new
      BY <3>1 DEF IInv, Places
    <3> QED BY <1>3, <3>2
  <2>4. h \notin Range(t) /\ (new # NoBuffer => new \notin Range(t) /\ ~Free(new, pool))
    BY <1>3 DEF IInv, Places
  <2>5. pool \in Pools /\ new \in Buffer \cup {NoBuffer}
    BY DEF IInv, Places
  <2> QED BY <1>3, <1>5, <1>6, <2>1, <2>2, <2>3, <2>4, <2>5 DEF Places, Free
<1>8. Pointers'
  BY <1>1 DEF IInv, Pointers
<1>9. Lengths'
  BY <1>1 DEF IInv, Lengths
<1> QED BY <1>1, <1>7, <1>8, <1>9 DEF IInv, EnoughBuffers

LEMMA HaltIInv ==
  ASSUME IInv, NEW n, NEW p, Halt(n, p),
         \A i \in Class : Ample(i) => i \notin locked \cup AskedInVain(n, p)
  PROVE  IInv'
<1>1. /\ UNCHANGED <<coding, pool, msg, current, new, coder, mail>>
      /\ locked' = locked \cup AskedInVain(n, p)
  BY DEF Halt
<1>2. Places'
  BY <1>1 DEF IInv, Places, Free
<1>3. Pointers'
  BY <1>1 DEF IInv, Pointers
<1>4. Lengths'
  BY <1>1 DEF IInv, Lengths
<1> QED BY <1>1, <1>2, <1>3, <1>4 DEF IInv, EnoughBuffers

(* What was under construction is free, and b, which was free, is.         *)
LEMMA PlacesNew ==
  ASSUME Places, NEW b \in Buffer, Free(b, pool) \/ b = new,
         pool' \in Pools, new' = b, UNCHANGED <<current, mail>>,
         \A a \in Buffer : Free(a, pool') <=> (Free(a, pool) \/ a = new) /\ a # b
  PROVE  Places'
<1>1. b # NoBuffer /\ Range(mail) \subseteq Buffer
  BY Classes, RangeFacts DEF Places
<1>2. b \notin Range(mail) /\ (current # NoBuffer => current # b)
  BY <1>1 DEF Places
<1>3. ASSUME NEW a \in Range(mail) PROVE ~Free(a, pool')
  <2>1. a \in Buffer /\ ~Free(a, pool) /\ a # NoBuffer
    BY <1>1, Classes DEF Places
  <2>2. a # new
    BY <2>1 DEF Places
  <2> QED BY <2>1, <2>2
<1>4. current # NoBuffer => current \notin Range(mail) /\ ~Free(current, pool')
  BY DEF Places
<1>5. ~Free(b, pool')
  OBVIOUS
<1>6. \A a \in Buffer : Free(a, pool') \/ a \in Range(mail) \/ a = current \/ a = b
  BY DEF Places
<1>7. PICK q : q = pool'
  OBVIOUS
<1>8. mail \in Seq(Buffer) /\ IsInjective(mail) /\ Len(mail) <= MaxMail
      /\ current \in Buffer \cup {NoBuffer}
  BY DEF Places
<1> QED BY <1>1, <1>2, <1>3, <1>4, <1>5, <1>6, <1>8 DEF Places, Free

LEMMA PrepareNewMessageIInv == ASSUME IInv, PrepareNewMessage PROVE IInv'
<1> DEFINE n == MSG_HEADER_LENGTH
<1>1. n \in Int /\ new = NoBuffer
  BY DEF PrepareNewMessage, MSG_HEADER_LENGTH
<1>2. \A i \in Class : Ample(i) => i \notin locked \cup AskedInVain(n, pool)
  BY <1>1, AskPool
<1>3. CASE CanGet(n, pool)
  <2>1. PICK b \in Buffer : b = GetBuffer(n, pool)
    BY <1>1, <1>3, Taken DEF IInv, Places
  <2>2. /\ Without(n, pool) \in Pools /\ Free(b, pool)
        /\ \A a \in Buffer : Free(a, Without(n, pool)) <=> Free(a, pool) /\ a # b
    BY <1>1, <1>3, <2>1, Taken DEF IInv, Places
  <2>3. /\ new' = b /\ pool' = Without(n, pool) /\ msg' = [msg EXCEPT ![b].info = 0]
        /\ coder' = [coder EXCEPT !.new = b]
        /\ locked' = locked \cup AskedInVain(n, pool)
        /\ UNCHANGED <<coding, current, mail>>
    BY <1>3, <2>1 DEF PrepareNewMessage, SetNewMessage
  <2>4. Places'
    <3>1. \A a \in Buffer : Free(a, pool') <=> (Free(a, pool) \/ a = new) /\ a # b
      BY <1>1, <2>2, <2>3, Classes
    <3> QED BY <2>2, <2>3, <3>1, PlacesNew DEF IInv
  <2>5. Pointers'
    BY <1>1, <2>3 DEF IInv, Pointers
  <2>6. Lengths'
    <3>1. PICK r : r = [msg[b] EXCEPT !.info = 0]
      OBVIOUS
    <3>2. HasLength(r)
      BY <3>1 DEF IInv, Lengths, HasLength
    <3>3. msg' = [msg EXCEPT ![b] = r]
      BY <2>3, <3>1
    <3>4. Lengths
      BY DEF IInv
    <3> QED BY <2>3, <3>2, <3>3, <3>4, Stored
  <2> QED BY <1>2, <2>3, <2>4, <2>5, <2>6 DEF IInv, EnoughBuffers
<1>4. CASE ~CanGet(n, pool)
  <2>1. Halt(n, pool)
    BY <1>4 DEF PrepareNewMessage
  <2> QED BY <1>2, <2>1, HaltIInv
<1> QED BY <1>3, <1>4

LEMMA AddParamIInv == ASSUME IInv, NEW p \in Param, AddParam(p) PROVE IInv'
<1> DEFINE small == IsBufferSmall(new, Len(p.data))
           n     == msg[new].info + MSG_HEADER_LENGTH + Len(p.data) + 10
<1>1. new \in Buffer /\ new # NoBuffer /\ ~Free(new, pool) /\ pool \in Pools
  BY DEF IInv, Places, AddParam
<1>2. Len(p.data) \in Nat
  BY MessagesAssumption
<1>3. n \in Int
  BY <1>1, <1>2, CopiedLength DEF IInv, MSG_HEADER_LENGTH
<1>4. ASSUME small PROVE ClassOf[new] \notin Fitting(n)
  <2>1. PICK k \in Int : k = msg[new].info
    BY <1>1, CopiedLength DEF IInv
  <2>2. PICK l \in Nat : l = Length[new] /\ l = Stock[ClassOf[new]].length
    BY <1>1, Classes DEF Length
  <2>3. PICK s \in Nat : s = Len(p.data)
    BY <1>2
  <2>4. l <= k + MSG_HEADER_LENGTH + s + 8 /\ n = k + MSG_HEADER_LENGTH + s + 10
    BY <1>4, <2>1, <2>2, <2>3 DEF IsBufferSmall
  <2>5. ~(n <= l)
    <3> HIDE DEF n
    <3> QED BY <2>4 DEF MSG_HEADER_LENGTH
  <2>6. ~(n <= Stock[ClassOf[new]].length)
    BY <2>2, <2>5
  <2> QED BY <2>6 DEF Fitting
<1>5. ASSUME small
      PROVE  \A i \in Class : Ample(i) => i \notin locked \cup AskedInVain(n, pool)
  BY <1>3, <1>4, <1>5, AskPool
<1>6. Lengths /\ Places /\ Pointers
  BY DEF IInv
<1>7. \A a \in Buffer : HasLength(msg[a]) => HasLength(InsertParam(msg[a], p))
  BY Extended DEF IInv, Lengths
<1>8. CASE ~small
  <2>1. /\ new' = new /\ pool' = pool /\ UNCHANGED <<coding, current, mail, locked>>
        /\ coder' = [coder EXCEPT !.offset = Unknown]
        /\ msg' = [msg EXCEPT ![coder.new] = InsertParam(@, p)]
    BY <1>8 DEF AddParam
  <2>2. coder.new = new
    BY <1>1 DEF IInv, Pointers
  <2>3. PICK r : r = InsertParam(msg[new], p)
    OBVIOUS
  <2>4. HasLength(r) /\ msg' = [msg EXCEPT ![new] = r]
    BY <1>1, <1>6, <1>7, <2>1, <2>2, <2>3 DEF Lengths
  <2>5. Lengths'
    BY <1>1, <1>6, <2>1, <2>4, Stored
  <2>6. Places'
    BY <1>6, <2>1 DEF Places, Free
  <2>7. Pointers'
    BY <1>6, <2>1 DEF Pointers
  <2> QED BY <2>1, <2>5, <2>6, <2>7 DEF IInv, EnoughBuffers
<1>9. CASE small /\ CanGet(n, pool)
  <2>1. PICK b \in Buffer : b = GetBuffer(n, pool)
    BY <1>1, <1>3, <1>9, Taken
  <2>2. /\ Without(n, pool) \in Pools /\ Free(b, pool)
        /\ \A a \in Buffer : Free(a, Without(n, pool)) <=> Free(a, pool) /\ a # b
    BY <1>1, <1>3, <1>9, <2>1, Taken
  <2>3. PICK left \in Pools : left = Without(n, pool)
    BY <2>2
  <2>4. \A a \in Buffer : Free(a, left) <=> Free(a, pool) /\ a # b
    BY <2>2, <2>3
  <2>5. /\ RetBuffer(new, left) \in Pools
        /\ \A a \in Buffer : Free(a, RetBuffer(new, left)) <=> Free(a, left) \/ a = new
    BY <1>1, <2>4, Returned
  <2>6. PICK grown : grown = [msg EXCEPT ![b] = Copied(new), ![new] = Unwritten]
    OBVIOUS
  <2>7. /\ new' = b /\ pool' = RetBuffer(new, left)
        /\ coder' = [SetNewMessage(b) EXCEPT !.offset = Unknown]
        /\ msg' = [grown EXCEPT ![SetNewMessage(b).new] = InsertParam(@, p)]
        /\ locked' = locked \cup AskedInVain(n, pool)
        /\ UNCHANGED <<coding, current, mail>>
    BY <1>9, <2>1, <2>3, <2>6 DEF AddParam
  <2>8. SetNewMessage(b).new = b
    BY <1>6 DEF Pointers, SetNewMessage
  <2>9. Places'
    <3>1. \A a \in Buffer : Free(a, pool') <=> (Free(a, pool) \/ a = new) /\ a # b
      BY <1>1, <2>2, <2>4, <2>5, <2>7
    <3> QED BY <1>6, <2>2, <2>5, <2>7, <3>1, PlacesNew
  <2>10. Pointers'
    BY <1>6, <2>7 DEF Pointers, SetNewMessage
  <2>11. Lengths'
    <3>1. b # new
      BY <1>1, <2>2
    <3>2. /\ grown = [a \in Buffer |-> grown[a]]
          /\ grown[b] = Copied(new) /\ grown[new] = Unwritten
          /\ \A a \in Buffer : a # b /\ a # new => grown[a] = msg[a]
      BY <1>1, <1>6, <2>6, <3>1 DEF Lengths
    <3>3. HasLength(Copied(new)) /\ HasLength(Unwritten)
      BY <1>1, <1>6, CopiedLength
    <3>4. \A a \in Buffer : HasLength(grown[a])
      BY <1>6, <3>2, <3>3 DEF Lengths
    <3>5. PICK r : r = InsertParam(grown[b], p)
      OBVIOUS
    <3>6. HasLength(r)
      BY <1>6, <3>4, <3>5, Extended DEF Lengths
    <3>7. msg' = [grown EXCEPT ![b] = r]
      BY <2>7, <2>8, <3>5
    <3>8. msg' = [a \in Buffer |-> msg'[a]] /\ msg'[b] = r
          /\ \A a \in Buffer : a # b => msg'[a] = grown[a]
      BY <3>2, <3>7
    <3>9. ASSUME NEW a \in Buffer PROVE HasLength(msg'[a])
      BY <3>4, <3>6, <3>8
    <3> QED BY <1>6, <2>7, <3>8, <3>9 DEF Lengths
  <2> QED BY <1>5, <1>9, <2>7, <2>9, <2>10, <2>11 DEF IInv, EnoughBuffers
<1>10. CASE small /\ ~CanGet(n, pool)
  <2>1. Halt(n, pool)
    BY <1>10 DEF AddParam
  <2> QED BY <1>5, <1>10, <2>1, HaltIInv
<1> QED BY <1>8, <1>9, <1>10

LEMMA RemoveParamIInv == ASSUME IInv, RemoveParam PROVE IInv'
<1>1. /\ new \in Buffer /\ coder.new = new
      /\ msg' = [msg EXCEPT ![coder.new] = WithEnd(@)]
      /\ coder' = [coder EXCEPT !.offset = Unknown]
      /\ UNCHANGED <<coding, pool, current, new, mail, locked>>
  BY DEF IInv, Places, Pointers, RemoveParam
<1>2. PICK r : r = WithEnd(msg[new])
  OBVIOUS
<1>3. msg' = [msg EXCEPT ![new] = r]
  BY <1>1, <1>2
<1>4. HasLength(r)
  BY <1>1, <1>2, Extended DEF IInv, Lengths
<1>5. Lengths
  BY DEF IInv
<1>6. Lengths'
  BY <1>1, <1>3, <1>4, <1>5, Stored
<1>7. Places'
  BY <1>1 DEF IInv, Places, Free
<1>8. Pointers'
  BY <1>1 DEF IInv, Pointers
<1> QED BY <1>1, <1>6, <1>7, <1>8 DEF IInv, EnoughBuffers

LEMMA CopyMessageIInv == ASSUME IInv, CopyMessage PROVE IInv'
<1> DEFINE n == msg[current].info + MSG_HEADER_LENGTH
<1>1. Lengths /\ Places /\ Pointers /\ pool \in Pools /\ current # NoBuffer /\ current \in Buffer
      /\ coder.current = current
  BY DEF IInv, Places, Pointers, CopyMessage
<1>2. n \in Int
  BY <1>1, CopiedLength DEF MSG_HEADER_LENGTH
<1>3. PICK left \in Pools : /\ left = ReturnNew(pool)
                            /\ \A a \in Buffer : Free(a, left) <=> Free(a, pool) \/ a = new
  <2>1. CASE new = NoBuffer
    BY <1>1, <2>1, Classes DEF ReturnNew
  <2>2. CASE new # NoBuffer
    <3>1. new \in Buffer /\ ~Free(new, pool)
      BY <1>1, <2>2 DEF Places
    <3> QED BY <1>1, <2>2, <3>1, Returned DEF ReturnNew
  <2> QED BY <2>1, <2>2
<1>4. \A i \in Class : Ample(i) => i \notin locked \cup AskedInVain(n, left)
  BY <1>2, <1>3, AskAfterReturn
<1>5. CASE CanGet(n, left)
  <2>1. PICK b \in Buffer : b = GetBuffer(n, left)
    BY <1>2, <1>5, Taken
  <2>2. /\ Without(n, left) \in Pools /\ Free(b, left)
        /\ \A a \in Buffer : Free(a, Without(n, left)) <=> Free(a, left) /\ a # b
    BY <1>2, <1>5, <2>1, Taken
  <2>3. /\ new' = b /\ pool' = Without(n, left) /\ coder' = [coder EXCEPT !.new = b]
        /\ msg' = [a \in Buffer |-> CASE a = b -> Copied(current)
                                      [] a = new /\ new # b -> Unwritten
                                      [] OTHER -> msg[a]]
        /\ locked' = locked \cup AskedInVain(n, left)
        /\ UNCHANGED <<coding, current, mail>>
    BY <1>1, <1>3, <1>5, <2>1 DEF CopyMessage, SetNewMessage
  <2>4. Places'
    <3>1. \A a \in Buffer : Free(a, pool') <=> (Free(a, pool) \/ a = new) /\ a # b
      BY <1>3, <2>2, <2>3
    <3>2. Free(b, pool) \/ b = new
      BY <1>3, <2>2
    <3> QED BY <1>1, <2>2, <2>3, <3>1, <3>2, PlacesNew
  <2>5. Pointers'
    BY <1>1, <2>3 DEF Pointers
  <2>6. Lengths'
    <3>1. HasLength(Copied(current)) /\ HasLength(Unwritten) /\ \A a \in Buffer : HasLength(msg[a])
      BY <1>1, CopiedLength DEF Lengths
    <3>2. ASSUME NEW a \in Buffer PROVE HasLength(msg'[a])
      <4>1. msg'[a] = CASE a = b -> Copied(current)
                        [] a = new /\ new # b -> Unwritten
                        [] OTHER -> msg[a]
        BY <2>3
      <4>2. msg'[a] = Copied(current) \/ msg'[a] = Unwritten \/ msg'[a] = msg[a]
        BY <4>1
      <4> QED BY <3>1, <4>2
    <3>3. msg' = [a \in Buffer |-> msg'[a]]
      BY <2>3
    <3> QED BY <1>1, <2>3, <3>2, <3>3 DEF Lengths
  <2> QED BY <1>4, <2>3, <2>4, <2>5, <2>6 DEF IInv, EnoughBuffers
<1>6. CASE ~CanGet(n, left)
  <2>1. Halt(n, left)
    BY <1>3, <1>6 DEF CopyMessage
  <2> QED BY <1>4, <2>1, HaltIInv
<1> QED BY <1>5, <1>6

LEMMA SendMessageIInv == ASSUME IInv, SendMessage PROVE IInv'
<1>1. /\ new \in Buffer /\ new # NoBuffer /\ new \notin Range(mail) /\ ~Free(new, pool)
      /\ mail \in Seq(Buffer) /\ IsInjective(mail) /\ Len(mail) < MaxMail
      /\ mail' = Append(mail, new) /\ new' = NoBuffer
      /\ UNCHANGED <<coding, pool, msg, current, coder, locked>>
      /\ MaxMail \in Nat
  BY MessagesAssumption DEF IInv, Places, SendMessage
<1>2. PICK t \in Seq(Buffer) : /\ t = Append(mail, new) /\ IsInjective(t)
                               /\ Len(t) = Len(mail) + 1 /\ Range(t) = Range(mail) \cup {new}
  <2>1. /\ new \in Buffer /\ new \notin Range(mail)
        /\ mail \in Seq(Buffer) /\ IsInjective(mail)
    BY <1>1
  <2>2. /\ Append(mail, new) \in Seq(Buffer) /\ IsInjective(Append(mail, new))
        /\ Len(Append(mail, new)) = Len(mail) + 1
        /\ Range(Append(mail, new)) = Range(mail) \cup {new}
    BY <2>1, WithLast
  <2> QED BY <2>2
<1>3. Len(t) <= MaxMail
  <2>1. Len(mail) \in Nat
    BY <1>1
  <2> QED BY <1>1, <1>2, <2>1
<1>4. Places'
  <2>1. pool' = pool /\ mail' = t /\ current' = current /\ new' = NoBuffer
    BY <1>1, <1>2
  <2>2. \A b \in Range(t) : ~Free(b, pool)
    BY <1>1, <1>2 DEF IInv, Places
  <2>3. \A b \in Buffer : Free(b, pool) \/ b \in Range(t) \/ b = current
    BY <1>2 DEF IInv, Places
  <2>4. current # NoBuffer => /\ current # new /\ current \notin Range(t)
                              /\ ~Free(current, pool)
    BY <1>2 DEF IInv, Places
  <2>5. pool \in Pools /\ current \in Buffer \cup {NoBuffer}
    BY DEF IInv, Places
  <2> QED BY <1>2, <1>3, <2>1, <2>2, <2>3, <2>4, <2>5 DEF Places, Free
<1>5. Pointers'
  BY <1>1 DEF IInv, Pointers
<1>6. Lengths'
  BY <1>1 DEF IInv, Lengths
<1> QED BY <1>1, <1>4, <1>5, <1>6 DEF IInv, EnoughBuffers

LEMMA ClearMessageIInv == ASSUME IInv, ClearMessage PROVE IInv'
<1>1. /\ current \in Buffer /\ current # NoBuffer /\ current # new
      /\ current \notin Range(mail) /\ ~Free(current, pool) /\ pool \in Pools
      /\ pool' = RetBuffer(current, pool) /\ msg' = [msg EXCEPT ![current] = Unwritten]
      /\ current' = NoBuffer /\ coder' = [coder EXCEPT !.offset = Unknown]
      /\ UNCHANGED <<coding, new, mail, locked>>
  BY DEF IInv, Places, ClearMessage
<1>2. pool' \in Pools /\ \A b \in Buffer : Free(b, pool') <=> Free(b, pool) \/ b = current
  BY <1>1, Returned
<1>3. Places'
  <2>1. ASSUME NEW b \in Range(mail) PROVE ~Free(b, pool')
    <3>1. b \in Buffer /\ ~Free(b, pool) /\ b # current
      BY <1>1, RangeFacts DEF IInv, Places
    <3> QED BY <1>2, <3>1
  <2>2. \A b \in Buffer : Free(b, pool') \/ b \in Range(mail) \/ b = new
    BY <1>2 DEF IInv, Places
  <2>3. new # NoBuffer => new \notin Range(mail) /\ ~Free(new, pool')
    BY <1>1, <1>2 DEF IInv, Places
  <2>4. /\ mail \in Seq(Buffer) /\ IsInjective(mail) /\ Len(mail) <= MaxMail
        /\ new \in Buffer \cup {NoBuffer}
    BY DEF IInv, Places
  <2> QED BY <1>1, <1>2, <2>1, <2>2, <2>3, <2>4 DEF Places, Free
<1>4. Pointers'
  BY <1>1 DEF IInv, Pointers
<1>5. Lengths'
  BY <1>1, Stored, CopiedLength DEF IInv
<1> QED BY <1>1, <1>3, <1>4, <1>5 DEF IInv, EnoughBuffers

(* A search moves only the coder's offset.                                 *)
LEMMA FindIInv == ASSUME IInv, NEW code, NEW start, Find(code, start) PROVE IInv'
<1>1. /\ coder' = [coder EXCEPT !.offset = FindParam(code, start).offset]
      /\ UNCHANGED <<coding, pool, msg, current, new, mail, locked>>
  BY DEF Find
<1>2. Places'
  BY <1>1 DEF IInv, Places, Free
<1>3. Pointers'
  <2>1. PICK o : o = FindParam(code, start).offset
    OBVIOUS
  <2>2. coder' = [coder EXCEPT !.offset = o]
    BY <1>1, <2>1
  <2> QED BY <1>1, <2>2 DEF IInv, Pointers
<1>4. Lengths'
  BY <1>1 DEF IInv, Lengths
<1> QED BY <1>1, <1>2, <1>3, <1>4 DEF IInv, EnoughBuffers

LEMMA NextIInv == ASSUME IInv, [Next]_vars PROVE IInv'
<1>1. CASE ParseMessage
  BY <1>1, ParseMessageIInv
<1>2. CASE PrepareNewMessage
  BY <1>2, PrepareNewMessageIInv
<1>3. CASE CopyMessage
  BY <1>3, CopyMessageIInv
<1>4. CASE SendMessage
  BY <1>4, SendMessageIInv
<1>5. CASE ClearMessage
  BY <1>5, ClearMessageIInv
<1>6. ASSUME NEW p \in Param, AddParam(p) PROVE IInv'
  BY <1>6, AddParamIInv
<1>7. CASE RemoveParam
  BY <1>7, RemoveParamIInv
<1>8. ASSUME NEW code \in ParamCode, GetParam(code) PROVE IInv'
  BY <1>8, FindIInv DEF GetParam
<1>9. ASSUME NEW code \in ParamCode, GetNextParam(code) PROVE IInv'
  BY <1>9, FindIInv DEF GetNextParam
<1>10. CASE UNCHANGED vars
  <2>1. UNCHANGED <<coding, pool, msg, current, new, coder, mail, locked>>
    BY <1>10 DEF vars
  <2>2. Places' /\ Pointers' /\ Lengths'
    BY <2>1 DEF IInv, Places, Free, Pointers, Lengths
  <2> QED BY <2>1, <2>2 DEF IInv, EnoughBuffers
<1> QED BY <1>1, <1>2, <1>3, <1>4, <1>5, <1>6, <1>7, <1>8, <1>9, <1>10 DEF Next

LEMMA Invariance == Spec => []IInv
<1>1. Init => IInv
  BY InitIInv
<1>2. IInv /\ [Next]_vars => IInv'
  BY NextIInv
<1> QED BY <1>1, <1>2, PTL DEF Spec

-----------------------------------------------------------------------------
(* How often a sequence without repetitions holds an element.              *)
LEMMA Occurrences ==
  ASSUME NEW S, NEW s \in Seq(S), IsInjective(s), NEW x
  PROVE  Cardinality({k \in DOMAIN s : s[k] = x}) = IF x \in Range(s) THEN 1 ELSE 0
<1>1. CASE x \in Range(s)
  <2>1. PICK k \in DOMAIN s : s[k] = x
    BY <1>1, RangeFacts
  <2>2. {j \in DOMAIN s : s[j] = x} = {k}
    BY <2>1 DEF IsInjective
  <2> QED BY <1>1, <2>2, FS_Singleton
<1>2. CASE x \notin Range(s)
  <2>1. {j \in DOMAIN s : s[j] = x} = {}
    BY <1>2, RangeFacts
  <2> QED BY <1>2, <2>1, FS_EmptySet
<1> QED BY <1>1, <1>2

LEMMA InOnePlace == IInv => EveryBufferOnce
<1> SUFFICES ASSUME IInv, NEW b \in Buffer
             PROVE  LET free(i) == Cardinality({k \in DOMAIN pool[i] : pool[i][k] = b})
                        used == Cardinality({k \in DOMAIN mail : mail[k] = b})
                                  + (IF current = b THEN 1 ELSE 0) + (IF new = b THEN 1 ELSE 0)
                    IN /\ free(ClassOf[b]) + used = 1
                       /\ \A i \in Class \ {ClassOf[b]} : free(i) = 0
  BY DEF EveryBufferOnce
<1> DEFINE free(i) == Cardinality({k \in DOMAIN pool[i] : pool[i][k] = b})
           sent    == Cardinality({k \in DOMAIN mail : mail[k] = b})
<1>1. \A i \in Class : free(i) = IF b \in Range(pool[i]) THEN 1 ELSE 0
  <2>1. ASSUME NEW i \in Class PROVE pool[i] \in Seq(Buffer) /\ IsInjective(pool[i])
    BY DEF IInv, Places, Pools
  <2> QED BY <2>1, Occurrences
<1>2. sent = IF b \in Range(mail) THEN 1 ELSE 0
  BY Occurrences DEF IInv, Places
<1>3. ClassOf[b] \in Class /\ b # NoBuffer
  BY Classes
<1>4. free(ClassOf[b]) = IF Free(b, pool) THEN 1 ELSE 0
  BY <1>1, <1>3 DEF Free
<1>5. \A i \in Class \ {ClassOf[b]} : free(i) = 0
  BY <1>1 DEF IInv, Places, Pools
<1>6. free(ClassOf[b]) + (sent + (IF current = b THEN 1 ELSE 0) + (IF new = b THEN 1 ELSE 0)) = 1
  <2> HIDE DEF free, sent
  <2>1. CASE Free(b, pool)
    <3>1. b \notin Range(mail) /\ current # b /\ new # b
      BY <1>3, <2>1 DEF IInv, Places
    <3> QED BY <1>2, <1>4, <2>1, <3>1
  <2>2. CASE b \in Range(mail)
    <3>1. ~Free(b, pool) /\ current # b /\ new # b
      BY <1>3, <2>2 DEF IInv, Places
    <3> QED BY <1>2, <1>4, <2>2, <3>1
  <2>3. CASE b = current
    <3>1. ~Free(b, pool) /\ b \notin Range(mail) /\ new # b
      BY <1>3, <2>3 DEF IInv, Places
    <3> QED BY <1>2, <1>4, <2>3, <3>1
  <2>4. CASE b = new
    <3>1. ~Free(b, pool) /\ b \notin Range(mail) /\ current # b
      BY <1>3, <2>4 DEF IInv, Places
    <3> QED BY <1>2, <1>4, <2>4, <3>1
  <2> QED BY <2>1, <2>2, <2>3, <2>4 DEF IInv, Places
<1> QED BY <1>5, <1>6

(* A buffer is free in its own class, processed, under construction or on  *)
(* its way, in one of these places once, whatever the classes, however     *)
(* messages grow and are copied (TBuffers::GetBuffer and RetBuffer).       *)
THEOREM BuffersConserved == Spec => []EveryBufferOnce
<1>1. IInv => EveryBufferOnce
  BY InOnePlace
<1> QED BY Invariance, <1>1, PTL

(* A class with two buffers more than the mailbox holds messages is never  *)
(* found empty: neither the assertion of TBufferQue::Get nor the lock that *)
(* GetFromHead leaves taken (buffersQueue.cpp:137) is met for it.          *)
THEOREM Enough == Spec => []EnoughBuffers
<1>1. IInv => EnoughBuffers
  BY DEF IInv
<1> QED BY Invariance, <1>1, PTL
-----------------------------------------------------------------------------
(* The contents of messages.                                               *)

(* A parameter in the cells from i on.                                     *)
Holds(c, m, i, q) ==
  /\ Cell(m, i) = q.code /\ Cell(m, i + c.width) = Len(q.data)
  /\ \A k \in 1 .. Len(q.data) : Cell(m, i + c.header + k - 1) = q.data[k]

(* The parameters of a list at the offsets o, and the end marker.          *)
Marked(c, m, L, o) ==
  /\ o \in [1 .. Len(L) + 1 -> Nat] /\ o[1] = 0
  /\ \A k \in 1 .. Len(L) : /\ o[k + 1] = o[k] + Len(L[k].data) + c.header
                            /\ Holds(c, m, o[k], L[k])
  /\ Cell(m, o[Len(L) + 1]) = 0

(* The cells written are the first ones of the message.                    *)
Compact(m, n) == /\ \E x \in 0 .. n : DOMAIN m = 0 .. x - 1
                 /\ \A i \in DOMAIN m : m[i] \in Nat \cup {Junk}

Sorted(L) == /\ L \in Seq(Param)
             /\ \A i, j \in 1 .. Len(L) : i <= j => L[i].code <= L[j].code

(* An empty message has no end marker yet, or nothing but one.             *)
Encodes(c, r, L, o) ==
  /\ Sorted(L) /\ r.info \in Nat /\ Compact(r.mem, r.info)
  /\ IF r.info = 0 THEN L = <<>>
     ELSE Marked(c, r.mem, L, o) /\ r.info = o[Len(L) + 1] + c.end

Fits(b) == msg[b].info + MSG_HEADER_LENGTH <= Length[b]

Contents ==
  /\ \A b \in InUse : Fits(b) /\ \E L, o : Encodes(coding, msg[b], L, o)
  /\ \A b \in Buffer : Free(b, pool) => msg[b] = Unwritten
  /\ {coder.current, coder.new} \subseteq Buffer \cup {NoBuffer}

(* A search is where a parameter begins, or at the end marker.             *)
Between(r, i, L, o) ==
  IF r.info = 0 THEN i = 0 ELSE \E k \in 1 .. Len(L) + 1 : i = o[k]
Searching ==
  coder.offset # Unknown =>
    /\ current # NoBuffer
    /\ \A L, o : Encodes(coding, msg[current], L, o) => Between(msg[current], coder.offset, L, o)

LInv == IInv /\ Contents /\ Searching /\ locked \subseteq Class /\ halted \in BOOLEAN

-----------------------------------------------------------------------------
(* Natural numbers, parameters and formats.                                *)
LEMMA Induction ==
  ASSUME NEW S, 0 \in S, \A n \in Nat : n \in S => n + 1 \in S
  PROVE  Nat \subseteq S
<1> SUFFICES ASSUME Nat \ S # {} PROVE FALSE
  OBVIOUS
<1>1. PICK k \in Nat \ S : \A j \in Nat \ S : k <= j
  BY LeastNatural
<1>2. k \in Nat /\ k # 0 /\ k \notin S
  OBVIOUS
<1>3. k - 1 \in Nat /\ ~(k <= k - 1) /\ (k - 1) + 1 = k
  BY <1>2
<1>4. k - 1 \in S
  BY <1>1, <1>3
<1> QED BY <1>2, <1>3, <1>4

LEMMA ParamFacts ==
  ASSUME NEW p \in Param
  PROVE  /\ p.code \in Nat /\ p.code # 0
         /\ p.data \in Seq(Nat) /\ Len(p.data) \in Nat
         /\ p = [code |-> p.code, data |-> p.data]
<1>1. p \in [code : Nat \ {0}, data : Seq(Nat)]
  BY MessagesAssumption
<1>2. p.data \in Seq(Nat)
  BY <1>1
<1> QED BY <1>1, <1>2

LEMMA FormatIs ==
  ASSUME NEW c \in Codings
  PROVE  /\ c.width \in 1 .. 2 /\ c.header = c.width + c.width /\ c.end = 2
         /\ c.header \in Nat /\ c.width \in Nat /\ c.end \in Nat
         /\ (c.width = 1 \/ c.width = 2)
BY MessagesAssumption DEF Pc16, Pc8

LEMMA LeastIs ==
  ASSUME NEW S, S \subseteq Nat, NEW k \in S, \A j \in S : k <= j
  PROVE  Least(S) = k
<1>1. \E i \in S : \A j \in S : i <= j
  OBVIOUS
<1>2. Least(S) \in S /\ \A j \in S : Least(S) <= j
  BY <1>1 DEF Least
<1>3. Least(S) \in Nat /\ k \in Nat /\ Least(S) <= k /\ k <= Least(S)
  BY <1>2
<1> QED BY <1>3

-----------------------------------------------------------------------------
(* The walk over a message.                                                *)
From(f, m, k) ==
  IF Stops(m, k) THEN <<k>> ELSE <<k>> \o f[k + Size(m, k) + coding.header]

LEMMA Advances ==
  ASSUME coding \in Codings, NEW m, NEW n, Compact(m, n), NEW k \in Int
  PROVE  /\ k \notin DOMAIN m => Stops(m, k)
         /\ ~Stops(m, k) => /\ k + Size(m, k) + coding.header \in Int
                            /\ k + 1 <= k + Size(m, k) + coding.header
<1>1. k \notin DOMAIN m => Stops(m, k)
  BY DEF Stops, Code, Cell
<1>2. ASSUME ~Stops(m, k) PROVE Size(m, k) \in Nat
  <2>1. Size(m, k) # Junk
    BY <1>2 DEF Stops
  <2>2. PICK i : i = k + coding.width
    OBVIOUS
  <2>3. Size(m, k) = Cell(m, i)
    BY <2>2 DEF Size
  <2>4. i \in DOMAIN m /\ Size(m, k) = m[i]
    BY <2>1, <2>3 DEF Cell
  <2> QED BY <2>1, <2>4 DEF Compact
<1>3. coding.header \in Nat /\ coding.header >= 1
  BY FormatIs
<1> QED BY <1>1, <1>2, <1>3

LEMMA WalkExists ==
  ASSUME coding \in Codings, NEW m, NEW n, Compact(m, n)
  PROVE  \E f : f = [k \in Int |-> From(f, m, k)]
<1>1. PICK x \in Int : DOMAIN m = 0 .. x - 1 /\ x >= 0
  <2>1. PICK x \in 0 .. n : DOMAIN m = 0 .. x - 1
    BY DEF Compact
  <2> QED BY <2>1
<1> DEFINE Good(f, j) == f = [k \in Int |-> IF k >= x - j THEN From(f, m, k) ELSE <<>>]
           S == {j \in Nat : \E f : Good(f, j)}
<1>2. \A k \in Int : /\ k \notin DOMAIN m => Stops(m, k)
                     /\ ~Stops(m, k) => /\ k + Size(m, k) + coding.header \in Int
                                        /\ k + 1 <= k + Size(m, k) + coding.header
  BY Advances
<1>3. 0 \in S
  <2> DEFINE f == [k \in Int |-> IF k >= x THEN <<k>> ELSE <<>>]
  <2>1. \A k \in Int : k >= x => Stops(m, k)
    BY <1>1, <1>2
  <2>2. \A k \in Int : k >= x => From(f, m, k) = <<k>>
    BY <2>1 DEF From
  <2>3. f = [k \in Int |-> IF k >= x - 0 THEN From(f, m, k) ELSE <<>>]
    <3>1. \A k \in Int : f[k] = IF k >= x - 0 THEN From(f, m, k) ELSE <<>>
      BY <2>2
    <3> QED BY <3>1
  <2> HIDE DEF f
  <2>4. \E g : Good(g, 0)
    BY <2>3
  <2> QED BY <2>4
<1>4. ASSUME NEW j \in Nat, j \in S PROVE j + 1 \in S
  <2>1. PICK f : Good(f, j)
    BY <1>4
  <2> DEFINE g == [k \in Int |-> IF k >= x - (j + 1) THEN From(f, m, k) ELSE <<>>]
  <2>2. \A k \in Int : k >= x - j => f[k] = From(f, m, k)
    BY <2>1
  <2>3. \A k \in Int : k >= x - j => g[k] = From(f, m, k)
    OBVIOUS
  <2>4. ASSUME NEW k \in Int, k >= x - (j + 1) PROVE From(f, m, k) = From(g, m, k)
    <3>1. CASE Stops(m, k)
      BY <3>1 DEF From
    <3>2. CASE ~Stops(m, k)
      <4>1. PICK i \in Int : i = k + Size(m, k) + coding.header /\ k + 1 <= i
        BY <1>2, <3>2
      <4>2. i >= x - j
        BY <2>4, <4>1
      <4>3. f[i] = g[i]
        BY <2>2, <2>3, <4>2
      <4> QED BY <4>1, <4>3 DEF From
    <3> QED BY <3>1, <3>2
  <2>5. Good(g, j + 1)
    <3>1. \A k \in Int : g[k] = IF k >= x - (j + 1) THEN From(g, m, k) ELSE <<>>
      BY <2>4
    <3>2. g = [k \in Int |-> g[k]]
      OBVIOUS
    <3> HIDE DEF g
    <3> QED BY <3>1, <3>2
  <2> HIDE DEF g, Good
  <2>6. \E h : Good(h, j + 1)
    BY <2>5
  <2> QED BY <2>6
<1>5. Nat \subseteq S
  <2> HIDE DEF S
  <2> QED BY <1>3, <1>4, Induction
<1>6. PICK f : Good(f, x)
  <2>1. x \in Nat
    BY <1>1
  <2> QED BY <1>5, <2>1
<1>7. \A k \in Int : k >= 0 => f[k] = From(f, m, k)
  BY <1>1, <1>6
<1> DEFINE g == [k \in Int |-> IF k >= 0 THEN f[k] ELSE <<k>>]
<1>8. ASSUME NEW k \in Int PROVE g[k] = From(g, m, k)
  <2>1. CASE Stops(m, k)
    <3>1. From(g, m, k) = <<k>> /\ From(f, m, k) = <<k>>
      BY <2>1 DEF From
    <3> QED BY <1>7, <3>1
  <2>2. CASE ~Stops(m, k)
    <3>1. k >= 0
      BY <1>1, <1>2, <2>2
    <3>2. PICK i \in Int : i = k + Size(m, k) + coding.header /\ k + 1 <= i
      BY <1>2, <2>2
    <3>3. f[i] = g[i]
      BY <3>1, <3>2
    <3>4. From(g, m, k) = From(f, m, k)
      BY <2>2, <3>2, <3>3 DEF From
    <3> QED BY <1>7, <3>1, <3>4
  <2> QED BY <2>1, <2>2
<1>9. g = [k \in Int |-> From(g, m, k)]
  <2>1. g = [k \in Int |-> g[k]]
    OBVIOUS
  <2> HIDE DEF g
  <2> QED BY <1>8, <2>1
<1> HIDE DEF g
<1> QED BY <1>9

LEMMA WalkStep ==
  ASSUME coding \in Codings, NEW m, NEW n, Compact(m, n), NEW k \in Int
  PROVE  Walk(m, k) = IF Stops(m, k) THEN <<k>>
                      ELSE <<k>> \o Walk(m, k + Size(m, k) + coding.header)
<1> DEFINE W == CHOOSE f : f = [i \in Int |-> From(f, m, i)]
<1>1. \A i : Walk(m, i) = W[i]
  BY DEF Walk, From
<1>2. W = [i \in Int |-> From(W, m, i)]
  BY WalkExists
<1> HIDE DEF W
<1>3. W[k] = From(W, m, k)
  BY <1>2
<1> QED BY <1>1, <1>3 DEF From

(* A walk from the parameter j on sees the offsets from j on.              *)
Sees(w, o, n, j) ==
  /\ w \in Seq(Nat) /\ Len(w) = n + 2 - j
  /\ \A i \in 1 .. n + 2 - j : w[i] = o[j + i - 1]

LEMMA Prefixed ==
  ASSUME NEW n \in Nat, NEW o \in [1 .. n + 1 -> Nat], NEW j \in 1 .. n,
         NEW w, Sees(w, o, n, j + 1)
  PROVE  Sees(<<o[j]>> \o w, o, n, j)
<1>1. w \in Seq(Nat) /\ Len(w) = n + 1 - j /\ \A i \in 1 .. n + 1 - j : w[i] = o[j + i]
  BY DEF Sees
<1>2. PICK e \in Seq(Nat) : e = <<o[j]>> /\ Len(e) = 1 /\ e[1] = o[j]
  <2>1. <<o[j]>> \in Seq(Nat) /\ Len(<<o[j]>>) = 1 /\ <<o[j]>>[1] = o[j]
    OBVIOUS
  <2> QED BY <2>1, Zenon
<1>3. PICK u \in Seq(Nat) : u = e \o w
  <2>1. e \o w \in Seq(Nat)
    BY <1>1, <1>2, ConcatProperties
  <2> QED BY <2>1, Zenon
<1>4. /\ Len(u) = Len(e) + Len(w)
      /\ \A i \in 1 .. Len(e) + Len(w) : u[i] = IF i <= Len(e) THEN e[i] ELSE w[i - Len(e)]
  <2>1. w \in Seq(Nat)
    BY <1>1
  <2>2. /\ Len(e \o w) = Len(e) + Len(w)
        /\ \A i \in 1 .. Len(e) + Len(w) :
             (e \o w)[i] = IF i <= Len(e) THEN e[i] ELSE w[i - Len(e)]
    BY <2>1, ConcatProperties
  <2> QED BY <1>3, <2>2
<1>5. Len(u) = n + 2 - j /\ \A i \in 1 .. n + 2 - j : u[i] = IF i <= 1 THEN e[i] ELSE w[i - 1]
  <2>1. Len(e) = 1 /\ Len(w) = n + 1 - j /\ Len(e) + Len(w) = n + 2 - j
    BY <1>1, <1>2
  <2> QED BY <1>4, <2>1
<1>6. ASSUME NEW i \in 1 .. n + 2 - j PROVE u[i] = o[j + i - 1]
  <2>1. CASE i = 1
    BY <1>2, <1>5, <2>1
  <2>2. CASE i # 1
    <3>1. i - 1 \in 1 .. n + 1 - j /\ ~(i <= 1) /\ j + (i - 1) = j + i - 1
      BY <2>2
    <3> QED BY <1>1, <1>5, <3>1
  <2> QED BY <2>1, <2>2
<1> QED BY <1>2, <1>3, <1>5, <1>6 DEF Sees

LEMMA Stopping ==
  ASSUME NEW c \in Codings, c = coding, NEW L, Sorted(L), NEW m, NEW o, Marked(c, m, L, o)
  PROVE  /\ Stops(m, o[Len(L) + 1])
         /\ \A k \in 1 .. Len(L) : /\ ~Stops(m, o[k]) /\ o[k] \in Nat
                                   /\ Code(m, o[k]) = L[k].code
                                   /\ Size(m, o[k]) = Len(L[k].data)
                                   /\ o[k] + Size(m, o[k]) + c.header = o[k + 1]
<1>1. Stops(m, o[Len(L) + 1])
  BY DEF Marked, Stops, Code
<1>2. ASSUME NEW k \in 1 .. Len(L)
      PROVE  /\ ~Stops(m, o[k]) /\ o[k] \in Nat
             /\ Code(m, o[k]) = L[k].code /\ Size(m, o[k]) = Len(L[k].data)
             /\ o[k] + Size(m, o[k]) + c.header = o[k + 1]
  <2>1. L \in Seq(Param)
    BY DEF Sorted
  <2>2. PICK q \in Param : q = L[k]
    BY <2>1
  <2>3. Cell(m, o[k]) = q.code /\ Cell(m, o[k] + c.width) = Len(q.data)
        /\ o[k + 1] = o[k] + Len(q.data) + c.header /\ o[k] \in Nat
    <3>1. k \in 1 .. Len(L) + 1
      BY <2>1
    <3> QED BY <2>2, <3>1 DEF Marked, Holds
  <2>4. Code(m, o[k]) = q.code /\ Size(m, o[k]) = Len(q.data)
    BY <2>3 DEF Code, Size
  <2>5. q.code \in Nat /\ q.code # 0 /\ Len(q.data) \in Nat
    BY ParamFacts
  <2>6. ~Stops(m, o[k])
    BY <2>4, <2>5 DEF Stops, Junk
  <2> QED BY <2>2, <2>3, <2>4, <2>6
<1> QED BY <1>1, <1>2

LEMMA WalkSees ==
  ASSUME coding \in Codings, NEW r, NEW L, NEW o, Encodes(coding, r, L, o), r.info # 0,
         NEW j \in 1 .. Len(L) + 1
  PROVE  Sees(Walk(r.mem, o[j]), o, Len(L), j)
<1>1. PICK m : m = r.mem
  OBVIOUS
<1>2. Sorted(L) /\ Compact(m, r.info) /\ Marked(coding, m, L, o)
  BY <1>1 DEF Encodes
<1>3. PICK n \in Nat : n = Len(L)
  BY <1>2 DEF Sorted
<1>4. o \in [1 .. n + 1 -> Nat]
  BY <1>2, <1>3 DEF Marked
<1>5. /\ Stops(m, o[n + 1])
      /\ \A k \in 1 .. n : ~Stops(m, o[k]) /\ o[k] + Size(m, o[k]) + coding.header = o[k + 1]
  BY <1>2, <1>3, Stopping
<1>6. ASSUME NEW k \in 1 .. n + 1
      PROVE  Walk(m, o[k]) = IF Stops(m, o[k]) THEN <<o[k]>>
                             ELSE <<o[k]>> \o Walk(m, o[k] + Size(m, o[k]) + coding.header)
  <2>1. o[k] \in Int
    BY <1>4
  <2> QED BY <1>2, <2>1, WalkStep
<1> DEFINE S == {d \in Nat : d <= n => Sees(Walk(m, o[n + 1 - d]), o, n, n + 1 - d)}
<1>7. 0 \in S
  <2>1. n + 1 \in 1 .. n + 1 /\ n + 1 - 0 = n + 1 /\ n + 2 - (n + 1) = 1
    OBVIOUS
  <2>2. Walk(m, o[n + 1]) = <<o[n + 1]>>
    BY <1>5, <1>6, <2>1
  <2>3. /\ o[n + 1] \in Nat /\ <<o[n + 1]>> \in Seq(Nat) /\ Len(<<o[n + 1]>>) = 1
        /\ \A i \in 1 .. 1 : i = 1 /\ <<o[n + 1]>>[i] = o[n + 1] /\ (n + 1) + i - 1 = n + 1
    BY <1>4, <2>1
  <2>4. Sees(<<o[n + 1]>>, o, n, n + 1)
    BY <2>1, <2>3 DEF Sees
  <2> QED BY <2>1, <2>2, <2>4
<1>8. ASSUME NEW d \in Nat, d \in S PROVE d + 1 \in S
  <2> SUFFICES ASSUME d + 1 <= n
               PROVE  Sees(Walk(m, o[n + 1 - (d + 1)]), o, n, n + 1 - (d + 1))
    OBVIOUS
  <2>1. PICK k \in 1 .. n : k = n + 1 - (d + 1) /\ k + 1 = n + 1 - d /\ k \in 1 .. n + 1
    OBVIOUS
  <2>2. Sees(Walk(m, o[k + 1]), o, n, k + 1)
    BY <1>8, <2>1
  <2>3. Walk(m, o[k]) = <<o[k]>> \o Walk(m, o[k + 1])
    BY <1>5, <1>6, <2>1
  <2>4. Sees(<<o[k]>> \o Walk(m, o[k + 1]), o, n, k)
    BY <1>4, <2>2, Prefixed
  <2> QED BY <2>1, <2>3, <2>4
<1>9. Nat \subseteq S
  <2> HIDE DEF S
  <2> QED BY <1>7, <1>8, Induction
<1>10. PICK d \in Nat : d = n + 1 - j /\ d <= n /\ n + 1 - d = j
  <2>1. n + 1 - j \in Nat /\ n + 1 - j <= n /\ n + 1 - (n + 1 - j) = j
    BY <1>3
  <2> QED BY <2>1, Zenon
<1>11. d \in S
  BY <1>9
<1> QED BY <1>1, <1>3, <1>10, <1>11

(* The offsets from the parameter j on, and the end.                       *)
Listed(s, o, n, j) ==
  /\ s \in Seq(Nat) /\ Len(s) = n + 1 - j
  /\ \A i \in 1 .. n + 1 - j : s[i] = o[j + i - 1]

LEMMA Parted ==
  ASSUME NEW n \in Nat, NEW o \in [1 .. n + 1 -> Nat], NEW j \in 1 .. n + 1,
         NEW w, Sees(w, o, n, j)
  PROVE  Listed(Front(w), o, n, j) /\ Last(w) = o[n + 1]
<1>1. w \in Seq(Nat) /\ Len(w) = n + 2 - j /\ \A i \in 1 .. n + 2 - j : w[i] = o[j + i - 1]
  BY DEF Sees
<1>2. n + 2 - j \in 1 .. n + 2 - j /\ j + (n + 2 - j) - 1 = n + 1
  OBVIOUS
<1>3. Last(w) = o[n + 1]
  BY <1>1, <1>2 DEF Last
<1>4. PICK l \in Nat : l = n + 1 - j /\ l = Len(w) - 1 /\ l <= Len(w)
  <2>1. n + 1 - j \in Nat /\ n + 1 - j = Len(w) - 1 /\ n + 1 - j <= Len(w)
    BY <1>1
  <2> QED BY <2>1, Zenon
<1>5. /\ SubSeq(w, 1, l) \in Seq(Nat) /\ Len(SubSeq(w, 1, l)) = l
      /\ \A i \in 1 .. l : SubSeq(w, 1, l)[i] = w[i]
  <2>1. Len(w) \in Nat /\ w \in Seq(Nat) /\ l <= Len(w)
    BY <1>1, <1>4
  <2> QED BY <2>1
<1>6. Front(w) = SubSeq(w, 1, l)
  BY <1>4 DEF Front
<1>7. \A i \in 1 .. n + 1 - j : i \in 1 .. n + 2 - j /\ i \in 1 .. l
  BY <1>4
<1>8. Listed(Front(w), o, n, j)
  BY <1>1, <1>4, <1>5, <1>6, <1>7 DEF Listed
<1> QED BY <1>3, <1>8

LEMMA OffsetsAre ==
  ASSUME coding \in Codings, NEW r, NEW L, NEW o, Encodes(coding, r, L, o), r.info # 0,
         NEW j \in 1 .. Len(L) + 1
  PROVE  /\ Listed(Offsets(r.mem, o[j]), o, Len(L), j)
         /\ Range(Offsets(r.mem, o[j])) = {o[k] : k \in j .. Len(L)}
         /\ Listed(Offsets(r.mem, 0), o, Len(L), 1)
         /\ Range(Offsets(r.mem, 0)) = {o[k] : k \in 1 .. Len(L)}
         /\ End(r.mem) = o[Len(L) + 1]
<1>1. PICK n \in Nat : n = Len(L)
  BY DEF Encodes, Sorted
<1>2. o \in [1 .. n + 1 -> Nat] /\ o[1] = 0 /\ 1 \in 1 .. n + 1
  BY <1>1 DEF Encodes, Marked
<1>3. ASSUME NEW k \in 1 .. n + 1
      PROVE  /\ Listed(Offsets(r.mem, o[k]), o, n, k) /\ Last(Walk(r.mem, o[k])) = o[n + 1]
             /\ Range(Offsets(r.mem, o[k])) = {o[i] : i \in k .. n}
  <2>1. Sees(Walk(r.mem, o[k]), o, n, k)
    BY <1>1, WalkSees
  <2>2. Listed(Offsets(r.mem, o[k]), o, n, k) /\ Last(Walk(r.mem, o[k])) = o[n + 1]
    BY <1>2, <2>1, Parted DEF Offsets
  <2>3. PICK s : s = Offsets(r.mem, o[k])
    OBVIOUS
  <2>4. DOMAIN s = 1 .. n + 1 - k /\ \A i \in 1 .. n + 1 - k : s[i] = o[k + i - 1]
    BY <2>2, <2>3 DEF Listed
  <2>5. \A i \in 1 .. n + 1 - k : k + i - 1 \in k .. n
    OBVIOUS
  <2>6. ASSUME NEW i \in k .. n PROVE o[i] \in Range(s)
    <3>1. i - k + 1 \in 1 .. n + 1 - k /\ k + (i - k + 1) - 1 = i
      OBVIOUS
    <3>2. s[i - k + 1] = o[i] /\ i - k + 1 \in DOMAIN s
      BY <2>4, <3>1
    <3> QED BY <3>2 DEF Range
  <2>7. ASSUME NEW y \in Range(s) PROVE y \in {o[i] : i \in k .. n}
    <3>1. PICK i \in 1 .. n + 1 - k : y = s[i]
      BY <2>4 DEF Range
    <3> QED BY <2>4, <2>5, <3>1
  <2>8. Range(s) = {o[i] : i \in k .. n}
    BY <2>6, <2>7
  <2> QED BY <2>2, <2>3, <2>8
<1>4. j \in 1 .. n + 1
  BY <1>1
<1> QED BY <1>1, <1>2, <1>3, <1>4 DEF End

-----------------------------------------------------------------------------
(* What is read from a message.                                            *)
LEMMA Ordered ==
  ASSUME NEW c \in Codings, NEW L, Sorted(L), NEW m, NEW o, Marked(c, m, L, o)
  PROVE  \A j \in 1 .. Len(L) + 1 : \A i \in 1 .. j : o[i] <= o[j] /\ (i # j => o[i] < o[j])
<1>1. PICK n \in Nat : n = Len(L)
  BY DEF Sorted
<1>2. o \in [1 .. n + 1 -> Nat]
  BY <1>1 DEF Marked
<1>3. ASSUME NEW k \in 1 .. n PROVE o[k] < o[k + 1]
  <2>1. PICK q \in Param : q = L[k]
    BY <1>1 DEF Sorted
  <2>2. o[k + 1] = o[k] + Len(q.data) + c.header
    BY <1>1, <2>1 DEF Marked
  <2>3. Len(q.data) \in Nat /\ c.header \in Nat /\ c.header >= 1
    <3>1. PICK w \in Nat : w >= 1 /\ c.header = w + w
      BY FormatIs
    <3> QED BY <3>1, ParamFacts
  <2>4. o[k] \in Nat
    <3>1. k \in 1 .. n + 1
      OBVIOUS
    <3> QED BY <1>2, <3>1
  <2> QED BY <2>2, <2>3, <2>4
<1> DEFINE S == {j \in Nat : j + 1 <= n + 1 => \A i \in 1 .. j + 1 :
                   o[i] <= o[j + 1] /\ (i # j + 1 => o[i] < o[j + 1])}
<1>4. 0 \in S
  <2>1. \A i \in 1 .. 0 + 1 : i = 0 + 1
    OBVIOUS
  <2>2. 0 + 1 = 1 /\ 1 \in 1 .. n + 1 /\ o[1] \in Nat
    BY <1>2
  <2> QED BY <2>1, <2>2
<1>5. ASSUME NEW j \in Nat, j \in S PROVE j + 1 \in S
  <2> SUFFICES ASSUME (j + 1) + 1 <= n + 1, NEW i \in 1 .. (j + 1) + 1
               PROVE  o[i] <= o[(j + 1) + 1] /\ (i # (j + 1) + 1 => o[i] < o[(j + 1) + 1])
    OBVIOUS
  <2>1. j + 1 \in 1 .. n /\ o[j + 1] < o[(j + 1) + 1]
    BY <1>3
  <2>2. o[j + 1] \in Nat /\ o[(j + 1) + 1] \in Nat /\ o[i] \in Nat
    <3>1. j + 1 \in 1 .. n + 1 /\ (j + 1) + 1 \in 1 .. n + 1 /\ i \in 1 .. n + 1
      BY <2>1
    <3> QED BY <1>2, <3>1
  <2>3. CASE i = (j + 1) + 1
    BY <2>2, <2>3
  <2>4. CASE i # (j + 1) + 1
    <3>1. i \in 1 .. j + 1 /\ j + 1 <= n + 1
      BY <2>1, <2>4
    <3>2. o[i] <= o[j + 1]
      BY <1>5, <3>1
    <3> QED BY <2>1, <2>2, <3>2
  <2> QED BY <2>3, <2>4
<1>6. Nat \subseteq S
  <2> HIDE DEF S
  <2> QED BY <1>4, <1>5, Induction
<1>7. ASSUME NEW j \in 1 .. n + 1
      PROVE  \A i \in 1 .. j : o[i] <= o[j] /\ (i # j => o[i] < o[j])
  <2>1. j - 1 \in Nat /\ (j - 1) + 1 = j /\ j <= n + 1
    OBVIOUS
  <2>2. j - 1 \in S
    BY <1>6, <2>1
  <2> QED BY <2>1, <2>2
<1> QED BY <1>1, <1>7

LEMMA ReadAt ==
  ASSUME coding \in Codings, NEW m, NEW i, NEW q \in Param, Holds(coding, m, i, q)
  PROVE  ParamAt(m, i) = q
<1>1. q.data \in Seq(Nat) /\ Len(q.data) \in Nat /\ q = [code |-> q.code, data |-> q.data]
  BY ParamFacts
<1>2. Code(m, i) = q.code /\ Size(m, i) = Len(q.data)
  BY DEF Holds, Code, Size
<1>3. PICK d \in Seq(Nat) : d = q.data
  BY <1>1
<1>4. Cells(m, i + coding.header, Len(d)) = d
  <2>1. \A k \in 1 .. Len(d) : Cell(m, i + coding.header + k - 1) = d[k]
    BY <1>3 DEF Holds
  <2>2. d = [k \in 1 .. Len(d) |-> d[k]]
    OBVIOUS
  <2>3. Cells(m, i + coding.header, Len(d)) = [k \in 1 .. Len(d) |-> d[k]]
    BY <2>1 DEF Cells
  <2> QED BY <2>2, <2>3
<1> QED BY <1>1, <1>2, <1>3, <1>4 DEF ParamAt

ListFacts ==
  \A b \in Buffer : \A L, o : coding \in Codings /\ Encodes(coding, msg[b], L, o) => List(b) = L

LEMMA ListIs == ListFacts
<1> SUFFICES ASSUME NEW b \in Buffer, NEW L, NEW o,
                    coding \in Codings, Encodes(coding, msg[b], L, o)
             PROVE  List(b) = L
  BY DEF ListFacts
<1>1. b # NoBuffer
  BY Classes
<1>2. PICK r : r = msg[b]
  OBVIOUS
<1>3. CASE r.info = 0
  BY <1>1, <1>2, <1>3 DEF List, Encodes
<1>4. CASE r.info # 0
  <2>1. L \in Seq(Param) /\ Encodes(coding, r, L, o) /\ Marked(coding, r.mem, L, o)
    BY <1>2, <1>4 DEF Encodes, Sorted
  <2>2. PICK n \in Nat : n = Len(L)
    BY <2>1
  <2>3. PICK s : s = Offsets(r.mem, 0)
    OBVIOUS
  <2>4. Listed(s, o, n, 1)
    <3>1. 1 \in 1 .. Len(L) + 1
      BY <2>2
    <3> QED BY <1>4, <2>1, <2>2, <2>3, <3>1, OffsetsAre
  <2>5. DOMAIN s = 1 .. n /\ \A k \in 1 .. n : s[k] = o[k]
    BY <2>4 DEF Listed
  <2>6. ASSUME NEW k \in 1 .. n PROVE ParamAt(r.mem, o[k]) = L[k]
    <3>1. PICK q \in Param : q = L[k]
      BY <2>1, <2>2
    <3>2. Holds(coding, r.mem, o[k], q)
      BY <2>1, <2>2, <3>1 DEF Marked
    <3> QED BY <3>1, <3>2, ReadAt
  <2>7. List(b) = [k \in DOMAIN s |-> ParamAt(r.mem, s[k])]
    BY <1>1, <1>2, <1>4, <2>3 DEF List
  <2>8. List(b) = [k \in 1 .. n |-> L[k]]
    BY <2>5, <2>6, <2>7
  <2>9. L = [k \in 1 .. n |-> L[k]]
    BY <2>1, <2>2
  <2> QED BY <2>8, <2>9
<1> QED BY <1>3, <1>4

PassedFacts ==
  \A L, o : \A k \in 1 .. Len(L) + 1 :
    /\ coding \in Codings /\ Encodes(coding, msg[current], L, o)
    /\ IF msg[current].info = 0 THEN k = 1 ELSE coder.offset = o[k]
    => Passed = k - 1

LEMMA PassedIs == PassedFacts
<1> SUFFICES ASSUME NEW L, NEW o, NEW k \in 1 .. Len(L) + 1,
                    coding \in Codings, Encodes(coding, msg[current], L, o),
                    IF msg[current].info = 0 THEN k = 1 ELSE coder.offset = o[k]
             PROVE  Passed = k - 1
  BY DEF PassedFacts
<1>1. PICK r : r = msg[current]
  OBVIOUS
<1>2. CASE r.info = 0
  BY <1>1, <1>2 DEF Passed
<1>3. CASE r.info # 0
  <2>1. L \in Seq(Param) /\ Encodes(coding, r, L, o) /\ Marked(coding, r.mem, L, o) /\ Sorted(L)
    BY <1>1, <1>3 DEF Encodes, Sorted
  <2>2. PICK n \in Nat : n = Len(L)
    BY <2>1
  <2>3. PICK s : s = Offsets(r.mem, 0)
    OBVIOUS
  <2>4. Listed(s, o, n, 1)
    <3>1. 1 \in 1 .. Len(L) + 1
      BY <2>2
    <3> QED BY <1>3, <2>1, <2>2, <2>3, <3>1, OffsetsAre
  <2>5. DOMAIN s = 1 .. n /\ \A i \in 1 .. n : s[i] = o[i]
    BY <2>4 DEF Listed
  <2>6. coder.offset = o[k] /\ k \in 1 .. n + 1
    BY <1>1, <1>3, <2>2
  <2>7. /\ o \in [1 .. n + 1 -> Nat]
        /\ \A j \in 1 .. n + 1 : \A i \in 1 .. j : o[i] <= o[j] /\ (i # j => o[i] < o[j])
    <3>1. o \in [1 .. n + 1 -> Nat]
      BY <2>1, <2>2 DEF Marked
    <3>2. \A j \in 1 .. n + 1 : \A i \in 1 .. j : o[i] <= o[j] /\ (i # j => o[i] < o[j])
      BY <2>1, <2>2, Ordered
    <3> QED BY <3>1, <3>2
  <2>8. {i \in DOMAIN s : s[i] < coder.offset} = 1 .. k - 1
    <3>1. ASSUME NEW i \in DOMAIN s, s[i] < coder.offset PROVE i \in 1 .. k - 1
      <4>1. i \in 1 .. n /\ o[i] < o[k] /\ i \in 1 .. n + 1
        BY <2>5, <2>6, <3>1
      <4>2. ~(o[k] <= o[i])
        BY <2>6, <2>7, <4>1
      <4>3. ~(k <= i)
        BY <2>6, <2>7, <4>1, <4>2
      <4> QED BY <2>6, <4>1, <4>3
    <3>2. ASSUME NEW i \in 1 .. k - 1 PROVE i \in DOMAIN s /\ s[i] < coder.offset
      <4>1. i \in 1 .. n /\ i \in 1 .. k /\ i # k
        BY <2>6
      <4> QED BY <2>5, <2>6, <2>7, <4>1
    <3> QED BY <3>1, <3>2
  <2>9. Cardinality(1 .. k - 1) = k - 1
    BY <2>6, UpTo
  <2> QED BY <1>1, <1>3, <2>3, <2>8, <2>9 DEF Passed
<1> QED BY <1>2, <1>3

-----------------------------------------------------------------------------
(* A search.                                                               *)
Missing(L, code, j, n)    == \A t \in j .. n : L[t].code # code
FirstAt(L, code, j, n, t) == /\ t \in j .. n /\ L[t].code = code
                             /\ \A u \in j .. n : L[u].code = code => t <= u
Result(f, L, o, code, j) ==
  /\ Missing(L, code, j, Len(L)) => f = [at |-> NoParam, offset |-> 0]
  /\ \A t : FirstAt(L, code, j, Len(L), t) => f = [at |-> o[t], offset |-> o[t + 1]]

LEMMA Finding ==
  ASSUME coding \in Codings, NEW L, NEW o, NEW code, Encodes(coding, msg[coder.current], L, o),
         msg[coder.current].info # 0, NEW j \in 1 .. Len(L) + 1
  PROVE  Result(FindParam(code, o[j]), L, o, code, j)
<1> DEFINE m    == msg[coder.current].mem
           hits == {i \in Range(Offsets(m, o[j])) : Code(m, i) = code}
<1>1. PICK n \in Nat : n = Len(L)
  BY DEF Encodes, Sorted
<1>2. Sorted(L) /\ Marked(coding, m, L, o)
  BY DEF Encodes
<1>3. Range(Offsets(m, o[j])) = {o[k] : k \in j .. n}
  BY <1>1, OffsetsAre
<1>4. \A k \in 1 .. n : /\ o[k] \in Nat /\ Code(m, o[k]) = L[k].code
                        /\ o[k] + Size(m, o[k]) + coding.header = o[k + 1]
  BY <1>1, <1>2, Stopping
<1>5. \A k \in j .. n : k \in 1 .. n
  OBVIOUS
<1>6. FindParam(code, o[j]) =
        IF hits = {} THEN [at |-> NoParam, offset |-> 0]
        ELSE [at |-> Least(hits), offset |-> Least(hits) + Size(m, Least(hits)) + coding.header]
  BY DEF FindParam
<1>7. ASSUME \A t \in j .. n : L[t].code # code PROVE hits = {}
  BY <1>3, <1>4, <1>5, <1>7
<1>8. ASSUME NEW t \in j .. n, L[t].code = code, \A u \in j .. n : L[u].code = code => t <= u
      PROVE  FindParam(code, o[j]) = [at |-> o[t], offset |-> o[t + 1]]
  <2>1. o[t] \in hits /\ hits \subseteq Nat
    BY <1>3, <1>4, <1>5, <1>8
  <2>2. ASSUME NEW i \in hits PROVE o[t] <= i
    <3>1. PICK u \in j .. n : i = o[u] /\ Code(m, i) = code
      BY <1>3
    <3>2. u \in 1 .. n + 1 /\ t \in 1 .. u
      BY <1>4, <1>5, <1>8, <3>1
    <3> QED BY <1>1, <1>2, <3>1, <3>2, Ordered
  <2>3. Least(hits) = o[t]
    <3> HIDE DEF hits
    <3> QED BY <2>1, <2>2, LeastIs
  <2>4. hits # {} /\ o[t] + Size(m, o[t]) + coding.header = o[t + 1]
    BY <1>4, <1>5, <2>1
  <2> HIDE DEF hits, m
  <2> QED BY <1>6, <2>3, <2>4
<1> HIDE DEF hits, m
<1>9. PICK f : f = FindParam(code, o[j])
  OBVIOUS
<1>10. ASSUME Missing(L, code, j, n) PROVE f = [at |-> NoParam, offset |-> 0]
  BY <1>6, <1>7, <1>9, <1>10 DEF Missing
<1>11. ASSUME NEW t, FirstAt(L, code, j, n, t) PROVE f = [at |-> o[t], offset |-> o[t + 1]]
  BY <1>8, <1>9, <1>11 DEF FirstAt
<1> QED BY <1>1, <1>9, <1>10, <1>11 DEF Result

LEMMA Placing ==
  ASSUME coding \in Codings, NEW w, NEW L, NEW o, NEW code, Encodes(coding, WithEnd(w), L, o),
         WithEnd(w).info # 0, NEW k \in 0 .. Len(L),
         \A i \in 1 .. Len(L) : ~(L[i].code > code) <=> i <= k
  PROVE  FindParamPlace(w, code) = o[k + 1]
<1> DEFINE m     == WithEnd(w).mem
           after == {i \in Range(Offsets(m, 0)) : Code(m, i) > code}
<1>1. PICK n \in Nat : n = Len(L)
  BY DEF Encodes, Sorted
<1>2. Sorted(L) /\ Marked(coding, m, L, o)
  BY DEF Encodes
<1>3. Range(Offsets(m, 0)) = {o[i] : i \in 1 .. n} /\ End(m) = o[n + 1]
  <2>1. 1 \in 1 .. Len(L) + 1
    BY <1>1
  <2>2. PICK r : r = WithEnd(w) /\ r.mem = m
    OBVIOUS
  <2>3. Encodes(coding, r, L, o) /\ r.info # 0
    BY <2>2
  <2>4. Range(Offsets(r.mem, 0)) = {o[i] : i \in 1 .. Len(L)} /\ End(r.mem) = o[Len(L) + 1]
    BY <2>1, <2>3, OffsetsAre
  <2> QED BY <1>1, <2>2, <2>4
<1>4. \A i \in 1 .. n : o[i] \in Nat /\ Code(m, o[i]) = L[i].code
  BY <1>1, <1>2, Stopping
<1>5. FindParamPlace(w, code) = IF after = {} THEN End(m) ELSE Least(after)
  BY DEF FindParamPlace
<1>6. CASE k = n
  <2>1. after = {}
    <3>1. \A i \in 1 .. n : ~(L[i].code > code)
      BY <1>1, <1>6
    <3> QED BY <1>3, <1>4, <3>1
  <2> QED BY <1>3, <1>5, <1>6, <2>1
<1>7. CASE k # n
  <2>1. k + 1 \in 1 .. n /\ ~(k + 1 <= k)
    BY <1>1, <1>7
  <2>2. o[k + 1] \in after /\ after \subseteq Nat
    <3>1. L[k + 1].code > code
      BY <1>1, <2>1
    <3> QED BY <1>3, <1>4, <2>1, <3>1
  <2>3. ASSUME NEW i \in after PROVE o[k + 1] <= i
    <3>1. PICK u \in 1 .. n : i = o[u] /\ Code(m, i) > code
      BY <1>3
    <3>2. ~(u <= k)
      BY <1>1, <1>4, <3>1
    <3>3. u \in 1 .. n + 1 /\ k + 1 \in 1 .. u
      BY <3>2
    <3> QED BY <1>1, <1>2, <3>1, <3>3, Ordered
  <2>4. Least(after) = o[k + 1]
    <3> HIDE DEF after
    <3> QED BY <2>2, <2>3, LeastIs
  <2>5. after # {}
    BY <2>2
  <2> HIDE DEF after, m
  <2> QED BY <1>5, <2>4, <2>5
<1> QED BY <1>6, <1>7

-----------------------------------------------------------------------------
(* What is written to a message.                                           *)
Value == Nat \cup {Junk}

(* A sequence of length l over V.                                          *)
Text(V, a, l) == a \in Seq(V) /\ l \in Nat /\ Len(a) = l

Overwritten(m, W, at, s, l) ==
  /\ DOMAIN W = DOMAIN m \cup at .. at + l - 1
  /\ \A i \in at .. at + l - 1 : W[i] = s[i - at + 1]
  /\ \A i \in at .. at + l - 1 : Cell(W, i) = s[i - at + 1]
  /\ \A i : i \notin at .. at + l - 1 => Cell(W, i) = Cell(m, i)
  /\ \A i \in DOMAIN m : i \notin at .. at + l - 1 => W[i] = m[i]

LEMMA Written ==
  ASSUME NEW m, NEW at \in Int, NEW s, NEW l, Text(Value, s, l)
  PROVE  Overwritten(m, Write(m, at, s), at, s, l)
<1>0. s \in Seq(Value) /\ l \in Nat /\ l = Len(s)
  BY DEF Text
<1>1. PICK W : W = Write(m, at, s)
  OBVIOUS
<1>2. W = [i \in DOMAIN m \cup at .. at + l - 1 |->
             IF i \in at .. at + l - 1 THEN s[i - at + 1] ELSE m[i]]
  BY <1>0, <1>1 DEF Write
<1>3. DOMAIN W = DOMAIN m \cup at .. at + l - 1
  BY <1>2
<1>4. \A i \in at .. at + l - 1 : W[i] = s[i - at + 1] /\ Cell(W, i) = s[i - at + 1]
  BY <1>2, <1>3 DEF Cell
<1>5. \A i \in DOMAIN m : i \notin at .. at + l - 1 => W[i] = m[i]
  BY <1>2
<1>6. ASSUME NEW i, i \notin at .. at + l - 1 PROVE Cell(W, i) = Cell(m, i)
  <2>1. i \in DOMAIN W <=> i \in DOMAIN m
    BY <1>3, <1>6
  <2> QED BY <1>5, <1>6, <2>1 DEF Cell
<1> QED BY <1>1, <1>3, <1>4, <1>5, <1>6 DEF Overwritten

LEMMA CellsAre ==
  ASSUME NEW m, NEW x, Compact(m, x), NEW i \in Int, NEW n \in Nat
  PROVE  /\ Text(Value, Cells(m, i, n), n)
         /\ \A k \in 1 .. n : Cells(m, i, n)[k] = Cell(m, i + k - 1)
<1>1. \A k \in 1 .. n : Cell(m, i + k - 1) \in Value
  BY DEF Compact, Cell, Value
<1>2. Cells(m, i, n) \in [1 .. n -> Value]
  BY <1>1 DEF Cells
<1>3. \A k \in 1 .. n : Cells(m, i, n)[k] = Cell(m, i + k - 1)
  BY DEF Cells
<1> QED BY <1>2, <1>3 DEF Text

LEMMA NumberIs ==
  ASSUME coding \in Codings, NEW n \in Nat
  PROVE  /\ Text(Value, Number(n), coding.width) /\ Number(n)[1] = n
         /\ \A k \in 1 .. coding.width : Number(n)[k] \in Nat
<1>1. coding.width = 1 \/ coding.width = 2
  BY FormatIs
<1>2. PICK z : z = [k \in 1 .. coding.width - 1 |-> 0]
  OBVIOUS
<1>3. z \in Seq(Nat) /\ Len(z) = coding.width - 1 /\ \A k \in 1 .. coding.width - 1 : z[k] = 0
  <2>1. coding.width - 1 \in Nat
    BY <1>1
  <2>2. z \in [1 .. coding.width - 1 -> Nat]
    BY <1>2
  <2>3. z \in Seq(Nat) /\ Len(z) = coding.width - 1
    BY <2>1, <2>2
  <2> QED BY <1>2, <2>3
<1>4. PICK e \in Seq(Nat) : e = <<n>> /\ Len(e) = 1 /\ e[1] = n
  <2>1. <<n>> \in Seq(Nat) /\ Len(<<n>>) = 1 /\ <<n>>[1] = n
    OBVIOUS
  <2> QED BY <2>1, Zenon
<1>5. PICK u : u = e \o z
  OBVIOUS
<1>6. /\ u \in Seq(Nat) /\ Len(u) = Len(e) + Len(z)
      /\ \A i \in 1 .. Len(e) + Len(z) : u[i] = IF i <= Len(e) THEN e[i] ELSE z[i - Len(e)]
  <2>1. /\ e \o z \in Seq(Nat) /\ Len(e \o z) = Len(e) + Len(z)
        /\ \A i \in 1 .. Len(e) + Len(z) :
             (e \o z)[i] = IF i <= Len(e) THEN e[i] ELSE z[i - Len(e)]
    BY <1>3, ConcatProperties
  <2> QED BY <1>5, <2>1
<1>7. Len(e) + Len(z) = coding.width /\ Len(u) = coding.width /\ 1 \in 1 .. coding.width
  BY <1>1, <1>3, <1>4, <1>6
<1>8. u[1] = n /\ \A k \in 1 .. coding.width : u[k] \in Nat
  <2>1. u[1] = n
    BY <1>4, <1>6, <1>7
  <2>2. \A k \in 1 .. coding.width : u[k] \in Nat
    BY <1>6, <1>7
  <2> QED BY <2>1, <2>2
<1>9. u \in Seq(Value)
  BY <1>6 DEF Value
<1>10. Number(n) = u
  BY <1>2, <1>4, <1>5 DEF Number
<1> QED BY <1>1, <1>7, <1>8, <1>9, <1>10 DEF Text

Joined(V, u, a, b, l, k) ==
  /\ Text(V, u, l + k)
  /\ (\A i \in 1 .. l : u[i] = a[i]) /\ \A i \in 1 .. k : u[l + i] = b[i]

LEMMA Two ==
  ASSUME NEW V, NEW a, NEW b, NEW l, NEW k, Text(V, a, l), Text(V, b, k)
  PROVE  Joined(V, a \o b, a, b, l, k)
<1>0. a \in Seq(V) /\ b \in Seq(V) /\ l \in Nat /\ k \in Nat /\ l = Len(a) /\ k = Len(b)
  BY DEF Text
<1>1. /\ a \o b \in Seq(V) /\ Len(a \o b) = Len(a) + Len(b)
      /\ \A i \in 1 .. Len(a) + Len(b) :
           (a \o b)[i] = IF i <= Len(a) THEN a[i] ELSE b[i - Len(a)]
  BY <1>0, ConcatProperties
<1>2. PICK u : u = a \o b
  OBVIOUS
<1>3. u \in Seq(V) /\ Len(u) = l + k /\ \A i \in 1 .. l + k : u[i] = IF i <= l THEN a[i] ELSE b[i - l]
  BY <1>0, <1>1, <1>2
<1>4. \A i \in 1 .. l : i \in 1 .. l + k /\ i <= l
  BY <1>0
<1>5. ASSUME NEW i \in 1 .. k PROVE u[l + i] = b[i]
  <2>1. l + i \in 1 .. l + k /\ ~(l + i <= l) /\ (l + i) - l = i
    BY <1>0
  <2> QED BY <1>3, <2>1
<1>6. l + k \in Nat
  BY <1>0
<1> QED BY <1>2, <1>3, <1>4, <1>5, <1>6 DEF Joined, Text

AllFour(V, s, a, b, d, e, w, l, k) ==
  /\ Text(V, s, w + w + l + k)
  /\ \A i \in 1 .. w : s[i] = a[i] /\ s[w + i] = b[i]
  /\ \A i \in 1 .. l : s[w + w + i] = d[i]
  /\ \A i \in 1 .. k : s[w + w + l + i] = e[i]

LEMMA Four ==
  ASSUME NEW V, NEW a, NEW b, NEW d, NEW e, NEW w, NEW l, NEW k,
         Text(V, a, w), Text(V, b, w), Text(V, d, l), Text(V, e, k), NEW s, s = a \o b \o d \o e
  PROVE  AllFour(V, s, a, b, d, e, w, l, k)
<1>1. PICK x : x = a \o b
  OBVIOUS
<1>2. PICK y : y = x \o d
  OBVIOUS
<1>3. Joined(V, x, a, b, w, w)
  BY <1>1, Two
<1>4. Text(V, x, w + w)
  BY <1>3 DEF Joined
<1>5. Joined(V, y, x, d, w + w, l)
  BY <1>2, <1>4, Two
<1>6. Text(V, y, w + w + l)
  BY <1>5 DEF Joined
<1>7. Joined(V, s, y, e, w + w + l, k)
  <2>1. s = y \o e
    BY <1>1, <1>2
  <2> QED BY <1>6, <2>1, Two
<1>8. w \in Nat /\ l \in Nat /\ k \in Nat
  BY DEF Text
<1>9. ASSUME NEW i \in 1 .. w PROVE s[i] = a[i] /\ s[w + i] = b[i]
  <2>1. /\ i \in 1 .. w + w /\ i \in 1 .. w + w + l
        /\ w + i \in 1 .. w + w /\ w + i \in 1 .. w + w + l
    BY <1>8
  <2>2. s[i] = y[i] /\ s[w + i] = y[w + i]
    BY <1>7, <2>1 DEF Joined
  <2>3. y[i] = x[i] /\ y[w + i] = x[w + i]
    BY <1>5, <2>1 DEF Joined
  <2>4. x[i] = a[i] /\ x[w + i] = b[i]
    BY <1>3 DEF Joined
  <2> QED BY <2>2, <2>3, <2>4
<1>10. ASSUME NEW i \in 1 .. l PROVE s[w + w + i] = d[i]
  <2>1. w + w + i \in 1 .. w + w + l
    BY <1>8
  <2>2. s[w + w + i] = y[w + w + i]
    BY <1>7, <2>1 DEF Joined
  <2>3. y[w + w + i] = d[i]
    BY <1>5 DEF Joined
  <2> QED BY <2>2, <2>3
<1>11. Text(V, s, w + w + l + k) /\ \A i \in 1 .. k : s[w + w + l + i] = e[i]
  BY <1>7 DEF Joined
<1> QED BY <1>9, <1>10, <1>11 DEF AllFour

-----------------------------------------------------------------------------
(* A list with one more parameter.                                         *)
(* A first part of 1 .. n is counted by where it ends.                     *)
LEMMA FirstPart ==
  ASSUME NEW n \in Nat, NEW K, K \subseteq 1 .. n,
         \A i \in K : \A j \in 1 .. n : j <= i => j \in K
  PROVE  Cardinality(K) \in 0 .. n /\ K = 1 .. Cardinality(K)
<1> DEFINE M == {m \in 0 .. n : m + 1 \notin K}
<1>1. M \subseteq Nat /\ M # {}
  <2>1. n \in 0 .. n /\ n + 1 \notin K
    OBVIOUS
  <2> QED BY <2>1
<1>2. PICK m \in M : \A j \in M : m <= j
  BY <1>1, LeastNatural
<1>3. m \in 0 .. n /\ m \in Nat /\ m + 1 \notin K
  OBVIOUS
<1>4. ASSUME NEW j \in 1 .. m PROVE j \in K
  <2>1. j - 1 \in 0 .. n /\ ~(m <= j - 1) /\ (j - 1) + 1 = j
    BY <1>3
  <2>2. j - 1 \notin M
    BY <1>2, <2>1
  <2> QED BY <2>1, <2>2
<1>5. ASSUME NEW j \in K PROVE j \in 1 .. m
  <2>1. j \in 1 .. n
    OBVIOUS
  <2>2. CASE m + 1 <= j
    <3>1. m + 1 \in 1 .. n
      BY <1>3, <2>1, <2>2
    <3> QED BY <1>3, <2>2, <3>1
  <2> QED BY <1>3, <2>1, <2>2
<1>6. K = 1 .. m
  BY <1>4, <1>5
<1>7. Cardinality(1 .. m) = m
  <2>1. Cardinality(1 .. m) = IF 1 > m THEN 0 ELSE m - 1 + 1
    BY <1>3, FS_Interval
  <2> QED BY <1>3, <2>1
<1> QED BY <1>3, <1>6, <1>7

Piece(V, u, L, k, l) == Text(V, u, l) /\ \A i \in 1 .. l : u[i] = L[k + i]

LEMMA Halves ==
  ASSUME NEW V, NEW L, NEW n, Text(V, L, n), NEW k \in 0 .. n
  PROVE  Piece(V, SubSeq(L, 1, k), L, 0, k) /\ Piece(V, SubSeq(L, k + 1, n), L, k, n - k)
<1> DEFINE u == SubSeq(L, 1, k)
           v == SubSeq(L, k + 1, n)
<1>1. /\ n \in Nat /\ n = Len(L) /\ L \in Seq(V) /\ k \in Nat /\ k <= n
      /\ \A i \in 1 .. n : L[i] \in V
  BY DEF Text
<1>2. u \in Seq(V) /\ Len(u) = k /\ \A i \in 1 .. k : u[i] = L[i]
  <2>1. \A i \in 1 .. k : L[i] \in V
    BY <1>1
  <2>2. /\ u \in Seq(V) /\ Len(u) = (IF 1 <= k THEN k - 1 + 1 ELSE 0)
        /\ \A i \in 1 .. k - 1 + 1 : u[i] = L[1 + i - 1]
    BY <1>1, <2>1, SubSeqProperties
  <2> HIDE DEF u
  <2> QED BY <1>1, <2>2
<1>3. v \in Seq(V) /\ Len(v) = n - k /\ \A i \in 1 .. n - k : v[i] = L[k + i]
  <2>1. \A i \in k + 1 .. n : L[i] \in V
    BY <1>1
  <2>2. /\ v \in Seq(V)
        /\ Len(v) = (IF k + 1 <= n THEN n - (k + 1) + 1 ELSE 0)
        /\ \A i \in 1 .. n - (k + 1) + 1 : v[i] = L[k + 1 + i - 1]
    BY <1>1, <2>1, SubSeqProperties
  <2> HIDE DEF v
  <2>3. Len(v) = n - k
    <3>1. (IF k + 1 <= n THEN n - (k + 1) + 1 ELSE 0) = n - k
      BY <1>1
    <3> QED BY <2>2, <3>1
  <2>4. ASSUME NEW i \in 1 .. n - k PROVE v[i] = L[k + i]
    <3>1. i \in 1 .. n - (k + 1) + 1 /\ k + 1 + i - 1 = k + i
      BY <1>1
    <3> QED BY <2>2, <3>1
  <2> QED BY <2>2, <2>3, <2>4
<1>4. k \in Nat /\ n - k \in Nat /\ \A i \in 1 .. k : 0 + i = i
  BY <1>1
<1>5. Piece(V, u, L, 0, k)
  <2> HIDE DEF u
  <2> QED BY <1>2, <1>4 DEF Text, Piece
<1>6. Piece(V, v, L, k, n - k)
  <2> HIDE DEF v
  <2> QED BY <1>3, <1>4 DEF Text, Piece
<1> QED BY <1>5, <1>6

(* M is L with p behind the first k.                                       *)
Spliced(V, M, L, p, n, k) ==
  /\ Text(V, M, n + 1) /\ M[k + 1] = p
  /\ (\A i \in 1 .. k : M[i] = L[i]) /\ \A i \in k + 1 .. n : M[i + 1] = L[i]

LEMMA Splicing ==
  ASSUME NEW V, NEW L, NEW n, Text(V, L, n), NEW p \in V, NEW k \in 0 .. n
  PROVE  Spliced(V, SubSeq(L, 1, k) \o <<p>> \o SubSeq(L, k + 1, n), L, p, n, k)
<1>1. PICK u, v : u = SubSeq(L, 1, k) /\ v = SubSeq(L, k + 1, n)
  OBVIOUS
<1>2. /\ Text(V, u, k) /\ \A i \in 1 .. k : u[i] = L[i]
      /\ Text(V, v, n - k) /\ \A i \in 1 .. n - k : v[i] = L[k + i]
  <2>1. Piece(V, u, L, 0, k) /\ Piece(V, v, L, k, n - k)
    BY <1>1, Halves
  <2>2. \A i \in 1 .. k : 0 + i = i
    BY DEF Text
  <2> QED BY <2>1, <2>2 DEF Piece
<1>3. PICK e : e = <<p>> /\ Text(V, e, 1) /\ e[1] = p
  <2>1. <<p>> \in Seq(V) /\ Len(<<p>>) = 1 /\ 1 \in Nat /\ <<p>>[1] = p
    OBVIOUS
  <2>2. Text(V, <<p>>, 1)
    BY <2>1 DEF Text
  <2> QED BY <2>1, <2>2, Zenon
<1>4. PICK w : w = u \o e
  OBVIOUS
<1>5. PICK M : M = w \o v
  OBVIOUS
<1>6. Joined(V, w, u, e, k, 1)
  BY <1>2, <1>3, <1>4, Two
<1>7. Text(V, w, k + 1)
  BY <1>6 DEF Joined
<1>8. Joined(V, M, w, v, k + 1, n - k)
  BY <1>2, <1>5, <1>7, Two
<1>9. k \in Nat /\ n \in Nat /\ k <= n
  BY DEF Text
<1>10. Text(V, M, n + 1)
  <2>1. (k + 1) + (n - k) = n + 1
    BY <1>9
  <2> QED BY <1>8, <2>1 DEF Joined
<1>11. M[k + 1] = p
  <2>1. k + 1 \in 1 .. k + 1 /\ 1 \in 1 .. 1
    BY <1>9
  <2>2. M[k + 1] = w[k + 1]
    BY <1>8, <2>1 DEF Joined
  <2>3. w[k + 1] = e[1]
    BY <1>6, <2>1 DEF Joined
  <2> QED BY <1>3, <2>2, <2>3
<1>12. ASSUME NEW i \in 1 .. k PROVE M[i] = L[i]
  <2>1. i \in 1 .. k + 1
    BY <1>9
  <2>2. M[i] = w[i]
    BY <1>8, <2>1 DEF Joined
  <2>3. w[i] = u[i]
    BY <1>6 DEF Joined
  <2> QED BY <1>2, <2>2, <2>3
<1>13. ASSUME NEW i \in k + 1 .. n PROVE M[i + 1] = L[i]
  <2>1. i - k \in 1 .. n - k /\ (k + 1) + (i - k) = i + 1 /\ k + (i - k) = i
    BY <1>9
  <2>2. M[(k + 1) + (i - k)] = v[i - k]
    BY <1>8, <2>1 DEF Joined
  <2>3. v[i - k] = L[k + (i - k)]
    BY <1>2, <2>1
  <2> QED BY <2>1, <2>2, <2>3
<1> QED BY <1>1, <1>2, <1>3, <1>4, <1>5, <1>10, <1>11, <1>12, <1>13 DEF Spliced

(* Where a parameter belongs in a sorted list.                             *)
Belongs(L, p, k) ==
  k \in 0 .. Len(L) /\ \A i \in 1 .. Len(L) : L[i].code <= p.code <=> i <= k

LEMMA PlaceIs ==
  ASSUME NEW L, Sorted(L), NEW p \in Param
  PROVE  Belongs(L, p, Cardinality({i \in DOMAIN L : L[i].code <= p.code}))
<1> DEFINE K == {i \in DOMAIN L : L[i].code <= p.code}
<1>1. PICK n \in Nat : n = Len(L) /\ DOMAIN L = 1 .. n
  BY DEF Sorted
<1>2. \A i \in 1 .. n : L[i].code \in Nat
  <2>1. \A i \in 1 .. n : L[i] \in Param
    BY <1>1 DEF Sorted
  <2> QED BY <2>1, ParamFacts
<1>3. p.code \in Nat
  BY ParamFacts
<1>4. K \subseteq 1 .. n
  BY <1>1
<1>5. ASSUME NEW i \in K, NEW j \in 1 .. n, j <= i PROVE j \in K
  <2>1. L[j].code <= L[i].code /\ L[i].code <= p.code /\ i \in 1 .. n
    BY <1>1, <1>5 DEF Sorted
  <2> QED BY <1>1, <1>2, <1>3, <2>1
<1>6. PICK k \in 0 .. n : k = Cardinality(K) /\ K = 1 .. k
  <2>1. Cardinality(K) \in 0 .. n /\ K = 1 .. Cardinality(K)
    <3> HIDE DEF K
    <3> QED BY <1>4, <1>5, FirstPart
  <2> HIDE DEF K
  <2> QED BY <2>1
<1>7. ASSUME NEW i \in 1 .. n PROVE L[i].code <= p.code <=> i <= k
  <2>1. L[i].code <= p.code <=> i \in 1 .. k
    BY <1>1, <1>6
  <2> QED BY <2>1
<1> QED BY <1>1, <1>6, <1>7 DEF Belongs

LEMMA SplicedSorted ==
  ASSUME NEW L, Sorted(L), NEW p \in Param, NEW k, Belongs(L, p, k),
         NEW M, Spliced(Param, M, L, p, Len(L), k)
  PROVE  Sorted(M)
<1>1. PICK n \in Nat : n = Len(L)
  BY DEF Sorted
<1>2. /\ M \in Seq(Param) /\ Len(M) = n + 1 /\ M[k + 1] = p
      /\ (\A i \in 1 .. k : M[i] = L[i]) /\ \A i \in k + 1 .. n : M[i + 1] = L[i]
  BY <1>1 DEF Spliced, Text
<1>3. /\ k \in 0 .. n /\ \A i \in 1 .. n : L[i].code <= p.code <=> i <= k
      /\ \A i, j \in 1 .. n : i <= j => L[i].code <= L[j].code
  BY <1>1 DEF Belongs, Sorted
<1>4. p.code \in Nat /\ \A i \in 1 .. n : L[i].code \in Nat
  <2>1. \A i \in 1 .. n : L[i] \in Param
    BY <1>1 DEF Sorted
  <2> QED BY <2>1, ParamFacts
<1>5. ASSUME NEW i \in 1 .. n + 1
      PROVE  \/ i \in 1 .. k /\ i \in 1 .. n /\ M[i] = L[i] /\ L[i].code <= p.code
             \/ i = k + 1 /\ M[i] = p
             \/ i - 1 \in k + 1 .. n /\ i - 1 \in 1 .. n /\ M[i] = L[i - 1] /\ p.code <= L[i - 1].code
  <2>1. CASE i <= k
    BY <1>2, <1>3, <2>1
  <2>2. CASE i = k + 1
    BY <1>2, <2>2
  <2>3. CASE k + 1 < i
    <3>1. i - 1 \in k + 1 .. n /\ i - 1 \in 1 .. n /\ (i - 1) + 1 = i /\ ~(i - 1 <= k)
      BY <1>3, <2>3
    <3>2. M[i] = L[i - 1] /\ ~(L[i - 1].code <= p.code)
      BY <1>2, <1>3, <3>1
    <3> QED BY <1>4, <3>1, <3>2
  <2> QED BY <1>3, <2>1, <2>2, <2>3
<1>6. ASSUME NEW i \in 1 .. n + 1, NEW j \in 1 .. n + 1, i <= j PROVE M[i].code <= M[j].code
  <2>1. CASE i \in 1 .. k /\ i \in 1 .. n /\ M[i] = L[i] /\ L[i].code <= p.code
    <3>1. CASE j \in 1 .. k /\ j \in 1 .. n /\ M[j] = L[j]
      BY <1>3, <1>6, <2>1, <3>1
    <3>2. CASE M[j] = p
      BY <2>1, <3>2
    <3>3. CASE j - 1 \in 1 .. n /\ M[j] = L[j - 1] /\ p.code <= L[j - 1].code
      BY <1>4, <2>1, <3>3
    <3> QED BY <1>5, <3>1, <3>2, <3>3
  <2>2. CASE i = k + 1 /\ M[i] = p
    <3>1. CASE j = k + 1 /\ M[j] = p
      BY <1>4, <2>2, <3>1
    <3>2. CASE j - 1 \in 1 .. n /\ M[j] = L[j - 1] /\ p.code <= L[j - 1].code
      BY <2>2, <3>2
    <3>3. ~(j \in 1 .. k)
      BY <1>3, <1>6, <2>2
    <3> QED BY <1>5, <3>1, <3>2, <3>3
  <2>3. CASE i - 1 \in k + 1 .. n /\ i - 1 \in 1 .. n /\ M[i] = L[i - 1]
    <3>1. j - 1 \in 1 .. n /\ M[j] = L[j - 1] /\ i - 1 <= j - 1
      <4>1. ~(j \in 1 .. k) /\ j # k + 1
        BY <1>3, <1>6, <2>3
      <4> QED BY <1>5, <1>6, <4>1
    <3> QED BY <1>3, <2>3, <3>1
  <2> QED BY <1>5, <2>1, <2>2, <2>3
<1> QED BY <1>2, <1>6 DEF Sorted

-----------------------------------------------------------------------------
(* What adding a parameter does to the cells.                              *)
CellsOf(i, s, l, w) ==
  /\ i \in i .. i + l + (w + w) - 1 /\ i + w \in i .. i + l + (w + w) - 1
  /\ (i + s) + w = (i + w) + s
  /\ \A k \in 1 .. l : /\ i + (w + w) + k - 1 \in i .. i + l + (w + w) - 1
                       /\ (i + s) + (w + w) + k - 1 = (i + (w + w) + k - 1) + s

LEMMA Inside ==
  ASSUME NEW i \in Int, NEW s \in Int, NEW l \in Nat, NEW w \in Nat, w >= 1
  PROVE  CellsOf(i, s, l, w)
BY DEF CellsOf

(* The l cells from i on are s cells further in m2.                        *)
Carried(m, m2, i, s, l) == \A x \in i .. i + l - 1 : Cell(m2, x + s) = Cell(m, x)

LEMMA HoldsMoved ==
  ASSUME NEW c \in Codings, NEW m, NEW m2, NEW i \in Int, NEW s \in Int, NEW q \in Param,
         Holds(c, m, i, q),
         Carried(m, m2, i, s, Len(q.data) + c.header)
  PROVE  Holds(c, m2, i + s, q)
<1>1. PICK l \in Nat : l = Len(q.data)
  BY ParamFacts
<1>2. PICK w \in Nat : w = c.width /\ w >= 1 /\ c.header = w + w
  BY FormatIs
<1>3. /\ i \in i .. i + l + (w + w) - 1 /\ i + w \in i .. i + l + (w + w) - 1
      /\ (i + s) + w = (i + w) + s
      /\ \A k \in 1 .. l : /\ i + (w + w) + k - 1 \in i .. i + l + (w + w) - 1
                           /\ (i + s) + (w + w) + k - 1 = (i + (w + w) + k - 1) + s
  <2>1. CellsOf(i, s, l, w)
    BY <1>1, <1>2, Inside
  <2> QED BY <2>1 DEF CellsOf
<1>4. \A x \in i .. i + l + (w + w) - 1 : Cell(m2, x + s) = Cell(m, x)
  <2>1. i + (l + (w + w)) - 1 = i + l + (w + w) - 1
    OBVIOUS
  <2>2. Carried(m, m2, i, s, l + (w + w))
    BY <1>1, <1>2
  <2> QED BY <2>1, <2>2 DEF Carried
<1>5. /\ Cell(m, i) = q.code /\ Cell(m, i + w) = l
      /\ \A k \in 1 .. l : Cell(m, i + (w + w) + k - 1) = q.data[k]
  BY <1>1, <1>2 DEF Holds
<1>6. Cell(m2, i + s) = q.code /\ Cell(m2, (i + s) + w) = l
  BY <1>3, <1>4, <1>5
<1>7. \A k \in 1 .. l : Cell(m2, (i + s) + (w + w) + k - 1) = q.data[k]
  BY <1>3, <1>4, <1>5
<1> QED BY <1>1, <1>2, <1>6, <1>7 DEF Holds

LEMMA Within ==
  ASSUME NEW c \in Codings, NEW L, Sorted(L), NEW m, NEW o, Marked(c, m, L, o),
         NEW k \in 1 .. Len(L)
  PROVE  /\ L[k] \in Param /\ o[k] \in Nat /\ o[k + 1] \in Nat /\ o[Len(L) + 1] \in Nat
         /\ o[k + 1] = o[k] + Len(L[k].data) + c.header
         /\ Holds(c, m, o[k], L[k]) /\ o[k + 1] <= o[Len(L) + 1]
         /\ Len(L[k].data) \in Nat
<1>1. PICK n \in Nat : n = Len(L)
  BY DEF Sorted
<1>2. k \in 1 .. n + 1 /\ k + 1 \in 1 .. n + 1 /\ n + 1 \in 1 .. n + 1
  BY <1>1
<1>3. o[k] \in Nat /\ o[k + 1] \in Nat /\ o[n + 1] \in Nat
  BY <1>1, <1>2 DEF Marked
<1>4. o[k + 1] <= o[n + 1]
  BY <1>1, <1>2, Ordered
<1>5. L[k] \in Param
  BY <1>1 DEF Sorted
<1>6. Len(L[k].data) \in Nat
  BY <1>5, ParamFacts
<1> QED BY <1>1, <1>3, <1>4, <1>5, <1>6 DEF Marked

(* From place on, m2 has the parameter p and then what m has there.        *)
Moved(c, m, m2, place, p, z) ==
  LET s == Len(p.data) + c.header IN
  /\ Compact(m2, z + s)
  /\ \A x \in Int : x < place => Cell(m2, x) = Cell(m, x)
  /\ Holds(c, m2, place, p)
  /\ \A x \in place .. z - 1 : Cell(m2, x + s) = Cell(m, x)

LEMMA InsertedCells ==
  ASSUME coding \in Codings, NEW m, NEW z \in Nat, Compact(m, z),
         NEW place \in Nat, place \in DOMAIN m, NEW p \in Param
  PROVE  Moved(coding, m,
               Write(m, place, Number(p.code) \o Number(Len(p.data)) \o p.data
                                 \o Cells(m, place, z - place)), place, p, z)
<1>1. PICK x \in Nat : x <= z /\ DOMAIN m = 0 .. x - 1
  <2>1. PICK x \in 0 .. z : DOMAIN m = 0 .. x - 1
    BY DEF Compact
  <2> QED BY <2>1
<1>2. PICK l \in Nat : l = Len(p.data)
  BY ParamFacts
<1>3. PICK w \in Nat : w = coding.width /\ w >= 1 /\ coding.header = w + w
  BY FormatIs
<1>4. PICK t \in Nat : t = z - place /\ place + t = z
  <2>1. z - place \in Nat /\ place + (z - place) = z
    BY <1>1
  <2> QED BY <2>1, Zenon
<1>5. PICK a, b, d, e : /\ a = Number(p.code) /\ b = Number(Len(p.data)) /\ d = p.data
                        /\ e = Cells(m, place, t)
  OBVIOUS
<1>6. Text(Value, a, w) /\ a[1] = p.code
  BY <1>3, <1>5, NumberIs, ParamFacts DEF Text
<1>7. Text(Value, b, w) /\ b[1] = l
  BY <1>2, <1>3, <1>5, NumberIs DEF Text
<1>8. Text(Value, d, l)
  BY <1>2, <1>5, ParamFacts DEF Text, Value
<1>9. Text(Value, e, t) /\ \A i \in 1 .. t : e[i] = Cell(m, place + i - 1)
  BY <1>5, CellsAre DEF Text
<1>10. PICK s : s = a \o b \o d \o e
  OBVIOUS
<1>11. /\ Text(Value, s, w + w + l + t)
       /\ \A i \in 1 .. w : s[i] = a[i] /\ s[w + i] = b[i]
       /\ \A i \in 1 .. l : s[w + w + i] = d[i]
       /\ \A i \in 1 .. t : s[w + w + l + i] = e[i]
  <2>1. AllFour(Value, s, a, b, d, e, w, l, t)
    BY <1>6, <1>7, <1>8, <1>9, <1>10, Four
  <2> QED BY <2>1 DEF AllFour
<1>12. PICK g \in Nat : g = w + w + l + t /\ Len(s) = g /\ s \in Seq(Value)
                        /\ place + g = z + (l + (w + w))
  <2>1. w + w + l + t \in Nat /\ place + (w + w + l + t) = z + (l + (w + w))
    BY <1>4
  <2>2. Len(s) = w + w + l + t /\ s \in Seq(Value)
    BY <1>11 DEF Text
  <2> QED BY <2>1, <2>2, Zenon
<1>13. PICK m2 : m2 = Write(m, place, s)
  OBVIOUS
<1>14. /\ DOMAIN m2 = DOMAIN m \cup place .. place + g - 1
       /\ \A i \in place .. place + g - 1 : m2[i] = s[i - place + 1]
       /\ \A i \in place .. place + g - 1 : Cell(m2, i) = s[i - place + 1]
       /\ \A i : i \notin place .. place + g - 1 => Cell(m2, i) = Cell(m, i)
       /\ \A i \in DOMAIN m : i \notin place .. place + g - 1 => m2[i] = m[i]
  <2>1. Overwritten(m, m2, place, s, g)
    BY <1>12, <1>13, Written DEF Text
  <2> QED BY <2>1 DEF Overwritten
<1>15. Compact(m2, z + (l + (w + w)))
  <2>1. DOMAIN m2 = 0 .. z + (l + (w + w)) - 1
    BY <1>1, <1>12, <1>14
  <2>2. ASSUME NEW i \in DOMAIN m2 PROVE m2[i] \in Nat \cup {Junk}
    <3>1. CASE i \in place .. place + g - 1
      <4>1. i - place + 1 \in 1 .. g
        BY <3>1
      <4>2. s[i - place + 1] \in Value
        BY <1>12, <4>1
      <4> QED BY <1>14, <3>1, <4>2 DEF Value
    <3>2. CASE i \notin place .. place + g - 1
      BY <1>14, <3>2 DEF Compact
    <3> QED BY <3>1, <3>2
  <2>3. z + (l + (w + w)) \in 0 .. z + (l + (w + w))
    OBVIOUS
  <2> QED BY <2>1, <2>2, <2>3 DEF Compact
<1>16. ASSUME NEW i \in 1 .. g PROVE Cell(m2, place + i - 1) = s[i]
  <2>1. place + i - 1 \in place .. place + g - 1 /\ (place + i - 1) - place + 1 = i
    OBVIOUS
  <2> QED BY <1>14, <2>1
<1>17. Holds(coding, m2, place, p)
  <2>1. Cell(m2, place) = p.code
    <3>1. 1 \in 1 .. g /\ place + 1 - 1 = place /\ 1 \in 1 .. w
      <4>1. w >= 1
        BY <1>3
      <4>2. g = w + w + l + t
        BY <1>12
      <4>3. \A u, v \in Nat : u >= 1 => u + u + v + t >= 1
        OBVIOUS
      <4>4. g >= 1
        BY <4>1, <4>2, <4>3
      <4> QED BY <4>1, <4>4
    <3>2. Cell(m2, place + 1 - 1) = s[1] /\ s[1] = a[1]
      BY <1>11, <1>16, <3>1
    <3> QED BY <1>6, <3>1, <3>2
  <2>2. Cell(m2, place + w) = l
    <3>1. w + 1 \in 1 .. g /\ place + (w + 1) - 1 = place + w /\ 1 \in 1 .. w
      <4>1. g = w + w + l + t /\ w >= 1
        BY <1>3, <1>12
      <4> QED BY <4>1
    <3>2. Cell(m2, place + (w + 1) - 1) = s[w + 1] /\ s[w + 1] = b[1]
      BY <1>11, <1>16, <3>1
    <3> QED BY <1>7, <3>1, <3>2
  <2>3. ASSUME NEW k \in 1 .. l PROVE Cell(m2, place + (w + w) + k - 1) = d[k]
    <3>1. w + w + k \in 1 .. g /\ place + (w + w + k) - 1 = place + (w + w) + k - 1
      BY <1>12
    <3>2. Cell(m2, place + (w + w + k) - 1) = s[w + w + k]
      BY <1>16, <3>1
    <3> QED BY <1>11, <3>1, <3>2
  <2> QED BY <1>2, <1>3, <1>5, <2>1, <2>2, <2>3 DEF Holds
<1>18. ASSUME NEW i \in Int, i < place PROVE Cell(m2, i) = Cell(m, i)
  <2>1. i \notin place .. place + g - 1
    BY <1>18
  <2> QED BY <1>14, <2>1
<1>19. ASSUME NEW i \in place .. z - 1 PROVE Cell(m2, i + (l + (w + w))) = Cell(m, i)
  <2>1. PICK k \in 1 .. t : k = i - place + 1 /\ i = place + k - 1
    <3>1. i - place + 1 \in 1 .. t /\ i = place + (i - place + 1) - 1
      BY <1>4
    <3> QED BY <3>1, Zenon
  <2>2. w + w + l + k \in 1 .. g /\ place + (w + w + l + k) - 1 = i + (l + (w + w))
    BY <1>12, <2>1
  <2>3. Cell(m2, place + (w + w + l + k) - 1) = s[w + w + l + k]
    BY <1>16, <2>2
  <2>4. s[w + w + l + k] = e[k] /\ e[k] = Cell(m, place + k - 1)
    BY <1>9, <1>11
  <2> QED BY <2>1, <2>2, <2>3, <2>4
<1>20. Moved(coding, m, m2, place, p, z)
  BY <1>2, <1>3, <1>15, <1>17, <1>18, <1>19 DEF Moved
<1>21. m2 = Write(m, place, Number(p.code) \o Number(Len(p.data)) \o p.data
                              \o Cells(m, place, z - place))
  BY <1>4, <1>5, <1>10, <1>13
<1> QED BY <1>20, <1>21

LEMMA MarkedMoved ==
  ASSUME NEW c \in Codings, NEW L, Sorted(L), NEW m, NEW o, Marked(c, m, L, o),
         NEW p \in Param, NEW k, Belongs(L, p, k),
         NEW M, Spliced(Param, M, L, p, Len(L), k),
         NEW m2, Moved(c, m, m2, o[k + 1], p, o[Len(L) + 1] + c.end)
  PROVE  \E u : /\ Marked(c, m2, M, u)
                /\ u[Len(M) + 1] = o[Len(L) + 1] + (Len(p.data) + c.header)
<1>1. PICK n \in Nat : n = Len(L)
  BY DEF Sorted
<1>2. PICK s \in Nat : s = Len(p.data) + c.header /\ s >= 1
  <2>1. Len(p.data) \in Nat /\ c.header \in Nat /\ c.header >= 1
    <3>1. PICK w \in Nat : w >= 1 /\ c.header = w + w
      BY FormatIs
    <3> QED BY <3>1, ParamFacts
  <2>2. Len(p.data) + c.header \in Nat /\ Len(p.data) + c.header >= 1
    BY <2>1
  <2> QED BY <2>2, Zenon
<1>3. k \in 0 .. n /\ k \in Nat
  BY <1>1 DEF Belongs
<1>4. /\ Len(M) = n + 1 /\ M[k + 1] = p
      /\ (\A i \in 1 .. k : M[i] = L[i]) /\ \A i \in k + 1 .. n : M[i + 1] = L[i]
  BY <1>1 DEF Spliced, Text
<1>5. o \in [1 .. n + 1 -> Nat] /\ o[1] = 0 /\ Cell(m, o[n + 1]) = 0
  BY <1>1 DEF Marked
<1>6. PICK z \in Nat : z = o[n + 1] + c.end /\ o[n + 1] < z
  <2>1. o[n + 1] \in Nat /\ c.end = 2
    <3>1. n + 1 \in 1 .. n + 1
      OBVIOUS
    <3> QED BY <1>5, <3>1, FormatIs
  <2>2. o[n + 1] + c.end \in Nat /\ o[n + 1] < o[n + 1] + c.end
    BY <2>1
  <2> QED BY <2>2, Zenon
<1>7. PICK a \in Nat : a = o[k + 1]
  <2>1. k + 1 \in 1 .. n + 1
    BY <1>3
  <2> QED BY <1>5, <2>1
<1>8. /\ \A x \in Int : x < a => Cell(m2, x) = Cell(m, x)
      /\ Holds(c, m2, a, p)
      /\ \A x \in a .. z - 1 : Cell(m2, x + s) = Cell(m, x)
  <2>1. Moved(c, m, m2, a, p, z)
    BY <1>1, <1>6, <1>7
  <2> QED BY <1>2, <2>1 DEF Moved
<1>9. \A j \in 1 .. n + 1 : \A i \in 1 .. j : o[i] <= o[j]
  BY <1>1, Ordered
<1>10. ASSUME NEW i \in 1 .. n
       PROVE  /\ L[i] \in Param /\ o[i] \in Nat /\ o[i + 1] \in Nat
              /\ o[i + 1] = o[i] + Len(L[i].data) + c.header /\ Holds(c, m, o[i], L[i])
              /\ Len(L[i].data) \in Nat
  BY <1>1, Within
<1> DEFINE u == [i \in 1 .. (n + 1) + 1 |-> IF i <= k + 1 THEN o[i] ELSE o[i - 1] + s]
<1>11. /\ \A i \in 1 .. (n + 1) + 1 : i <= k + 1 => u[i] = o[i]
       /\ \A i \in 1 .. (n + 1) + 1 : k + 1 < i => u[i] = o[i - 1] + s
  BY <1>3
<1>12. u \in [1 .. (n + 1) + 1 -> Nat]
  <2>1. ASSUME NEW i \in 1 .. (n + 1) + 1
        PROVE  (IF i <= k + 1 THEN o[i] ELSE o[i - 1] + s) \in Nat
    <3>1. CASE i <= k + 1
      <4>1. i \in 1 .. n + 1
        BY <1>3, <3>1
      <4> QED BY <1>5, <3>1, <4>1
    <3>2. CASE ~(i <= k + 1)
      <4>1. i - 1 \in 1 .. n + 1
        BY <1>3, <3>2
      <4>2. o[i - 1] \in Nat
        BY <1>5, <4>1
      <4> QED BY <3>2, <4>2
    <3> QED BY <3>1, <3>2
  <2> QED BY <2>1
<1> HIDE DEF u
<1>13. u[1] = 0
  <2>1. 1 \in 1 .. (n + 1) + 1 /\ 1 <= k + 1
    BY <1>3
  <2> QED BY <1>5, <1>11, <2>1
<1>14. u[(n + 1) + 1] = o[n + 1] + s
  <2>1. (n + 1) + 1 \in 1 .. (n + 1) + 1 /\ k + 1 < (n + 1) + 1 /\ ((n + 1) + 1) - 1 = n + 1
    BY <1>3
  <2> QED BY <1>11, <2>1
<1>15. Cell(m2, u[(n + 1) + 1]) = 0
  <2>1. k + 1 \in 1 .. n + 1 /\ n + 1 \in 1 .. n + 1
    BY <1>3
  <2>2. a <= o[n + 1] /\ o[n + 1] \in Nat
    BY <1>5, <1>7, <1>9, <2>1
  <2>3. o[n + 1] \in a .. z - 1
    BY <1>6, <2>2
  <2> QED BY <1>5, <1>8, <1>14, <2>3
<1>16. ASSUME NEW j \in 1 .. n + 1
       PROVE  u[j + 1] = u[j] + Len(M[j].data) + c.header /\ Holds(c, m2, u[j], M[j])
  <2>1. CASE j <= k
    <3>1. /\ j \in 1 .. n /\ j \in 1 .. k /\ j \in 1 .. (n + 1) + 1 /\ j <= k + 1
          /\ j + 1 \in 1 .. (n + 1) + 1 /\ j + 1 <= k + 1
          /\ j + 1 \in 1 .. k + 1 /\ k + 1 \in 1 .. n + 1
      BY <1>3, <2>1
    <3>2. M[j] = L[j] /\ u[j] = o[j] /\ u[j + 1] = o[j + 1]
      BY <1>4, <1>11, <3>1
    <3>3. PICK q \in Param : q = L[j] /\ Len(q.data) \in Nat
      BY <1>10, <3>1
    <3>4. PICK b \in Nat : b = o[j] /\ o[j + 1] = b + Len(q.data) + c.header /\ Holds(c, m, b, q)
      BY <1>10, <3>1, <3>3
    <3>5. o[j + 1] <= a
      BY <1>7, <1>9, <3>1
    <3>6. Carried(m, m2, b, 0, Len(q.data) + c.header)
      <4>1. PICK l \in Nat : l = Len(q.data) + c.header /\ o[j + 1] = b + l
        <5>1. PICK f, h \in Nat : f = Len(q.data) /\ h = c.header
          BY <3>3, FormatIs
        <5>2. f + h \in Nat /\ b + f + h = b + (f + h)
          OBVIOUS
        <5>3. Len(q.data) + c.header \in Nat /\ o[j + 1] = b + (Len(q.data) + c.header)
          BY <3>4, <5>1, <5>2
        <5> QED BY <5>3, Zenon
      <4>2. ASSUME NEW x \in b .. b + l - 1 PROVE x < a /\ x \in Int /\ x + 0 = x
        BY <3>5, <4>1
      <4>3. \A x \in b .. b + l - 1 : Cell(m2, x + 0) = Cell(m, x)
        BY <1>8, <4>2
      <4> QED BY <4>1, <4>3 DEF Carried
    <3>7. Holds(c, m2, b, q)
      <4>1. PICK e \in Int : e = 0 /\ b + e = b
        OBVIOUS
      <4>2. Carried(m, m2, b, e, Len(q.data) + c.header) /\ b \in Int
        BY <3>6, <4>1
      <4>3. Holds(c, m2, b + e, q)
        BY <3>4, <4>2, HoldsMoved
      <4> QED BY <4>1, <4>3
    <3> QED BY <3>2, <3>3, <3>4, <3>7
  <2>2. CASE j = k + 1
    <3>1. /\ k + 1 \in 1 .. (n + 1) + 1 /\ k + 1 <= k + 1
          /\ (k + 1) + 1 \in 1 .. (n + 1) + 1 /\ k + 1 < (k + 1) + 1 /\ ((k + 1) + 1) - 1 = k + 1
      BY <1>3
    <3>2. u[k + 1] = a /\ u[(k + 1) + 1] = a + s
      BY <1>7, <1>11, <3>1
    <3>3. a + s = a + Len(p.data) + c.header
      <4>1. Len(p.data) \in Nat /\ c.header \in Nat
        BY ParamFacts, FormatIs
      <4> QED BY <1>2, <4>1
    <3> QED BY <1>4, <1>8, <2>2, <3>2, <3>3
  <2>3. CASE k + 1 < j
    <3>1. PICK i \in 1 .. n : i = j - 1 /\ j = i + 1 /\ i \in k + 1 .. n
      <4>1. j - 1 \in 1 .. n /\ j = (j - 1) + 1 /\ j - 1 \in k + 1 .. n
        BY <1>3, <2>3
      <4> QED BY <4>1, Zenon
    <3>2. /\ j \in 1 .. (n + 1) + 1 /\ j + 1 \in 1 .. (n + 1) + 1 /\ k + 1 < j + 1
          /\ (j + 1) - 1 = i + 1 /\ k + 1 \in 1 .. i /\ i \in 1 .. n + 1 /\ n + 1 \in 1 .. n + 1
          /\ i + 1 \in 1 .. n + 1
      BY <1>3, <2>3, <3>1
    <3>3. M[j] = L[i] /\ u[j] = o[i] + s /\ u[j + 1] = o[i + 1] + s
      BY <1>4, <1>11, <2>3, <3>1, <3>2
    <3>4. PICK q \in Param : q = L[i] /\ Len(q.data) \in Nat
      BY <1>10
    <3>5. PICK b \in Nat : b = o[i] /\ o[i + 1] = b + Len(q.data) + c.header /\ Holds(c, m, b, q)
      BY <1>10, <3>4
    <3>6. a <= b /\ o[i + 1] <= o[n + 1] /\ o[n + 1] \in Nat
      BY <1>5, <1>7, <1>9, <3>2, <3>5
    <3>7. Carried(m, m2, b, s, Len(q.data) + c.header)
      <4>1. PICK l \in Nat : l = Len(q.data) + c.header /\ o[i + 1] = b + l
        <5>1. PICK f, h \in Nat : f = Len(q.data) /\ h = c.header
          BY <3>4, FormatIs
        <5>2. f + h \in Nat /\ b + f + h = b + (f + h)
          OBVIOUS
        <5>3. Len(q.data) + c.header \in Nat /\ o[i + 1] = b + (Len(q.data) + c.header)
          BY <3>5, <5>1, <5>2
        <5> QED BY <5>3, Zenon
      <4>2. ASSUME NEW x \in b .. b + l - 1 PROVE x \in a .. z - 1
        <5>1. PICK y \in Nat : y = o[n + 1] /\ y < z /\ b + l <= y
          BY <1>6, <3>6, <4>1
        <5> QED BY <3>6, <5>1
      <4>3. \A x \in b .. b + l - 1 : Cell(m2, x + s) = Cell(m, x)
        BY <1>8, <4>2
      <4> QED BY <4>1, <4>3 DEF Carried
    <3>8. Holds(c, m2, b + s, q)
      BY <3>5, <3>7, HoldsMoved
    <3>9. (b + Len(q.data) + c.header) + s = (b + s) + Len(q.data) + c.header
      <4>1. PICK l, h \in Nat : l = Len(q.data) /\ h = c.header
        BY <3>4, FormatIs
      <4>2. (b + l + h) + s = (b + s) + l + h
        OBVIOUS
      <4> QED BY <4>1, <4>2
    <3> QED BY <3>3, <3>4, <3>5, <3>8, <3>9
  <2> QED BY <1>3, <2>1, <2>2, <2>3
<1>17. Marked(c, m2, M, u)
  BY <1>4, <1>12, <1>13, <1>15, <1>16 DEF Marked
<1> QED BY <1>1, <1>2, <1>4, <1>14, <1>17

LEMMA Inserted ==
  ASSUME coding \in Codings, NEW w, NEW L, NEW o, Encodes(coding, WithEnd(w), L, o),
         WithEnd(w).info # 0, NEW p \in Param, NEW k, Belongs(L, p, k),
         NEW M, Spliced(Param, M, L, p, Len(L), k)
  PROVE  /\ \E u : Encodes(coding, InsertParam(w, p), M, u)
         /\ InsertParam(w, p).info = WithEnd(w).info + Len(p.data) + coding.header
<1>1. PICK v : v = WithEnd(w)
  OBVIOUS
<1>2. PICK m : m = v.mem
  OBVIOUS
<1>3. PICK z \in Nat : z = v.info /\ z # 0
  BY <1>1 DEF Encodes
<1>4. /\ Sorted(L) /\ Compact(m, z) /\ Marked(coding, m, L, o)
      /\ z = o[Len(L) + 1] + coding.end
  BY <1>1, <1>2, <1>3 DEF Encodes
<1>5. PICK n \in Nat : n = Len(L)
  BY <1>4 DEF Sorted
<1>6. k \in 0 .. n /\ \A i \in 1 .. n : L[i].code <= p.code <=> i <= k
  BY <1>5 DEF Belongs
<1>7. PICK place \in Nat : place = o[k + 1] /\ place \in DOMAIN m
  <2>1. o \in [1 .. n + 1 -> Nat] /\ k + 1 \in 1 .. n + 1 /\ n + 1 \in 1 .. n + 1
    BY <1>4, <1>5, <1>6 DEF Marked
  <2>2. o[k + 1] <= o[n + 1] /\ o[k + 1] \in Nat /\ o[n + 1] \in Nat
    BY <1>4, <1>5, <2>1, Ordered
  <2>3. o[n + 1] \in DOMAIN m
    <3>1. Cell(m, o[n + 1]) = 0
      BY <1>4, <1>5 DEF Marked
    <3> QED BY <3>1 DEF Cell, Junk
  <2>4. PICK x \in Int : DOMAIN m = 0 .. x - 1
    BY <1>4 DEF Compact
  <2>5. o[k + 1] \in DOMAIN m
    BY <2>2, <2>3, <2>4
  <2> QED BY <2>2, <2>5
<1>8. FindParamPlace(w, p.code) = place
  <2>1. p.code \in Nat /\ \A i \in 1 .. n : L[i].code \in Nat
    <3>1. \A i \in 1 .. n : L[i] \in Param
      BY <1>4, <1>5 DEF Sorted
    <3> QED BY <3>1, ParamFacts
  <2>2. \A i \in 1 .. n : ~(L[i].code > p.code) <=> i <= k
    BY <1>6, <2>1
  <2>3. FindParamPlace(w, p.code) = o[k + 1]
    BY <1>5, <1>6, <2>2, Placing
  <2> QED BY <1>7, <2>3
<1>9. PICK m2 : m2 = Write(m, place, Number(p.code) \o Number(Len(p.data)) \o p.data
                                       \o Cells(m, place, z - place))
  OBVIOUS
<1>10. Moved(coding, m, m2, place, p, z)
  BY <1>4, <1>7, <1>9, InsertedCells
<1>11. PICK u : /\ Marked(coding, m2, M, u)
                /\ u[Len(M) + 1] = o[Len(L) + 1] + (Len(p.data) + coding.header)
  <2>1. Moved(coding, m, m2, o[k + 1], p, o[Len(L) + 1] + coding.end)
    BY <1>4, <1>7, <1>10
  <2> QED BY <1>4, <2>1, MarkedMoved
<1>12. PICK r : r = InsertParam(w, p)
  OBVIOUS
<1>13. r = [info |-> z + Len(p.data) + coding.header, mem |-> m2]
  BY <1>1, <1>2, <1>3, <1>8, <1>9, <1>12 DEF InsertParam
<1>14. /\ Len(p.data) \in Nat /\ coding.header \in Nat /\ coding.end \in Nat
       /\ o[n + 1] \in Nat
  <2>1. n + 1 \in 1 .. n + 1 /\ o \in [1 .. n + 1 -> Nat]
    BY <1>4, <1>5 DEF Marked
  <2> QED BY <2>1, ParamFacts, FormatIs
<1>15. /\ r.info = z + (Len(p.data) + coding.header) /\ r.mem = m2 /\ r.info \in Nat /\ r.info # 0
       /\ r.info = u[Len(M) + 1] + coding.end
  <2>1. z + Len(p.data) + coding.header = z + (Len(p.data) + coding.header)
        /\ z + (Len(p.data) + coding.header) \in Nat /\ z + (Len(p.data) + coding.header) # 0
    <3>1. PICK f, h \in Nat : f = Len(p.data) /\ h = coding.header
      BY <1>14
    <3>2. z + f + h = z + (f + h) /\ z + (f + h) \in Nat /\ z + (f + h) # 0
      BY <1>3
    <3> QED BY <3>1, <3>2
  <2>2. r.info = z + (Len(p.data) + coding.header) /\ r.mem = m2
    BY <1>13, <2>1
  <2>3. z + (Len(p.data) + coding.header) = (o[n + 1] + (Len(p.data) + coding.header)) + coding.end
    BY <1>4, <1>5, <1>14
  <2> QED BY <1>5, <1>11, <2>1, <2>2, <2>3
<1>16. Compact(r.mem, r.info)
  BY <1>10, <1>15 DEF Moved
<1>17. Sorted(M)
  BY <1>4, SplicedSorted
<1>18. Encodes(coding, r, M, u)
  BY <1>11, <1>15, <1>16, <1>17 DEF Encodes
<1> QED BY <1>1, <1>3, <1>12, <1>13, <1>18

-----------------------------------------------------------------------------
(* Messages that are begun, get an end marker or a parameter, are copied.  *)
LEMMA EmptyIs ==
  ASSUME NEW c, NEW r, r.info = 0, DOMAIN r.mem = {}, NEW o
  PROVE  Encodes(c, r, <<>>, o)
<1>1. Sorted(<<>>)
  BY DEF Sorted
<1>2. Compact(r.mem, 0)
  <2>1. 0 \in 0 .. 0 /\ 0 .. 0 - 1 = {}
    OBVIOUS
  <2> QED BY <2>1 DEF Compact
<1> QED BY <1>1, <1>2 DEF Encodes

LEMMA WithEndIs ==
  ASSUME coding \in Codings, NEW w, NEW L, NEW o, Encodes(coding, w, L, o)
  PROVE  /\ \E u : Encodes(coding, WithEnd(w), L, u)
         /\ WithEnd(w).info = IF w.info = 0 THEN 2 ELSE w.info
<1>1. CASE w.info # 0
  BY <1>1 DEF WithEnd
<1>2. CASE w.info = 0
  <2>1. L = <<>> /\ Sorted(L)
    BY <1>2 DEF Encodes
  <2>2. DOMAIN w.mem = {}
    <3>1. PICK x \in 0 .. 0 : DOMAIN w.mem = 0 .. x - 1
      BY <1>2 DEF Encodes, Compact
    <3> QED BY <3>1
  <2>3. PICK l \in Nat : l = coding.width /\ l >= 1 /\ l <= 2
    BY FormatIs
  <2>4. PICK s : s = Number(0) /\ Text(Value, s, l) /\ s[1] = 0
    BY <2>3, NumberIs
  <2>5. PICK m : m = Write(w.mem, 0, s)
    OBVIOUS
  <2>6. Overwritten(w.mem, m, 0, s, l)
    BY <2>4, <2>5, Written
  <2>7. /\ DOMAIN m = 0 .. l - 1
        /\ \A i \in 0 .. l - 1 : m[i] = s[i - 0 + 1] /\ Cell(m, i) = s[i - 0 + 1]
    BY <2>2, <2>6 DEF Overwritten
  <2>8. Cell(m, 0) = 0
    <3>1. 0 \in 0 .. l - 1 /\ 0 - 0 + 1 = 1
      BY <2>3
    <3> QED BY <2>4, <2>7, <3>1
  <2>9. Compact(m, 2)
    <3>1. l \in 0 .. 2
      BY <2>3
    <3>2. ASSUME NEW i \in DOMAIN m PROVE m[i] \in Nat \cup {Junk}
      <4>1. i - 0 + 1 \in 1 .. l
        BY <2>7
      <4>2. s[i - 0 + 1] \in Value
        BY <2>4, <4>1 DEF Text
      <4> QED BY <2>7, <4>2 DEF Value
    <3> QED BY <2>7, <3>1, <3>2 DEF Compact
  <2>10. PICK r : r = WithEnd(w)
    OBVIOUS
  <2>11. r.info = 2 /\ r.mem = m
    <3>1. coding.end = 2
      BY FormatIs
    <3> QED BY <1>2, <2>4, <2>5, <2>10, <3>1 DEF WithEnd, SetENDOfParams
  <2> DEFINE u == [i \in 1 .. 1 |-> 0]
  <2>12. Marked(coding, m, L, u)
    <3>1. Len(L) = 0 /\ 1 .. 0 = {} /\ 0 + 1 = 1 /\ u \in [1 .. 1 -> Nat] /\ u[1] = 0
      BY <2>1
    <3> HIDE DEF u
    <3> QED BY <2>8, <3>1 DEF Marked
  <2>13. u[Len(L) + 1] + coding.end = 2
    <3>1. Len(L) + 1 = 1 /\ coding.end = 2
      BY <2>1, FormatIs
    <3> QED BY <3>1
  <2> HIDE DEF u
  <2>14. Encodes(coding, r, L, u)
    BY <2>1, <2>9, <2>11, <2>12, <2>13 DEF Encodes
  <2> QED BY <1>2, <2>10, <2>11, <2>14
<1> QED BY <1>1, <1>2

LEMMA CopyIs ==
  ASSUME coding \in Codings, NEW b, NEW L, NEW o, Encodes(coding, msg[b], L, o)
  PROVE  Encodes(coding, Copied(b), L, o) /\ Copied(b).info = msg[b].info
<1>1. PICK r, m : r = msg[b] /\ m = r.mem
  OBVIOUS
<1>2. PICK z \in Nat : z = r.info
  BY <1>1 DEF Encodes
<1>3. Compact(m, z) /\ Sorted(L)
  BY <1>1, <1>2 DEF Encodes
<1>4. PICK s : s = Cells(m, 0, z)
  OBVIOUS
<1>5. Text(Value, s, z) /\ \A k \in 1 .. z : s[k] = Cell(m, 0 + k - 1)
  BY <1>3, <1>4, CellsAre
<1>6. PICK m2 : m2 = Write(Unwritten.mem, 0, s)
  OBVIOUS
<1>7. Overwritten(<<>>, m2, 0, s, z)
  <2>1. Unwritten.mem = <<>>
    BY DEF Unwritten
  <2> QED BY <1>5, <1>6, <2>1, Written
<1>8. /\ DOMAIN m2 = 0 .. z - 1
      /\ \A i \in 0 .. z - 1 : m2[i] = s[i - 0 + 1] /\ Cell(m2, i) = s[i - 0 + 1]
  <2>1. DOMAIN <<>> = {}
    OBVIOUS
  <2> QED BY <1>7, <2>1 DEF Overwritten
<1>9. ASSUME NEW i \in 0 .. z - 1 PROVE Cell(m2, i) = Cell(m, i) /\ m2[i] \in Value
  <2>1. i - 0 + 1 \in 1 .. z /\ 0 + (i - 0 + 1) - 1 = i
    OBVIOUS
  <2>2. s[i - 0 + 1] \in Value
    BY <1>5, <2>1 DEF Text
  <2> QED BY <1>5, <1>8, <2>1, <2>2
<1>10. Compact(m2, z)
  <2>1. z \in 0 .. z
    OBVIOUS
  <2> QED BY <1>8, <1>9, <2>1 DEF Compact, Value
<1>11. PICK r2 : r2 = Copied(b)
  OBVIOUS
<1>12. r2.info = z /\ r2.mem = m2
  BY <1>1, <1>2, <1>4, <1>6, <1>11 DEF Copied
<1>13. CASE z = 0
  <2>1. L = <<>>
    BY <1>1, <1>2, <1>13 DEF Encodes
  <2>2. DOMAIN m2 = {}
    BY <1>8, <1>13
  <2> QED BY <1>1, <1>2, <1>11, <1>12, <1>13, <2>1, <2>2, EmptyIs
<1>14. CASE z # 0
  <2>1. Marked(coding, m, L, o) /\ z = o[Len(L) + 1] + coding.end
    BY <1>1, <1>2, <1>14 DEF Encodes
  <2>2. PICK n \in Nat : n = Len(L)
    BY <1>3 DEF Sorted
  <2>3. PICK h \in Nat : h = coding.header
    BY FormatIs
  <2>4. o \in [1 .. n + 1 -> Nat] /\ o[n + 1] \in Nat /\ o[n + 1] < z
    <3>1. n + 1 \in 1 .. n + 1 /\ o \in [1 .. n + 1 -> Nat] /\ coding.end = 2
      BY <2>1, <2>2, FormatIs DEF Marked
    <3>2. PICK x \in Nat : x = o[n + 1]
      BY <3>1
    <3> QED BY <2>1, <2>2, <3>1, <3>2
  <2>5. ASSUME NEW k \in 1 .. n PROVE Holds(coding, m2, o[k], L[k])
    <3>0. /\ L[k] \in Param /\ o[k] \in Nat /\ o[k + 1] \in Nat
          /\ o[k + 1] = o[k] + Len(L[k].data) + coding.header
          /\ Holds(coding, m, o[k], L[k]) /\ o[k + 1] <= o[n + 1]
          /\ Len(L[k].data) \in Nat
      <4>1. k \in 1 .. Len(L)
        BY <2>2
      <4> QED BY <1>3, <2>1, <2>2, <4>1, Within
    <3>1. PICK q \in Param : q = L[k] /\ Len(q.data) \in Nat
      BY <3>0, Zenon
    <3>2. PICK i \in Nat : i = o[k] /\ Holds(coding, m, i, q) /\ o[k + 1] = i + Len(q.data) + coding.header
      BY <3>0, <3>1, Zenon
    <3>3. o[k + 1] <= o[n + 1] /\ o[k + 1] \in Nat
      BY <3>0
    <3>4. PICK e \in Int : e = 0 /\ i + e = i
      OBVIOUS
    <3>5. Carried(m, m2, i, e, Len(q.data) + coding.header)
      <4>1. PICK f \in Nat : f = Len(q.data)
        BY <3>1
      <4>2. i + f + h = i + (f + h)
        OBVIOUS
      <4>3. PICK l \in Nat : l = Len(q.data) + coding.header /\ o[k + 1] = i + l
        <5>1. f + h \in Nat /\ f + h = Len(q.data) + coding.header /\ o[k + 1] = i + (f + h)
          BY <2>3, <3>2, <4>1, <4>2
        <5> QED BY <5>1, Zenon
      <4>4. ASSUME NEW x \in i .. i + l - 1 PROVE x \in 0 .. z - 1 /\ x + e = x
        BY <2>4, <3>3, <3>4, <4>3
      <4>5. \A x \in i .. i + l - 1 : Cell(m2, x + e) = Cell(m, x)
        BY <1>9, <4>4
      <4> QED BY <4>3, <4>5 DEF Carried
    <3>6. Holds(coding, m2, i + e, q)
      <4>1. i \in Int
        OBVIOUS
      <4> QED BY <3>2, <3>5, <4>1, HoldsMoved
    <3> QED BY <3>1, <3>2, <3>4, <3>6
  <2>6. Cell(m2, o[n + 1]) = 0
    <3>1. o[n + 1] \in 0 .. z - 1
      BY <2>4
    <3>2. Cell(m, o[n + 1]) = 0
      BY <2>1, <2>2 DEF Marked
    <3> QED BY <1>9, <3>1, <3>2
  <2>7. Marked(coding, m2, L, o)
    BY <2>1, <2>2, <2>5, <2>6 DEF Marked
  <2>8. Encodes(coding, r2, L, o)
    BY <1>2, <1>3, <1>10, <1>12, <1>14, <2>1, <2>7 DEF Encodes
  <2> QED BY <1>1, <1>2, <1>11, <1>12, <2>8
<1> QED BY <1>13, <1>14

LEMMA AddIs ==
  ASSUME coding \in Codings, NEW w, NEW L, NEW o, Encodes(coding, w, L, o), NEW p \in Param
  PROVE  /\ \E u : Encodes(coding, InsertParam(w, p), PL!Insert(L, p), u)
         /\ InsertParam(w, p).info \in Nat
         /\ InsertParam(w, p).info <= w.info + Len(p.data) + 6
         /\ InsertParam(w, p).info # 0
<1>1. PICK v : v = WithEnd(w)
  OBVIOUS
<1>2. PICK u : Encodes(coding, v, L, u)
  BY <1>1, WithEndIs
<1>3. v.info = (IF w.info = 0 THEN 2 ELSE w.info) /\ w.info \in Nat
  BY <1>1, WithEndIs DEF Encodes
<1>4. Sorted(L) /\ L \in Seq(Param)
  BY DEF Encodes, Sorted
<1>5. PICK k : k = Cardinality({i \in DOMAIN L : L[i].code <= p.code})
  OBVIOUS
<1>6. Belongs(L, p, k)
  BY <1>4, <1>5, PlaceIs
<1>7. PICK M : M = SubSeq(L, 1, k) \o <<p>> \o SubSeq(L, k + 1, Len(L))
  OBVIOUS
<1>8. Spliced(Param, M, L, p, Len(L), k)
  <2>1. Text(Param, L, Len(L)) /\ k \in 0 .. Len(L)
    BY <1>4, <1>6 DEF Text, Belongs
  <2> QED BY <1>7, <2>1, Splicing
<1>9. PL!Insert(L, p) = M
  <2>1. \A S : PL!Cardinality(S) = Cardinality(S)
    BY DEF PL!Cardinality, Cardinality
  <2> QED BY <1>5, <1>7, <2>1 DEF PL!Insert
<1>10. v.info # 0
  BY <1>3
<1>11. PICK r : r = InsertParam(w, p)
  OBVIOUS
<1>12. (\E x : Encodes(coding, r, M, x)) /\ r.info = v.info + Len(p.data) + coding.header
  BY <1>1, <1>2, <1>6, <1>8, <1>10, <1>11, Inserted
<1>13. PICK l \in Nat : l = Len(p.data)
  BY ParamFacts
<1>14. PICK h \in Nat : h = coding.header /\ h <= 4
  BY FormatIs
<1>15. PICK i \in Nat : i = w.info
  BY <1>3
<1>16. PICK j \in Nat : j = v.info /\ j # 0 /\ j <= i + 2
  <2>1. CASE i = 0
    BY <1>3, <1>15, <2>1
  <2>2. CASE i # 0
    BY <1>3, <1>15, <2>2
  <2> QED BY <2>1, <2>2
<1>17. j + l + h \in Nat /\ j + l + h <= i + l + 6 /\ j + l + h # 0
  BY <1>14, <1>16
<1>18. r.info = j + l + h
  BY <1>12, <1>13, <1>14, <1>16
<1> QED BY <1>9, <1>11, <1>12, <1>13, <1>15, <1>17, <1>18

-----------------------------------------------------------------------------
(* The steps and the contents of messages.                                 *)
UseFacts ==
  IInv => /\ InUse \subseteq Buffer /\ NoBuffer \notin InUse
          /\ \A b \in InUse : ~Free(b, pool)
          /\ \A b \in Buffer : Free(b, pool) \/ b \in InUse

LEMMA UseIs == UseFacts
<1> SUFFICES ASSUME IInv
             PROVE  /\ InUse \subseteq Buffer /\ NoBuffer \notin InUse
                    /\ \A b \in InUse : ~Free(b, pool)
                    /\ \A b \in Buffer : Free(b, pool) \/ b \in InUse
  BY DEF UseFacts
<1>1. Range(mail) \subseteq Buffer /\ NoBuffer \notin Buffer
  BY RangeFacts, Classes DEF IInv, Places
<1>2. InUse \subseteq Buffer /\ NoBuffer \notin InUse
  BY <1>1 DEF IInv, Places, InUse
<1>3. \A b \in InUse : ~Free(b, pool)
  BY DEF IInv, Places, InUse
<1>4. \A b \in Buffer : Free(b, pool) \/ b \in InUse
  BY <1>1 DEF IInv, Places, InUse
<1> QED BY <1>2, <1>3, <1>4

LEMMA UseNext == UseFacts'
BY UseIs, PTL

LEMMA ContentsFrom ==
  ASSUME LInv, UNCHANGED coding,
         \A b \in InUse' :
           \/ b \in InUse /\ msg'[b] = msg[b]
           \/ /\ msg'[b].info + MSG_HEADER_LENGTH <= Length[b]
              /\ \E L, o : Encodes(coding, msg'[b], L, o),
         \A b \in Buffer : Free(b, pool') => msg'[b] = Unwritten,
         {coder'.current, coder'.new} \subseteq Buffer \cup {NoBuffer}
  PROVE  Contents'
<1>1. ASSUME NEW b \in InUse'
      PROVE  Fits(b)' /\ \E L, o : Encodes(coding', msg'[b], L, o)
  <2>1. CASE b \in InUse /\ msg'[b] = msg[b]
    <3>1. Fits(b) /\ \E L, o : Encodes(coding, msg[b], L, o)
      BY <2>1 DEF LInv, Contents
    <3> QED BY <2>1, <3>1 DEF Fits
  <2>2. CASE /\ msg'[b].info + MSG_HEADER_LENGTH <= Length[b]
             /\ \E L, o : Encodes(coding, msg'[b], L, o)
    BY <2>2 DEF Fits
  <2> QED BY <2>1, <2>2
<1> QED BY <1>1 DEF Contents, Free

LEMMA SearchingKept ==
  ASSUME LInv, UNCHANGED <<coding, current>>, coder'.offset = coder.offset,
         current # NoBuffer => msg'[current] = msg[current]
  PROVE  Searching'
<1> SUFFICES ASSUME coder'.offset # Unknown
             PROVE  /\ current' # NoBuffer
                    /\ \A L, o : Encodes(coding', msg'[current'], L, o)
                         => Between(msg'[current'], coder'.offset, L, o)
  BY DEF Searching
<1>1. current # NoBuffer
  BY DEF LInv, Searching
<1>2. msg'[current'] = msg[current] /\ current' = current
  BY <1>1
<1> QED BY <1>1, <1>2 DEF LInv, Searching

LEMMA SearchingEnded == ASSUME coder'.offset = Unknown PROVE Searching'
BY DEF Searching

LEMMA SameLInv ==
  ASSUME LInv, UNCHANGED <<coding, pool, msg, current, new, coder, mail>>,
         locked' \subseteq Class, halted' \in BOOLEAN, IInv'
  PROVE  LInv'
<1>1. InUse' = InUse
  BY DEF InUse
<1>2. Contents'
  BY <1>1 DEF LInv, Contents, Fits, Free
<1>3. Searching'
  BY DEF LInv, Searching
<1> QED BY <1>2, <1>3 DEF LInv

LEMMA AskedAreClasses == \A n, p : AskedInVain(n, p) \subseteq Class
BY DEF AskedInVain, Fitting

LEMMA HaltLInv == ASSUME LInv, NEW n, NEW p, Halt(n, p), IInv' PROVE LInv'
<1>1. /\ UNCHANGED <<coding, pool, msg, current, new, coder, mail>>
      /\ locked' = locked \cup AskedInVain(n, p) /\ halted' = TRUE
  BY DEF Halt
<1>2. locked' \subseteq Class
  BY <1>1, AskedAreClasses DEF LInv
<1> QED BY <1>1, <1>2, SameLInv

LEMMA TakenFits ==
  ASSUME NEW p \in Pools, NEW n \in Int, CanGet(n, p)
  PROVE  n <= Length[GetBuffer(n, p)]
<1>1. PICK i \in Class : i = Source(n, p) /\ p[i] # <<>> /\ n <= Stock[i].length
  <2>1. Source(n, p) \in Serving(n, p)
    BY SourceFacts
  <2> QED BY <2>1 DEF Serving, Fitting
<1>2. p[i] \in Seq(Buffer) /\ IsInjective(p[i]) /\ \A b \in Range(p[i]) : ClassOf[b] = i
  BY DEF Pools
<1>3. PICK h \in Buffer : h = Head(p[i]) /\ h \in Range(p[i])
  BY <1>1, <1>2, WithoutFirst
<1>4. GetBuffer(n, p) = h /\ ClassOf[h] = i
  BY <1>1, <1>2, <1>3 DEF GetBuffer
<1> QED BY <1>1, <1>4 DEF Length

LEMMA ParseMessageLInv == ASSUME LInv, ParseMessage, IInv' PROVE LInv'
<1>1. /\ mail # <<>> /\ mail \in Seq(Buffer) /\ IsInjective(mail)
      /\ current' = Head(mail) /\ mail' = Tail(mail)
      /\ UNCHANGED <<coding, pool, msg, new, locked, halted>>
      /\ coder' = [coder EXCEPT !.current = Head(mail), !.offset = Unknown]
      /\ coder = [current |-> coder.current, new |-> coder.new, offset |-> coder.offset]
  BY DEF LInv, IInv, Places, Pointers, ParseMessage
<1>2. Head(mail) \in Range(mail) /\ Head(mail) \in Buffer /\ Range(Tail(mail)) \subseteq Range(mail)
  BY <1>1, WithoutFirst
<1>3. coder'.offset = Unknown /\ coder'.current = Head(mail) /\ coder'.new = coder.new
  BY <1>1
<1>4. InUse' \subseteq InUse
  BY <1>1, <1>2 DEF InUse
<1>5. Contents'
  <2>1. \A b \in InUse' : b \in InUse /\ msg'[b] = msg[b]
    BY <1>1, <1>4
  <2>2. \A b \in Buffer : Free(b, pool') => msg'[b] = Unwritten
    BY <1>1 DEF LInv, Contents
  <2>3. {coder'.current, coder'.new} \subseteq Buffer \cup {NoBuffer}
    BY <1>2, <1>3 DEF LInv, Contents
  <2> QED BY <1>1, <2>1, <2>2, <2>3, ContentsFrom
<1>6. Searching'
  BY <1>3, SearchingEnded
<1> QED BY <1>1, <1>5, <1>6 DEF LInv

LEMMA SendMessageLInv == ASSUME LInv, SendMessage, IInv' PROVE LInv'
<1>1. /\ mail' = Append(mail, new) /\ new' = NoBuffer /\ new # NoBuffer
      /\ UNCHANGED <<coding, pool, msg, current, coder, locked, halted>>
  BY DEF SendMessage
<1>2. Range(mail') = Range(mail) \cup {new}
  BY <1>1, WithLast DEF LInv, IInv, Places
<1>3. InUse' \subseteq InUse
  BY <1>1, <1>2 DEF InUse
<1>4. Contents'
  <2>1. \A b \in InUse' : b \in InUse /\ msg'[b] = msg[b]
    BY <1>1, <1>3
  <2>2. \A b \in Buffer : Free(b, pool') => msg'[b] = Unwritten
    BY <1>1 DEF LInv, Contents
  <2>3. {coder'.current, coder'.new} \subseteq Buffer \cup {NoBuffer}
    BY <1>1 DEF LInv, Contents
  <2> QED BY <1>1, <2>1, <2>2, <2>3, ContentsFrom
<1>5. Searching'
  BY <1>1, SearchingKept
<1> QED BY <1>1, <1>4, <1>5 DEF LInv

LEMMA ClearMessageLInv == ASSUME LInv, ClearMessage, IInv' PROVE LInv'
<1>1. /\ current \in Buffer /\ current # NoBuffer /\ current # new
      /\ current \notin Range(mail) /\ ~Free(current, pool) /\ pool \in Pools
      /\ pool' = RetBuffer(current, pool) /\ msg' = [msg EXCEPT ![current] = Unwritten]
      /\ current' = NoBuffer /\ coder' = [coder EXCEPT !.offset = Unknown]
      /\ UNCHANGED <<coding, new, mail, locked, halted>>
      /\ coder = [current |-> coder.current, new |-> coder.new, offset |-> coder.offset]
      /\ msg = [b \in Buffer |-> msg[b]]
  BY DEF LInv, IInv, Places, Pointers, Lengths, ClearMessage
<1>2. \A b \in Buffer : Free(b, pool') <=> Free(b, pool) \/ b = current
  BY <1>1, Returned
<1>3. msg'[current] = Unwritten /\ \A b \in Buffer : b # current => msg'[b] = msg[b]
  BY <1>1
<1>4. InUse' \subseteq InUse /\ current \notin InUse' /\ InUse \subseteq Buffer
  <2>1. InUse \subseteq Buffer
    BY UseIs DEF UseFacts, LInv
  <2> QED BY <1>1, <2>1 DEF InUse
<1>5. Contents'
  <2>1. \A b \in InUse' : b \in InUse /\ msg'[b] = msg[b]
    BY <1>3, <1>4
  <2>2. \A b \in Buffer : Free(b, pool') => msg'[b] = Unwritten
    BY <1>2, <1>3 DEF LInv, Contents
  <2>3. {coder'.current, coder'.new} \subseteq Buffer \cup {NoBuffer}
    BY <1>1 DEF LInv, Contents
  <2> QED BY <1>1, <2>1, <2>2, <2>3, ContentsFrom
<1>6. Searching'
  BY <1>1, SearchingEnded
<1> QED BY <1>1, <1>5, <1>6 DEF LInv

(* A message is begun.                                                     *)
Prepared ==
  /\ new = NoBuffer /\ new' \in Buffer /\ new' # NoBuffer /\ new' \notin InUse
  /\ UNCHANGED <<coding, current, mail, halted>> /\ locked' \subseteq Class /\ found' = NoParam
  /\ coder'.offset = coder.offset /\ coder'.current = coder.current /\ coder'.new = new'
  /\ msg'[new'].info + MSG_HEADER_LENGTH <= Length[new']
  /\ \A o : Encodes(coding, msg'[new'], <<>>, o)
  /\ \A a \in Buffer : a # new' => msg'[a] = msg[a]
  /\ \A a \in Buffer : Free(a, pool') => Free(a, pool) /\ a # new'

LEMMA PrepareNewMessageIs ==
  ASSUME LInv, PrepareNewMessage
  PROVE  Prepared \/ \E n, q : Halt(n, q)
<1> DEFINE n == MSG_HEADER_LENGTH
<1>1. n \in Int /\ new = NoBuffer /\ pool \in Pools
  BY DEF PrepareNewMessage, MSG_HEADER_LENGTH, LInv, IInv, Places
<1>2. CASE CanGet(n, pool)
  <2>1. PICK b \in Buffer : b = GetBuffer(n, pool)
    BY <1>1, <1>2, Taken
  <2>2. /\ Free(b, pool) /\ n <= Length[b]
        /\ \A a \in Buffer : Free(a, Without(n, pool)) <=> Free(a, pool) /\ a # b
    BY <1>1, <1>2, <2>1, Taken, TakenFits
  <2>3. /\ new' = b /\ pool' = Without(n, pool) /\ msg' = [msg EXCEPT ![b].info = 0]
        /\ coder' = [coder EXCEPT !.new = b] /\ found' = NoParam
        /\ locked' = locked \cup AskedInVain(n, pool)
        /\ UNCHANGED <<coding, current, mail, halted>>
    BY <1>2, <2>1 DEF PrepareNewMessage, SetNewMessage, Quiet
  <2>4. /\ coder = [current |-> coder.current, new |-> coder.new, offset |-> coder.offset]
        /\ msg = [a \in Buffer |-> msg[a]] /\ msg[b] = Unwritten
    BY <2>2 DEF LInv, IInv, Pointers, Lengths, Contents
  <2>5. /\ coder'.new = b /\ coder'.current = coder.current /\ coder'.offset = coder.offset
        /\ \A a \in Buffer : a # b => msg'[a] = msg[a]
    BY <2>3, <2>4
  <2>6. msg'[b].info = 0 /\ DOMAIN msg'[b].mem = {}
    <3>1. PICK r : r = [Unwritten EXCEPT !.info = 0]
      OBVIOUS
    <3>2. msg'[b] = r
      BY <2>3, <2>4, <3>1
    <3>3. r.info = 0 /\ DOMAIN r.mem = {}
      BY <3>1 DEF Unwritten
    <3> QED BY <3>2, <3>3
  <2>7. b # NoBuffer /\ b \notin InUse
    BY <2>2, UseIs, Classes DEF UseFacts, LInv
  <2>8. msg'[b].info + MSG_HEADER_LENGTH <= Length[b]
    BY <1>1, <2>2, <2>6
  <2>9. \A o : Encodes(coding, msg'[b], <<>>, o)
    BY <2>6, EmptyIs
  <2>10. \A a \in Buffer : Free(a, pool') => Free(a, pool) /\ a # b
    BY <2>2, <2>3
  <2>11. locked' \subseteq Class
    BY <2>3, AskedAreClasses DEF LInv
  <2>12. new' = b /\ UNCHANGED <<coding, current, mail, halted>> /\ found' = NoParam
    BY <2>3
  <2>13. Prepared
    BY <1>1, <2>5, <2>7, <2>8, <2>9, <2>10, <2>11, <2>12 DEF Prepared
  <2> QED BY <2>13
<1>3. CASE ~CanGet(n, pool)
  <2>1. Halt(n, pool)
    BY <1>3 DEF PrepareNewMessage
  <2> QED BY <2>1
<1> QED BY <1>2, <1>3

LEMMA PrepareNewMessageLInv == ASSUME LInv, PrepareNewMessage, IInv' PROVE LInv'
<1>1. CASE \E n, q : Halt(n, q)
  BY <1>1, HaltLInv
<1>2. CASE Prepared
  <2>1. /\ new' \in Buffer /\ new' # NoBuffer /\ new' \notin InUse
        /\ UNCHANGED <<coding, current, mail, halted>> /\ locked' \subseteq Class
        /\ coder'.offset = coder.offset /\ coder'.current = coder.current /\ coder'.new = new'
        /\ msg'[new'].info + MSG_HEADER_LENGTH <= Length[new']
        /\ \A o : Encodes(coding, msg'[new'], <<>>, o)
        /\ \A a \in Buffer : a # new' => msg'[a] = msg[a]
        /\ \A a \in Buffer : Free(a, pool') => Free(a, pool) /\ a # new'
    BY <1>2 DEF Prepared
  <2>2. InUse \subseteq Buffer /\ InUse' \subseteq InUse \cup {new'}
    BY <2>1, UseIs DEF UseFacts, LInv, InUse
  <2>3. Contents'
    <3>1. \E L, o : Encodes(coding, msg'[new'], L, o)
      BY <2>1
    <3>2. \A a \in InUse' : a = new' \/ (a \in InUse /\ msg'[a] = msg[a])
      BY <2>1, <2>2
    <3>3. \A a \in Buffer : Free(a, pool') => msg'[a] = Unwritten
      BY <2>1 DEF LInv, Contents
    <3>4. {coder'.current, coder'.new} \subseteq Buffer \cup {NoBuffer}
      BY <2>1 DEF LInv, Contents
    <3> QED BY <2>1, <3>1, <3>2, <3>3, <3>4, ContentsFrom
  <2>4. Searching'
    <3>1. current # NoBuffer => current \in InUse
      BY DEF InUse
    <3>2. current # NoBuffer => msg'[current] = msg[current]
      BY <2>1, <2>2, <3>1
    <3> QED BY <2>1, <3>2, SearchingKept
  <2> QED BY <2>1, <2>3, <2>4 DEF LInv
<1> QED BY <1>1, <1>2, PrepareNewMessageIs

(* A parameter is added, in the same buffer or in a larger one.            *)
Added(p) ==
  /\ new \in Buffer /\ new' \in Buffer /\ new # NoBuffer /\ new' # NoBuffer
  /\ new \in InUse /\ (new' = new \/ new' \notin InUse)
  /\ UNCHANGED <<coding, current, mail, halted>> /\ locked' \subseteq Class /\ found' = NoParam
  /\ coder'.offset = Unknown /\ coder'.current = coder.current /\ coder'.new = new'
  /\ msg'[new'].info + MSG_HEADER_LENGTH <= Length[new']
  /\ \A L, o : Encodes(coding, msg[new], L, o)
                 => \E u : Encodes(coding, msg'[new'], PL!Insert(L, p), u)
  /\ \A a \in Buffer : a # new /\ a # new' => msg'[a] = msg[a]
  /\ new' # new => msg'[new] = Unwritten
  /\ \A a \in Buffer : Free(a, pool') => (Free(a, pool) /\ a # new') \/ (a = new /\ new # new')

LEMMA AddParamIs ==
  ASSUME LInv, NEW p \in Param, AddParam(p)
  PROVE  Added(p) \/ \E n, q : Halt(n, q)
<1> DEFINE small == IsBufferSmall(new, Len(p.data))
           n     == msg[new].info + MSG_HEADER_LENGTH + Len(p.data) + 10
<1>1. /\ new \in Buffer /\ new # NoBuffer /\ new \in InUse /\ pool \in Pools /\ ~Free(new, pool)
      /\ coding \in Codings /\ coder.new = new
      /\ coder = [current |-> coder.current, new |-> coder.new, offset |-> coder.offset]
      /\ msg = [a \in Buffer |-> msg[a]]
  BY DEF LInv, IInv, Places, Pointers, Lengths, AddParam, InUse
<1>2. PICK l \in Nat : l = Len(p.data)
  BY ParamFacts
<1>3. PICK i \in Nat : i = msg[new].info
  <2>1. \E L, o : Encodes(coding, msg[new], L, o)
    BY <1>1 DEF LInv, Contents
  <2> QED BY <2>1 DEF Encodes
<1>4. n = i + 21 + l + 10 /\ n \in Int
  BY <1>2, <1>3 DEF MSG_HEADER_LENGTH
<1>5. PICK f \in Nat : f = Length[new]
  BY <1>1, Classes DEF Length
<1>6. small <=> f <= i + 21 + l + 8
  BY <1>2, <1>3, <1>5 DEF IsBufferSmall, MSG_HEADER_LENGTH
<1>7. ASSUME NEW w, NEW L, NEW o, Encodes(coding, w, L, o)
      PROVE  /\ \E u : Encodes(coding, InsertParam(w, p), PL!Insert(L, p), u)
             /\ InsertParam(w, p).info \in Nat
             /\ InsertParam(w, p).info <= w.info + Len(p.data) + 6
  BY <1>1, <1>7, AddIs
<1>8. PICK L0, o0 : Encodes(coding, msg[new], L0, o0)
  BY <1>1 DEF LInv, Contents
<1>9. locked \subseteq Class /\ \A q : AskedInVain(n, q) \subseteq Class
  BY AskedAreClasses DEF LInv
<1>10. CASE ~small
  <2>1. /\ new' = new /\ pool' = pool /\ UNCHANGED <<coding, current, mail, locked, halted>>
        /\ coder' = [coder EXCEPT !.offset = Unknown] /\ found' = NoParam
        /\ msg' = [msg EXCEPT ![coder.new] = InsertParam(@, p)]
    BY <1>10 DEF AddParam, Quiet
  <2>2. PICK r : r = InsertParam(msg[new], p)
    OBVIOUS
  <2>3. msg'[new] = r /\ \A a \in Buffer : a # new => msg'[a] = msg[a]
    BY <1>1, <2>1, <2>2
  <2>4. coder'.offset = Unknown /\ coder'.current = coder.current /\ coder'.new = new'
    BY <1>1, <2>1
  <2>5. r.info \in Nat /\ r.info <= i + l + 6
    BY <1>2, <1>3, <1>7, <1>8, <2>2
  <2>6. r.info + MSG_HEADER_LENGTH <= Length[new']
    <3>1. PICK x \in Nat : x = r.info
      BY <2>5
    <3>2. x + 21 <= f
      BY <1>6, <1>10, <2>5, <3>1
    <3> QED BY <1>5, <2>1, <3>1, <3>2 DEF MSG_HEADER_LENGTH
  <2>7. \A L, o : Encodes(coding, msg[new], L, o)
                    => \E u : Encodes(coding, msg'[new'], PL!Insert(L, p), u)
    BY <1>7, <2>1, <2>2, <2>3
  <2>8. \A a \in Buffer : Free(a, pool') => Free(a, pool) /\ a # new'
    BY <1>1, <2>1
  <2>9. /\ UNCHANGED <<coding, current, mail, halted>> /\ found' = NoParam
        /\ locked' \subseteq Class
    BY <1>9, <2>1
  <2>10. /\ new \in Buffer /\ new # NoBuffer /\ new \in InUse /\ (new' = new \/ new' \notin InUse)
         /\ new' \in Buffer /\ new' # NoBuffer /\ (new' # new => msg'[new] = Unwritten)
    BY <1>1, <2>1
  <2>11. \A a \in Buffer : a # new /\ a # new' => msg'[a] = msg[a]
    BY <2>3
  <2>12. \A a \in Buffer : Free(a, pool') => (Free(a, pool) /\ a # new') \/ (a = new /\ new # new')
    BY <2>8
  <2>13. msg'[new'].info + MSG_HEADER_LENGTH <= Length[new']
    BY <2>1, <2>3, <2>6
  <2>14. Added(p)
    BY <2>4, <2>7, <2>9, <2>10, <2>11, <2>12, <2>13 DEF Added
  <2> QED BY <2>14
<1>11. CASE small /\ CanGet(n, pool)
  <2>1. PICK b \in Buffer : b = GetBuffer(n, pool)
    BY <1>1, <1>4, <1>11, Taken
  <2>2. /\ Without(n, pool) \in Pools /\ Free(b, pool) /\ n <= Length[b]
        /\ \A a \in Buffer : Free(a, Without(n, pool)) <=> Free(a, pool) /\ a # b
    BY <1>1, <1>4, <1>11, <2>1, Taken, TakenFits
  <2>3. PICK left \in Pools : left = Without(n, pool)
    BY <2>2
  <2>4. \A a \in Buffer : Free(a, left) <=> Free(a, pool) /\ a # b
    BY <2>2, <2>3
  <2>5. \A a \in Buffer : Free(a, RetBuffer(new, left)) <=> Free(a, left) \/ a = new
    BY <1>1, <2>4, Returned
  <2>6. PICK grown : grown = [msg EXCEPT ![b] = Copied(new), ![new] = Unwritten]
    OBVIOUS
  <2>7. /\ new' = b /\ pool' = RetBuffer(new, left) /\ found' = NoParam
        /\ coder' = [SetNewMessage(b) EXCEPT !.offset = Unknown]
        /\ msg' = [grown EXCEPT ![SetNewMessage(b).new] = InsertParam(@, p)]
        /\ locked' = locked \cup AskedInVain(n, pool)
        /\ UNCHANGED <<coding, current, mail, halted>>
    BY <1>11, <2>1, <2>3, <2>6 DEF AddParam, Quiet
  <2>8. SetNewMessage(b) = [current |-> coder.current, new |-> b, offset |-> coder.offset]
    BY <1>1 DEF SetNewMessage
  <2>9. coder'.offset = Unknown /\ coder'.current = coder.current /\ coder'.new = new'
        /\ SetNewMessage(b).new = b
    BY <2>7, <2>8
  <2>10. b # new /\ b # NoBuffer
    BY <1>1, <2>2, Classes
  <2>11. /\ grown = [a \in Buffer |-> grown[a]]
         /\ grown[b] = Copied(new) /\ grown[new] = Unwritten
         /\ \A a \in Buffer : a # b /\ a # new => grown[a] = msg[a]
    BY <1>1, <2>6, <2>10
  <2>12. PICK r : r = InsertParam(Copied(new), p)
    OBVIOUS
  <2>13. msg' = [grown EXCEPT ![b] = r]
    BY <2>7, <2>9, <2>11, <2>12
  <2>14. /\ msg'[b] = r /\ msg'[new] = Unwritten
         /\ \A a \in Buffer : a # b /\ a # new => msg'[a] = msg[a]
    BY <1>1, <2>10, <2>11, <2>13
  <2>15. ASSUME NEW L, NEW o, Encodes(coding, msg[new], L, o)
         PROVE  /\ \E u : Encodes(coding, r, PL!Insert(L, p), u)
                /\ r.info \in Nat /\ r.info <= i + l + 6
    <3>1. Encodes(coding, Copied(new), L, o) /\ Copied(new).info = msg[new].info
      BY <1>1, <2>15, CopyIs
    <3> QED BY <1>2, <1>3, <1>7, <2>12, <3>1
  <2>16. r.info + MSG_HEADER_LENGTH <= Length[b]
    <3>1. PICK x \in Nat : x = r.info /\ x <= i + l + 6
      BY <1>8, <2>15
    <3>2. PICK g \in Nat : g = Length[b]
      BY Classes DEF Length
    <3>3. x + 21 <= g
      BY <1>4, <2>2, <3>1, <3>2
    <3> QED BY <3>1, <3>2, <3>3 DEF MSG_HEADER_LENGTH
  <2>17. b \notin InUse
    BY <2>2, UseIs DEF UseFacts, LInv
  <2>18. \A a \in Buffer : Free(a, pool') => (Free(a, pool) /\ a # new') \/ (a = new /\ new # new')
    BY <2>4, <2>5, <2>7, <2>10
  <2>19. Added(p)
    BY <1>1, <1>9, <2>7, <2>9, <2>10, <2>14, <2>15, <2>16, <2>17, <2>18 DEF Added
  <2> QED BY <2>19
<1>12. CASE small /\ ~CanGet(n, pool)
  <2>1. Halt(n, pool)
    BY <1>12 DEF AddParam
  <2> QED BY <2>1
<1> QED BY <1>10, <1>11, <1>12

LEMMA AddParamLInv == ASSUME LInv, NEW p \in Param, AddParam(p), IInv' PROVE LInv'
<1>1. CASE \E n, q : Halt(n, q)
  BY <1>1, HaltLInv
<1>2. CASE Added(p)
  <2>1. /\ UNCHANGED <<coding, current, mail, halted>> /\ locked' \subseteq Class
        /\ new \in Buffer /\ new' \in Buffer /\ new # NoBuffer /\ new' # NoBuffer
        /\ coder'.offset = Unknown /\ coder'.current = coder.current /\ coder'.new = new'
        /\ msg'[new'].info + MSG_HEADER_LENGTH <= Length[new']
        /\ \A a \in Buffer : a # new /\ a # new' => msg'[a] = msg[a]
        /\ new' # new => msg'[new] = Unwritten
    BY <1>2 DEF Added
  <2>2. \E L, o : Encodes(coding, msg'[new'], L, o)
    <3>1. PICK L, o : Encodes(coding, msg[new], L, o)
      BY <1>2 DEF LInv, Contents, Added
    <3> QED BY <1>2, <3>1 DEF Added
  <2>3. InUse \subseteq Buffer /\ NoBuffer \notin InUse
    BY UseIs DEF UseFacts, LInv
  <2>4. \A b \in InUse' : b = new' \/ (b \in InUse /\ b # new)
    <3>1. current # NoBuffer => current # new
      BY DEF LInv, IInv, Places
    <3>2. new \notin Range(mail)
      BY <2>1 DEF LInv, IInv, Places
    <3> QED BY <2>1, <3>1, <3>2 DEF InUse
  <2>5. Contents'
    <3>1. \A b \in InUse' : \/ b \in InUse /\ msg'[b] = msg[b]
                            \/ /\ msg'[b].info + MSG_HEADER_LENGTH <= Length[b]
                               /\ \E L, o : Encodes(coding, msg'[b], L, o)
      BY <2>1, <2>2, <2>3, <2>4
    <3>2. ASSUME NEW a \in Buffer, Free(a, pool') PROVE msg'[a] = Unwritten
      <4>1. CASE Free(a, pool) /\ a # new'
        <5>1. a # new
          BY <2>1, <4>1 DEF LInv, IInv, Places
        <5> QED BY <2>1, <4>1, <5>1 DEF LInv, Contents
      <4>2. CASE a = new /\ new # new'
        BY <2>1, <4>2
      <4> QED BY <1>2, <3>2, <4>1, <4>2 DEF Added
    <3>3. {coder'.current, coder'.new} \subseteq Buffer \cup {NoBuffer}
      BY <2>1 DEF LInv, Contents
    <3> QED BY <2>1, <3>1, <3>2, <3>3, ContentsFrom
  <2>6. Searching'
    BY <2>1, SearchingEnded
  <2> QED BY <2>1, <2>5, <2>6 DEF LInv
<1> QED BY <1>1, <1>2, AddParamIs

LEMMA RemoveParamIs ==
  ASSUME LInv, RemoveParam
  PROVE  /\ new \in Buffer /\ new # NoBuffer /\ new \in InUse
         /\ UNCHANGED <<coding, pool, current, new, mail, locked, halted>> /\ found' = NoParam
         /\ coder'.offset = Unknown /\ coder'.current = coder.current /\ coder'.new = coder.new
         /\ msg'[new].info + MSG_HEADER_LENGTH <= Length[new]
         /\ \A L, o : Encodes(coding, msg[new], L, o) => \E u : Encodes(coding, msg'[new], L, u)
         /\ \A a \in Buffer : a # new => msg'[a] = msg[a]
<1>1. /\ new \in Buffer /\ new # NoBuffer /\ coder.new = new /\ new \in InUse
      /\ coding \in Codings /\ msg = [a \in Buffer |-> msg[a]]
      /\ coder = [current |-> coder.current, new |-> coder.new, offset |-> coder.offset]
      /\ msg' = [msg EXCEPT ![coder.new] = WithEnd(@)]
      /\ coder' = [coder EXCEPT !.offset = Unknown] /\ found' = NoParam
      /\ UNCHANGED <<coding, pool, current, new, mail, locked, halted>>
  BY DEF LInv, IInv, Places, Pointers, Lengths, RemoveParam, Quiet, InUse
<1>2. PICK w, r : w = msg[new] /\ r = WithEnd(w)
  OBVIOUS
<1>3. msg'[new] = r /\ \A a \in Buffer : a # new => msg'[a] = msg[a]
  BY <1>1, <1>2
<1>4. coder'.offset = Unknown /\ coder'.current = coder.current /\ coder'.new = coder.new
  BY <1>1
<1>5. \A L, o : Encodes(coding, w, L, o) => \E u : Encodes(coding, r, L, u)
  BY <1>1, <1>2, WithEndIs
<1>6. PICK L0, o0 : Encodes(coding, w, L0, o0)
  BY <1>1, <1>2 DEF LInv, Contents
<1>7. PICK i \in Nat : i = w.info
  BY <1>6 DEF Encodes
<1>8. r.info = IF i = 0 THEN 2 ELSE i
  BY <1>1, <1>2, <1>6, <1>7, WithEndIs
<1>9. PICK f \in Nat : f = Length[new] /\ f >= 23
  <2>1. Stock[ClassOf[new]].length \in Nat /\ ClassOf[new] \in Class
    BY <1>1, Classes
  <2>2. Stock[ClassOf[new]].length >= 23
    BY <2>1, RoomAssumption DEF Class, MSG_HEADER_LENGTH
  <2> QED BY <1>1, <2>1, <2>2 DEF Length
<1>10. i + 21 <= f
  BY <1>1, <1>2, <1>7, <1>9 DEF LInv, Contents, Fits, MSG_HEADER_LENGTH
<1>11. r.info + MSG_HEADER_LENGTH <= Length[new]
  <2>1. r.info + 21 <= f
    BY <1>8, <1>9, <1>10
  <2> QED BY <1>9, <2>1 DEF MSG_HEADER_LENGTH
<1> QED BY <1>1, <1>2, <1>3, <1>4, <1>5, <1>11

LEMMA RemoveParamLInv == ASSUME LInv, RemoveParam, IInv' PROVE LInv'
<1>1. /\ new \in Buffer /\ new # NoBuffer /\ new \in InUse
      /\ UNCHANGED <<coding, pool, current, new, mail, locked, halted>>
      /\ coder'.offset = Unknown /\ coder'.current = coder.current /\ coder'.new = coder.new
      /\ msg'[new].info + MSG_HEADER_LENGTH <= Length[new]
      /\ \A a \in Buffer : a # new => msg'[a] = msg[a]
  BY RemoveParamIs
<1>2. \E L, o : Encodes(coding, msg'[new], L, o)
  <2>1. PICK L, o : Encodes(coding, msg[new], L, o)
    BY <1>1 DEF LInv, Contents
  <2> QED BY <2>1, RemoveParamIs
<1>3. InUse' = InUse /\ InUse \subseteq Buffer
  BY <1>1, UseIs DEF UseFacts, LInv, InUse
<1>4. Contents'
  <2>1. \A b \in InUse' : \/ b \in InUse /\ msg'[b] = msg[b]
                          \/ /\ msg'[b].info + MSG_HEADER_LENGTH <= Length[b]
                             /\ \E L, o : Encodes(coding, msg'[b], L, o)
    BY <1>1, <1>2, <1>3
  <2>2. ASSUME NEW a \in Buffer, Free(a, pool') PROVE msg'[a] = Unwritten
    <3>1. Free(a, pool) /\ a # new
      BY <1>1, <2>2 DEF LInv, IInv, Places
    <3> QED BY <1>1, <3>1 DEF LInv, Contents
  <2>3. {coder'.current, coder'.new} \subseteq Buffer \cup {NoBuffer}
    BY <1>1 DEF LInv, Contents
  <2> QED BY <1>1, <2>1, <2>2, <2>3, ContentsFrom
<1>5. Searching'
  BY <1>1, SearchingEnded
<1> QED BY <1>1, <1>4, <1>5 DEF LInv

(* The message being processed is copied, into the buffer of the message   *)
(* under construction or into another one.                                 *)
CopyMade ==
  /\ new' \in Buffer /\ new' # NoBuffer /\ new' # current
  /\ current \in Buffer /\ current # NoBuffer /\ current \in InUse
  /\ (new' = new \/ new' \notin InUse)
  /\ UNCHANGED <<coding, current, mail, halted>> /\ locked' \subseteq Class /\ found' = NoParam
  /\ coder'.offset = coder.offset /\ coder'.current = coder.current /\ coder'.new = new'
  /\ msg'[new'].info + MSG_HEADER_LENGTH <= Length[new']
  /\ \A L, o : Encodes(coding, msg[current], L, o) => Encodes(coding, msg'[new'], L, o)
  /\ \A a \in Buffer : a # new /\ a # new' => msg'[a] = msg[a]
  /\ new \in Buffer /\ new' # new => msg'[new] = Unwritten
  /\ \A a \in Buffer : Free(a, pool') => (Free(a, pool) \/ a = new) /\ a # new'

LEMMA CopyMessageIs ==
  ASSUME LInv, CopyMessage
  PROVE  CopyMade \/ \E n, q : Halt(n, q)
<1> DEFINE n == msg[current].info + MSG_HEADER_LENGTH
<1>1. /\ current \in Buffer /\ current # NoBuffer /\ current \in InUse /\ current # new
      /\ pool \in Pools /\ ~Free(current, pool) /\ coding \in Codings /\ coder.current = current
      /\ coder = [current |-> coder.current, new |-> coder.new, offset |-> coder.offset]
      /\ msg = [a \in Buffer |-> msg[a]]
  BY DEF LInv, IInv, Places, Pointers, Lengths, CopyMessage, InUse
<1>2. PICK L0, o0 : Encodes(coding, msg[current], L0, o0)
  BY <1>1 DEF LInv, Contents
<1>3. PICK i \in Nat : i = msg[current].info
  BY <1>2 DEF Encodes
<1>4. n = i + 21 /\ n \in Int
  BY <1>3 DEF MSG_HEADER_LENGTH
<1>5. PICK left \in Pools : /\ left = ReturnNew(pool)
                            /\ \A a \in Buffer : Free(a, left) <=> Free(a, pool) \/ a = new
  <2>1. CASE new = NoBuffer
    BY <1>1, <2>1, Classes DEF ReturnNew
  <2>2. CASE new # NoBuffer
    <3>1. new \in Buffer /\ ~Free(new, pool)
      BY <2>2 DEF LInv, IInv, Places
    <3> QED BY <1>1, <2>2, <3>1, Returned DEF ReturnNew
  <2> QED BY <2>1, <2>2
<1>6. locked \subseteq Class /\ AskedInVain(n, left) \subseteq Class
  BY AskedAreClasses DEF LInv
<1>7. CASE CanGet(n, left)
  <2>1. PICK b \in Buffer : b = GetBuffer(n, left)
    BY <1>4, <1>7, Taken
  <2>2. /\ Free(b, left) /\ n <= Length[b]
        /\ \A a \in Buffer : Free(a, Without(n, left)) <=> Free(a, left) /\ a # b
    BY <1>4, <1>7, <2>1, Taken, TakenFits
  <2>3. PICK r : r = Copied(current)
    OBVIOUS
  <2>4. /\ new' = b /\ pool' = Without(n, left) /\ coder' = [coder EXCEPT !.new = b]
        /\ msg' = [a \in Buffer |-> CASE a = b -> r
                                      [] a = new /\ new # b -> Unwritten
                                      [] OTHER -> msg[a]]
        /\ locked' = locked \cup AskedInVain(n, left) /\ found' = NoParam
        /\ UNCHANGED <<coding, current, mail, halted>>
    BY <1>1, <1>5, <1>7, <2>1, <2>3 DEF CopyMessage, SetNewMessage, Quiet
  <2>5. coder'.offset = coder.offset /\ coder'.current = coder.current /\ coder'.new = new'
    BY <1>1, <2>4
  <2>6. b # NoBuffer /\ b # current /\ (b = new \/ b \notin InUse)
    <3>1. Free(b, pool) \/ b = new
      BY <1>5, <2>2
    <3>2. Free(b, pool) => b \notin InUse
      BY UseIs DEF UseFacts, LInv
    <3> QED BY <1>1, <3>1, <3>2, Classes
  <2>7. /\ msg'[b] = r
        /\ new \in Buffer /\ b # new => msg'[new] = Unwritten
        /\ \A a \in Buffer : a # new /\ a # b => msg'[a] = msg[a]
    BY <2>4
  <2>8. \A L, o : Encodes(coding, msg[current], L, o) => Encodes(coding, r, L, o)
    BY <1>1, <2>3, CopyIs
  <2>9. r.info + MSG_HEADER_LENGTH <= Length[b]
    <3>1. r.info = msg[current].info
      BY <1>1, <1>2, <2>3, CopyIs
    <3> QED BY <2>2, <3>1
  <2>10. \A a \in Buffer : Free(a, pool') => (Free(a, pool) \/ a = new) /\ a # b
    BY <1>5, <2>2, <2>4
  <2>11. /\ new' = b /\ UNCHANGED <<coding, current, mail, halted>> /\ found' = NoParam
         /\ locked' \subseteq Class
    BY <1>6, <2>4
  <2>12. /\ msg'[new'].info + MSG_HEADER_LENGTH <= Length[new']
         /\ \A L, o : Encodes(coding, msg[current], L, o) => Encodes(coding, msg'[new'], L, o)
    BY <2>7, <2>8, <2>9, <2>11
  <2>13. CopyMade
    BY <1>1, <2>5, <2>6, <2>7, <2>10, <2>11, <2>12 DEF CopyMade
  <2> QED BY <2>13
<1>8. CASE ~CanGet(n, left)
  <2>1. Halt(n, left)
    BY <1>5, <1>8 DEF CopyMessage
  <2> QED BY <2>1
<1> QED BY <1>7, <1>8

LEMMA CopyMessageLInv == ASSUME LInv, CopyMessage, IInv' PROVE LInv'
<1>1. CASE \E n, q : Halt(n, q)
  BY <1>1, HaltLInv
<1>2. CASE CopyMade
  <2>1. /\ UNCHANGED <<coding, current, mail, halted>> /\ locked' \subseteq Class
        /\ new' \in Buffer /\ new' # NoBuffer /\ new' # current
        /\ current \in Buffer /\ current # NoBuffer /\ current \in InUse
        /\ coder'.offset = coder.offset /\ coder'.current = coder.current /\ coder'.new = new'
        /\ msg'[new'].info + MSG_HEADER_LENGTH <= Length[new']
        /\ \A a \in Buffer : a # new /\ a # new' => msg'[a] = msg[a]
        /\ new \in Buffer /\ new' # new => msg'[new] = Unwritten
    BY <1>2 DEF CopyMade
  <2>2. \E L, o : Encodes(coding, msg'[new'], L, o)
    <3>1. PICK L, o : Encodes(coding, msg[current], L, o)
      BY <2>1 DEF LInv, Contents
    <3> QED BY <1>2, <3>1 DEF CopyMade
  <2>3. InUse \subseteq Buffer /\ NoBuffer \notin InUse
    BY UseIs DEF UseFacts, LInv
  <2>4. current # new /\ (new \in Buffer => new \notin Range(mail))
    BY <2>1, Classes DEF LInv, IInv, Places
  <2>5. \A b \in InUse' : b = new' \/ (b \in InUse /\ b # new)
    <3>1. NoBuffer \notin Range(mail)
      BY <2>3 DEF InUse
    <3>2. new \notin Range(mail)
      BY <2>4, <3>1 DEF LInv, IInv, Places
    <3> QED BY <2>1, <2>4, <3>2 DEF InUse
  <2>6. Contents'
    <3>1. \A b \in InUse' : \/ b \in InUse /\ msg'[b] = msg[b]
                            \/ /\ msg'[b].info + MSG_HEADER_LENGTH <= Length[b]
                               /\ \E L, o : Encodes(coding, msg'[b], L, o)
      BY <2>1, <2>2, <2>3, <2>5
    <3>2. ASSUME NEW a \in Buffer, Free(a, pool') PROVE msg'[a] = Unwritten
      <4>1. (Free(a, pool) \/ a = new) /\ a # new'
        BY <1>2, <3>2 DEF CopyMade
      <4>2. CASE a = new
        BY <2>1, <4>1, <4>2
      <4>3. CASE Free(a, pool) /\ a # new
        BY <2>1, <4>1, <4>3 DEF LInv, Contents
      <4> QED BY <4>1, <4>2, <4>3
    <3>3. {coder'.current, coder'.new} \subseteq Buffer \cup {NoBuffer}
      BY <2>1 DEF LInv, Contents
    <3> QED BY <2>1, <3>1, <3>2, <3>3, ContentsFrom
  <2>7. Searching'
    <3>1. msg'[current] = msg[current]
      BY <2>1, <2>4
    <3> QED BY <2>1, <3>1, SearchingKept
  <2> QED BY <2>1, <2>6, <2>7 DEF LInv
<1> QED BY <1>1, <1>2, CopyMessageIs

-----------------------------------------------------------------------------
(* Searches.                                                               *)
Outcome(L, o, code, j) ==
  \/ Missing(L, code, j, Len(L)) /\ found' = NoParam /\ coder'.offset = 0
  \/ \E t : /\ FirstAt(L, code, j, Len(L), t)
           /\ found' = o[t] /\ coder'.offset = o[t + 1]

(* Where a search from start begins in the list.                           *)
Begins(r, start, o, j) == IF r.info = 0 THEN start = 0 /\ j = 1 ELSE start = o[j]

LEMMA FirstOf ==
  ASSUME NEW n \in Nat, NEW j \in 1 .. n + 1, NEW L, NEW code, ~Missing(L, code, j, n)
  PROVE  \E t : FirstAt(L, code, j, n, t)
<1> DEFINE S == {t \in j .. n : L[t].code = code}
<1>1. S \subseteq Nat /\ S # {}
  BY DEF Missing
<1>2. PICK t \in S : \A u \in S : t <= u
  <2> HIDE DEF S
  <2> QED BY <1>1, LeastNatural
<1>3. FirstAt(L, code, j, n, t)
  BY <1>2 DEF FirstAt
<1> QED BY <1>3

LEMMA FindIs ==
  ASSUME LInv, current # NoBuffer, NEW code, NEW start, Find(code, start),
         NEW L, NEW o, Encodes(coding, msg[current], L, o),
         NEW j \in 1 .. Len(L) + 1, Begins(msg[current], start, o, j)
  PROVE  Outcome(L, o, code, j)
<1>1. PICK f : f = FindParam(code, start)
  OBVIOUS
<1>2. coder = [current |-> coder.current, new |-> coder.new, offset |-> coder.offset]
      /\ coder.current = current /\ coding \in Codings
  BY DEF LInv, IInv, Pointers, Lengths
<1>3. found' = f.at /\ coder'.offset = f.offset
  <2>1. found' = f.at /\ coder' = [coder EXCEPT !.offset = f.offset]
    BY <1>1 DEF Find
  <2>2. PICK x : x = f.offset
    OBVIOUS
  <2> QED BY <1>2, <2>1, <2>2
<1>4. PICK n \in Nat : n = Len(L)
  BY DEF Encodes, Sorted
<1>5. CASE msg[current].info = 0
  <2>1. f = [at |-> NoParam, offset |-> start]
    <3>1. msg[coder.current].info = 0
      BY <1>2, <1>5
    <3>2. FindParam(code, start) = [at |-> NoParam, offset |-> start]
      BY <3>1 DEF FindParam
    <3> QED BY <1>1, <3>2
  <2>2. start = 0 /\ j = 1 /\ L = <<>>
    BY <1>5 DEF Begins, Encodes
  <2>3. j .. Len(L) = {}
    BY <2>2
  <2>4. found' = NoParam /\ coder'.offset = 0
    BY <1>3, <2>1, <2>2
  <2> QED BY <2>3, <2>4 DEF Outcome, Missing
<1>6. CASE msg[current].info # 0
  <2>1. start = o[j]
    BY <1>6 DEF Begins
  <2>2. Result(f, L, o, code, j)
    <3>1. msg[coder.current].info # 0 /\ Encodes(coding, msg[coder.current], L, o)
      BY <1>2, <1>6
    <3>2. Result(FindParam(code, o[j]), L, o, code, j)
      BY <1>2, <3>1, Finding
    <3> QED BY <1>1, <2>1, <3>2
  <2>3. CASE Missing(L, code, j, Len(L))
    <3>1. f = [at |-> NoParam, offset |-> 0]
      BY <2>2, <2>3 DEF Result
    <3>2. found' = NoParam /\ coder'.offset = 0
      BY <1>3, <3>1
    <3> QED BY <2>3, <3>2 DEF Outcome
  <2>4. CASE ~Missing(L, code, j, Len(L))
    <3>1. PICK t : FirstAt(L, code, j, n, t)
      BY <1>4, <2>4, FirstOf
    <3>2. FirstAt(L, code, j, Len(L), t)
      BY <1>4, <3>1
    <3>3. f = [at |-> o[t], offset |-> o[t + 1]]
      BY <2>2, <3>2 DEF Result
    <3>4. found' = o[t] /\ coder'.offset = o[t + 1]
      BY <1>3, <3>3
    <3> QED BY <3>2, <3>4 DEF Outcome
  <2> QED BY <2>3, <2>4
<1> QED BY <1>5, <1>6

LEMMA FromTheStart ==
  ASSUME NEW c \in Codings, NEW r, NEW L, NEW o, Encodes(c, r, L, o)
  PROVE  1 \in 1 .. Len(L) + 1 /\ Begins(r, 0, o, 1)
<1>1. PICK n \in Nat : n = Len(L)
  BY DEF Encodes, Sorted
<1>2. r.info # 0 => o[1] = 0
  BY DEF Encodes, Marked
<1> QED BY <1>1, <1>2 DEF Begins

LEMMA FromTheOffset ==
  ASSUME LInv, coder.offset # Unknown, NEW L, NEW o, Encodes(coding, msg[current], L, o)
  PROVE  \E j \in 1 .. Len(L) + 1 : Begins(msg[current], coder.offset, o, j)
<1>1. Between(msg[current], coder.offset, L, o)
  BY DEF LInv, Searching
<1>2. 1 \in 1 .. Len(L) + 1
  <2>1. PICK n \in Nat : n = Len(L)
    BY DEF Encodes, Sorted
  <2> QED BY <2>1
<1> QED BY <1>1, <1>2 DEF Between, Begins

LEMMA FindLInv ==
  ASSUME LInv, IInv', current # NoBuffer, NEW code, NEW start, Find(code, start),
         start = 0 \/ (coder.offset # Unknown /\ start = coder.offset)
  PROVE  LInv'
<1>1. /\ UNCHANGED <<coding, pool, msg, current, new, mail, locked, halted>>
      /\ coder' = [coder EXCEPT !.offset = FindParam(code, start).offset]
  BY DEF Find
<1>2. coder'.current = coder.current /\ coder'.new = coder.new
  <2>1. PICK x : x = FindParam(code, start).offset
    OBVIOUS
  <2>2. coder = [current |-> coder.current, new |-> coder.new, offset |-> coder.offset]
    BY DEF LInv, IInv, Pointers
  <2>3. coder' = [coder EXCEPT !.offset = x]
    BY <1>1, <2>1
  <2> QED BY <2>2, <2>3
<1>3. Contents'
  <2>1. InUse' = InUse
    BY <1>1 DEF InUse
  <2> QED BY <1>1, <1>2, <2>1 DEF LInv, Contents, Fits, Free
<1>4. Searching'
  <2>1. ASSUME NEW L, NEW o, Encodes(coding, msg[current], L, o)
        PROVE  Between(msg[current], coder'.offset, L, o)
    <3>1. PICK j \in 1 .. Len(L) + 1 : Begins(msg[current], start, o, j)
      <4>1. coding \in Codings
        BY DEF LInv, IInv, Lengths
      <4> QED BY <2>1, <4>1, FromTheStart, FromTheOffset
    <3>2. Outcome(L, o, code, j)
      BY <2>1, <3>1, FindIs
    <3>3. PICK n \in Nat : n = Len(L)
      BY <2>1 DEF Encodes, Sorted
    <3>4. CASE msg[current].info = 0
      <4>1. L = <<>> /\ j = 1
        BY <2>1, <3>1, <3>4 DEF Encodes, Begins
      <4>2. j .. Len(L) = {}
        BY <4>1
      <4> QED BY <3>2, <3>4, <4>2 DEF Outcome, FirstAt, Between
    <3>5. CASE msg[current].info # 0
      <4>1. o[1] = 0 /\ 1 \in 1 .. Len(L) + 1
        BY <2>1, <3>3, <3>5 DEF Encodes, Marked
      <4>2. \A t \in j .. Len(L) : t + 1 \in 1 .. Len(L) + 1
        BY <3>3
      <4>3. coder'.offset = o[1] \/ \E t \in j .. Len(L) : coder'.offset = o[t + 1]
        BY <3>2, <4>1 DEF Outcome, FirstAt
      <4>4. \E k \in 1 .. Len(L) + 1 : coder'.offset = o[k]
        BY <4>1, <4>2, <4>3
      <4> QED BY <3>5, <4>4 DEF Between
    <3> QED BY <3>4, <3>5
  <2> QED BY <1>1, <2>1 DEF Searching
<1> QED BY <1>1, <1>3, <1>4 DEF LInv

-----------------------------------------------------------------------------
LEMMA InitLInv == Init => LInv
<1> SUFFICES ASSUME Init PROVE LInv
  OBVIOUS
<1>1. IInv
  BY InitIInv
<1>2. /\ msg = [b \in Buffer |-> Unwritten] /\ mail = <<>> /\ current = NoBuffer /\ new = NoBuffer
      /\ coder = [current |-> NoBuffer, new |-> NoBuffer, offset |-> Unknown]
      /\ locked = {} /\ halted = FALSE
  BY DEF Init
<1>3. coder.current = NoBuffer /\ coder.new = NoBuffer /\ coder.offset = Unknown
  BY <1>2
<1>4. InUse = {}
  <2>1. Range(<<>>) = {}
    BY DEF Range
  <2> QED BY <1>2, <2>1 DEF InUse
<1>5. Contents
  BY <1>2, <1>3, <1>4 DEF Contents
<1>6. Searching
  BY <1>3 DEF Searching
<1> QED BY <1>1, <1>2, <1>5, <1>6 DEF LInv

LEMMA NextLInv == ASSUME LInv, [Next]_vars PROVE LInv'
<1>1. IInv'
  BY NextIInv DEF LInv
<1>2. CASE ParseMessage
  BY <1>1, <1>2, ParseMessageLInv
<1>3. CASE PrepareNewMessage
  BY <1>1, <1>3, PrepareNewMessageLInv
<1>4. CASE CopyMessage
  BY <1>1, <1>4, CopyMessageLInv
<1>5. CASE SendMessage
  BY <1>1, <1>5, SendMessageLInv
<1>6. CASE ClearMessage
  BY <1>1, <1>6, ClearMessageLInv
<1>7. ASSUME NEW p \in Param, AddParam(p) PROVE LInv'
  BY <1>1, <1>7, AddParamLInv
<1>8. CASE RemoveParam
  BY <1>1, <1>8, RemoveParamLInv
<1>9. ASSUME NEW code \in ParamCode, GetParam(code) PROVE LInv'
  BY <1>1, <1>9, FindLInv DEF GetParam
<1>10. ASSUME NEW code \in ParamCode, GetNextParam(code) PROVE LInv'
  BY <1>1, <1>10, FindLInv DEF GetNextParam
<1>11. CASE UNCHANGED vars
  <2>1. UNCHANGED <<coding, pool, msg, current, new, coder, mail, locked, halted>>
    BY <1>11 DEF vars
  <2>2. locked' \subseteq Class /\ halted' \in BOOLEAN
    BY <2>1 DEF LInv
  <2> QED BY <1>1, <2>1, <2>2, SameLInv
<1> QED BY <1>2, <1>3, <1>4, <1>5, <1>6, <1>7, <1>8, <1>9, <1>10, <1>11 DEF Next

LEMMA ContentsInvariance == Spec => []LInv
<1>1. Init => LInv
  BY InitLInv
<1>2. LInv /\ [Next]_vars => LInv'
  BY NextLInv
<1> QED BY <1>1, <1>2, PTL DEF Spec

LEMMA OffsetInside == LInv /\ coder.offset # Unknown => coder.offset \in 0 .. msg[current].info
<1> SUFFICES ASSUME LInv, coder.offset # Unknown
             PROVE  coder.offset \in 0 .. msg[current].info
  OBVIOUS
<1>1. current # NoBuffer /\ current \in InUse /\ coding \in Codings
  BY DEF LInv, Searching, InUse, IInv, Lengths
<1>2. PICK r : r = msg[current]
  OBVIOUS
<1>3. PICK L, o : Encodes(coding, r, L, o)
  BY <1>1, <1>2 DEF LInv, Contents
<1>4. Between(r, coder.offset, L, o)
  BY <1>2, <1>3 DEF LInv, Searching
<1>5. CASE r.info = 0
  BY <1>2, <1>4, <1>5 DEF Between
<1>6. CASE r.info # 0
  <2>1. PICK n \in Nat : n = Len(L)
    BY <1>3 DEF Encodes, Sorted
  <2>2. PICK k \in 1 .. n + 1 : coder.offset = o[k]
    BY <1>4, <1>6, <2>1 DEF Between
  <2>3. Sorted(L) /\ Marked(coding, r.mem, L, o) /\ r.info = o[n + 1] + coding.end /\ coding.end = 2
    BY <1>1, <1>3, <1>6, <2>1, FormatIs DEF Encodes
  <2>4. o[k] \in Nat /\ o[n + 1] \in Nat
    <3>1. n + 1 \in 1 .. n + 1 /\ o \in [1 .. n + 1 -> Nat]
      BY <2>1, <2>3 DEF Marked
    <3> QED BY <3>1
  <2>5. o[k] <= o[n + 1]
    <3>1. n + 1 \in 1 .. n + 1
      OBVIOUS
    <3> QED BY <1>1, <2>1, <2>3, <3>1, Ordered
  <2> QED BY <1>2, <2>2, <2>3, <2>4, <2>5
<1> QED BY <1>5, <1>6

(* Buffers stay buffers and offsets stay inside the message they are from, *)
(* for any classes, formats and parameters (MessageHandler, KernelAPI,     *)
(* stdMsg and TBuffers).                                                   *)
THEOREM TypeCorrect == Spec => []TypeOK
<1>1. LInv => TypeOK
  <2> SUFFICES ASSUME LInv PROVE TypeOK
    OBVIOUS
  <2>1. ASSUME NEW b \in Buffer PROVE msg[b].info \in Nat \cup {Junk}
    <3>1. CASE Free(b, pool)
      BY <3>1 DEF LInv, Contents, Unwritten
    <3>2. CASE b \in InUse
      <4>1. PICK L, o : Encodes(coding, msg[b], L, o)
        BY <3>2 DEF LInv, Contents
      <4> QED BY <4>1 DEF Encodes
    <3> QED BY <3>1, <3>2, UseIs DEF UseFacts, LInv
  <2>2. /\ pool \in Pools /\ mail \in Seq(Buffer) /\ coding \in Codings
        /\ {current, new} \subseteq Buffer \cup {NoBuffer}
    BY DEF LInv, IInv, Places, Lengths
  <2>3. Range(mail) \subseteq Buffer
    BY <2>2, RangeFacts
  <2>4. ASSUME NEW i \in Class PROVE Range(pool[i]) \subseteq Buffer
    <3>1. pool[i] \in Seq(Buffer)
      BY <2>2 DEF Pools
    <3> QED BY <3>1, RangeFacts
  <2>5. /\ {coder.current, coder.new} \subseteq Buffer \cup {NoBuffer}
        /\ locked \subseteq Class /\ halted \in BOOLEAN
    BY DEF LInv, Contents
  <2>6. coder.offset # Unknown => coder.offset \in 0 .. msg[current].info
    BY OffsetInside
  <2> QED BY <2>1, <2>2, <2>3, <2>4, <2>5, <2>6 DEF TypeOK
<1> QED BY ContentsInvariance, <1>1, PTL

(* No operation writes past the end of a buffer, and the length of every   *)
(* message is what the walk over its parameters finds, however many        *)
(* parameters are added to it and wherever it is copied (stdMsg::AddParam, *)
(* CheckBufferSize, CopyMessage).                                          *)
THEOREM LengthsRight == Spec => []WellFormed
<1>1. LInv => WellFormed
  <2> SUFFICES ASSUME LInv, NEW b \in InUse, NEW m, m = msg[b].mem
               PROVE  /\ \A i \in DOMAIN m : i < Length[b] - MSG_HEADER_LENGTH
                      /\ msg[b].info # 0 => Code(m, End(m)) = 0 /\ End(m) + coding.end = msg[b].info
    BY DEF WellFormed
  <2>1. PICK r : r = msg[b] /\ m = r.mem
    OBVIOUS
  <2>2. PICK L, o : Encodes(coding, r, L, o)
    BY <2>1 DEF LInv, Contents
  <2>3. PICK z \in Nat : z = r.info
    BY <2>2 DEF Encodes
  <2>4. PICK f \in Nat : f = Length[b]
    <3>1. b \in Buffer
      BY UseIs DEF UseFacts, LInv
    <3> QED BY <3>1, Classes DEF Length
  <2>5. z + 21 <= f
    BY <2>1, <2>3, <2>4 DEF LInv, Contents, Fits, MSG_HEADER_LENGTH
  <2>6. ASSUME NEW i \in DOMAIN m PROVE i < f - 21
    <3>1. PICK x \in 0 .. z : DOMAIN m = 0 .. x - 1
      BY <2>1, <2>2, <2>3 DEF Encodes, Compact
    <3> QED BY <2>5, <3>1
  <2>7. ASSUME r.info # 0 PROVE Code(m, End(m)) = 0 /\ End(m) + coding.end = r.info
    <3>1. coding \in Codings
      BY DEF LInv, IInv, Lengths
    <3>2. 1 \in 1 .. Len(L) + 1
      BY <2>2, <3>1, FromTheStart
    <3>3. End(r.mem) = o[Len(L) + 1]
      BY <2>2, <2>7, <3>1, <3>2, OffsetsAre
    <3> QED BY <2>1, <2>2, <2>7, <3>3 DEF Encodes, Marked, Code
  <2> QED BY <2>1, <2>4, <2>6, <2>7 DEF MSG_HEADER_LENGTH
<1> QED BY ContentsInvariance, <1>1, PTL

-----------------------------------------------------------------------------
(* What the state stands for: C and N are the lists processed and under    *)
(* construction, M those on their way, P the position of the search and A  *)
(* its answer.                                                             *)
Means(c, m, b, L) ==
  IF b = NoBuffer THEN L = NoList ELSE b \in Buffer /\ \E o : Encodes(c, m[b], L, o)
Sent(c, m, q, M) ==
  M \in Seq(Seq(Param)) /\ Len(M) = Len(q) /\ \A k \in 1 .. Len(q) : Means(c, m, q[k], M[k])
Passing(c, m, b, at, P) ==
  IF at = Unknown THEN P = Unknown
  ELSE b \in Buffer /\ \E L, o : /\ Encodes(c, m[b], L, o)
                                 /\ \E k \in 1 .. Len(L) + 1 : Begins(m[b], at, o, k) /\ P = k - 1
Answered(c, m, b, at, A) ==
  IF at = NoParam THEN A = NoParam
  ELSE b \in Buffer /\ \E L, o : /\ Encodes(c, m[b], L, o)
                                 /\ \E t \in 1 .. Len(L) : at = o[t] /\ A = L[t]

Reads(C, N, M, P, A) ==
  /\ Means(coding, msg, current, C) /\ Means(coding, msg, new, N) /\ Sent(coding, msg, mail, M)
  /\ Passing(coding, msg, current, coder.offset, P) /\ Answered(coding, msg, current, found, A)

Shown(C, N, M, P, A) ==
  /\ List(current) = C /\ List(new) = N /\ [k \in DOMAIN mail |-> List(mail[k])] = M
  /\ (IF coder.offset = Unknown THEN Unknown ELSE Passed) = P
  /\ (IF found = NoParam THEN NoParam ELSE ParamAt(msg[current].mem, found)) = A

ReadsFacts ==
  LInv => \A C, N, M, P, A : Reads(C, N, M, P, A) => Shown(C, N, M, P, A)

LEMMA MeansIs ==
  ASSUME coding \in Codings, NEW b, NEW L, Means(coding, msg, b, L)
  PROVE  List(b) = L
<1>1. CASE b = NoBuffer
  BY <1>1 DEF Means, List
<1>2. CASE b # NoBuffer
  <2>1. PICK o : b \in Buffer /\ Encodes(coding, msg[b], L, o)
    BY <1>2 DEF Means
  <2> QED BY <2>1, ListIs DEF ListFacts
<1> QED BY <1>1, <1>2

LEMMA ReadsIs == ReadsFacts
<1> SUFFICES ASSUME LInv, NEW C, NEW N, NEW M, NEW P, NEW A, Reads(C, N, M, P, A)
             PROVE  Shown(C, N, M, P, A)
  BY DEF ReadsFacts
<1>1. coding \in Codings /\ mail \in Seq(Buffer)
  BY DEF LInv, IInv, Lengths, Places
<1>2. List(current) = C /\ List(new) = N
  BY <1>1, MeansIs DEF Reads
<1>3. [k \in DOMAIN mail |-> List(mail[k])] = M
  <2>1. /\ M \in Seq(Seq(Param)) /\ Len(M) = Len(mail)
        /\ \A k \in 1 .. Len(mail) : Means(coding, msg, mail[k], M[k])
    BY DEF Reads, Sent
  <2>2. \A k \in 1 .. Len(mail) : List(mail[k]) = M[k]
    BY <1>1, <2>1, MeansIs
  <2>3. DOMAIN mail = 1 .. Len(mail) /\ M = [k \in 1 .. Len(mail) |-> M[k]]
    BY <1>1, <2>1
  <2>4. [k \in DOMAIN mail |-> List(mail[k])] = [k \in 1 .. Len(mail) |-> M[k]]
    BY <2>2, <2>3
  <2> QED BY <2>3, <2>4
<1>4. (IF coder.offset = Unknown THEN Unknown ELSE Passed) = P
  <2>1. CASE coder.offset = Unknown
    BY <2>1 DEF Reads, Passing
  <2>2. CASE coder.offset # Unknown
    <3>1. PICK L, o : /\ Encodes(coding, msg[current], L, o)
                      /\ \E k \in 1 .. Len(L) + 1 : /\ Begins(msg[current], coder.offset, o, k)
                                                    /\ P = k - 1
      BY <2>2 DEF Reads, Passing
    <3>2. PICK k \in 1 .. Len(L) + 1 : Begins(msg[current], coder.offset, o, k) /\ P = k - 1
      BY <3>1
    <3>3. IF msg[current].info = 0 THEN k = 1 ELSE coder.offset = o[k]
      BY <3>2 DEF Begins
    <3>4. Passed = k - 1
      BY <1>1, <3>1, <3>3, PassedIs DEF PassedFacts
    <3> QED BY <2>2, <3>2, <3>4
  <2> QED BY <2>1, <2>2
<1>5. (IF found = NoParam THEN NoParam ELSE ParamAt(msg[current].mem, found)) = A
  <2>1. CASE found = NoParam
    BY <2>1 DEF Reads, Answered
  <2>2. CASE found # NoParam
    <3>1. PICK L, o : /\ Encodes(coding, msg[current], L, o)
                      /\ \E t \in 1 .. Len(L) : found = o[t] /\ A = L[t]
      BY <2>2 DEF Reads, Answered
    <3>2. PICK t \in 1 .. Len(L) : found = o[t] /\ A = L[t]
      BY <3>1
    <3>3. msg[current].info # 0
      <4>1. Len(<<>>) = 0 /\ 1 .. 0 = {}
        OBVIOUS
      <4> QED BY <3>1, <3>2, <4>1 DEF Encodes
    <3>4. Marked(coding, msg[current].mem, L, o) /\ L \in Seq(Param)
      BY <3>1, <3>3 DEF Encodes, Sorted
    <3>5. PICK q \in Param : q = L[t]
      BY <3>2, <3>4
    <3>6. Holds(coding, msg[current].mem, o[t], q)
      BY <3>2, <3>4, <3>5 DEF Marked
    <3>7. ParamAt(msg[current].mem, o[t]) = q
      BY <1>1, <3>5, <3>6, ReadAt
    <3> QED BY <2>2, <3>2, <3>5, <3>7
  <2> QED BY <2>1, <2>2
<1> QED BY <1>2, <1>3, <1>4, <1>5 DEF Shown

LEMMA ReadsNext == ReadsFacts'
BY ReadsIs, PTL

(* What was found is a parameter of the message being processed.           *)
Answering ==
  found # NoParam =>
    /\ current \in Buffer
    /\ \A L, o : Encodes(coding, msg[current], L, o) => \E t \in 1 .. Len(L) : found = o[t]

LEMMA ReadsExist ==
  ASSUME LInv, Answering
  PROVE  \E C, N, M, P, A : Reads(C, N, M, P, A)
<1>1. /\ mail \in Seq(Buffer) /\ {current, new} \subseteq Buffer \cup {NoBuffer} /\ coding \in Codings
  BY DEF LInv, IInv, Places, Lengths
<1>2. Range(mail) \subseteq InUse
  BY DEF InUse
<1>3. ASSUME NEW b \in InUse PROVE \E L : L \in Seq(Param) /\ Means(coding, msg, b, L)
  <2>1. PICK L, o : Encodes(coding, msg[b], L, o)
    BY DEF LInv, Contents
  <2>2. b \in Buffer /\ b # NoBuffer
    BY UseIs DEF UseFacts, LInv
  <2>3. L \in Seq(Param)
    BY <2>1 DEF Encodes, Sorted
  <2> QED BY <2>1, <2>2, <2>3 DEF Means
<1>4. PICK C : Means(coding, msg, current, C)
  <2>1. CASE current = NoBuffer
    BY <2>1 DEF Means
  <2>2. CASE current # NoBuffer
    <3>1. current \in InUse
      BY <2>2 DEF InUse
    <3> QED BY <1>3, <3>1
  <2> QED BY <2>1, <2>2
<1>5. PICK N : Means(coding, msg, new, N)
  <2>1. CASE new = NoBuffer
    BY <2>1 DEF Means
  <2>2. CASE new # NoBuffer
    <3>1. new \in InUse
      BY <2>2 DEF InUse
    <3> QED BY <1>3, <3>1
  <2> QED BY <2>1, <2>2
<1>6. PICK M : Sent(coding, msg, mail, M)
  <2> DEFINE Lists(k) == {L \in Seq(Param) : Means(coding, msg, mail[k], L)}
             M == [k \in 1 .. Len(mail) |-> CHOOSE L \in Seq(Param) : L \in Lists(k)]
  <2>1. ASSUME NEW k \in 1 .. Len(mail) PROVE M[k] \in Lists(k)
    <3>1. mail[k] \in InUse
      BY <1>1, <1>2, RangeFacts
    <3>2. \E L \in Seq(Param) : L \in Lists(k)
      BY <1>3, <3>1
    <3>3. M[k] = CHOOSE L \in Seq(Param) : L \in Lists(k)
      OBVIOUS
    <3> HIDE DEF M, Lists
    <3> QED BY <3>2, <3>3
  <2>2. \A k \in 1 .. Len(mail) : M[k] \in Seq(Param) /\ Means(coding, msg, mail[k], M[k])
    BY <2>1
  <2>3. Len(mail) \in Nat /\ DOMAIN M = 1 .. Len(mail)
    BY <1>1
  <2> HIDE DEF M
  <2>4. M = [k \in 1 .. Len(mail) |-> M[k]]
    BY <2>3 DEF M
  <2>5. M \in [1 .. Len(mail) -> Seq(Param)]
    BY <2>2, <2>4
  <2>6. M \in Seq(Seq(Param)) /\ Len(M) = Len(mail)
    BY <2>3, <2>5
  <2>7. Sent(coding, msg, mail, M)
    BY <2>2, <2>6 DEF Sent
  <2> QED BY <2>7
<1>7. PICK P : Passing(coding, msg, current, coder.offset, P)
  <2>1. CASE coder.offset = Unknown
    BY <2>1 DEF Passing
  <2>2. CASE coder.offset # Unknown
    <3>1. current \in Buffer /\ current \in InUse
      BY <1>1, <2>2 DEF LInv, Searching, InUse
    <3>2. PICK L, o : Encodes(coding, msg[current], L, o)
      BY <3>1 DEF LInv, Contents
    <3>3. PICK k \in 1 .. Len(L) + 1 : Begins(msg[current], coder.offset, o, k)
      BY <2>2, <3>2, FromTheOffset
    <3>4. Passing(coding, msg, current, coder.offset, k - 1)
      BY <2>2, <3>1, <3>2, <3>3 DEF Passing
    <3> QED BY <3>4
  <2> QED BY <2>1, <2>2
<1>8. PICK A : Answered(coding, msg, current, found, A)
  <2>1. CASE found = NoParam
    BY <2>1 DEF Answered
  <2>2. CASE found # NoParam
    <3>1. current \in Buffer /\ current \in InUse
      BY <2>2, Classes DEF Answering, InUse
    <3>2. PICK L, o : Encodes(coding, msg[current], L, o)
      BY <3>1 DEF LInv, Contents
    <3>3. PICK t \in 1 .. Len(L) : found = o[t]
      BY <2>2, <3>2 DEF Answering
    <3>4. Answered(coding, msg, current, found, L[t])
      BY <2>2, <3>1, <3>2, <3>3 DEF Answered
    <3> QED BY <3>4
  <2> QED BY <2>1, <2>2
<1> QED BY <1>4, <1>5, <1>6, <1>7, <1>8 DEF Reads

(* Messages on their way.                                                  *)
LEMMA SentKept ==
  ASSUME NEW c, NEW m, NEW m2, NEW q \in Seq(Buffer), NEW M, Sent(c, m, q, M),
         \A b \in Range(q) : m2[b] = m[b]
  PROVE  Sent(c, m2, q, M)
<1>1. ASSUME NEW k \in 1 .. Len(q) PROVE Means(c, m2, q[k], M[k])
  <2>1. q[k] \in Range(q) /\ Means(c, m, q[k], M[k])
    BY RangeFacts DEF Sent
  <2> QED BY <2>1 DEF Means
<1> QED BY <1>1 DEF Sent

LEMMA SentFirst ==
  ASSUME NEW c, NEW m, NEW q \in Seq(Buffer), q # <<>>, NEW M, Sent(c, m, q, M)
  PROVE  /\ M # <<>> /\ Means(c, m, Head(q), Head(M)) /\ Head(M) \in Seq(Param)
         /\ Sent(c, m, Tail(q), Tail(M))
<1>1. /\ M \in Seq(Seq(Param)) /\ Len(M) = Len(q) /\ Len(q) \in Nat /\ Len(q) # 0
      /\ \A k \in 1 .. Len(q) : Means(c, m, q[k], M[k])
  BY DEF Sent
<1>2. M # <<>> /\ Head(q) = q[1] /\ Head(M) = M[1] /\ 1 \in 1 .. Len(q)
  BY <1>1
<1>3. PICK u \in Seq(Buffer) : u = Tail(q) /\ Len(u) = Len(q) - 1 /\ \A k \in 1 .. Len(q) - 1 : u[k] = q[k + 1]
  <2>1. Tail(q) \in Seq(Buffer) /\ Len(Tail(q)) = Len(q) - 1
        /\ \A k \in 1 .. Len(q) - 1 : Tail(q)[k] = q[k + 1]
    OBVIOUS
  <2> QED BY <2>1, Zenon
<1>4. PICK U \in Seq(Seq(Param)) : /\ U = Tail(M) /\ Len(U) = Len(q) - 1
                                   /\ \A k \in 1 .. Len(q) - 1 : U[k] = M[k + 1]
  <2>1. Tail(M) \in Seq(Seq(Param)) /\ Len(Tail(M)) = Len(q) - 1
        /\ \A k \in 1 .. Len(q) - 1 : Tail(M)[k] = M[k + 1]
    BY <1>1, <1>2
  <2> QED BY <2>1, Zenon
<1>5. ASSUME NEW k \in 1 .. Len(q) - 1 PROVE Means(c, m, u[k], U[k])
  <2>1. k + 1 \in 1 .. Len(q)
    BY <1>1
  <2> QED BY <1>1, <1>3, <1>4, <2>1
<1>6. Sent(c, m, u, U)
  BY <1>3, <1>4, <1>5 DEF Sent
<1> QED BY <1>1, <1>2, <1>3, <1>4, <1>6

LEMMA SentLast ==
  ASSUME NEW c, NEW m, NEW q \in Seq(Buffer), NEW M, Sent(c, m, q, M),
         NEW b \in Buffer, NEW L \in Seq(Param), Means(c, m, b, L)
  PROVE  Sent(c, m, Append(q, b), Append(M, L))
<1>1. /\ M \in Seq(Seq(Param)) /\ Len(M) = Len(q)
      /\ \A k \in 1 .. Len(q) : Means(c, m, q[k], M[k])
  BY DEF Sent
<1>2. PICK n \in Nat : n = Len(q)
  OBVIOUS
<1>3. PICK u : /\ u = Append(q, b) /\ Len(u) = n + 1 /\ u[n + 1] = b
               /\ \A k \in 1 .. n : u[k] = q[k]
  <2>1. PICK u : u = Append(q, b)
    OBVIOUS
  <2>2. Len(u) = Len(q) + 1 /\ u[Len(q) + 1] = b /\ \A k \in 1 .. Len(q) : u[k] = q[k]
    BY <2>1, AppendProperties
  <2> QED BY <1>2, <2>1, <2>2
<1>4. PICK U : /\ U = Append(M, L) /\ U \in Seq(Seq(Param)) /\ Len(U) = n + 1 /\ U[n + 1] = L
               /\ \A k \in 1 .. n : U[k] = M[k]
  <2>1. PICK D : D = Seq(Param)
    OBVIOUS
  <2>2. PICK U : U = Append(M, L)
    OBVIOUS
  <2>3. M \in Seq(D) /\ L \in D
    BY <1>1, <2>1
  <2>4. /\ U \in Seq(D) /\ Len(U) = Len(M) + 1 /\ U[Len(M) + 1] = L
        /\ \A k \in 1 .. Len(M) : U[k] = M[k]
    BY <2>2, <2>3, AppendProperties
  <2> QED BY <1>1, <1>2, <2>1, <2>2, <2>4
<1>5. ASSUME NEW k \in 1 .. n + 1 PROVE Means(c, m, u[k], U[k])
  <2>1. CASE k = n + 1
    BY <1>3, <1>4, <2>1
  <2>2. CASE k \in 1 .. n
    BY <1>1, <1>2, <1>3, <1>4, <2>2
  <2> QED BY <2>1, <2>2
<1>6. Sent(c, m, u, U)
  BY <1>3, <1>4, <1>5 DEF Sent
<1> QED BY <1>3, <1>4, <1>6

-----------------------------------------------------------------------------
(* The steps and what the state stands for.                                *)
LEMMA MeansKept ==
  ASSUME NEW c, NEW m, NEW m2, NEW b, NEW L, Means(c, m, b, L), b \in Buffer => m2[b] = m[b]
  PROVE  Means(c, m2, b, L)
BY DEF Means

LEMMA PassingKept ==
  ASSUME NEW c, NEW m, NEW m2, NEW b, NEW at, NEW P, Passing(c, m, b, at, P),
         b \in Buffer => m2[b] = m[b]
  PROVE  Passing(c, m2, b, at, P)
BY DEF Passing

LEMMA NoSearch ==
  /\ \A c, m, b : Passing(c, m, b, Unknown, Unknown)
  /\ \A c, m, b : Answered(c, m, b, NoParam, NoParam)
  /\ \A c, m : Means(c, m, NoBuffer, NoList)
BY DEF Passing, Answered, Means

(* A message is a list of parameters, not the absence of one.              *)
LEMMA Proper ==
  ASSUME NEW c, NEW m, NEW b \in Buffer, NEW L, Means(c, m, b, L)
  PROVE  L \in Seq(Param) /\ L # NoList /\ \E o : Encodes(c, m[b], L, o)
<1>1. PICK o : Encodes(c, m[b], L, o)
  BY Classes DEF Means
<1> QED BY <1>1, MessagesAssumption DEF Encodes, Sorted

Distinct ==
  /\ mail \in Seq(Buffer) /\ {current, new} \subseteq Buffer \cup {NoBuffer}
  /\ current \in Buffer => current # new /\ current \in InUse /\ current \notin Range(mail)
  /\ new \in Buffer => new \notin Range(mail)
  /\ \A b \in Range(mail) : b \in Buffer /\ b \in InUse

LEMMA Separate == LInv => Distinct
<1> SUFFICES ASSUME LInv PROVE Distinct
  OBVIOUS
<1>1. /\ mail \in Seq(Buffer) /\ {current, new} \subseteq Buffer \cup {NoBuffer}
      /\ current # NoBuffer => current # new /\ current \notin Range(mail)
      /\ new # NoBuffer => new \notin Range(mail)
  BY DEF LInv, IInv, Places
<1>2. Range(mail) \subseteq Buffer /\ Range(mail) \subseteq InUse
  BY <1>1, RangeFacts DEF InUse
<1>3. current \in Buffer => current \in InUse
  BY Classes DEF InUse
<1> QED BY <1>1, <1>2, <1>3, Classes DEF Distinct

LEMMA StutterStep ==
  ASSUME LInv, LInv', Answering, UNCHANGED <<coding, msg, current, new, coder, mail, found>>
  PROVE  UNCHANGED PL!vars
<1>1. PICK C, N, M, P, A : Reads(C, N, M, P, A)
  BY ReadsExist
<1>2. Reads(C, N, M, P, A)'
  BY <1>1 DEF Reads
<1>3. Shown(C, N, M, P, A) /\ Shown(C, N, M, P, A)'
  BY <1>1, <1>2, ReadsIs, ReadsNext DEF ReadsFacts
<1> QED BY <1>3 DEF Shown, PL!vars

LEMMA ReceiveStep ==
  ASSUME LInv, LInv', Answering, ParseMessage
  PROVE  PL!Receive
<1>1. PICK C, N, M, P, A : Reads(C, N, M, P, A)
  BY ReadsExist
<1>2. /\ current = NoBuffer /\ mail # <<>> /\ current' = Head(mail) /\ mail' = Tail(mail)
      /\ UNCHANGED <<coding, msg, new>> /\ found' = NoParam
      /\ coder' = [coder EXCEPT !.current = Head(mail), !.offset = Unknown]
  BY DEF ParseMessage, Quiet
<1>3. coder'.offset = Unknown
  <2>1. PICK h : h = Head(mail)
    OBVIOUS
  <2>2. coder = [current |-> coder.current, new |-> coder.new, offset |-> coder.offset]
    BY DEF LInv, IInv, Pointers
  <2> QED BY <1>2, <2>1, <2>2
<1>4. C = NoList /\ M # <<>> /\ Means(coding, msg, Head(mail), Head(M))
      /\ Sent(coding, msg, Tail(mail), Tail(M))
  <2>1. mail \in Seq(Buffer)
    BY DEF LInv, IInv, Places
  <2>2. Sent(coding, msg, mail, M) /\ Means(coding, msg, current, C)
    BY <1>1 DEF Reads
  <2> QED BY <1>2, <2>1, <2>2, SentFirst DEF Means
<1>5. PICK C2, M2 : C2 = Head(M) /\ M2 = Tail(M)
  OBVIOUS
<1>6. Reads(C2, N, M2, Unknown, NoParam)'
  BY <1>1, <1>2, <1>3, <1>4, <1>5, NoSearch DEF Reads
<1>7. Shown(C, N, M, P, A) /\ Shown(C2, N, M2, Unknown, NoParam)'
  BY <1>1, <1>6, ReadsIs, ReadsNext DEF ReadsFacts
<1> QED BY <1>4, <1>5, <1>7 DEF Shown, PL!Receive, PL!Forget

LEMMA PrepareStep ==
  ASSUME LInv, LInv', Answering, Prepared
  PROVE  PL!Prepare
<1>1. PICK C, N, M, P, A : Reads(C, N, M, P, A)
  BY ReadsExist
<1>2. /\ new = NoBuffer /\ new' \in Buffer /\ new' # NoBuffer /\ new' \notin InUse
      /\ UNCHANGED <<coding, current, mail>> /\ found' = NoParam /\ coder'.offset = coder.offset
      /\ \A o : Encodes(coding, msg'[new'], <<>>, o)
      /\ \A a \in Buffer : a # new' => msg'[a] = msg[a]
  BY DEF Prepared
<1>3. Distinct
  BY Separate
<1>4. N = NoList
  BY <1>1, <1>2 DEF Reads, Means
<1>5. Means(coding, msg', current, C) /\ Passing(coding, msg', current, coder.offset, P)
  <2>1. current \in Buffer => msg'[current] = msg[current]
    BY <1>2, <1>3 DEF Distinct
  <2> QED BY <1>1, <2>1, MeansKept, PassingKept DEF Reads
<1>6. Sent(coding, msg', mail, M)
  <2>1. \A b \in Range(mail) : msg'[b] = msg[b]
    BY <1>2, <1>3 DEF Distinct
  <2> QED BY <1>1, <1>3, <2>1, SentKept DEF Reads, Distinct
<1>7. Means(coding, msg', new', <<>>)
  BY <1>2 DEF Means
<1>8. Reads(C, <<>>, M, P, NoParam)'
  BY <1>2, <1>5, <1>6, <1>7, NoSearch DEF Reads
<1>9. Shown(C, N, M, P, A) /\ Shown(C, <<>>, M, P, NoParam)'
  BY <1>1, <1>8, ReadsIs, ReadsNext DEF ReadsFacts
<1> QED BY <1>4, <1>9 DEF Shown, PL!Prepare, PL!Quiet

LEMMA AddStep ==
  ASSUME LInv, LInv', Answering, NEW p \in Param, Added(p)
  PROVE  PL!Add(p)
<1>1. PICK C, N, M, P, A : Reads(C, N, M, P, A)
  BY ReadsExist
<1>2. /\ new \in Buffer /\ new' \in Buffer /\ new' # NoBuffer /\ (new' = new \/ new' \notin InUse)
      /\ UNCHANGED <<coding, current, mail>> /\ found' = NoParam /\ coder'.offset = Unknown
      /\ \A L, o : Encodes(coding, msg[new], L, o)
                     => \E u : Encodes(coding, msg'[new'], PL!Insert(L, p), u)
      /\ \A a \in Buffer : a # new /\ a # new' => msg'[a] = msg[a]
  BY DEF Added
<1>3. Distinct
  BY Separate
<1>4. N # NoList /\ \E o : Encodes(coding, msg[new], N, o)
  BY <1>1, <1>2, Proper DEF Reads
<1>5. PICK N2 : N2 = PL!Insert(N, p)
  OBVIOUS
<1>6. Means(coding, msg', new', N2)
  BY <1>2, <1>4, <1>5 DEF Means
<1>7. Means(coding, msg', current, C)
  <2>1. current \in Buffer => msg'[current] = msg[current]
    BY <1>2, <1>3 DEF Distinct
  <2> QED BY <1>1, <2>1, MeansKept DEF Reads
<1>8. Sent(coding, msg', mail, M)
  <2>1. \A b \in Range(mail) : msg'[b] = msg[b]
    BY <1>2, <1>3 DEF Distinct
  <2> QED BY <1>1, <1>3, <2>1, SentKept DEF Reads, Distinct
<1>9. Reads(C, N2, M, Unknown, NoParam)'
  BY <1>2, <1>6, <1>7, <1>8, NoSearch DEF Reads
<1>10. Shown(C, N, M, P, A) /\ Shown(C, N2, M, Unknown, NoParam)'
  BY <1>1, <1>9, ReadsIs, ReadsNext DEF ReadsFacts
<1>11. List(new) = N /\ List(new)' = N2
  BY <1>10 DEF Shown
<1>12. List(new)' = PL!Insert(List(new), p)
  BY <1>5, <1>11
<1> QED BY <1>4, <1>10, <1>12 DEF Shown, PL!Add, PL!Forget

LEMMA RemoveStep ==
  ASSUME LInv, LInv', Answering, RemoveParam
  PROVE  PL!Remove
<1>1. PICK C, N, M, P, A : Reads(C, N, M, P, A)
  BY ReadsExist
<1>2. /\ new \in Buffer /\ new # NoBuffer
      /\ UNCHANGED <<coding, current, new, mail>> /\ found' = NoParam /\ coder'.offset = Unknown
      /\ \A L, o : Encodes(coding, msg[new], L, o) => \E u : Encodes(coding, msg'[new], L, u)
      /\ \A a \in Buffer : a # new => msg'[a] = msg[a]
  BY RemoveParamIs
<1>3. Distinct
  BY Separate
<1>4. \E o : Encodes(coding, msg[new], N, o)
  BY <1>1, <1>2, Proper DEF Reads
<1>5. Means(coding, msg', new, N)
  BY <1>2, <1>4 DEF Means
<1>6. Means(coding, msg', current, C)
  <2>1. current \in Buffer => msg'[current] = msg[current]
    BY <1>2, <1>3 DEF Distinct
  <2> QED BY <1>1, <2>1, MeansKept DEF Reads
<1>7. Sent(coding, msg', mail, M)
  <2>1. \A b \in Range(mail) : msg'[b] = msg[b]
    BY <1>2, <1>3 DEF Distinct
  <2> QED BY <1>1, <1>3, <2>1, SentKept DEF Reads, Distinct
<1>8. Reads(C, N, M, Unknown, NoParam)'
  BY <1>2, <1>5, <1>6, <1>7, NoSearch DEF Reads
<1>9. Shown(C, N, M, P, A) /\ Shown(C, N, M, Unknown, NoParam)'
  BY <1>1, <1>8, ReadsIs, ReadsNext DEF ReadsFacts
<1> QED BY <1>9 DEF Shown, PL!Remove, PL!Forget

LEMMA CopyStep ==
  ASSUME LInv, LInv', Answering, CopyMade
  PROVE  PL!Copy
<1>1. PICK C, N, M, P, A : Reads(C, N, M, P, A)
  BY ReadsExist
<1>2. /\ new' \in Buffer /\ new' # NoBuffer /\ new' # current /\ current \in Buffer
      /\ (new' = new \/ new' \notin InUse)
      /\ UNCHANGED <<coding, current, mail>> /\ found' = NoParam /\ coder'.offset = coder.offset
      /\ \A L, o : Encodes(coding, msg[current], L, o) => Encodes(coding, msg'[new'], L, o)
      /\ \A a \in Buffer : a # new /\ a # new' => msg'[a] = msg[a]
  BY DEF CopyMade
<1>3. Distinct
  BY Separate
<1>4. C # NoList /\ \E o : Encodes(coding, msg[current], C, o)
  BY <1>1, <1>2, Proper DEF Reads
<1>5. Means(coding, msg', new', C)
  BY <1>2, <1>4 DEF Means
<1>6. Means(coding, msg', current, C) /\ Passing(coding, msg', current, coder.offset, P)
  <2>1. current \in Buffer => msg'[current] = msg[current]
    BY <1>2, <1>3 DEF Distinct
  <2> QED BY <1>1, <2>1, MeansKept, PassingKept DEF Reads
<1>7. Sent(coding, msg', mail, M)
  <2>1. \A b \in Range(mail) : b # new /\ b # new' /\ b \in Buffer
    BY <1>2, <1>3 DEF Distinct
  <2>2. \A b \in Range(mail) : msg'[b] = msg[b]
    BY <1>2, <2>1
  <2> QED BY <1>1, <1>3, <2>2, SentKept DEF Reads, Distinct
<1>8. Reads(C, C, M, P, NoParam)'
  BY <1>2, <1>5, <1>6, <1>7, NoSearch DEF Reads
<1>9. Shown(C, N, M, P, A) /\ Shown(C, C, M, P, NoParam)'
  BY <1>1, <1>8, ReadsIs, ReadsNext DEF ReadsFacts
<1> QED BY <1>4, <1>9 DEF Shown, PL!Copy, PL!Quiet

LEMMA SendStep ==
  ASSUME LInv, LInv', Answering, SendMessage
  PROVE  PL!Send
<1>1. PICK C, N, M, P, A : Reads(C, N, M, P, A)
  BY ReadsExist
<1>2. /\ new # NoBuffer /\ mail' = Append(mail, new) /\ new' = NoBuffer
      /\ UNCHANGED <<coding, msg, current, coder>> /\ found' = NoParam
  BY DEF SendMessage, Quiet
<1>3. Distinct /\ new \in Buffer
  BY <1>2, Separate DEF Distinct
<1>4. N \in Seq(Param) /\ N # NoList /\ Means(coding, msg, new, N)
  BY <1>1, <1>3, Proper DEF Reads
<1>5. PICK M2 : M2 = Append(M, N)
  OBVIOUS
<1>6. Sent(coding, msg, mail', M2)
  <2>1. Sent(coding, msg, mail, M) /\ mail \in Seq(Buffer)
    BY <1>1, <1>3 DEF Reads, Distinct
  <2> QED BY <1>2, <1>3, <1>4, <1>5, <2>1, SentLast
<1>7. Reads(C, NoList, M2, P, NoParam)'
  BY <1>1, <1>2, <1>6, NoSearch DEF Reads
<1>8. Shown(C, N, M, P, A) /\ Shown(C, NoList, M2, P, NoParam)'
  BY <1>1, <1>7, ReadsIs, ReadsNext DEF ReadsFacts
<1> QED BY <1>4, <1>5, <1>8 DEF Shown, PL!Send, PL!Quiet

LEMMA ClearStep ==
  ASSUME LInv, LInv', Answering, ClearMessage
  PROVE  PL!Clear
<1>1. PICK C, N, M, P, A : Reads(C, N, M, P, A)
  BY ReadsExist
<1>2. /\ current # NoBuffer /\ current' = NoBuffer /\ msg' = [msg EXCEPT ![current] = Unwritten]
      /\ UNCHANGED <<coding, new, mail>> /\ found' = NoParam
      /\ coder' = [coder EXCEPT !.offset = Unknown]
      /\ coder = [current |-> coder.current, new |-> coder.new, offset |-> coder.offset]
      /\ msg = [b \in Buffer |-> msg[b]]
  BY DEF ClearMessage, Quiet, LInv, IInv, Pointers, Lengths
<1>3. Distinct /\ current \in Buffer
  BY <1>2, Separate DEF Distinct
<1>4. coder'.offset = Unknown /\ \A b \in Buffer : b # current => msg'[b] = msg[b]
  BY <1>2
<1>5. C # NoList
  BY <1>1, <1>3, Proper DEF Reads
<1>6. Means(coding, msg', new, N)
  <2>1. new \in Buffer => msg'[new] = msg[new]
    BY <1>3, <1>4 DEF Distinct
  <2> QED BY <1>1, <2>1, MeansKept DEF Reads
<1>7. Sent(coding, msg', mail, M)
  <2>1. \A b \in Range(mail) : msg'[b] = msg[b]
    BY <1>3, <1>4 DEF Distinct
  <2> QED BY <1>1, <1>3, <2>1, SentKept DEF Reads, Distinct
<1>8. Reads(NoList, N, M, Unknown, NoParam)'
  BY <1>2, <1>4, <1>6, <1>7, NoSearch DEF Reads
<1>9. Shown(C, N, M, P, A) /\ Shown(NoList, N, M, Unknown, NoParam)'
  BY <1>1, <1>8, ReadsIs, ReadsNext DEF ReadsFacts
<1> QED BY <1>5, <1>9 DEF Shown, PL!Clear, PL!Forget

(* A search in the list, from the place where one in the message begins.   *)
LEMMA SearchStep ==
  ASSUME LInv, LInv', Answering, current # NoBuffer, NEW code, NEW start, Find(code, start),
         NEW L, NEW o, Encodes(coding, msg[current], L, o),
         NEW j \in 1 .. Len(L) + 1, Begins(msg[current], start, o, j)
  PROVE  PL!Search(code, j - 1) /\ List(current) # NoList
<1>1. PICK C, N, M, P, A : Reads(C, N, M, P, A)
  BY ReadsExist
<1>2. UNCHANGED <<coding, pool, msg, current, new, mail>>
  BY DEF Find
<1>3. Distinct /\ current \in Buffer /\ coding \in Codings
  BY Separate DEF Distinct, LInv, IInv, Lengths
<1>4. List(current) = C /\ List(current) = L
  <2>1. Means(coding, msg, current, L) /\ Means(coding, msg, current, C)
    BY <1>1, <1>3 DEF Means, Reads
  <2> QED BY <1>3, <2>1, MeansIs
<1>5. C = L /\ L # NoList /\ L \in Seq(Param)
  BY <1>1, <1>3, <1>4, Proper DEF Reads
<1>6. PICK n \in Nat : n = Len(L)
  BY <1>5
<1>7. Outcome(L, o, code, j)
  BY FindIs
<1>8. ASSUME NEW P2, NEW A2, Passing(coding, msg, current, coder'.offset, P2),
             Answered(coding, msg, current, found', A2)
      PROVE  /\ List(current)' = L /\ UNCHANGED <<List(current), List(new)>>
             /\ UNCHANGED [k \in DOMAIN mail |-> List(mail[k])]
             /\ (IF coder.offset = Unknown THEN Unknown ELSE Passed)' = P2
             /\ (IF found = NoParam THEN NoParam ELSE ParamAt(msg[current].mem, found))' = A2
  <2>1. Reads(C, N, M, P2, A2)'
    BY <1>1, <1>2, <1>8 DEF Reads
  <2>2. Shown(C, N, M, P, A) /\ Shown(C, N, M, P2, A2)'
    BY <1>1, <2>1, ReadsIs, ReadsNext DEF ReadsFacts
  <2> QED BY <1>5, <2>2 DEF Shown
<1>9. DOMAIN L = 1 .. n
  BY <1>5, <1>6
<1> DEFINE hits == {i \in DOMAIN List(current) : i > j - 1 /\ List(current)[i].code = code}
<1>10. \A i : i \in hits <=> i \in j .. n /\ L[i].code = code
  <2>1. \A i \in 1 .. n : i > j - 1 <=> i \in j .. n
    OBVIOUS
  <2>2. j .. n \subseteq 1 .. n
    OBVIOUS
  <2> QED BY <1>4, <1>9, <2>1, <2>2
<1>11. CASE Missing(L, code, j, n) /\ found' = NoParam /\ coder'.offset = 0
  <2>1. Passing(coding, msg, current, coder'.offset, 0)
    <3>1. 1 \in 1 .. Len(L) + 1 /\ Begins(msg[current], 0, o, 1) /\ 0 = 1 - 1
      BY <1>3, FromTheStart
    <3>2. 0 # Unknown
      BY MessagesAssumption
    <3> QED BY <1>3, <1>11, <3>1, <3>2 DEF Passing
  <2>2. Answered(coding, msg, current, found', NoParam)
    BY <1>11, NoSearch
  <2>3. hits = {}
    <3> HIDE DEF hits
    <3> QED BY <1>11, <1>10 DEF Missing
  <2>4. PL!Search(code, j - 1)
    BY <1>4, <1>8, <2>1, <2>2, <2>3 DEF PL!Search
  <2> QED BY <1>4, <1>5, <2>4
<1>12. ASSUME NEW t, FirstAt(L, code, j, n, t), found' = o[t], coder'.offset = o[t + 1]
       PROVE  PL!Search(code, j - 1)
  <2>1. t \in 1 .. n /\ t \in 1 .. Len(L) /\ t + 1 \in 1 .. Len(L) + 1
    BY <1>6, <1>12 DEF FirstAt
  <2>2. msg[current].info # 0
    <3>1. Len(<<>>) = 0 /\ 1 .. 0 = {}
      OBVIOUS
    <3> QED BY <2>1, <3>1 DEF Encodes
  <2>3. o[t] \in Nat /\ o[t + 1] \in Nat
    <3>1. o \in [1 .. Len(L) + 1 -> Nat] /\ t \in 1 .. Len(L) + 1
      BY <1>6, <2>1, <2>2 DEF Encodes, Marked
    <3> QED BY <2>1, <3>1
  <2>4. o[t] # NoParam /\ o[t + 1] # Unknown
    BY <2>3, MessagesAssumption
  <2>5. Passing(coding, msg, current, coder'.offset, t)
    <3>1. Begins(msg[current], o[t + 1], o, t + 1) /\ t = (t + 1) - 1
      BY <2>1, <2>2 DEF Begins
    <3> QED BY <1>3, <1>12, <2>1, <2>4, <3>1 DEF Passing
  <2>6. Answered(coding, msg, current, found', L[t])
    BY <1>3, <1>12, <2>1, <2>4 DEF Answered
  <2>7. t \in hits /\ \A i \in hits : t <= i
    <3> HIDE DEF hits
    <3> QED BY <1>12, <1>10 DEF FirstAt
  <2>8. hits # {} /\ (CHOOSE k \in hits : \A l \in hits : k <= l) = t
    <3>1. PICK H : H = hits /\ H \subseteq Nat
      <4> HIDE DEF hits
      <4>1. hits \subseteq Nat
        <5>1. j .. n \subseteq Nat
          OBVIOUS
        <5> QED BY <1>10, <5>1
      <4> QED BY <4>1
    <3>2. t \in H /\ \A i \in H : t <= i
      BY <2>7, <3>1
    <3>3. \A k \in H : (\A l \in H : k <= l) => k = t
      BY <3>1, <3>2
    <3>4. (CHOOSE k \in H : \A l \in H : k <= l) = t
      <4> DEFINE u == CHOOSE k \in H : \A l \in H : k <= l
      <4>1. \E k \in H : \A l \in H : k <= l
        BY <3>2
      <4>2. u \in H /\ \A l \in H : u <= l
        BY <4>1
      <4> HIDE DEF u
      <4>3. u = t
        BY <3>3, <4>2
      <4> QED BY <4>3 DEF u
    <3> QED BY <3>1, <3>2, <3>4
  <2>9. PL!Search(code, j - 1)
    <3>1. PICK q : q = L[t]
      OBVIOUS
    <3>2. /\ (IF coder.offset = Unknown THEN Unknown ELSE Passed)' = t
          /\ (IF found = NoParam THEN NoParam ELSE ParamAt(msg[current].mem, found))' = q
          /\ UNCHANGED <<List(current), List(new)>>
          /\ UNCHANGED [k \in DOMAIN mail |-> List(mail[k])]
      BY <1>8, <2>5, <2>6, <3>1
    <3>3. List(current)[t] = q
      BY <1>4, <3>1
    <3> QED BY <2>8, <3>2, <3>3 DEF PL!Search
  <2> QED BY <2>9
<1>13. CASE \E t : FirstAt(L, code, j, Len(L), t) /\ found' = o[t] /\ coder'.offset = o[t + 1]
  BY <1>4, <1>5, <1>6, <1>12, <1>13
<1> QED BY <1>6, <1>7, <1>11, <1>13 DEF Outcome

LEMMA FoundInCurrent ==
  ASSUME LInv, current # NoBuffer, NEW code, NEW start, Find(code, start),
         start = 0 \/ (coder.offset # Unknown /\ start = coder.offset)
  PROVE  Answering'
<1>1. UNCHANGED <<coding, msg, current>> /\ coding \in Codings /\ current \in Buffer
  BY DEF Find, LInv, IInv, Lengths, Places
<1>2. ASSUME found' # NoParam, NEW L, NEW o, Encodes(coding, msg[current], L, o)
      PROVE  \E t \in 1 .. Len(L) : found' = o[t]
  <2>1. PICK j \in 1 .. Len(L) + 1 : Begins(msg[current], start, o, j)
    BY <1>1, <1>2, FromTheStart, FromTheOffset
  <2>2. Outcome(L, o, code, j)
    BY <1>2, <2>1, FindIs
  <2>3. PICK t : FirstAt(L, code, j, Len(L), t) /\ found' = o[t]
    BY <1>2, <2>2 DEF Outcome
  <2>4. t \in j .. Len(L)
    BY <2>3 DEF FirstAt
  <2>5. PICK n \in Nat : n = Len(L)
    BY <1>2 DEF Encodes, Sorted
  <2>6. t \in 1 .. Len(L)
    BY <2>1, <2>4, <2>5
  <2> QED BY <2>3, <2>6
<1> QED BY <1>1, <1>2 DEF Answering

LEMMA FirstStep ==
  ASSUME LInv, LInv', Answering, NEW code, GetParam(code)
  PROVE  PL!First(code)
<1>1. current # NoBuffer /\ Find(code, 0)
  BY DEF GetParam
<1>2. current \in InUse /\ coding \in Codings
  BY <1>1 DEF InUse, LInv, IInv, Lengths
<1>3. PICK L, o : Encodes(coding, msg[current], L, o)
  BY <1>2 DEF LInv, Contents
<1>4. 1 \in 1 .. Len(L) + 1 /\ Begins(msg[current], 0, o, 1)
  BY <1>2, <1>3, FromTheStart
<1>5. PL!Search(code, 1 - 1) /\ List(current) # NoList
  BY <1>1, <1>3, <1>4, SearchStep
<1>6. PICK e : e = 1 - 1 /\ e = 0
  OBVIOUS
<1>7. PL!Search(code, e)
  BY <1>5, <1>6
<1> QED BY <1>5, <1>6, <1>7 DEF PL!First

LEMMA MoreStep ==
  ASSUME LInv, LInv', Answering, NEW code, GetNextParam(code)
  PROVE  PL!More(code)
<1>1. current # NoBuffer /\ coder.offset # Unknown /\ Find(code, coder.offset)
  BY DEF GetNextParam
<1>2. current \in InUse /\ coding \in Codings
  BY <1>1 DEF InUse, LInv, IInv, Lengths
<1>3. PICK L, o : Encodes(coding, msg[current], L, o)
  BY <1>2 DEF LInv, Contents
<1>4. PICK j \in 1 .. Len(L) + 1 : Begins(msg[current], coder.offset, o, j)
  BY <1>1, <1>3, FromTheOffset
<1>5. PL!Search(code, j - 1) /\ List(current) # NoList
  BY <1>1, <1>3, <1>4, SearchStep
<1>6. Passed = j - 1
  <2>1. IF msg[current].info = 0 THEN j = 1 ELSE coder.offset = o[j]
    BY <1>4 DEF Begins
  <2> QED BY <1>2, <1>3, <2>1, PassedIs DEF PassedFacts
<1>7. PICK f : f = IF coder.offset = Unknown THEN Unknown ELSE Passed
  OBVIOUS
<1>8. f = j - 1 /\ f # Unknown
  <2>1. j - 1 \in Nat
    OBVIOUS
  <2> QED BY <1>1, <1>6, <1>7, <2>1, MessagesAssumption
<1>9. PL!Search(code, f)
  BY <1>5, <1>8
<1> QED BY <1>5, <1>7, <1>8, <1>9 DEF PL!More

-----------------------------------------------------------------------------
(* Any step is one of the lists, or none.                                  *)
RInv == LInv /\ Answering

LEMMA Quietly == ASSUME found' = NoParam PROVE Answering'
BY DEF Answering

LEMMA HaltQuiet ==
  ASSUME RInv, NEW n, NEW p, Halt(n, p) PROVE Answering'
BY DEF RInv, Answering, Halt

LEMMA InitLists == Init => PL!Init /\ RInv
<1> SUFFICES ASSUME Init PROVE PL!Init /\ RInv
  OBVIOUS
<1>1. /\ mail = <<>> /\ current = NoBuffer /\ new = NoBuffer /\ found = NoParam
      /\ coder = [current |-> NoBuffer, new |-> NoBuffer, offset |-> Unknown]
  BY DEF Init
<1>2. LInv /\ Answering /\ coder.offset = Unknown
  BY <1>1, InitLInv DEF Answering
<1>3. Sent(coding, msg, mail, <<>>)
  <2>1. <<>> \in Seq(Seq(Param)) /\ Len(<<>>) = 0 /\ 1 .. 0 = {}
    OBVIOUS
  <2> QED BY <1>1, <2>1 DEF Sent
<1>4. Reads(NoList, NoList, <<>>, Unknown, NoParam)
  BY <1>1, <1>2, <1>3, NoSearch DEF Reads
<1>5. Shown(NoList, NoList, <<>>, Unknown, NoParam)
  BY <1>2, <1>4, ReadsIs DEF ReadsFacts
<1> QED BY <1>2, <1>5 DEF Shown, PL!Init, RInv

LEMMA NextLists ==
  ASSUME RInv, [Next]_vars
  PROVE  RInv' /\ [PL!Next]_(PL!vars)
<1>1. LInv /\ Answering /\ LInv'
  BY NextLInv DEF RInv
<1>2. ASSUME NEW n, NEW p, Halt(n, p) PROVE RInv' /\ UNCHANGED PL!vars
  <2>1. UNCHANGED <<coding, msg, current, new, coder, mail, found>>
    BY <1>2 DEF Halt
  <2>2. Answering'
    BY <1>2, HaltQuiet
  <2> QED BY <1>1, <2>1, <2>2, StutterStep DEF RInv
<1>3. CASE ParseMessage
  <2>1. PL!Receive /\ Answering'
    BY <1>1, <1>3, ReceiveStep, Quietly DEF ParseMessage, Quiet
  <2> QED BY <1>1, <2>1 DEF PL!Next, RInv
<1>4. CASE PrepareNewMessage
  <2>1. CASE Prepared
    <3>1. PL!Prepare /\ Answering'
      BY <1>1, <2>1, PrepareStep, Quietly DEF Prepared
    <3> QED BY <1>1, <3>1 DEF PL!Next, RInv
  <2> QED BY <1>1, <1>2, <1>4, <2>1, PrepareNewMessageIs
<1>5. CASE CopyMessage
  <2>1. CASE CopyMade
    <3>1. PL!Copy /\ Answering'
      BY <1>1, <2>1, CopyStep, Quietly DEF CopyMade
    <3> QED BY <1>1, <3>1 DEF PL!Next, RInv
  <2> QED BY <1>1, <1>2, <1>5, <2>1, CopyMessageIs
<1>6. CASE SendMessage
  <2>1. PL!Send /\ Answering'
    BY <1>1, <1>6, SendStep, Quietly DEF SendMessage, Quiet
  <2> QED BY <1>1, <2>1 DEF PL!Next, RInv
<1>7. CASE ClearMessage
  <2>1. PL!Clear /\ Answering'
    BY <1>1, <1>7, ClearStep, Quietly DEF ClearMessage, Quiet
  <2> QED BY <1>1, <2>1 DEF PL!Next, RInv
<1>8. ASSUME NEW p \in Param, AddParam(p) PROVE RInv' /\ [PL!Next]_(PL!vars)
  <2>1. CASE Added(p)
    <3>1. PL!Add(p) /\ Answering'
      BY <1>1, <2>1, AddStep, Quietly DEF Added
    <3> QED BY <1>1, <3>1 DEF PL!Next, RInv
  <2> QED BY <1>1, <1>2, <1>8, <2>1, AddParamIs
<1>9. CASE RemoveParam
  <2>1. PL!Remove /\ Answering'
    BY <1>1, <1>9, RemoveStep, Quietly DEF RemoveParam, Quiet
  <2> QED BY <1>1, <2>1 DEF PL!Next, RInv
<1>10. ASSUME NEW code \in ParamCode, GetParam(code) PROVE RInv' /\ [PL!Next]_(PL!vars)
  <2>1. PL!First(code)
    BY <1>1, <1>10, FirstStep
  <2>2. Answering'
    BY <1>1, <1>10, FoundInCurrent DEF GetParam
  <2> QED BY <1>1, <2>1, <2>2 DEF PL!Next, RInv, ParamCode
<1>11. ASSUME NEW code \in ParamCode, GetNextParam(code) PROVE RInv' /\ [PL!Next]_(PL!vars)
  <2>1. PL!More(code)
    BY <1>1, <1>11, MoreStep
  <2>2. Answering'
    BY <1>1, <1>11, FoundInCurrent DEF GetNextParam
  <2> QED BY <1>1, <2>1, <2>2 DEF PL!Next, RInv, ParamCode
<1>12. CASE UNCHANGED vars
  <2>1. UNCHANGED <<coding, msg, current, new, coder, mail, found>>
    BY <1>12 DEF vars
  <2>2. Answering'
    BY <1>1, <2>1 DEF Answering
  <2> QED BY <1>1, <2>1, <2>2, StutterStep DEF RInv
<1> QED BY <1>3, <1>4, <1>5, <1>6, <1>7, <1>8, <1>9, <1>10, <1>11, <1>12 DEF Next

(* Messages are sorted lists of parameters, whatever the classes, formats  *)
(* and parameters: what an automate adds is what the receiver's GetParam   *)
(* and GetNextParam return, in order and to the end, across growing,       *)
(* copying, sending and buffers used again.                                *)
THEOREM Refinement == Spec => ImplementsParamLists
<1>1. Init => PL!Init /\ RInv
  BY InitLists
<1>2. RInv /\ [Next]_vars => RInv' /\ [PL!Next]_(PL!vars)
  BY NextLists
<1> QED BY <1>1, <1>2, PTL DEF Spec, ImplementsParamLists, PL!ListSpec
=============================================================================
