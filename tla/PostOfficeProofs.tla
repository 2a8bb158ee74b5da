--------------------------- MODULE PostOfficeProofs ---------------------------
(***************************************************************************)
(* Proofs about the post office for any number of mailboxes, buffers and   *)
(* posting threads.                                                        *)
(***************************************************************************)
EXTENDS PostOffice, FiniteSetTheorems, SequenceTheorems, TLAPS

-----------------------------------------------------------------------------
(* The type invariant is inductive: what PutOnTail appends and what Get    *)
(* returns to the pool are buffers because of its last four conjuncts.     *)
LEMMA TypeOKInit == Init => TypeOK
  BY PostOfficeAssumption DEF Init, TypeOK, AddIdle, GetWait, Code

LEMMA TypeOKStep == TypeOK /\ [Next]_vars => TypeOK'
<1> SUFFICES ASSUME TypeOK, [Next]_vars PROVE TypeOK'
  OBVIOUS
<1> USE PostOfficeAssumption DEF TypeOK, Code, AddIdle, GetWait
<1>1. ASSUME NEW t \in Thread, NEW b \in Buffer, NEW c \in {"message", "timer"},
             GetBuffer(t, b, c)
      PROVE  TypeOK'
  BY <1>1 DEF GetBuffer
<1>2. ASSUME NEW t \in Thread, NEW m \in Mbx, PutOnTail(t, m)
      PROVE  TypeOK'
  BY <1>2 DEF PutOnTail
<1>3. ASSUME NEW t \in Thread, ReleaseSemaphore(t)
      PROVE  TypeOK'
  <2> DEFINE m == add[t].mbx
             n == IF sem[m] < SemMax THEN sem[m] + 1 ELSE sem[m]
  <2>1. sem' \in [Mbx -> 0 .. SemMax]
    <3>1. m \in Mbx
      BY <1>3 DEF ReleaseSemaphore
    <3>2. sem[m] \in 0 .. SemMax
      BY <3>1
    <3>3. n \in 0 .. SemMax
      BY <3>2
    <3>4. sem' = [sem EXCEPT ![m] = n]
      BY <1>3 DEF ReleaseSemaphore
    <3>5. QED
      BY <3>3, <3>4
  <2>2. QED
    BY <1>3, <2>1 DEF ReleaseSemaphore
<1>4. ASSUME NEW m \in Mbx, WaitForMailbox(m)
      PROVE  TypeOK'
  <2>1. sem' \in [Mbx -> 0 .. SemMax]
    BY <1>4 DEF WaitForMailbox
  <2>2. QED
    BY <1>4, <2>1 DEF WaitForMailbox
<1>5. CASE GetFromHead
  <2>1. CASE box[get.mbx] = <<>>
    <3>1. /\ get.pc = "fetch" /\ get.mbx \in Mbx
          /\ get' = [get EXCEPT !.pc = "sleep"]
          /\ UNCHANGED <<box, sem, code, pool, add>>
      BY <1>5, <2>1 DEF GetFromHead
    <3>2. QED
      BY <3>1
  <2>2. CASE box[get.mbx] # <<>>
    <3>1. get.mbx \in Mbx /\ get.pc = "fetch"
      BY <1>5 DEF GetFromHead
    <3>2. Head(box[get.mbx]) \in Buffer /\ Tail(box[get.mbx]) \in Seq(Buffer)
      BY <2>2, <3>1, HeadTailProperties
    <3>3. box' \in [Mbx -> Seq(Buffer)]
      BY <1>5, <2>2, <3>1, <3>2 DEF GetFromHead
    <3>4. /\ get'.mbx = get.mbx
          /\ get'.buf = Head(box[get.mbx])
          /\ get'.pc \in {"drop", "handle"}
          /\ get' \in [pc : {"wait", "fetch", "drop", "sleep", "handle"},
                       mbx : Mbx \cup {0}, buf : Buffer \cup {NoBuffer}]
      <4> DEFINE b == Head(box[get.mbx])
                 p == IF code[b] = "DISCARDED" THEN "drop" ELSE "handle"
      <4>1. get' = [get EXCEPT !.pc = p, !.buf = b]
        BY <1>5, <2>2 DEF GetFromHead
      <4>2. p \in {"drop", "handle"}
        OBVIOUS
      <4> HIDE DEF p, b
      <4>3. b \in Buffer
        BY <3>2 DEF b
      <4>4. QED
        BY <4>1, <4>2, <4>3, <3>1 DEF b
    <3>5. UNCHANGED <<sem, code, pool, add>>
      BY <1>5 DEF GetFromHead
    <3>6. QED
      BY <3>1, <3>2, <3>3, <3>4, <3>5
  <2>3. QED
    BY <2>1, <2>2
<1>6. CASE ReturnDiscarded
  BY <1>6 DEF ReturnDiscarded
<1>7. CASE SleepAfterNull
  BY <1>7 DEF SleepAfterNull
<1>8. ASSUME NEW b \in Buffer, StopTimer(b)
      PROVE  TypeOK'
  BY <1>8 DEF StopTimer
<1>9. CASE ClearMessage
  BY <1>9 DEF ClearMessage
<1>10. CASE UNCHANGED vars
  BY <1>10 DEF vars
<1>11. QED
  BY <1>1, <1>2, <1>3, <1>4, <1>5, <1>6, <1>7, <1>8, <1>9, <1>10 DEF Next

(* Type correctness of the post office, for every value of the constants.  *)
THEOREM TypeCorrect == Spec => []TypeOK
  BY TypeOKInit, TypeOKStep, PTL DEF Spec
-----------------------------------------------------------------------------
(* What Append and Tail do to the contents of a mailbox.                   *)
LEMMA AppendContents ==
  ASSUME NEW s \in Seq(Buffer), NEW b \in Buffer
  PROVE  /\ Append(s, b) \in Seq(Buffer)
         /\ Len(Append(s, b)) = Len(s) + 1
         /\ DOMAIN Append(s, b) = 1 .. Len(s) + 1
         /\ DOMAIN s = 1 .. Len(s) /\ Len(s) \in Nat
         /\ \A i \in DOMAIN s : Append(s, b)[i] = s[i]
         /\ Append(s, b)[Len(s) + 1] = b
  OBVIOUS

LEMMA TailContents ==
  ASSUME NEW s \in Seq(Buffer), s # <<>>
  PROVE  /\ Tail(s) \in Seq(Buffer)
         /\ DOMAIN s = 1 .. Len(s) /\ Len(s) \in Nat \ {0}
         /\ DOMAIN Tail(s) = 1 .. Len(s) - 1
         /\ \A i \in DOMAIN Tail(s) : i + 1 \in DOMAIN s /\ Tail(s)[i] = s[i + 1]
         /\ 1 \in DOMAIN s /\ Head(s) = s[1]
<1>1. Len(s) \in Nat \ {0} /\ DOMAIN s = 1 .. Len(s)
  BY EmptySeq, LenProperties
<1>2. /\ Tail(s) \in Seq(Buffer)
      /\ Len(Tail(s)) = Len(s) - 1
      /\ \A i \in 1 .. Len(Tail(s)) : Tail(s)[i] = s[i + 1]
  BY HeadTailProperties
<1>3. DOMAIN Tail(s) = 1 .. Len(s) - 1
  BY <1>2, LenProperties
<1>4. QED
  BY <1>1, <1>2, <1>3

LEMMA OwnershipInit == Init => Ownership
  BY DEF Init, Ownership, QueuedOnce, InOnePlace, Queued, Current, InHand,
         AddIdle, GetWait

LEMMA OwnershipStep == TypeOK /\ Ownership /\ [Next]_vars => Ownership'
<1> SUFFICES ASSUME TypeOK, QueuedOnce, InOnePlace, [Next]_vars
             PROVE  QueuedOnce' /\ InOnePlace'
  BY DEF Ownership
<1>1. ASSUME NEW t \in Thread, NEW b \in Buffer, NEW c \in {"message", "timer"},
             GetBuffer(t, b, c)
      PROVE  QueuedOnce' /\ InOnePlace'
  <2>1. b \in pool /\ pool' = pool \ {b} /\ UNCHANGED <<box, get>>
    BY <1>1 DEF GetBuffer
  <2>2. QueuedOnce'
    BY <2>1 DEF QueuedOnce
  <2>3. \A x : (Queued(x)' <=> Queued(x)) /\ (Current(x)' <=> Current(x))
    BY <2>1 DEF Queued, Current
  <2>4. \A s \in Thread, x \in Buffer :
          InHand(s, x)' <=> IF s = t THEN x = b ELSE InHand(s, x)
    BY <1>1 DEF GetBuffer, TypeOK, InHand
  <2>5. \A s \in Thread : ~InHand(t, b) /\ ~InHand(s, b) /\ ~Queued(b) /\ ~Current(b)
    BY <2>1 DEF InOnePlace
  <2>6. \A x \in Buffer : ~InHand(t, x)
    BY <1>1 DEF GetBuffer, MayPost, InHand
  <2>7. InOnePlace'
    BY <2>1, <2>3, <2>4, <2>5, <2>6 DEF InOnePlace
  <2>8. QED
    BY <2>2, <2>7
<1>2. ASSUME NEW t \in Thread, NEW m \in Mbx, PutOnTail(t, m)
      PROVE  QueuedOnce' /\ InOnePlace'
  <2> DEFINE b == add[t].buf
  <2>1. InHand(t, b) /\ b \in Buffer /\ UNCHANGED <<pool, get>>
    BY <1>2 DEF PutOnTail, InHand, TypeOK
  <2>2. /\ \A n \in Mbx : box[n] \in Seq(Buffer)
        /\ \A n \in Mbx : box'[n] = IF n = m THEN Append(box[m], b) ELSE box[n]
    BY <1>2 DEF PutOnTail, TypeOK
  <2>3. \A s \in Thread, x \in Buffer : InHand(s, x)' <=> s # t /\ InHand(s, x)
    BY <1>2 DEF PutOnTail, TypeOK, InHand
  <2> HIDE DEF b
  <2>4. b \notin pool /\ ~Queued(b) /\ ~Current(b)
        /\ \A s \in Thread : InHand(s, b) => s = t
    BY <2>1 DEF InOnePlace
  <2>5. \A n \in Mbx : \A i \in DOMAIN box'[n] :
          \/ n = m /\ i = Len(box[m]) + 1 /\ box'[n][i] = b
          \/ i \in DOMAIN box[n] /\ box'[n][i] = box[n][i] /\ box[n][i] # b
    <3>1. \A n \in Mbx : \A i \in DOMAIN box[n] : box[n][i] # b
      BY <2>4 DEF Queued
    <3> TAKE n \in Mbx
    <3> TAKE i \in DOMAIN box'[n]
    <3>2. CASE n = m
      <4>1. box[n] \in Seq(Buffer) /\ box'[n] = Append(box[n], b)
        BY <2>2, <3>2
      <4>2. i \in 1 .. Len(box[n]) + 1 /\ Len(box[n]) \in Nat
        BY <2>1, <4>1, AppendContents
      <4>3. QED
        BY <2>1, <3>1, <3>2, <4>1, <4>2, AppendContents
    <3>3. CASE n # m
      BY <2>2, <3>1, <3>3
    <3>4. QED
      BY <3>2, <3>3
  <2>6. QueuedOnce'
    BY <2>5 DEF QueuedOnce
  <2>7. \A x : Queued(x)' => Queued(x) \/ x = b
    BY <2>5 DEF Queued
  <2>8. \A x : Current(x)' <=> Current(x)
    BY <2>1 DEF Current
  <2>9. InOnePlace'
    BY <2>1, <2>3, <2>4, <2>7, <2>8 DEF InOnePlace
  <2>10. QED
    BY <2>6, <2>9
<1>3. ASSUME NEW t \in Thread, ReleaseSemaphore(t)
      PROVE  QueuedOnce' /\ InOnePlace'
  <2>1. UNCHANGED <<box, pool, get>>
    BY <1>3 DEF ReleaseSemaphore
  <2>2. \A s \in Thread, x \in Buffer : InHand(s, x)' <=> InHand(s, x)
    BY <1>3 DEF ReleaseSemaphore, TypeOK, InHand, AddIdle
  <2>3. QED
    BY <2>1, <2>2 DEF QueuedOnce, InOnePlace, Queued, Current
<1>4. ASSUME NEW m \in Mbx, WaitForMailbox(m)
      PROVE  QueuedOnce' /\ InOnePlace'
  <2>1. UNCHANGED <<box, pool, add>> /\ \A x : ~Current(x)'
    BY <1>4 DEF WaitForMailbox, Current
  <2>2. QED
    BY <2>1 DEF QueuedOnce, InOnePlace, Queued, InHand
<1>5. CASE GetFromHead
  <2>1. CASE box[get.mbx] = <<>>
    <3>1. UNCHANGED <<box, pool, add>> /\ get'.pc = "sleep"
      BY <1>5, <2>1 DEF GetFromHead, TypeOK
    <3>2. \A x : ~Current(x)'
      BY <3>1 DEF Current
    <3>3. QED
      BY <3>1, <3>2 DEF QueuedOnce, InOnePlace, Queued, InHand
  <2>2. CASE box[get.mbx] # <<>>
    <3> DEFINE m == get.mbx
               b == Head(box[m])
    <3>1. /\ m \in Mbx
          /\ \A n \in Mbx : box[n] \in Seq(Buffer)
          /\ \A n \in Mbx : box'[n] = IF n = m THEN Tail(box[m]) ELSE box[n]
          /\ UNCHANGED <<pool, add>>
      BY <1>5, <2>2 DEF GetFromHead, TypeOK
    <3>2. get'.buf = b
      BY <1>5, <2>2 DEF GetFromHead, TypeOK
    <3> HIDE DEF m
    <3>3. box[m] # <<>>
      BY <2>2 DEF m
    <3>4. 1 \in DOMAIN box[m] /\ b = box[m][1]
      BY <3>1, <3>3, TailContents
    <3> HIDE DEF b
    <3>5. Queued(b)
      BY <3>1, <3>4 DEF Queued
    <3>6. \A n \in Mbx : \A i \in DOMAIN box'[n] :
            \/ n = m /\ i + 1 \in DOMAIN box[n] /\ box'[n][i] = box[n][i + 1]
                     /\ i + 1 # 1 /\ i \in Nat
            \/ n # m /\ i \in DOMAIN box[n] /\ box'[n][i] = box[n][i]
      <4> TAKE n \in Mbx
      <4> TAKE i \in DOMAIN box'[n]
      <4>1. CASE n = m
        <5>1. /\ box[n] \in Seq(Buffer) /\ box[n] # <<>>
              /\ box'[n] = Tail(box[n])
          BY <3>1, <3>3, <4>1
        <5>2. /\ i \in 1 .. Len(box[n]) - 1 /\ Len(box[n]) \in Nat
              /\ i + 1 \in DOMAIN box[n] /\ box'[n][i] = box[n][i + 1]
          BY <5>1, TailContents
        <5>3. QED
          BY <4>1, <5>2
      <4>2. CASE n # m
        BY <3>1, <4>2
      <4>3. QED
        BY <4>1, <4>2
    <3>7. QueuedOnce'
      BY <3>6 DEF QueuedOnce
    <3>8. \A x : Queued(x)' => Queued(x) /\ x # b
      BY <3>1, <3>4, <3>6 DEF Queued, QueuedOnce
    <3>9. \A x : Current(x)' => x = b
      BY <3>2 DEF Current
    <3>10. \A s, x : InHand(s, x)' <=> InHand(s, x)
      BY <3>1 DEF InHand
    <3>11. InOnePlace'
      BY <3>1, <3>5, <3>8, <3>9, <3>10 DEF InOnePlace
    <3>12. QED
      BY <3>7, <3>11
  <2>3. QED
    BY <2>1, <2>2
<1>6. CASE ReturnDiscarded \/ ClearMessage
  <2>1. /\ pool' = pool \cup {get.buf}
        /\ get.pc \in {"drop", "handle"}
        /\ get'.pc \in {"fetch", "wait"}
        /\ UNCHANGED <<box, add>>
    <3>1. CASE ReturnDiscarded
      BY <3>1 DEF ReturnDiscarded, TypeOK
    <3>2. CASE ClearMessage
      BY <3>2 DEF ClearMessage, GetWait
    <3>3. QED
      BY <1>6, <3>1, <3>2
  <2>2. Current(get.buf) /\ \A x : ~Current(x)'
    BY <2>1 DEF Current
  <2>3. \A s, x : (InHand(s, x)' <=> InHand(s, x)) /\ (Queued(x)' <=> Queued(x))
    BY <2>1 DEF InHand, Queued
  <2>4. QED
    BY <2>1, <2>2, <2>3 DEF QueuedOnce, InOnePlace
<1>7. CASE SleepAfterNull
  <2>1. UNCHANGED <<box, pool, add>> /\ \A x : ~Current(x)'
    BY <1>7 DEF SleepAfterNull, Current, GetWait
  <2>2. QED
    BY <2>1 DEF QueuedOnce, InOnePlace, Queued, InHand
<1>8. CASE (\E b \in Buffer : StopTimer(b)) \/ UNCHANGED vars
  <2>1. UNCHANGED <<box, pool, add, get>>
    BY <1>8 DEF StopTimer, vars
  <2>2. QED
    BY <2>1 DEF QueuedOnce, InOnePlace, Queued, InHand, Current
<1>9. QED
  BY <1>1, <1>2, <1>3, <1>4, <1>5, <1>6, <1>7, <1>8 DEF Next

(* No buffer is ever in two places: a message buffer is in one mailbox     *)
(* once, in one thread's hand, being processed, or free, whatever the      *)
(* number of threads, mailboxes and buffers.                               *)
THEOREM OwnershipHolds == Spec => []Ownership
<1>1. Init => TypeOK /\ Ownership
  BY TypeOKInit, OwnershipInit
<1>2. TypeOK /\ Ownership /\ [Next]_vars => (TypeOK /\ Ownership)'
  BY TypeOKStep, OwnershipStep
<1>3. QED
  BY <1>1, <1>2, PTL DEF Spec
-----------------------------------------------------------------------------
LEMMA PostingIsFinite ==
  \A m : IsFiniteSet(Posting(m)) /\ Cardinality(Posting(m)) \in Nat
<1>1. IsFiniteSet(Thread)
  BY PostOfficeAssumption, FS_AddElement DEF Thread
<1>2. \A m : Posting(m) \in SUBSET Thread
  BY DEF Posting
<1>3. \A m : IsFiniteSet(Posting(m))
  BY <1>1, <1>2, FS_Subset
<1>4. QED
  BY <1>3, FS_CardinalityType

(* A mailbox never holds more messages than its semaphore can count: the   *)
(* queued buffers are distinct, and there are at most SemMax of them.      *)
LEMMA QueueFitsSemaphore ==
  ASSUME TypeOK, QueuedOnce, NEW m \in Mbx
  PROVE  Len(box[m]) \in Nat /\ Len(box[m]) <= SemMax
<1> DEFINE s == box[m]
<1>1. s \in Seq(Buffer)
  BY DEF TypeOK
<1>2. Len(s) \in Nat /\ DOMAIN s = 1 .. Len(s) /\ s \in [1 .. Len(s) -> Buffer]
  BY <1>1, LenProperties
<1>3. \A i, j \in 1 .. Len(s) : s[i] = s[j] => i = j
  BY <1>2 DEF QueuedOnce
<1> HIDE DEF s
<1>4. s \in Injection(1 .. Len(s), Buffer)
  BY <1>2, <1>3 DEF Injection, IsInjective
<1>5. IsFiniteSet(Buffer) /\ Cardinality(Buffer) \in Nat
  BY PostOfficeAssumption, FS_CardinalityType
<1>6. Cardinality(1 .. Len(s)) <= Cardinality(Buffer)
  BY <1>4, <1>5, FS_Injection
<1>7. Cardinality(1 .. Len(s)) = Len(s)
  BY <1>2, FS_Interval
<1>8. QED
  BY <1>2, <1>5, <1>6, <1>7, PostOfficeAssumption DEF s

LEMMA NoLostWakeupInit == Init => NoLostWakeup
<1> SUFFICES ASSUME Init, NEW m \in Mbx
             PROVE  Len(box[m]) <= sem[m] + Cardinality(Posting(m)) + Fetching(m)
  BY DEF NoLostWakeup
<1>1. Len(box[m]) = 0 /\ sem[m] = 0 /\ Fetching(m) = 0
  BY DEF Init, GetWait, Fetching
<1>2. QED
  BY <1>1, PostingIsFinite

(* The covering units of one mailbox, before and after a step.             *)
LEMMA NoLostWakeupStep ==
  TypeOK /\ Ownership /\ NoLostWakeup /\ [Next]_vars => NoLostWakeup'
<1> SUFFICES ASSUME TypeOK, QueuedOnce, NoLostWakeup, [Next]_vars, NEW n \in Mbx
             PROVE  Len(box'[n]) <= sem'[n] + Cardinality(Posting(n)') + Fetching(n)'
  BY DEF NoLostWakeup, Ownership
<1> DEFINE L  == Len(box[n])       L1 == Len(box'[n])
           S  == sem[n]            S1 == sem'[n]
           P  == Cardinality(Posting(n))
           P1 == Cardinality(Posting(n)')
           F  == Fetching(n)       F1 == Fetching(n)'
<1>0. /\ L \in Nat /\ S \in 0 .. SemMax /\ P \in Nat /\ P1 \in Nat
      /\ F \in {0, 1} /\ F1 \in {0, 1} /\ SemMax \in Nat
      /\ L <= SemMax /\ L <= S + P + F
  <2>1. L \in Nat /\ L <= SemMax
    BY QueueFitsSemaphore
  <2>2. P \in Nat
    BY PostingIsFinite
  <2>3. (\A m : IsFiniteSet(Posting(m)) /\ Cardinality(Posting(m)) \in Nat)'
    BY PostingIsFinite, PTL
  <2>4. P1 \in Nat
    BY <2>3
  <2>5. F \in {0, 1} /\ F1 \in {0, 1}
    BY DEF Fetching
  <2>6. S \in 0 .. SemMax /\ SemMax \in Nat /\ L <= S + P + F
    BY PostOfficeAssumption DEF TypeOK, NoLostWakeup
  <2>7. QED
    BY <2>1, <2>2, <2>4, <2>5, <2>6
<1>1. ASSUME NEW t \in Thread, NEW m \in Mbx, PutOnTail(t, m)
      PROVE  L1 <= S1 + P1 + F1
  <2>1. add[t].pc = "new" /\ UNCHANGED <<sem, get>>
    BY <1>1 DEF PutOnTail
  <2>2. S1 = S /\ F1 = F
    BY <2>1 DEF Fetching
  <2>3. Posting(n)' = IF n = m THEN Posting(n) \cup {t} ELSE Posting(n)
    BY <1>1 DEF PutOnTail, TypeOK, Posting
  <2>4. t \notin Posting(n)
    BY <2>1 DEF Posting
  <2>5. CASE n = m
    <3>1. P1 = P + 1
      BY <2>3, <2>4, <2>5, PostingIsFinite, FS_AddElement
    <3>2. box'[n] = Append(box[n], add[t].buf)
          /\ box[n] \in Seq(Buffer) /\ add[t].buf \in Buffer
      BY <1>1, <2>5 DEF PutOnTail, TypeOK
    <3>3. L1 = L + 1
      BY <3>2, AppendContents
    <3>4. QED
      BY <1>0, <2>2, <3>1, <3>3
  <2>6. CASE n # m
    <3>1. box'[n] = box[n]
      BY <1>1, <2>6 DEF PutOnTail, TypeOK
    <3>2. QED
      BY <1>0, <2>2, <2>3, <2>6, <3>1
  <2>7. QED
    BY <2>5, <2>6
<1>2. ASSUME NEW t \in Thread, ReleaseSemaphore(t)
      PROVE  L1 <= S1 + P1 + F1
  <2> DEFINE m == add[t].mbx
  <2>1. t \in Posting(m) /\ m \in Mbx /\ UNCHANGED <<box, get>>
    BY <1>2 DEF ReleaseSemaphore, Posting, TypeOK
  <2>2. L1 = L /\ F1 = F
    BY <2>1 DEF Fetching
  <2>3. Posting(n)' = IF n = m THEN Posting(n) \ {t} ELSE Posting(n)
    BY <1>2 DEF ReleaseSemaphore, TypeOK, Posting, AddIdle
  <2>4. S1 = IF n = m /\ S < SemMax THEN S + 1 ELSE S
    BY <1>2 DEF ReleaseSemaphore, TypeOK
  <2>5. CASE n = m
    <3>1. P1 = P - 1
      <4>1. Posting(n)' = Posting(n) \ {t}
        BY <2>3, <2>5
      <4>2. IsFiniteSet(Posting(n)) /\ t \in Posting(n)
        BY <2>1, <2>5, PostingIsFinite
      <4>3. Cardinality(Posting(n) \ {t}) = Cardinality(Posting(n)) - 1
        BY <4>2, FS_RemoveElement
      <4> QED BY <4>1, <4>3
    <3>2. CASE S < SemMax
      BY <1>0, <2>2, <2>4, <2>5, <3>1, <3>2
    <3>3. CASE S = SemMax
      BY <1>0, <2>2, <2>4, <3>3
    <3>4. QED
      BY <1>0, <3>2, <3>3
  <2>6. CASE n # m
    BY <1>0, <2>2, <2>3, <2>4, <2>6
  <2>7. QED
    BY <2>5, <2>6
<1>3. ASSUME NEW m \in Mbx, WaitForMailbox(m)
      PROVE  L1 <= S1 + P1 + F1
  <2>1. /\ L1 = L /\ P1 = P
        /\ S1 = IF n = m THEN S - 1 ELSE S
    BY <1>3 DEF WaitForMailbox, Posting, TypeOK
  <2>2. F = 0 /\ F1 = IF n = m THEN 1 ELSE 0
    BY <1>3 DEF WaitForMailbox, Fetching
  <2>3. QED
    BY <1>0, <2>1, <2>2
<1>4. CASE GetFromHead
  <2>1. /\ S1 = S /\ P1 = P /\ F = IF n = get.mbx THEN 1 ELSE 0
        /\ get.mbx \in Mbx
    BY <1>4 DEF GetFromHead, Posting, Fetching, TypeOK
  <2>2. CASE box[get.mbx] = <<>>
    <3>1. box'[n] = box[n] /\ (n = get.mbx => L = 0)
      BY <1>4, <2>2 DEF GetFromHead
    <3>2. QED
      BY <1>0, <2>1, <3>1
  <2>3. CASE box[get.mbx] # <<>>
    <3>1. CASE n = get.mbx
      <4>1. /\ box[n] \in Seq(Buffer) /\ box[n] # <<>>
            /\ box'[n] = Tail(box[n])
        BY <1>4, <2>3, <3>1 DEF GetFromHead, TypeOK
      <4>2. L1 = L - 1
        BY <4>1, HeadTailProperties
      <4>3. QED
        BY <1>0, <2>1, <4>2
    <3>2. CASE n # get.mbx
      <4>1. box'[n] = box[n]
        BY <1>4, <2>3, <2>1, <3>2 DEF GetFromHead, TypeOK
      <4>2. QED
        BY <1>0, <2>1, <3>2, <4>1
    <3>3. QED
      BY <3>1, <3>2
  <2>4. QED
    BY <2>2, <2>3
<1>5. CASE ReturnDiscarded
  <2>1. L1 = L /\ S1 = S /\ P1 = P /\ F1 = F
    BY <1>5 DEF ReturnDiscarded, Posting, Fetching, TypeOK
  <2>2. QED
    BY <1>0, <2>1
<1>6. CASE SleepAfterNull \/ ClearMessage
  <2>1. L1 = L /\ S1 = S /\ P1 = P /\ F = 0
    BY <1>6 DEF SleepAfterNull, ClearMessage, Posting, Fetching
  <2>2. QED
    BY <1>0, <2>1
<1>7. ASSUME NEW t \in Thread, NEW b \in Buffer, NEW c \in {"message", "timer"},
             GetBuffer(t, b, c)
      PROVE  L1 <= S1 + P1 + F1
  <2>1. Posting(n)' = Posting(n)
    BY <1>7 DEF GetBuffer, MayPost, TypeOK, Posting
  <2>2. L1 = L /\ S1 = S /\ F1 = F
    BY <1>7 DEF GetBuffer, Fetching
  <2>3. QED
    BY <1>0, <2>1, <2>2
<1>8. CASE (\E b \in Buffer : StopTimer(b)) \/ UNCHANGED vars
  <2>1. UNCHANGED <<box, sem, add, get>>
    BY <1>8 DEF StopTimer, vars
  <2>2. L1 = L /\ S1 = S /\ P1 = P /\ F1 = F
    BY <2>1 DEF Posting, Fetching
  <2>3. QED
    BY <1>0, <2>2
<1>9. QED
  BY <1>1, <1>2, <1>3, <1>4, <1>5, <1>6, <1>7, <1>8 DEF Next

(* No wake-up is lost, for any number of threads, mailboxes and buffers    *)
(* the semaphores can count: a queued message is always covered by a unit  *)
(* of its semaphore, by a poster about to release one, or by a Get in      *)
(* progress.                                                               *)
THEOREM NoWakeupIsLost == Spec => []NoLostWakeup
<1>1. Init => TypeOK /\ Ownership /\ NoLostWakeup
  BY TypeOKInit, OwnershipInit, NoLostWakeupInit
<1>2. TypeOK /\ Ownership /\ NoLostWakeup /\ [Next]_vars
        => (TypeOK /\ Ownership /\ NoLostWakeup)'
  BY TypeOKStep, OwnershipStep, NoLostWakeupStep
<1>3. QED
  BY <1>1, <1>2, PTL DEF Spec
-----------------------------------------------------------------------------
(* A message leaves a mailbox in GetFromHead only.                         *)
THEOREM OnlyTheHeadLeaves == Spec => LiveMessageIsHandled
<1> DEFINE Leaves(m) ==
       (box[m] # <<>> /\ box'[m] # box[m] /\ Len(box'[m]) < Len(box[m]))
         => /\ box'[m] = Tail(box[m])
            /\ get'.buf = Head(box[m])
            /\ (get'.pc = "handle") <=> (code[Head(box[m])] # "DISCARDED")
<1>1. TypeOK /\ [Next]_vars => \A m \in Mbx : Leaves(m)
  <2> SUFFICES ASSUME TypeOK, [Next]_vars, NEW m \in Mbx,
                      box[m] # <<>>, box'[m] # box[m], Len(box'[m]) < Len(box[m])
               PROVE  /\ box'[m] = Tail(box[m])
                      /\ get'.buf = Head(box[m])
                      /\ (get'.pc = "handle") <=> (code[Head(box[m])] # "DISCARDED")
    OBVIOUS
  <2>1. ASSUME NEW t \in Thread, NEW n \in Mbx, PutOnTail(t, n)
        PROVE  FALSE
    <3>1. CASE n = m
      <4>1. /\ box[m] \in Seq(Buffer) /\ add[t].buf \in Buffer
            /\ box'[m] = Append(box[m], add[t].buf)
        BY <2>1, <3>1 DEF PutOnTail, TypeOK
      <4>2. QED
        BY <4>1, AppendContents
    <3>2. CASE n # m
      BY <2>1, <3>2 DEF PutOnTail, TypeOK
    <3>3. QED
      BY <3>1, <3>2
  <2>2. GetFromHead
    <3>1. GetFromHead \/ UNCHANGED box
      BY <2>1 DEF Next, vars, GetBuffer, ReleaseSemaphore, WaitForMailbox,
                  ReturnDiscarded, SleepAfterNull, StopTimer, ClearMessage
    <3>2. QED
      BY <3>1
  <2>3. get.mbx = m /\ box[get.mbx] # <<>>
    BY <2>2 DEF GetFromHead, TypeOK
  <2> DEFINE b == Head(box[m])
             p == IF code[b] = "DISCARDED" THEN "drop" ELSE "handle"
  <2>4. /\ box'[m] = Tail(box[m])
        /\ get' = [get EXCEPT !.pc = p, !.buf = b]
    BY <2>2, <2>3 DEF GetFromHead, TypeOK
  <2>5. p = "handle" <=> code[b] # "DISCARDED"
    OBVIOUS
  <2> HIDE DEF p, b
  <2>6. get'.pc = p /\ get'.buf = b
    BY <2>4 DEF TypeOK
  <2>7. QED
    BY <2>4, <2>5, <2>6 DEF b
<1>2. QED
  BY <1>1, TypeCorrect, PTL DEF Spec, LiveMessageIsHandled

-----------------------------------------------------------------------------
(* Every step of the post office is a step of the FIFO mailboxes, or is    *)
(* invisible to the automates.                                             *)
LEMMA MailQueueInit == Init => MQ!MInit
  BY PostOfficeAssumption DEF Init, GetWait, MQ!MInit

LEMMA MailQueueStep == TypeOK /\ Ownership /\ [Next]_vars => [MQ!MNext]_(MQ!mvars)
<1> DEFINE Cancelled == {b \in Buffer : code[b] = "DISCARDED"}
           Now       == IF get.pc = "handle" THEN get.buf ELSE NoBuffer
<1> SUFFICES ASSUME TypeOK, QueuedOnce, InOnePlace, [Next]_vars
             PROVE  MQ!MNext \/ UNCHANGED <<box, Cancelled, Now>>
  BY DEF Ownership, MQ!mvars
<1>1. ASSUME NEW t \in Thread, NEW b \in Buffer, NEW c \in {"message", "timer"},
             GetBuffer(t, b, c)
      PROVE  MQ!Renew(b)
  <2>1. b \in pool /\ UNCHANGED <<box, get>>
    BY <1>1 DEF GetBuffer
  <2>2. ~Queued(b) /\ ~Current(b)
    BY <2>1 DEF InOnePlace
  <2>3. b # Now /\ \A m \in Mbx : b \notin MQ!Elements(m)
    BY <2>2, PostOfficeAssumption DEF Queued, Current, MQ!Elements
  <2>4. Cancelled' = Cancelled \ {b}
    BY <1>1 DEF GetBuffer, TypeOK
  <2>5. QED
    BY <2>1, <2>3, <2>4 DEF MQ!Renew
<1>2. ASSUME NEW t \in Thread, NEW m \in Mbx, PutOnTail(t, m)
      PROVE  MQ!Post(m, add[t].buf)
  <2> DEFINE b == add[t].buf
  <2>1. InHand(t, b) /\ b \in Buffer /\ UNCHANGED <<code, get>>
    BY <1>2 DEF PutOnTail, InHand, TypeOK
  <2>2. box' = [box EXCEPT ![m] = Append(@, b)]
    BY <1>2 DEF PutOnTail
  <2> HIDE DEF b
  <2>3. ~Queued(b) /\ ~Current(b)
    BY <2>1 DEF InOnePlace
  <2>4. b # Now /\ \A n \in Mbx : b \notin MQ!Elements(n)
    BY <2>1, <2>3, PostOfficeAssumption DEF Queued, Current, MQ!Elements
  <2>5. QED
    BY <2>1, <2>2, <2>4 DEF MQ!Post, b
<1>3. CASE GetFromHead
  <2>1. get.pc = "fetch" /\ get.mbx \in Mbx /\ UNCHANGED code
    BY <1>3 DEF GetFromHead, TypeOK
  <2>2. CASE box[get.mbx] = <<>>
    BY <1>3, <2>2 DEF GetFromHead, TypeOK
  <2>3. CASE box[get.mbx] # <<>>
    <3> DEFINE m == get.mbx
               b == Head(box[m])
               p == IF code[b] = "DISCARDED" THEN "drop" ELSE "handle"
    <3>1. /\ box' = [box EXCEPT ![m] = Tail(@)]
          /\ get' = [get EXCEPT !.pc = p, !.buf = b]
          /\ box[m] \in Seq(Buffer)
      BY <1>3, <2>3 DEF GetFromHead, TypeOK
    <3>2. b \in Buffer
      BY <3>1, <2>3, HeadTailProperties
    <3>3. Now = NoBuffer
      BY <2>1
    <3>4. CASE code[b] = "DISCARDED"
      <4>1. p = "drop" /\ b \in Cancelled
        BY <3>2, <3>4
      <4> HIDE DEF p, b
      <4>2. get'.pc = "drop"
        BY <3>1, <4>1 DEF TypeOK
      <4>3. Now' = NoBuffer
        BY <4>2
      <4>4. MQ!Skip(m)
        BY <2>1, <2>3, <3>1, <3>3, <4>1, <4>3 DEF MQ!Skip, b
      <4>5. QED
        BY <2>1, <4>4 DEF MQ!MNext
    <3>5. CASE code[b] # "DISCARDED"
      <4>1. p = "handle" /\ b \notin Cancelled
        BY <3>5
      <4> HIDE DEF p, b
      <4>2. get'.pc = "handle" /\ get'.buf = b
        BY <3>1, <4>1 DEF TypeOK
      <4>3. Now' = b
        BY <4>2
      <4>4. MQ!Deliver(m)
        BY <2>1, <2>3, <3>1, <3>3, <4>1, <4>3 DEF MQ!Deliver, b
      <4>5. QED
        BY <2>1, <4>4 DEF MQ!MNext
    <3>6. QED
      BY <3>4, <3>5
  <2>4. QED
    BY <2>2, <2>3
<1>4. ASSUME NEW b \in Buffer, StopTimer(b)
      PROVE  MQ!Cancel(b)
  <2>1. Cancelled' = Cancelled \cup {b}
    BY <1>4 DEF StopTimer, TypeOK
  <2>2. QED
    BY <1>4, <2>1 DEF StopTimer, MQ!Cancel
<1>5. CASE ClearMessage
  <2>1. /\ get.pc = "handle" /\ get.buf \in Buffer /\ get'.pc = "wait"
        /\ UNCHANGED <<box, code>>
    BY <1>5 DEF ClearMessage, TypeOK, GetWait
  <2>2. Now # NoBuffer /\ Now' = NoBuffer
    BY <2>1, PostOfficeAssumption
  <2>3. QED
    BY <2>1, <2>2 DEF MQ!Processed, MQ!MNext
<1>6. ASSUME \/ \E t \in Thread : ReleaseSemaphore(t)
             \/ \E m \in Mbx : WaitForMailbox(m)
             \/ ReturnDiscarded \/ SleepAfterNull \/ UNCHANGED vars
      PROVE  UNCHANGED <<box, Cancelled, Now>>
  <2>1. CASE \E t \in Thread : ReleaseSemaphore(t)
    BY <2>1 DEF ReleaseSemaphore
  <2>2. CASE \E m \in Mbx : WaitForMailbox(m)
    BY <2>2 DEF WaitForMailbox
  <2>3. CASE ReturnDiscarded
    BY <2>3 DEF ReturnDiscarded, TypeOK
  <2>4. CASE SleepAfterNull
    BY <2>4 DEF SleepAfterNull, GetWait
  <2>5. CASE UNCHANGED vars
    BY <2>5 DEF vars
  <2>6. QED
    BY <1>6, <2>1, <2>2, <2>3, <2>4, <2>5
<1>7. QED
  <2>1. ASSUME NEW t \in Thread, NEW b \in Buffer, NEW c \in {"message", "timer"},
               GetBuffer(t, b, c)
        PROVE  MQ!MNext
    BY <1>1, <2>1 DEF MQ!MNext
  <2>2. ASSUME NEW t \in Thread, NEW m \in Mbx, PutOnTail(t, m)
        PROVE  MQ!MNext
    <3>1. add[t].buf \in Buffer
      BY <2>2 DEF PutOnTail, TypeOK
    <3>2. QED
      BY <1>2, <2>2, <3>1 DEF MQ!MNext
  <2>3. ASSUME NEW b \in Buffer, StopTimer(b)
        PROVE  MQ!MNext
    BY <1>4, <2>3 DEF MQ!MNext
  <2>4. QED
    BY <1>3, <1>5, <1>6, <2>1, <2>2, <2>3 DEF Next

(* The post office implements FIFO mailboxes with at-most-once delivery,   *)
(* in which only cancelled messages are skipped.                           *)
THEOREM Refinement == Spec => ImplementsMailQueue
<1>1. Spec => [](TypeOK /\ Ownership)
  BY TypeCorrect, OwnershipHolds, PTL
<1>2. QED
  BY <1>1, MailQueueInit, MailQueueStep, PTL DEF Spec, ImplementsMailQueue, MQ!MSpec
=============================================================================
