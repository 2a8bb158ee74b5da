---------------------------- MODULE FsmSystemProofs ----------------------------
(***************************************************************************)
(* Proofs about FSMSystem for any number of types, automates, mailboxes    *)
(* and buffers.                                                            *)
(***************************************************************************)
EXTENDS FsmSystem, FiniteSetTheorems, SequenceTheorems, TLAPS

-----------------------------------------------------------------------------
(* The inductive invariant.                                                *)

Array(t) == Automates[t] \notin {NoArray, Deleted}
Registered(a) == ObjectId[a] # AnyFree

(* An array has the declared size, and only it is counted.                 *)
Types ==
  /\ DOMAIN Automates = Type
  /\ \A t \in Type :
       \/ Automates[t] \in {NoArray, Deleted} /\ NumberOfObjects[t] = 0
       \/ /\ Automates[t] \in [1 .. Objects[t] -> Automate \cup {NoAutomate}]
          /\ NumberOfObjects[t] = Objects[t]
  /\ NumberOfObjects \in [0 .. NumberOfAutomates -> Nat]
  /\ NumberOfObjects[NumberOfAutomates] = 0
  /\ ObjectId \in [Automate -> Int]
  /\ FreeAutomates \in [Type -> Seq(Automate)]
  /\ pc \in {"setup", "while", "fetch", "process", "ended", "crashed"}
  /\ i \in Nat /\ (pc \in {"fetch", "process"} => i < NumberOfMbx)
  /\ running \in Automate \cup {NoAutomate}
  /\ SystemWorking \in BOOLEAN
  /\ serving \in SUBSET Automate
  /\ mbx \in Seq(Address) /\ sem \in Nat /\ free \in Nat

(* The object number of an automate is its slot, counted from zero; a      *)
(* registered automate is in its array until Remove.                       *)
Slots ==
  /\ \A t \in Type : Array(t) =>
       \A k \in 1 .. Objects[t] : Automates[t][k] # NoAutomate =>
         TypeOf[Automates[t][k]] = t /\ ObjectId[Automates[t][k]] = k - 1
  /\ \A a \in Automate : Registered(a) =>
       /\ Automates[TypeOf[a]] # NoArray
       /\ Array(TypeOf[a]) => \E k \in 1 .. Objects[TypeOf[a]] : Automates[TypeOf[a]][k] = a

(* Who is in a list of free automates, or in a call.                       *)
Listed(a) == \E k \in 1 .. Len(FreeAutomates[TypeOf[a]]) : FreeAutomates[TypeOf[a]][k] = a
Lists ==
  /\ \A t \in Type : \A k \in 1 .. Len(FreeAutomates[t]) :
       /\ TypeOf[FreeAutomates[t][k]] = t /\ UseFreeList[t]
       /\ Registered(FreeAutomates[t][k])
       /\ FreeAutomates[t][k] \notin serving
  /\ \A t \in Type : \A j, k \in 1 .. Len(FreeAutomates[t]) :
       FreeAutomates[t][j] = FreeAutomates[t][k] => j = k
  /\ \A a \in Automate : Registered(a) /\ UseFreeList[TypeOf[a]] => a \in serving \/ Listed(a)
  /\ \A a \in serving : Registered(a)

(* How many messages the loop can have fetched since StopSystem.           *)
Turns ==
  /\ late \in Nat
  /\ SystemWorking \/ pc = "setup" => late = 0
  /\ pc = "fetch" => late <= i
  /\ pc = "process" => late <= i + 1
  /\ late <= NumberOfMbx

IInv == Types /\ Slots /\ Lists /\ Turns /\ EveryBufferOnce

-----------------------------------------------------------------------------
(* Facts about the operators.                                              *)

(* The numbers below n contain no endless descent.                         *)
LEMMA NaturalsAreWellFounded ==
  \E R : IsWellFoundedOn(R, Nat) /\ \A j, k \in Nat : j < k => <<j, k>> \in R
<1>1. IsWellFoundedOn(OpToRel(<, Nat), Nat)
  BY NatLessThanWellFounded
<1>2. \A j, k \in Nat : j < k => <<j, k>> \in OpToRel(<, Nat)
  BY DEF OpToRel
<1> QED BY <1>1, <1>2

LEMMA LeastNatural ==
  ASSUME NEW S, S \subseteq Nat, S # {}
  PROVE  \E k \in S : \A j \in S : k <= j
<1>1. PICK R : IsWellFoundedOn(R, Nat) /\ \A j, k \in Nat : j < k => <<j, k>> \in R
  BY NaturalsAreWellFounded
<1>2. IsWellFoundedOn(R, Nat)
  BY <1>1
<1>3. PICK k \in S : \A j \in S : ~(<<j, k>> \in R)
  <2>1. \E k \in S : \A j \in S : ~(<<j, k>> \in R)
    BY <1>2, WFMin, Zenon
  <2> QED BY <2>1
<1>4. ASSUME NEW j \in S PROVE k <= j
  <2>1. j \in Nat /\ k \in Nat
    OBVIOUS
  <2>2. ~(j < k)
    BY <1>1, <1>3, <2>1
  <2> QED BY <2>1, <2>2
<1> QED BY <1>4

LEMMA Sizes ==
  /\ NumberOfAutomates \in Nat /\ NumberOfMbx \in Nat \ {0}
  /\ Buffers \in Nat /\ SemMax \in Nat /\ Buffers <= SemMax
  /\ Type \subseteq Nat /\ NumberOfAutomates \notin Type
  /\ \A t \in Type : Objects[t] \in Nat \ {0} /\ t \in 0 .. NumberOfAutomates
<1>1. NumberOfAutomates \in Nat /\ NumberOfMbx \in Nat \ {0}
  BY FsmSystemAssumption
<1>2. Buffers \in Nat /\ SemMax \in Nat /\ Buffers <= SemMax
  BY FsmSystemAssumption
<1>3. \A t \in Type : Objects[t] \in Nat \ {0}
  BY FsmSystemAssumption
<1> QED BY <1>1, <1>2, <1>3 DEF Type

LEMMA AddressType ==
  ASSUME NEW m \in Address
  PROVE  /\ m = DISCARDED \/ m.type \in 0 .. NumberOfAutomates
         /\ m.object \in Int /\ m.object >= AnyFree
         /\ m # DISCARDED /\ m.type # NumberOfAutomates => m.type \in Type
  <1>1. CASE m = DISCARDED
    BY <1>1 DEF DISCARDED, AnyFree
  <1>2. CASE m \in [type : {NumberOfAutomates}, object : {0}]
    <2>1. m.type = NumberOfAutomates /\ m.object = 0
      BY <1>2
    <2>2. NumberOfAutomates \in 0 .. NumberOfAutomates
      BY Sizes
    <2> QED BY <2>1, <2>2 DEF AnyFree
  <1>3. CASE \E t \in Type : m \in [type : {t}, object : {AnyFree} \cup 0 .. Objects[t]]
    <2>1. PICK t \in Type : m \in [type : {t}, object : {AnyFree} \cup 0 .. Objects[t]]
      BY <1>3
    <2>2. m.type = t /\ m.object \in {AnyFree} \cup 0 .. Objects[t]
      BY <2>1
    <2>3. Objects[t] \in Nat
      BY Sizes
    <2>4. t \in 0 .. NumberOfAutomates
      BY Sizes
    <2> QED BY <2>2, <2>3, <2>4 DEF AnyFree
  <1> QED BY <1>1, <1>2, <1>3 DEF Address

(* GetMsgSync passes over the discarded messages at the head, no others.   *)
LEMMA SkippedFacts ==
  ASSUME mbx \in Seq(Address)
  PROVE  /\ Skipped \in 0 .. Len(mbx)
         /\ Skipped = Len(mbx) => Live = {}
         /\ Skipped < Len(mbx) => Skipped + 1 \in Live
<1>1. Live \subseteq 1 .. Len(mbx) /\ Len(mbx) \in Nat
  BY DEF Live
<1>2. CASE Live = {}
  BY <1>1, <1>2 DEF Skipped
<1>3. CASE Live # {}
  <2> DEFINE k == CHOOSE k \in Live : \A j \in Live : k <= j
  <2>1. k \in Live
    <3>1. Live \subseteq Nat
      BY <1>1
    <3>2. \E h \in Live : \A j \in Live : h <= j
      BY <1>3, <3>1, LeastNatural
    <3> QED BY <3>2
  <2>2. Skipped = k - 1
    BY <1>3 DEF Skipped
  <2> HIDE DEF k
  <2> QED BY <1>1, <2>1, <2>2
<1> QED BY <1>2, <1>3

LEMMA RestFacts ==
  ASSUME mbx \in Seq(Address)
  PROVE  /\ Rest = <<>> => Live = {}
         /\ Rest # <<>> =>
              /\ Skipped + 1 \in 1 .. Len(mbx)
              /\ Head(Rest) \in Address /\ Head(Rest) # DISCARDED
              /\ Tail(Rest) \in Seq(Address)
              /\ Len(Tail(Rest)) = Len(mbx) - Skipped - 1
              /\ \A k \in 1 .. Len(Tail(Rest)) : Tail(Rest)[k] = mbx[k + Skipped + 1]
<1>1. Len(mbx) \in Nat /\ Skipped \in 0 .. Len(mbx)
  BY SkippedFacts
<1>2. CASE Skipped = Len(mbx)
  <2>1. Rest = <<>>
    BY <1>1, <1>2 DEF Rest
  <2> QED BY <1>2, <2>1, SkippedFacts
<1>3. CASE Skipped < Len(mbx)
  <2>1. /\ Rest \in Seq(Address) /\ Len(Rest) = Len(mbx) - Skipped
        /\ \A k \in 1 .. Len(mbx) - Skipped : Rest[k] = mbx[k + Skipped]
    <3>1. \A k \in Skipped + 1 .. Len(mbx) : mbx[k] \in Address
      BY <1>1
    <3> QED BY <1>1, <1>3, <3>1 DEF Rest
  <2>2. Rest # <<>>
    BY <1>1, <1>3, <2>1
  <2>3. Head(Rest) = mbx[Skipped + 1]
    BY <1>1, <1>3, <2>1, <2>2
  <2>4. mbx[Skipped + 1] \in Address /\ mbx[Skipped + 1] # DISCARDED
    BY <1>1, <1>3, SkippedFacts DEF Live
  <2>5. /\ Tail(Rest) \in Seq(Address) /\ Len(Tail(Rest)) = Len(Rest) - 1
        /\ \A k \in 1 .. Len(Rest) - 1 : Tail(Rest)[k] = Rest[k + 1]
    BY <2>1, <2>2
  <2>6. ASSUME NEW k \in 1 .. Len(Tail(Rest))
        PROVE  Tail(Rest)[k] = mbx[k + Skipped + 1]
    <3>1. k \in 1 .. Len(Rest) - 1 /\ k + 1 \in 1 .. Len(mbx) - Skipped
      BY <1>1, <2>1, <2>5
    <3>2. Tail(Rest)[k] = mbx[(k + 1) + Skipped]
      BY <2>1, <2>5, <3>1
    <3>3. (k + 1) + Skipped = k + Skipped + 1
      BY <1>1
    <3> QED BY <3>2, <3>3
  <2>7. Len(Tail(Rest)) = Len(mbx) - Skipped - 1
    BY <1>1, <2>1, <2>5
  <2> QED BY <1>1, <1>3, <2>2, <2>3, <2>4, <2>5, <2>6, <2>7
<1> QED BY <1>1, <1>2, <1>3

LEMMA LiveCount ==
  ASSUME NEW q \in Seq(Address), NEW L, L = {k \in DOMAIN q : q[k] # DISCARDED}
  PROVE  IsFiniteSet(L) /\ Cardinality(L) \in Nat /\ Cardinality(L) <= Len(q)
<1>1. L \in SUBSET (1 .. Len(q)) /\ Len(q) \in Nat
  OBVIOUS
<1>2. IsFiniteSet(1 .. Len(q)) /\ Cardinality(1 .. Len(q)) = Len(q)
  BY <1>1, FS_Interval
<1>3. IsFiniteSet(L) /\ Cardinality(L) <= Len(q)
  BY <1>1, <1>2, FS_Subset
<1> QED BY <1>3, FS_CardinalityType

LEMMA LiveIsFinite ==
  ASSUME mbx \in Seq(Address)
  PROVE  IsFiniteSet(Live) /\ Cardinality(Live) \in Nat /\ Cardinality(Live) <= Len(mbx)
  BY LiveCount DEF Live

(* One live message less once the first of them is taken.                  *)
LEMMA LiveAfterTake ==
  ASSUME mbx \in Seq(Address), Rest # <<>>, mbx' = Tail(Rest)
  PROVE  Cardinality(Live') <= Cardinality(Live) - 1
<1> DEFINE s == Skipped + 1
           L == Live \ {s}
           f == [k \in Live' |-> k + s]
<1>1. s \in Live /\ s \in Nat
  BY RestFacts, SkippedFacts
<1>2. Live' = {k \in 1 .. Len(Tail(Rest)) : Tail(Rest)[k] # DISCARDED}
  BY RestFacts DEF Live
<1>3. ASSUME NEW k \in Live' PROVE k \in Nat /\ k + s \in L
  <2>1. k \in 1 .. Len(mbx) - s /\ mbx[k + s] # DISCARDED
    <3>1. /\ k \in 1 .. Len(Tail(Rest)) /\ Tail(Rest)[k] # DISCARDED
          /\ Len(Tail(Rest)) = Len(mbx) - Skipped - 1 /\ Tail(Rest)[k] = mbx[k + Skipped + 1]
      BY <1>2, RestFacts
    <3>2. Skipped \in Nat /\ Len(mbx) \in Nat
      BY SkippedFacts
    <3>3. k \in Nat /\ k + Skipped + 1 = k + s /\ Len(mbx) - Skipped - 1 = Len(mbx) - s
      BY <3>1, <3>2
    <3> QED BY <3>1, <3>3
  <2>2. k + s \in 1 .. Len(mbx) /\ k + s # s
    BY <1>1, <2>1
  <2> QED BY <2>1, <2>2 DEF Live
<1>4. f \in Injection(Live', L)
  <2>1. f \in [Live' -> L]
    BY <1>3
  <2>2. \A j, k \in Live' : f[j] = f[k] => j = k
    BY <1>1, <1>3
  <2> HIDE DEF f, L
  <2> QED BY <2>1, <2>2 DEF Injection, IsInjective
<1>5. IsFiniteSet(L) /\ Cardinality(L) = Cardinality(Live) - 1
  BY <1>1, LiveIsFinite, FS_RemoveElement
<1> HIDE DEF f, L
<1>6. Cardinality(Live') <= Cardinality(L)
  BY <1>4, <1>5, FS_Injection
<1> QED BY <1>5, <1>6

(* A message that is not discarded is for a type that has an array.        *)
LEMMA Addressee ==
  ASSUME Types, Rest # <<>>, ~Discarded(Head(Rest))
  PROVE  /\ Head(Rest).type \in Type
         /\ Automates[Head(Rest).type] \in
              [1 .. Objects[Head(Rest).type] -> Automate \cup {NoAutomate}]
         /\ NumberOfObjects[Head(Rest).type] = Objects[Head(Rest).type]
         /\ Head(Rest).object # AnyFree => Head(Rest).object \in 0 .. Objects[Head(Rest).type]
<1> DEFINE m == Head(Rest)
<1>1. m \in Address /\ m # DISCARDED
  BY RestFacts DEF Types
<1>2. m.type \in 0 .. NumberOfAutomates /\ m.object \in Int /\ m.object >= AnyFree
  BY <1>1, AddressType
<1>3. NumberOfObjects[m.type] # 0 /\ (m.object # AnyFree => ~(m.object > NumberOfObjects[m.type]))
  BY DEF Discarded, Unknown, TooLarge
<1>4. m.type # NumberOfAutomates
  BY <1>3 DEF Types
<1>5. m.type \in Type
  BY <1>1, <1>4, AddressType
<1> HIDE DEF m
<1>6. /\ Automates[m.type] \in [1 .. Objects[m.type] -> Automate \cup {NoAutomate}]
      /\ NumberOfObjects[m.type] = Objects[m.type]
  BY <1>3, <1>5 DEF Types
<1>7. ASSUME m.object # AnyFree PROVE m.object \in 0 .. Objects[m.type]
  BY <1>2, <1>3, <1>5, <1>6, <1>7, Sizes DEF AnyFree
<1> QED BY <1>5, <1>6, <1>7 DEF m

LEMMA ArrayIsNoMark ==
  ASSUME NEW t \in Type, NEW f \in [1 .. Objects[t] -> Automate \cup {NoAutomate}]
  PROVE  f \notin {NoArray, Deleted}
<1>1. f[1] \in Automate \cup {NoAutomate}
  BY Sizes
<1>2. f[1] \notin {"no array", "deleted"}
  BY <1>1, FsmSystemAssumption
<1>3. NoArray[1] = "no array" /\ Deleted[1] = "deleted"
  BY DEF NoArray, Deleted
<1> QED BY <1>2, <1>3

LEMMA EmptySlotIsEmpty ==
  ASSUME Types, NEW t \in Type, NumberOfObjects[t] # 0, NoAutomate \in Range(Automates[t])
  PROVE  EmptySlot(t) \in 1 .. Objects[t] /\ Automates[t][EmptySlot(t)] = NoAutomate
<1> DEFINE E == {k \in 1 .. Objects[t] : Automates[t][k] = NoAutomate}
<1>1. Automates[t] \in [1 .. Objects[t] -> Automate \cup {NoAutomate}]
  BY DEF Types
<1>2. E # {} /\ E \subseteq Nat
  <2>1. PICK k \in DOMAIN Automates[t] : NoAutomate = Automates[t][k]
    BY DEF Range
  <2>2. k \in 1 .. Objects[t] /\ Objects[t] \in Nat
    BY <1>1, <2>1, Sizes
  <2> QED BY <2>1, <2>2
<1>3. PICK k \in E : \A j \in E : k <= j
  BY <1>2, LeastNatural
<1>4. \A j \in 1 .. k - 1 : Automates[t][j] # NoAutomate
  <2> SUFFICES ASSUME NEW j \in 1 .. k - 1, Automates[t][j] = NoAutomate PROVE FALSE
    OBVIOUS
  <2>1. k \in 1 .. Objects[t] /\ Objects[t] \in Nat
    BY Sizes
  <2>2. j \in E
    BY <2>1
  <2> QED BY <1>3, <2>1, <2>2
<1> QED BY <1>1, <1>3, <1>4 DEF EmptySlot

-----------------------------------------------------------------------------
(* The types of the state.                                                 *)

LEMMA TypesInit == Init => Types
<1> SUFFICES ASSUME Init PROVE Types
  OBVIOUS
<1>1. NumberOfObjects = [t \in 0 .. NumberOfAutomates |-> 0]
  BY DEF Init
<1>2. /\ NumberOfObjects \in [0 .. NumberOfAutomates -> Nat]
      /\ NumberOfObjects[NumberOfAutomates] = 0
      /\ \A t \in Type : NumberOfObjects[t] = 0
  BY <1>1, Sizes
<1>3. DOMAIN Automates = Type /\ \A t \in Type : Automates[t] = NoArray
  BY DEF Init
<1>4. ObjectId \in [Automate -> Int] /\ FreeAutomates \in [Type -> Seq(Automate)] /\ mbx \in Seq(Address)
  BY DEF Init, AnyFree
<1>5. sem \in Nat /\ free \in Nat /\ i \in Nat /\ pc = "setup" /\ serving \in SUBSET Automate
  BY Sizes DEF Init
<1>6. running = NoAutomate /\ SystemWorking \in BOOLEAN
  BY DEF Init
<1> QED BY <1>2, <1>3, <1>4, <1>5, <1>6 DEF Types

LEMMA ListIfUsedTypes ==
  ASSUME Types, NEW a \in Automate, NEW t \in Type, ListIfUsed(a, t)
  PROVE  FreeAutomates' \in [Type -> Seq(Automate)]
<1>1. FreeAutomates \in [Type -> Seq(Automate)]
  BY DEF Types
<1>2. Append(FreeAutomates[t], a) \in Seq(Automate)
  BY <1>1
<1> QED BY <1>1, <1>2 DEF ListIfUsed

LEMMA AdvanceTypes ==
  ASSUME Types, pc \in {"fetch", "process"}, Advance
  PROVE  /\ pc' \in {"while", "fetch"}
         /\ i' \in Nat /\ (pc' = "fetch" => i' < NumberOfMbx)
  BY Sizes DEF Types, Advance

(* The message taken, and what Fetch leaves.                               *)
LEMMA TakeTypes ==
  ASSUME Types, Fetch, Rest # <<>>, mbx' = Tail(Rest)
  PROVE  mbx' \in Seq(Address) /\ sem' \in Nat
  BY RestFacts DEF Types, Fetch

LEMMA TypesStep == Types /\ [Next]_vars => Types'
<1> SUFFICES ASSUME Types, [Next]_vars PROVE Types'
  OBVIOUS
<1> USE DEF table, thread, mail
<1>1. ASSUME NEW a \in Automate, AddFirst(a) PROVE Types'
  <2> DEFINE t == TypeOf[a]
             A == [k \in 1 .. Objects[t] |-> IF k = 1 THEN a ELSE NoAutomate]
  <2>1. t \in Type
    BY FsmSystemAssumption
  <2>2. Automates' = [Automates EXCEPT ![t] = A] /\ A \in [1 .. Objects[t] -> Automate \cup {NoAutomate}]
    BY <1>1 DEF AddFirst
  <2> HIDE DEF A
  <2>3. Objects[t] \in Nat
    BY <2>1, Sizes
  <2>4. NumberOfObjects' = [NumberOfObjects EXCEPT ![t] = Objects[t]] /\ t # NumberOfAutomates
    BY <1>1, <2>1, Sizes DEF AddFirst
  <2>5. ObjectId' \in [Automate -> Int]
    BY <1>1 DEF AddFirst, SetObjectId, Types
  <2>6. FreeAutomates' \in [Type -> Seq(Automate)]
    BY <1>1, <2>1, ListIfUsedTypes DEF AddFirst
  <2>7. /\ NumberOfObjects' \in [0 .. NumberOfAutomates -> Nat]
        /\ NumberOfObjects'[NumberOfAutomates] = 0
        /\ \A s \in Type : NumberOfObjects'[s] = IF s = t THEN Objects[t] ELSE NumberOfObjects[s]
    <3>1. t \in 0 .. NumberOfAutomates /\ NumberOfAutomates \in 0 .. NumberOfAutomates
      <4>1. t \in 0 .. NumberOfAutomates
        BY <2>1, Sizes
      <4> QED BY <4>1, Sizes
    <3>2. NumberOfObjects \in [0 .. NumberOfAutomates -> Nat] /\ NumberOfObjects[NumberOfAutomates] = 0
      BY DEF Types
    <3>3. \A s \in Type : s \in 0 .. NumberOfAutomates
      BY Sizes
    <3> HIDE DEF t
    <3> QED BY <2>3, <2>4, <3>1, <3>2, <3>3
  <2>8. DOMAIN Automates' = Type /\ \A s \in Type : Automates'[s] = IF s = t THEN A ELSE Automates[s]
    BY <2>1, <2>2 DEF Types
  <2> HIDE DEF t
  <2>9. UNCHANGED <<thread, mail, serving>>
    BY <1>1 DEF AddFirst
  <2> QED BY <2>2, <2>5, <2>6, <2>7, <2>8, <2>9 DEF Types
<1>2. ASSUME NEW a \in Automate, AddNext(a) PROVE Types'
  <2> DEFINE t == TypeOf[a]
             A == [Automates[t] EXCEPT ![EmptySlot(t)] = a]
  <2>1. t \in Type
    BY FsmSystemAssumption
  <2>2. Automates[t] \in [1 .. Objects[t] -> Automate \cup {NoAutomate}]
    BY <1>2, <2>1 DEF AddNext, Types
  <2>3. A \in [1 .. Objects[t] -> Automate \cup {NoAutomate}]
    BY <2>2
  <2>4. Automates' = [Automates EXCEPT ![t] = A]
    BY <1>2 DEF AddNext
  <2>5. EmptySlot(t) \in Nat
    BY <1>2, <2>1, EmptySlotIsEmpty, Sizes DEF AddNext
  <2>6. ObjectId' \in [Automate -> Int]
    BY <1>2, <2>5 DEF AddNext, SetObjectId, Types
  <2>7. FreeAutomates' \in [Type -> Seq(Automate)]
    BY <1>2, <2>1, ListIfUsedTypes DEF AddNext
  <2> HIDE DEF A
  <2>8. DOMAIN Automates' = Type /\ \A s \in Type : Automates'[s] = IF s = t THEN A ELSE Automates[s]
    BY <2>1, <2>4 DEF Types
  <2>9. UNCHANGED <<NumberOfObjects, thread, mail, serving>> /\ NumberOfObjects[t] # 0
    BY <1>2 DEF AddNext
  <2> HIDE DEF t
  <2> QED BY <2>1, <2>3, <2>6, <2>7, <2>8, <2>9 DEF Types
<1>3. ASSUME NEW t \in Type, Remove(t) PROVE Types'
  <2>1. /\ Automates' = [Automates EXCEPT ![t] = Deleted]
        /\ NumberOfObjects' = [NumberOfObjects EXCEPT ![t] = 0]
    BY <1>3 DEF Remove
  <2>2. DOMAIN Automates' = Type /\ \A s \in Type : Automates'[s] = IF s = t THEN Deleted ELSE Automates[s]
    BY <2>1 DEF Types
  <2>3. /\ NumberOfObjects' \in [0 .. NumberOfAutomates -> Nat]
        /\ NumberOfObjects'[NumberOfAutomates] = 0
        /\ \A s \in Type : NumberOfObjects'[s] = IF s = t THEN 0 ELSE NumberOfObjects[s]
    BY <2>1, Sizes DEF Types
  <2>4. UNCHANGED <<ObjectId, FreeAutomates, thread, mail, serving>>
    BY <1>3 DEF Remove
  <2> QED BY <2>2, <2>3, <2>4 DEF Types
<1>4. CASE Start
  BY <1>4 DEF Start, Types
<1>5. CASE While
  BY <1>5, Sizes DEF While, Types
<1>6. CASE FetchNothing
  <2>1. /\ UNCHANGED <<table, FreeAutomates, SystemWorking, running, serving>>
        /\ pc \in {"fetch", "process"} /\ Advance /\ mbx' = <<>>
        /\ sem' = sem - 1 /\ sem > 0 /\ free' = free + Len(mbx)
    BY <1>6 DEF FetchNothing, Fetch
  <2>2. sem' \in Nat /\ free' \in Nat /\ mbx' \in Seq(Address)
    BY <2>1 DEF Types
  <2> QED BY <2>1, <2>2, AdvanceTypes DEF Types
<1>7. CASE Discard
  <2>1. /\ UNCHANGED <<table, FreeAutomates, SystemWorking, running, serving>>
        /\ pc \in {"fetch", "process"} /\ Advance /\ free' = free + Skipped + 1
    BY <1>7 DEF Discard, Fetch, DiscardMsg
  <2>2. free' \in Nat
    BY <2>1, SkippedFacts DEF Types
  <2>3. mbx' \in Seq(Address) /\ sem' \in Nat
    BY <1>7, TakeTypes DEF Discard
  <2> QED BY <2>1, <2>2, <2>3, AdvanceTypes DEF Types
<1>8. CASE Call
  <2> DEFINE t == Head(Rest).type
  <2>1. UNCHANGED <<table, SystemWorking, i>> /\ pc = "fetch" /\ free' = free + Skipped
    BY <1>8 DEF Call, Fetch
  <2>2. free' \in Nat
    BY <2>1, SkippedFacts DEF Types
  <2>3. mbx' \in Seq(Address) /\ sem' \in Nat
    BY <1>8, TakeTypes DEF Call
  <2>4. t \in Type
    BY <1>8, Addressee DEF Call
  <2>5. CASE FreeAutomates[t] = <<>>
    <3>1. pc' = "crashed" /\ UNCHANGED <<FreeAutomates, running, serving>>
      BY <1>8, <2>5 DEF Call
    <3> QED BY <2>1, <2>2, <2>3, <3>1 DEF Types
  <2>6. CASE FreeAutomates[t] # <<>>
    <3> DEFINE a == Head(FreeAutomates[t])
    <3>1. /\ FreeAutomates' = [FreeAutomates EXCEPT ![t] = Tail(FreeAutomates[t])]
          /\ running' = a /\ serving' = serving \cup {a} /\ pc' = "process"
      BY <1>8, <2>6 DEF Call, Get
    <3>2. a \in Automate /\ Tail(FreeAutomates[t]) \in Seq(Automate)
      BY <2>4, <2>6 DEF Types
    <3>3. FreeAutomates' \in [Type -> Seq(Automate)]
      BY <2>4, <3>1, <3>2 DEF Types
    <3> HIDE DEF a, t
    <3> QED BY <2>1, <2>2, <2>3, <3>1, <3>2, <3>3 DEF Types
  <2> QED BY <2>5, <2>6
<1>9. CASE Deliver
  <2> DEFINE m == Head(Rest)
  <2>1. /\ UNCHANGED <<table, FreeAutomates, SystemWorking, i, serving>>
        /\ pc = "fetch" /\ free' = free + Skipped /\ running' = At(m)
        /\ pc' \in {"crashed", "process"}
    BY <1>9 DEF Deliver, Fetch
  <2>2. free' \in Nat
    BY <2>1, SkippedFacts DEF Types
  <2>3. mbx' \in Seq(Address) /\ sem' \in Nat
    BY <1>9, TakeTypes DEF Deliver
  <2>4. At(m) \in Automate \cup {NoAutomate}
    <3>1. /\ m.type \in Type /\ m.object \in 0 .. Objects[m.type]
          /\ Automates[m.type] \in [1 .. Objects[m.type] -> Automate \cup {NoAutomate}]
          /\ NumberOfObjects[m.type] = Objects[m.type]
      BY <1>9, Addressee DEF Deliver
    <3> HIDE DEF m
    <3>2. m.object # Objects[m.type] => m.object + 1 \in 1 .. Objects[m.type]
      <4>1. Objects[m.type] \in Nat
        BY <3>1, Sizes
      <4> QED BY <3>1, <4>1
    <3> QED BY <3>1, <3>2 DEF At
  <2> HIDE DEF m
  <2> QED BY <2>1, <2>2, <2>3, <2>4 DEF Types
<1>10. ASSUME NEW ends \in BOOLEAN, Process(ends) PROVE Types'
  <2>1. /\ UNCHANGED <<table, SystemWorking, mbx, sem>> /\ running' = NoAutomate
        /\ pc \in {"fetch", "process"} /\ Advance /\ free' = free + 1
    BY <1>10 DEF Process
  <2>2. serving' \in SUBSET Automate /\ FreeAutomates' \in [Type -> Seq(Automate)]
    <3>1. CASE ends
      <4>1. running \in Automate /\ serving' = serving \ {running} /\ ListIfUsed(running, TypeOf[running])
        BY <1>10, <3>1 DEF Process, Types
      <4>2. TypeOf[running] \in Type
        BY <4>1, FsmSystemAssumption
      <4> QED BY <4>1, <4>2, ListIfUsedTypes DEF Types
    <3>2. CASE ~ends
      BY <1>10, <3>2 DEF Process, Types
    <3> QED BY <3>1, <3>2
  <2> QED BY <2>1, <2>2, AdvanceTypes DEF Types
<1>11. CASE Fault
  BY <1>11 DEF Fault, Types
<1>12. ASSUME NEW m \in Address, Post(m) PROVE Types'
  <2>1. /\ UNCHANGED <<table, FreeAutomates, thread, serving>>
        /\ free > 0 /\ free' = free - 1 /\ mbx' = Append(mbx, m)
        /\ sem' = IF sem < SemMax THEN sem + 1 ELSE sem
    BY <1>12 DEF Post
  <2>2. free' \in Nat /\ mbx' \in Seq(Address) /\ sem' \in Nat
    BY <2>1 DEF Types
  <2> QED BY <2>1, <2>2 DEF Types
<1>13. CASE StopSystem
  BY <1>13 DEF StopSystem, Types
<1>14. CASE Exit
  <2>1. UNCHANGED <<ObjectId, FreeAutomates, SystemWorking, i, running, mail, serving>>
    BY <1>14 DEF Exit
  <2>2. CASE Deleted \in Range(Automates)
    BY <1>14, <2>1, <2>2 DEF Exit, Types
  <2>3. CASE Deleted \notin Range(Automates)
    <3>1. /\ pc' = pc
          /\ Automates' = [t \in Type |-> IF Automates[t] = NoArray THEN NoArray ELSE Deleted]
          /\ NumberOfObjects' = [t \in 0 .. NumberOfAutomates |-> 0]
      BY <1>14, <2>3 DEF Exit
    <3> QED BY <2>1, <3>1, Sizes DEF Types
  <2> QED BY <2>2, <2>3
<1>15. CASE UNCHANGED vars
  BY <1>15 DEF vars, Types
<1> QED
  BY <1>1, <1>2, <1>3, <1>4, <1>5, <1>6, <1>7, <1>8, <1>9, <1>10, <1>11, <1>12, <1>13, <1>14, <1>15
  DEF Next, SystemThread

-----------------------------------------------------------------------------
(* Arrays and object numbers.                                              *)

LEMMA SlotsInit == Init => Slots
  BY FsmSystemAssumption DEF Init, Slots, Array, Registered

(* A new automate is put into an empty slot of the array of its type.      *)
LEMMA SlotsAdd ==
  ASSUME Types, Slots, NEW a \in Automate,
         NEW t \in Type, t = TypeOf[a],
         NEW k \in 1 .. Objects[t], NEW A \in [1 .. Objects[t] -> Automate \cup {NoAutomate}],
         Automates' = [Automates EXCEPT ![t] = A],
         ObjectId' = [ObjectId EXCEPT ![a] = k - 1],
         A[k] = a,
         \A j \in 1 .. Objects[t] : j # k =>
           A[j] = IF Array(t) THEN Automates[t][j] ELSE NoAutomate,
         Array(t) => Automates[t][k] = NoAutomate /\ a \notin Range(Automates[t]),
         Automates[t] # Deleted
  PROVE  Slots'
<1>1. A \notin {NoArray, Deleted} /\ k \in Nat /\ k # 0
  BY ArrayIsNoMark, Sizes
<1>2. \A s \in Type : Automates'[s] = IF s = t THEN A ELSE Automates[s]
  BY DEF Types
<1>3. \A b \in Automate : ObjectId'[b] = IF b = a THEN k - 1 ELSE ObjectId[b]
  BY DEF Types
<1>4. a # NoAutomate /\ NoAutomate \notin Automate
  BY FsmSystemAssumption
<1>5. \A b \in Automate : TypeOf[b] \in Type
  BY FsmSystemAssumption
<1>6. ASSUME NEW s \in Type, Array(s)', NEW j \in 1 .. Objects[s], Automates'[s][j] # NoAutomate
      PROVE  TypeOf[Automates'[s][j]] = s /\ ObjectId'[Automates'[s][j]] = j - 1
  <2>1. CASE s = t /\ j = k
    BY <1>2, <1>3, <2>1
  <2>2. CASE s = t /\ j # k
    <3>1. Array(t) /\ A[j] = Automates[t][j] /\ Automates'[s][j] = A[j]
      BY <1>2, <1>6, <2>2
    <3>2. /\ Automates[t] \in [1 .. Objects[t] -> Automate \cup {NoAutomate}]
          /\ A[j] \in Automate
      BY <1>6, <2>2, <3>1 DEF Types, Array
    <3>3. TypeOf[A[j]] = t /\ ObjectId[A[j]] = j - 1
      BY <1>6, <2>2, <3>1 DEF Slots
    <3>4. A[j] # a
      <4>1. j \in DOMAIN Automates[t] /\ a \notin Range(Automates[t])
        BY <2>2, <3>1, <3>2
      <4> QED BY <3>1, <4>1 DEF Range
    <3> QED BY <1>3, <2>2, <3>1, <3>2, <3>3, <3>4
  <2>3. CASE s # t
    <3>1. Automates'[s] = Automates[s] /\ Array(s)
      BY <1>2, <1>6, <2>3 DEF Array
    <3>2. Automates[s][j] # NoAutomate
      BY <1>6, <3>1
    <3>3. Automates[s] \in [1 .. Objects[s] -> Automate \cup {NoAutomate}]
      BY <3>1 DEF Types, Array
    <3>4. Automates[s][j] \in Automate
      BY <3>2, <3>3
    <3>5. TypeOf[Automates[s][j]] = s /\ ObjectId[Automates[s][j]] = j - 1
      BY <3>1, <3>2 DEF Slots
    <3>6. Automates[s][j] # a
      BY <2>3, <3>5
    <3> QED BY <1>3, <3>1, <3>4, <3>5, <3>6
  <2> QED BY <2>1, <2>2, <2>3
<1>7. ASSUME NEW b \in Automate, Registered(b)'
      PROVE  /\ Automates'[TypeOf[b]] # NoArray
             /\ Array(TypeOf[b])' => \E j \in 1 .. Objects[TypeOf[b]] : Automates'[TypeOf[b]][j] = b
  <2>1. CASE b = a
    BY <1>1, <1>2, <2>1
  <2>2. CASE b # a
    <3>1. Registered(b)
      BY <1>3, <1>7, <2>2 DEF Registered
    <3>2. CASE TypeOf[b] = t
      <4>1. Automates[t] # NoArray /\ Array(t)
        BY <3>1, <3>2 DEF Slots, Array
      <4>2. PICK j \in 1 .. Objects[t] : Automates[t][j] = b
        BY <3>1, <3>2, <4>1 DEF Slots
      <4>3. A[j] = b
        BY <1>4, <4>1, <4>2
      <4> QED BY <1>1, <1>2, <3>2, <4>3
    <3>3. CASE TypeOf[b] # t
      <4>1. Automates'[TypeOf[b]] = Automates[TypeOf[b]]
        BY <1>2, <1>5, <3>3
      <4>2. Array(TypeOf[b])' <=> Array(TypeOf[b])
        BY <4>1 DEF Array
      <4>3. /\ Automates[TypeOf[b]] # NoArray
            /\ Array(TypeOf[b]) => \E j \in 1 .. Objects[TypeOf[b]] : Automates[TypeOf[b]][j] = b
        BY <3>1 DEF Slots
      <4> QED BY <4>1, <4>2, <4>3
    <3> QED BY <3>2, <3>3
  <2> QED BY <2>1, <2>2
<1> QED BY <1>6, <1>7 DEF Slots

LEMMA SlotsStep == Types /\ Slots /\ [Next]_vars => Slots'
<1> SUFFICES ASSUME Types, Slots, [Next]_vars PROVE Slots'
  OBVIOUS
<1>1. ASSUME NEW a \in Automate, AddFirst(a) PROVE Slots'
  <2> DEFINE t == TypeOf[a]
             A == [k \in 1 .. Objects[t] |-> IF k = 1 THEN a ELSE NoAutomate]
  <2>1. t \in Type /\ 1 \in 1 .. Objects[t]
    <3>1. t \in Type
      BY FsmSystemAssumption
    <3>2. Objects[t] \in Nat \ {0}
      BY <3>1, Sizes
    <3> QED BY <3>1, <3>2
  <2>2. Automates[t] = NoArray /\ ~Array(t)
    BY <1>1 DEF AddFirst, Array
  <2>3. Automates' = [Automates EXCEPT ![t] = A] /\ ObjectId' = [ObjectId EXCEPT ![a] = 1 - 1]
    BY <1>1 DEF AddFirst, SetObjectId
  <2>4. /\ A \in [1 .. Objects[t] -> Automate \cup {NoAutomate}]
        /\ A[1] = a /\ \A j \in 1 .. Objects[t] : j # 1 => A[j] = NoAutomate
    BY <2>1
  <2>5. NoArray # Deleted
    BY DEF NoArray, Deleted
  <2> HIDE DEF t, A
  <2> QED BY <2>1, <2>2, <2>3, <2>4, <2>5, SlotsAdd DEF t
<1>2. ASSUME NEW a \in Automate, AddNext(a) PROVE Slots'
  <2> DEFINE t == TypeOf[a]
             k == EmptySlot(t)
             A == [Automates[t] EXCEPT ![k] = a]
  <2>1. t \in Type /\ NumberOfObjects[t] # 0
    BY <1>2, FsmSystemAssumption DEF AddNext
  <2>2. Automates[t] \in [1 .. Objects[t] -> Automate \cup {NoAutomate}] /\ Array(t)
    BY <2>1, ArrayIsNoMark DEF Types, Array
  <2>3. Automates' = [Automates EXCEPT ![t] = A] /\ ObjectId' = [ObjectId EXCEPT ![a] = k - 1]
    BY <1>2 DEF AddNext, SetObjectId
  <2>4. k \in 1 .. Objects[t] /\ Automates[t][k] = NoAutomate
    BY <1>2, <2>1, EmptySlotIsEmpty DEF AddNext
  <2> HIDE DEF k
  <2>5. /\ A \in [1 .. Objects[t] -> Automate \cup {NoAutomate}]
        /\ A[k] = a /\ \A j \in 1 .. Objects[t] : j # k => A[j] = Automates[t][j]
    BY <2>2, <2>4
  <2>6. a \notin Range(Automates[t])
    BY <1>2 DEF AddNext
  <2>7. Automates[t] # Deleted
    BY <2>2 DEF Array
  <2>8. \A j \in 1 .. Objects[t] : j # k => A[j] = IF Array(t) THEN Automates[t][j] ELSE NoAutomate
    BY <2>2, <2>5
  <2>9. t = TypeOf[a] /\ A \in [1 .. Objects[t] -> Automate \cup {NoAutomate}] /\ A[k] = a
    BY <2>5
  <2>10. Array(t) => Automates[t][k] = NoAutomate /\ a \notin Range(Automates[t])
    BY <2>4, <2>6
  <2>11. t \in Type /\ k \in 1 .. Objects[t]
    BY <2>1, <2>4
  <2> HIDE DEF t, A
  <2> QED BY <2>3, <2>7, <2>8, <2>9, <2>10, <2>11, SlotsAdd
<1>3. ASSUME NEW t \in Type, Remove(t) PROVE Slots'
  <2>1. \A s \in Type : Automates'[s] = IF s = t THEN Deleted ELSE Automates[s]
    BY <1>3 DEF Remove, Types
  <2>2. ObjectId' = ObjectId /\ Deleted # NoArray
    BY <1>3 DEF Remove, Deleted, NoArray
  <2>3. \A b \in Automate : TypeOf[b] \in Type
    BY FsmSystemAssumption
  <2> QED BY <2>1, <2>2, <2>3 DEF Slots, Array, Registered
<1>4. CASE Exit
  <2>1. ObjectId' = ObjectId
    BY <1>4 DEF Exit
  <2>2. CASE Automates' = Automates
    BY <2>1, <2>2 DEF Slots, Array, Registered
  <2>3. CASE Automates' = [t \in Type |-> IF Automates[t] = NoArray THEN NoArray ELSE Deleted]
    <3>1. \A t \in Type : ~Array(t)' /\ (Automates'[t] = NoArray <=> Automates[t] = NoArray)
      BY <2>3 DEF Array, NoArray, Deleted
    <3>2. \A b \in Automate : TypeOf[b] \in Type
      BY FsmSystemAssumption
    <3> QED BY <2>1, <3>1, <3>2 DEF Slots, Registered
  <2> QED BY <1>4, <2>2, <2>3 DEF Exit
<1>5. CASE UNCHANGED table
  BY <1>5 DEF table, Slots, Array, Registered
<1>6. CASE \/ Start \/ SystemThread \/ StopSystem \/ UNCHANGED vars
           \/ \E m \in Address : Post(m)
  BY <1>5, <1>6 DEF Start, SystemThread, While, FetchNothing, Discard, Call, Deliver, Process,
                    Fault, StopSystem, Post, vars
<1> QED BY <1>1, <1>2, <1>3, <1>4, <1>6 DEF Next

-----------------------------------------------------------------------------
(* The lists of free automates.                                            *)

LEMMA ListsInit == Init => Lists
<1> SUFFICES ASSUME Init PROVE Lists
  OBVIOUS
<1>1. \A t \in Type : FreeAutomates[t] = <<>> /\ 1 .. Len(FreeAutomates[t]) = {}
  BY DEF Init
<1>2. serving = {} /\ \A a \in Automate : ~Registered(a)
  BY DEF Init, Registered
<1> QED BY <1>1, <1>2 DEF Lists

(* An automate that is in no list and has no call is appended to its list. *)
LEMMA ListsAppend ==
  ASSUME Types, Lists, NEW a \in Automate, NEW t \in Type, t = TypeOf[a],
         ListIfUsed(a, t), serving' = serving \ {a},
         \A k \in 1 .. Len(FreeAutomates[t]) : FreeAutomates[t][k] # a,
         Registered(a)',
         \A b \in Automate : b # a => (Registered(b)' <=> Registered(b))
  PROVE  Lists'
<1> DEFINE n == Len(FreeAutomates[t])
           F == Append(FreeAutomates[t], a)
           G == IF UseFreeList[t] THEN F ELSE FreeAutomates[t]
<1>1. FreeAutomates \in [Type -> Seq(Automate)] /\ n \in Nat
  BY DEF Types
<1>2. \A b \in Automate : TypeOf[b] \in Type
  BY FsmSystemAssumption
<1>3. \A s \in Type : FreeAutomates'[s] = IF s = t THEN G ELSE FreeAutomates[s]
  BY <1>1 DEF ListIfUsed
<1>4. /\ F \in Seq(Automate) /\ Len(F) = n + 1 /\ F[n + 1] = a
      /\ \A k \in 1 .. n : F[k] = FreeAutomates[t][k]
  BY <1>1
<1>5. serving \subseteq Automate
  BY DEF Types
<1>6. \A s \in Type : \A k \in 1 .. Len(FreeAutomates[s]) :
        /\ FreeAutomates[s][k] \in Automate
        /\ TypeOf[FreeAutomates[s][k]] = s /\ UseFreeList[s]
        /\ Registered(FreeAutomates[s][k])
        /\ FreeAutomates[s][k] \notin serving
  BY <1>1 DEF Lists
<1> HIDE DEF F
<1>7. ASSUME NEW s \in Type, NEW k \in 1 .. Len(FreeAutomates'[s])
      PROVE  \/ /\ s = t /\ UseFreeList[t] /\ k = n + 1 /\ FreeAutomates'[s][k] = a
             \/ /\ k \in 1 .. Len(FreeAutomates[s]) /\ FreeAutomates'[s][k] = FreeAutomates[s][k]
  <2>1. CASE s = t /\ UseFreeList[t]
    <3>1. FreeAutomates'[s] = F /\ k \in 1 .. n + 1
      BY <1>3, <1>4, <2>1
    <3>2. k \in 1 .. n \/ k = n + 1
      BY <1>1, <3>1
    <3> QED BY <1>4, <2>1, <3>1, <3>2
  <2>2. CASE ~(s = t /\ UseFreeList[t])
    BY <1>3, <2>2
  <2> QED BY <2>1, <2>2
<1>8. ASSUME NEW s \in Type, NEW k \in 1 .. Len(FreeAutomates'[s])
      PROVE  /\ TypeOf[FreeAutomates'[s][k]] = s /\ UseFreeList[s]
             /\ ObjectId'[FreeAutomates'[s][k]] # AnyFree
             /\ FreeAutomates'[s][k] \notin serving'
  <2>1. CASE s = t /\ UseFreeList[t] /\ FreeAutomates'[s][k] = a
    BY <2>1 DEF Registered
  <2>2. CASE k \in 1 .. Len(FreeAutomates[s]) /\ FreeAutomates'[s][k] = FreeAutomates[s][k]
    <3>1. FreeAutomates[s][k] # a
      BY <1>6, <2>2
    <3>2. ObjectId'[FreeAutomates[s][k]] # AnyFree
      BY <1>6, <2>2, <3>1 DEF Registered
    <3> QED BY <1>6, <2>2, <3>1, <3>2
  <2> QED BY <1>7, <2>1, <2>2
<1>9. ASSUME NEW s \in Type, NEW j \in 1 .. Len(FreeAutomates'[s]), NEW k \in 1 .. Len(FreeAutomates'[s]),
             FreeAutomates'[s][j] = FreeAutomates'[s][k]
      PROVE  j = k
  <2>1. \A h \in 1 .. Len(FreeAutomates[s]) : FreeAutomates[s][h] # a
    BY <1>6
  <2>2. \/ j = n + 1 /\ k = n + 1
        \/ /\ j \in 1 .. Len(FreeAutomates[s]) /\ k \in 1 .. Len(FreeAutomates[s])
           /\ FreeAutomates[s][j] = FreeAutomates[s][k]
    BY <1>7, <1>9, <2>1
  <2> QED BY <2>2 DEF Lists
<1>10. ASSUME NEW b \in Automate, Registered(b)', UseFreeList[TypeOf[b]]
       PROVE  b \in serving' \/ Listed(b)'
  <2>1. CASE b = a
    <3>1. FreeAutomates'[TypeOf[b]] = F /\ n + 1 \in 1 .. Len(F)
      BY <1>1, <1>3, <1>4, <1>10, <2>1
    <3> QED BY <1>4, <2>1, <3>1 DEF Listed
  <2>2. CASE b # a
    <3>1. b \in serving \/ Listed(b)
      BY <1>10, <2>2 DEF Lists
    <3>2. ASSUME Listed(b) PROVE Listed(b)'
      <4>1. PICK k \in 1 .. Len(FreeAutomates[TypeOf[b]]) : FreeAutomates[TypeOf[b]][k] = b
        BY <3>2 DEF Listed
      <4>2. k \in 1 .. Len(FreeAutomates'[TypeOf[b]]) /\ FreeAutomates'[TypeOf[b]][k] = b
        <5>1. CASE TypeOf[b] = t /\ UseFreeList[t]
          <6>1. FreeAutomates'[TypeOf[b]] = F /\ k \in 1 .. n
            BY <1>3, <4>1, <5>1
          <6>2. k \in 1 .. Len(F)
            BY <1>1, <1>4, <6>1
          <6> QED BY <1>4, <4>1, <5>1, <6>1, <6>2
        <5>2. CASE ~(TypeOf[b] = t /\ UseFreeList[t])
          <6>1. FreeAutomates'[TypeOf[b]] = FreeAutomates[TypeOf[b]]
            BY <1>2, <1>3, <5>2
          <6> QED BY <4>1, <6>1
        <5> QED BY <5>1, <5>2
      <4> QED BY <4>2 DEF Listed
    <3> QED BY <2>2, <3>1, <3>2
  <2> QED BY <2>1, <2>2
<1>11. \A b \in serving' : Registered(b)'
  BY <1>5 DEF Lists
<1> QED BY <1>8, <1>9, <1>10, <1>11 DEF Lists, Registered

(* The automate that gets a call leaves the list.                          *)
LEMMA ListsTake ==
  ASSUME Types, Lists, NEW t \in Type, FreeAutomates[t] # <<>>,
         FreeAutomates' = [FreeAutomates EXCEPT ![t] = Tail(FreeAutomates[t])],
         serving' = serving \cup {Head(FreeAutomates[t])}, ObjectId' = ObjectId
  PROVE  Lists'
<1> DEFINE q == FreeAutomates[t]
           a == Head(q)
<1>1. FreeAutomates \in [Type -> Seq(Automate)] /\ serving \subseteq Automate
  BY DEF Types
<1>2. /\ Len(q) \in Nat /\ 1 \in 1 .. Len(q) /\ a = q[1] /\ a \in Automate
      /\ Len(Tail(q)) = Len(q) - 1
      /\ \A k \in 1 .. Len(q) - 1 : k + 1 \in 1 .. Len(q) /\ Tail(q)[k] = q[k + 1]
  BY <1>1
<1>3. \A s \in Type : FreeAutomates'[s] = IF s = t THEN Tail(q) ELSE FreeAutomates[s]
  BY <1>1
<1>4. \A b : Registered(b)' <=> Registered(b)
  BY DEF Registered
<1>5. \A s \in Type : \A k \in 1 .. Len(FreeAutomates[s]) :
        /\ FreeAutomates[s][k] \in Automate
        /\ TypeOf[FreeAutomates[s][k]] = s /\ UseFreeList[s]
        /\ Registered(FreeAutomates[s][k])
        /\ FreeAutomates[s][k] \notin serving
  BY <1>1 DEF Lists
<1>6. \A s \in Type : \A j, k \in 1 .. Len(FreeAutomates[s]) :
        FreeAutomates[s][j] = FreeAutomates[s][k] => j = k
  BY DEF Lists
<1> HIDE DEF a
<1>7. ASSUME NEW s \in Type, NEW k \in 1 .. Len(FreeAutomates'[s])
      PROVE  /\ FreeAutomates'[s][k] # a
             /\ \/ /\ s = t /\ k \in Nat /\ k + 1 \in 1 .. Len(q)
                   /\ FreeAutomates'[s][k] = q[k + 1]
                \/ /\ s # t /\ k \in 1 .. Len(FreeAutomates[s])
                   /\ FreeAutomates'[s][k] = FreeAutomates[s][k]
  <2>1. CASE s = t
    <3>1. k \in 1 .. Len(q) - 1 /\ k \in Nat /\ k + 1 # 1
      <4>1. k \in 1 .. Len(Tail(q))
        BY <1>3, <2>1
      <4> QED BY <1>2, <4>1
    <3>2. FreeAutomates'[s][k] = q[k + 1] /\ k + 1 \in 1 .. Len(q)
      BY <1>2, <1>3, <2>1, <3>1
    <3>3. q[k + 1] # q[1]
      BY <1>2, <1>6, <3>1, <3>2
    <3> QED BY <1>2, <2>1, <3>1, <3>2, <3>3
  <2>2. CASE s # t
    <3>1. FreeAutomates'[s] = FreeAutomates[s]
      BY <1>3, <2>2
    <3>2. TypeOf[FreeAutomates[s][k]] = s /\ TypeOf[a] = t
      BY <1>2, <1>5, <3>1
    <3> QED BY <2>2, <3>1, <3>2
  <2> QED BY <2>1, <2>2
<1>8. ASSUME NEW s \in Type, NEW k \in 1 .. Len(FreeAutomates'[s])
      PROVE  /\ TypeOf[FreeAutomates'[s][k]] = s /\ UseFreeList[s]
             /\ ObjectId'[FreeAutomates'[s][k]] # AnyFree
             /\ FreeAutomates'[s][k] \notin serving'
  <2>1. PICK j \in 1 .. Len(FreeAutomates[s]) : FreeAutomates'[s][k] = FreeAutomates[s][j]
    BY <1>7
  <2>2. FreeAutomates'[s][k] # a
    BY <1>7
  <2>3. ObjectId'[FreeAutomates'[s][k]] # AnyFree
    BY <1>5, <2>1 DEF Registered
  <2> QED BY <1>5, <2>1, <2>2, <2>3 DEF a
<1>9. ASSUME NEW s \in Type, NEW j \in 1 .. Len(FreeAutomates'[s]), NEW k \in 1 .. Len(FreeAutomates'[s]),
             FreeAutomates'[s][j] = FreeAutomates'[s][k]
      PROVE  j = k
  <2>1. CASE s = t
    <3>1. /\ j \in Nat /\ j + 1 \in 1 .. Len(q) /\ k \in Nat /\ k + 1 \in 1 .. Len(q)
          /\ q[j + 1] = q[k + 1]
      BY <1>7, <1>9, <2>1
    <3>2. j + 1 = k + 1
      BY <1>6, <3>1
    <3> QED BY <3>1, <3>2
  <2>2. CASE s # t
    <3>1. FreeAutomates'[s] = FreeAutomates[s]
      BY <1>3, <2>2
    <3> QED BY <1>6, <1>9, <3>1
  <2> QED BY <2>1, <2>2
<1>10. ASSUME NEW b \in Automate, Registered(b)', UseFreeList[TypeOf[b]]
       PROVE  b \in serving' \/ Listed(b)'
  <2>1. b \in serving \/ Listed(b)
    BY <1>4, <1>10 DEF Lists
  <2>2. ASSUME Listed(b), b # a PROVE Listed(b)'
    <3>1. PICK k \in 1 .. Len(FreeAutomates[TypeOf[b]]) : FreeAutomates[TypeOf[b]][k] = b
      BY <2>2 DEF Listed
    <3>2. TypeOf[b] \in Type
      BY FsmSystemAssumption
    <3>3. CASE TypeOf[b] = t
      <4>1. k # 1 /\ k \in 1 .. Len(q) /\ q[k] = b
        BY <1>2, <2>2, <3>1, <3>3
      <4>2. k - 1 \in 1 .. Len(q) - 1 /\ (k - 1) + 1 = k
        BY <1>2, <4>1
      <4>3. FreeAutomates'[TypeOf[b]] = Tail(q)
        BY <1>3, <3>3
      <4>4. Tail(q)[k - 1] = b /\ k - 1 \in 1 .. Len(Tail(q))
        BY <1>2, <4>1, <4>2
      <4> QED BY <4>3, <4>4 DEF Listed
    <3>4. CASE TypeOf[b] # t
      <4>1. FreeAutomates'[TypeOf[b]] = FreeAutomates[TypeOf[b]]
        BY <1>3, <3>2, <3>4
      <4> QED BY <3>1, <4>1 DEF Listed
    <3> QED BY <3>3, <3>4
  <2> QED BY <2>1, <2>2 DEF a
<1>11. ASSUME NEW b \in serving' PROVE Registered(b)'
  <2>1. Registered(a)
    BY <1>2, <1>5
  <2> QED BY <1>4, <1>11, <2>1 DEF Lists, a
<1> QED BY <1>8, <1>9, <1>10, <1>11 DEF Lists, Registered

LEMMA ListsStep == Types /\ Slots /\ Lists /\ [Next]_vars => Lists'
<1> SUFFICES ASSUME Types, Slots, Lists, [Next]_vars PROVE Lists'
  OBVIOUS
<1>1. ASSUME NEW a \in Automate, NEW k \in Nat \ {0}, ~Registered(a),
             SetObjectId(a, k), ListIfUsed(a, TypeOf[a]), serving' = serving
      PROVE  Lists'
  <2>1. TypeOf[a] \in Type
    BY FsmSystemAssumption
  <2>2. a \notin serving /\ \A j \in 1 .. Len(FreeAutomates[TypeOf[a]]) : FreeAutomates[TypeOf[a]][j] # a
    BY <1>1, <2>1 DEF Lists
  <2>3. \A b \in Automate : ObjectId'[b] = IF b = a THEN k - 1 ELSE ObjectId[b]
    BY <1>1 DEF SetObjectId, Types
  <2>4. k - 1 # AnyFree
    BY DEF AnyFree
  <2>5. Registered(a)' /\ \A b \in Automate : b # a => (Registered(b)' <=> Registered(b))
    BY <2>3, <2>4 DEF Registered
  <2>6. serving' = serving \ {a}
    BY <1>1, <2>2
  <2> QED BY <1>1, <2>1, <2>2, <2>5, <2>6, ListsAppend
<1>2. ASSUME NEW a \in Automate, AddFirst(a) PROVE Lists'
  <2>1. ~Registered(a)
    BY <1>2 DEF AddFirst, Slots
  <2> QED BY <1>1, <1>2, <2>1 DEF AddFirst
<1>3. ASSUME NEW a \in Automate, AddNext(a) PROVE Lists'
  <2> DEFINE t == TypeOf[a]
  <2>1. t \in Type /\ NumberOfObjects[t] # 0 /\ a \notin Range(Automates[t])
    BY <1>3, FsmSystemAssumption DEF AddNext
  <2>2. Automates[t] \in [1 .. Objects[t] -> Automate \cup {NoAutomate}] /\ Array(t)
    BY <2>1, ArrayIsNoMark DEF Types, Array
  <2>3. ~Registered(a)
    BY <2>1, <2>2 DEF Slots, Range
  <2>4. EmptySlot(t) \in Nat \ {0}
    BY <1>3, <2>1, EmptySlotIsEmpty, Sizes DEF AddNext
  <2>5. SetObjectId(a, EmptySlot(t)) /\ ListIfUsed(a, t) /\ serving' = serving
    BY <1>3 DEF AddNext
  <2> HIDE DEF t
  <2> QED BY <1>1, <2>3, <2>4, <2>5 DEF t
<1>4. CASE Call
  <2> DEFINE t == Head(Rest).type
  <2>1. t \in Type
    BY <1>4, Addressee DEF Call
  <2>2. UNCHANGED table
    BY <1>4 DEF Call
  <2> HIDE DEF t
  <2>3. CASE FreeAutomates[t] = <<>>
    BY <1>4, <2>2, <2>3 DEF Call, Lists, Listed, Registered, table, t
  <2>4. CASE FreeAutomates[t] # <<>>
    <3>1. /\ FreeAutomates' = [FreeAutomates EXCEPT ![t] = Tail(FreeAutomates[t])]
          /\ serving' = serving \cup {Head(FreeAutomates[t])}
      BY <1>4, <2>4 DEF Call, Get, t
    <3>2. ObjectId' = ObjectId
      BY <2>2 DEF table
    <3> QED BY <2>1, <2>4, <3>1, <3>2, ListsTake
  <2> QED BY <2>3, <2>4
<1>5. ASSUME Process(TRUE) PROVE Lists'
  <2>1. running \in serving /\ serving' = serving \ {running} /\ ListIfUsed(running, TypeOf[running])
    BY <1>5 DEF Process
  <2>2. running \in Automate /\ TypeOf[running] \in Type
    BY <2>1, FsmSystemAssumption DEF Types
  <2>3. ObjectId' = ObjectId
    BY <1>5 DEF Process, table
  <2>4. \A b : Registered(b)' <=> Registered(b)
    BY <2>3 DEF Registered
  <2>5. Registered(running)
    BY <2>1 DEF Lists
  <2>6. \A k \in 1 .. Len(FreeAutomates[TypeOf[running]]) : FreeAutomates[TypeOf[running]][k] # running
    BY <2>1, <2>2 DEF Lists
  <2> QED BY <2>1, <2>2, <2>4, <2>5, <2>6, ListsAppend
<1>6. CASE UNCHANGED <<ObjectId, FreeAutomates, serving>>
  BY <1>6 DEF Lists, Listed, Registered
<1>7. ASSUME NEW ends \in BOOLEAN, Process(ends) PROVE Lists'
  <2>1. CASE ends = TRUE
    BY <1>5, <1>7, <2>1
  <2>2. CASE ends = FALSE
    BY <1>6, <1>7, <2>2 DEF Process, table
  <2> QED BY <2>1, <2>2
<1>8. CASE \/ Start \/ While \/ FetchNothing \/ Discard \/ Deliver \/ Fault \/ StopSystem \/ Exit
           \/ UNCHANGED vars \/ (\E t \in Type : Remove(t)) \/ \E m \in Address : Post(m)
  BY <1>6, <1>8 DEF Start, While, FetchNothing, Discard, Deliver, Fault, StopSystem, Exit,
                    Remove, Post, vars, table
<1> QED BY <1>2, <1>3, <1>4, <1>7, <1>8 DEF Next, SystemThread

-----------------------------------------------------------------------------
(* The turns of the loop after StopSystem.                                 *)

LEMMA TurnsInit == Init => Turns
  BY Sizes DEF Init, Turns

(* A fetch that ends the turn, as FetchNothing and Discard do.             *)
LEMMA TurnsFetch ==
  ASSUME Types, Turns, Fetch, Advance, SystemWorking' = SystemWorking
  PROVE  Turns'
<1>1. /\ pc = "fetch" /\ i \in Nat /\ i < NumberOfMbx /\ late \in Nat /\ late <= i
      /\ SystemWorking => late = 0
  BY DEF Types, Turns, Fetch
<1>2. late' \in Nat /\ late' <= i + 1 /\ (SystemWorking => late' = 0)
  BY <1>1, Sizes DEF Fetch
<1>3. pc' \in {"while", "fetch"} /\ i' = i + 1 /\ i + 1 <= NumberOfMbx
  BY <1>1, Sizes DEF Advance
<1> QED BY <1>1, <1>2, <1>3, Sizes DEF Turns

(* A fetch whose message is processed in the same turn.                    *)
LEMMA TurnsTake ==
  ASSUME Types, Turns, Fetch, pc' \in {"process", "crashed"}, SystemWorking' = SystemWorking, i' = i
  PROVE  Turns'
<1>1. /\ pc = "fetch" /\ i \in Nat /\ i < NumberOfMbx /\ late \in Nat /\ late <= i
      /\ SystemWorking => late = 0
  BY DEF Types, Turns, Fetch
<1>2. late' \in Nat /\ late' <= i + 1 /\ (SystemWorking => late' = 0)
  BY <1>1, Sizes DEF Fetch
<1> QED BY <1>1, <1>2, Sizes DEF Turns

LEMMA TurnsStep == Types /\ Turns /\ [Next]_vars => Turns'
<1> SUFFICES ASSUME Types, Turns, [Next]_vars PROVE Turns'
  OBVIOUS
<1>1. CASE FetchNothing
  BY <1>1, TurnsFetch DEF FetchNothing
<1>2. CASE Discard
  BY <1>2, TurnsFetch DEF Discard
<1>3. CASE Call
  <2>1. Fetch /\ pc' \in {"process", "crashed"} /\ SystemWorking' = SystemWorking /\ i' = i
    BY <1>3 DEF Call
  <2> QED BY <2>1, TurnsTake
<1>4. CASE Deliver
  <2>1. Fetch /\ pc' \in {"process", "crashed"} /\ SystemWorking' = SystemWorking /\ i' = i
    BY <1>4 DEF Deliver
  <2> QED BY <2>1, TurnsTake
<1>5. ASSUME NEW ends \in BOOLEAN, Process(ends) PROVE Turns'
  <2>1. /\ pc = "process" /\ Advance /\ UNCHANGED <<SystemWorking, late>>
    BY <1>5 DEF Process
  <2>2. pc' \in {"while", "fetch"} /\ i' = i + 1
    BY <2>1 DEF Advance
  <2> QED BY <2>1, <2>2 DEF Turns, Types
<1>6. CASE Start
  BY <1>6 DEF Start, Turns
<1>7. CASE While
  BY <1>7 DEF While, Turns
<1>8. CASE Fault \/ StopSystem \/ Exit
  BY <1>8 DEF Fault, StopSystem, Exit, Turns
<1>9. CASE UNCHANGED thread
  BY <1>9 DEF thread, Turns
<1>10. CASE \/ \E a \in Automate : AddFirst(a)
            \/ \E a \in Automate : AddNext(a)
            \/ \E t \in Type : Remove(t)
            \/ \E m \in Address : Post(m)
            \/ UNCHANGED vars
  BY <1>9, <1>10 DEF AddFirst, AddNext, Remove, Post, vars
<1> QED BY <1>1, <1>2, <1>3, <1>4, <1>5, <1>6, <1>7, <1>8, <1>10 DEF Next, SystemThread

-----------------------------------------------------------------------------
(* The buffers and the signals.                                            *)

InHand == IF pc = "process" THEN 1 ELSE 0

LEMMA BuffersInit == Init => EveryBufferOnce
<1> SUFFICES ASSUME Init PROVE EveryBufferOnce
  OBVIOUS
<1>1. Live = {} /\ Len(mbx) = 0
  BY DEF Init, Live
<1>2. Cardinality(Live) = 0
  BY <1>1, FS_EmptySet
<1> QED BY <1>1, <1>2, Sizes DEF Init, EveryBufferOnce

(* A message leaves the mailbox with those passed over before it.          *)
LEMMA BuffersTake ==
  ASSUME Types, EveryBufferOnce, Fetch, Rest # <<>>, mbx' = Tail(Rest),
         free' \in Nat,
         pc' # "crashed" => free' + (IF pc' = "process" THEN 1 ELSE 0) = free + Skipped + 1
  PROVE  EveryBufferOnce'
<1>1. pc = "fetch" /\ sem \in Nat /\ sem' = sem - 1 /\ free \in Nat /\ mbx \in Seq(Address)
  BY DEF Fetch, Types
<1>2. free + Len(mbx) = Buffers /\ Cardinality(Live) <= sem
  BY <1>1 DEF EveryBufferOnce
<1>3. Len(mbx') = Len(mbx) - Skipped - 1 /\ Skipped \in Nat /\ Len(mbx) \in Nat
  BY <1>1, RestFacts, SkippedFacts
<1>4. mbx' \in Seq(Address)
  BY <1>1, RestFacts
<1>5. Cardinality(Live') <= sem'
  <2>1. Cardinality(Live') <= Cardinality(Live) - 1 /\ Cardinality(Live) \in Nat
    BY <1>1, LiveAfterTake, LiveIsFinite
  <2>2. Cardinality(Live') \in Nat
    BY <1>4, LiveCount DEF Live
  <2> QED BY <1>1, <1>2, <2>1, <2>2
<1>6. ASSUME pc' # "crashed"
      PROVE  free' + Len(mbx') + (IF pc' = "process" THEN 1 ELSE 0) = Buffers
  <2>1. PICK h \in Nat : h = IF pc' = "process" THEN 1 ELSE 0
    OBVIOUS
  <2>2. PICK f \in Nat : f = free'
    OBVIOUS
  <2>3. f + h = free + Skipped + 1
    BY <1>6, <2>1, <2>2
  <2>4. free \in Nat /\ Skipped \in Nat /\ Len(mbx) \in Nat
    BY <1>1, <1>3
  <2>5. f + (Len(mbx) - Skipped - 1) + h = free + Len(mbx)
    BY <2>3, <2>4
  <2> QED BY <1>2, <1>3, <2>1, <2>2, <2>5
<1> QED BY <1>5, <1>6 DEF EveryBufferOnce

LEMMA BuffersStep == Types /\ EveryBufferOnce /\ [Next]_vars => EveryBufferOnce'
<1> SUFFICES ASSUME Types, EveryBufferOnce, [Next]_vars PROVE EveryBufferOnce'
  OBVIOUS
<1> USE DEF thread, mail
<1>1. mbx \in Seq(Address) /\ Len(mbx) \in Nat /\ free \in Nat /\ sem \in Nat
  BY DEF Types
<1>2. CASE FetchNothing
  <2>1. /\ pc = "fetch" /\ Rest = <<>> /\ mbx' = <<>> /\ free' = free + Len(mbx)
        /\ sem' = sem - 1 /\ sem > 0 /\ pc' \in {"while", "fetch"}
    BY <1>2 DEF FetchNothing, Fetch, Advance
  <2>2. Live' = {} /\ Len(mbx') = 0
    BY <2>1 DEF Live
  <2>3. Cardinality(Live') = 0
    BY <2>2, FS_EmptySet
  <2> QED BY <1>1, <2>1, <2>2, <2>3 DEF EveryBufferOnce
<1>3. CASE Discard
  <2>1. /\ Fetch /\ Rest # <<>> /\ mbx' = Tail(Rest) /\ free' = free + Skipped + 1
        /\ pc' \in {"while", "fetch"}
    BY <1>3 DEF Discard, DiscardMsg, Advance
  <2>2. free' \in Nat /\ free' + 0 = free + Skipped + 1
    BY <1>1, <2>1, SkippedFacts
  <2> QED BY <2>1, <2>2, BuffersTake
<1>4. CASE Call
  <2>1. /\ Fetch /\ Rest # <<>> /\ mbx' = Tail(Rest) /\ free' = free + Skipped
        /\ pc' \in {"process", "crashed"}
    BY <1>4 DEF Call
  <2>2. free' \in Nat
    BY <1>1, <2>1, SkippedFacts
  <2> QED BY <2>1, <2>2, BuffersTake
<1>5. CASE Deliver
  <2>1. /\ Fetch /\ Rest # <<>> /\ mbx' = Tail(Rest) /\ free' = free + Skipped
        /\ pc' \in {"process", "crashed"}
    BY <1>5 DEF Deliver
  <2>2. free' \in Nat
    BY <1>1, <2>1, SkippedFacts
  <2> QED BY <2>1, <2>2, BuffersTake
<1>6. ASSUME NEW ends \in BOOLEAN, Process(ends) PROVE EveryBufferOnce'
  <2>1. pc = "process" /\ free' = free + 1 /\ UNCHANGED <<mbx, sem>> /\ pc' \in {"while", "fetch"}
    BY <1>6 DEF Process, Advance
  <2>2. Live' = Live
    BY <2>1 DEF Live
  <2> QED BY <1>1, <2>1, <2>2 DEF EveryBufferOnce
<1>7. ASSUME NEW m \in Address, Post(m) PROVE EveryBufferOnce'
  <2>1. /\ pc # "crashed" /\ pc' = pc /\ free > 0 /\ free' = free - 1 /\ mbx' = Append(mbx, m)
        /\ sem' = IF sem < SemMax THEN sem + 1 ELSE sem
    BY <1>7 DEF Post
  <2>2. free + Len(mbx) + InHand = Buffers /\ Cardinality(Live) <= sem /\ InHand \in Nat
    BY <2>1 DEF EveryBufferOnce, InHand
  <2>3. Len(mbx') = Len(mbx) + 1 /\ mbx' \in Seq(Address)
    BY <1>1, <2>1
  <2>4. Live' = IF m = DISCARDED THEN Live ELSE Live \cup {Len(mbx) + 1}
    <3>1. /\ \A k \in 1 .. Len(mbx) : mbx'[k] = mbx[k]
          /\ mbx'[Len(mbx) + 1] = m /\ DOMAIN mbx' = 1 .. Len(mbx) + 1 /\ DOMAIN mbx = 1 .. Len(mbx)
      BY <1>1, <2>1, <2>3
    <3>2. 1 .. Len(mbx) + 1 = 1 .. Len(mbx) \cup {Len(mbx) + 1}
      BY <1>1
    <3> QED BY <3>1, <3>2 DEF Live
  <2>5. Cardinality(Live') \in Nat /\ Cardinality(Live') <= Cardinality(Live) + 1
    <3>1. IsFiniteSet(Live) /\ Cardinality(Live) \in Nat
      BY <1>1, LiveIsFinite
    <3>2. Cardinality(Live \cup {Len(mbx) + 1}) \in {Cardinality(Live), Cardinality(Live) + 1}
      BY <3>1, FS_AddElement
    <3> QED BY <2>4, <3>1, <3>2
  <2>6. Cardinality(Live') <= Len(mbx')
    BY <2>3, LiveCount DEF Live
  <2>7. Len(mbx') <= SemMax /\ SemMax \in Nat
    BY <1>1, <2>1, <2>2, <2>3, Sizes
  <2>8. Cardinality(Live') <= sem'
    <3>1. CASE sem < SemMax
      BY <1>1, <2>1, <2>2, <2>5, <3>1, LiveIsFinite
    <3>2. CASE ~(sem < SemMax)
      BY <1>1, <2>1, <2>3, <2>5, <2>6, <2>7, <3>2
    <3> QED BY <3>1, <3>2
  <2>9. free' + Len(mbx') + InHand = Buffers
    BY <1>1, <2>1, <2>2, <2>3
  <2> QED BY <2>1, <2>8, <2>9 DEF EveryBufferOnce, InHand
<1>8. CASE UNCHANGED mail /\ pc # "process" /\ pc' # "process" /\ (pc = "crashed" => pc' = "crashed")
  BY <1>8 DEF EveryBufferOnce, Live
<1>9. CASE Start \/ While
  BY <1>8, <1>9 DEF Start, While
<1>10. CASE UNCHANGED mail /\ pc' \in {pc, "crashed"}
  BY <1>10 DEF EveryBufferOnce, Live
<1>11. CASE \/ \E a \in Automate : AddFirst(a)
            \/ \E a \in Automate : AddNext(a)
            \/ \E t \in Type : Remove(t)
            \/ Fault \/ StopSystem \/ Exit \/ UNCHANGED vars
  BY <1>10, <1>11 DEF AddFirst, AddNext, Remove, Fault, StopSystem, Exit, vars
<1> QED BY <1>2, <1>3, <1>4, <1>5, <1>6, <1>7, <1>9, <1>11 DEF Next, SystemThread

-----------------------------------------------------------------------------
(* The theorems.                                                           *)

LEMMA InitIInv == Init => IInv
  BY TypesInit, SlotsInit, ListsInit, TurnsInit, BuffersInit DEF IInv

LEMMA IInvStep == IInv /\ [Next]_vars => IInv'
  BY TypesStep, SlotsStep, ListsStep, TurnsStep, BuffersStep DEF IInv

LEMMA Invariance == Spec => []IInv
  BY InitIInv, IInvStep, PTL DEF Spec

(* Type correctness of the automate table, the free lists and the loop of  *)
(* FSMSystem::Start, for any number of types and automates.                *)
THEOREM TypeCorrect == Spec => []TypeOK
<1>1. IInv => TypeOK
  <2> SUFFICES ASSUME IInv PROVE TypeOK
    OBVIOUS
  <2>1. ASSUME NEW t \in Type
        PROVE  /\ \/ Automates[t] \in {NoArray, Deleted}
                  \/ Range(Automates[t]) \subseteq Automate \cup {NoAutomate}
               /\ NumberOfObjects[t] \in {0, Objects[t]}
               /\ NumberOfObjects[t] = (IF Automates[t] \in {NoArray, Deleted} THEN 0
                                        ELSE Len(Automates[t]))
               /\ Range(FreeAutomates[t]) \subseteq Automate
    <3>1. Range(FreeAutomates[t]) \subseteq Automate
      <4>1. FreeAutomates[t] \in Seq(Automate)
        BY DEF IInv, Types
      <4> QED BY <4>1 DEF Range
    <3>2. CASE Automates[t] \in {NoArray, Deleted} /\ NumberOfObjects[t] = 0
      BY <3>1, <3>2
    <3>3. CASE /\ Automates[t] \in [1 .. Objects[t] -> Automate \cup {NoAutomate}]
               /\ NumberOfObjects[t] = Objects[t]
      <4>1. Automates[t] \notin {NoArray, Deleted}
        BY <3>3, ArrayIsNoMark
      <4>2. Objects[t] \in Nat
        BY Sizes
      <4>3. Automates[t] \in Seq(Automate \cup {NoAutomate}) /\ Len(Automates[t]) = Objects[t]
        BY <3>3, <4>2, IsASeq, LenProperties
      <4>4. Range(Automates[t]) \subseteq Automate \cup {NoAutomate}
        BY <3>3 DEF Range
      <4> QED BY <3>1, <3>3, <4>1, <4>3, <4>4
    <3> QED BY <3>2, <3>3 DEF IInv, Types
  <2>2. Range(mbx) \subseteq Address
    BY DEF IInv, Types, Range
  <2>3. pc \in {"fetch", "process"} => i \in 0 .. NumberOfMbx - 1
    BY Sizes DEF IInv, Types
  <2> QED BY <2>1, <2>2, <2>3 DEF TypeOK, IInv, Types
<1> QED BY Invariance, <1>1, PTL

(* Every path of the loop gives its buffer back once, and no live message  *)
(* is in the mailbox without a signal for it.                              *)
THEOREM BuffersConserved == Spec => []EveryBufferOnce
<1>1. IInv => EveryBufferOnce
  BY DEF IInv
<1> QED BY Invariance, <1>1, PTL

(* After StopSystem the loop fetches at most NumberOfMbx messages more,    *)
(* whatever is posted meanwhile.                                           *)
THEOREM StopBounded == Spec => []StopIsPrompt
<1>1. IInv => StopIsPrompt
  BY DEF IInv, Turns, StopIsPrompt
<1> QED BY Invariance, <1>1, PTL

(* An automate of a type with a list is in the list once, or in a call.    *)
THEOREM Exclusive == Spec => []CallsAreExclusive
<1>1. IInv => CallsAreExclusive
  <2> SUFFICES ASSUME IInv, NEW a \in Automate
               PROVE  LET list   == FreeAutomates[TypeOf[a]]
                          copies == Cardinality({k \in DOMAIN list : list[k] = a})
                      IN /\ ObjectId[a] # AnyFree /\ UseFreeList[TypeOf[a]] =>
                              copies = (IF a \in serving THEN 0 ELSE 1)
                         /\ ObjectId[a] = AnyFree => copies = 0 /\ a \notin serving
    BY DEF CallsAreExclusive
  <2> DEFINE list == FreeAutomates[TypeOf[a]]
             C == {k \in DOMAIN list : list[k] = a}
  <2>1. TypeOf[a] \in Type
    BY FsmSystemAssumption
  <2>2. DOMAIN list = 1 .. Len(list)
    BY <2>1 DEF IInv, Types
  <2>3. ASSUME a \in serving \/ ~Registered(a) PROVE Cardinality(C) = 0
    <3>1. C = {}
      BY <2>1, <2>2, <2>3 DEF IInv, Lists
    <3> QED BY <3>1, FS_EmptySet
  <2>4. ASSUME Registered(a), UseFreeList[TypeOf[a]], a \notin serving PROVE Cardinality(C) = 1
    <3>1. PICK k \in 1 .. Len(list) : list[k] = a
      BY <2>4 DEF IInv, Lists, Listed
    <3>2. \A j \in 1 .. Len(list) : list[j] = a => j = k
      BY <2>1, <3>1 DEF IInv, Lists
    <3>3. C = {k}
      BY <2>2, <3>1, <3>2
    <3> QED BY <3>3, FS_Singleton
  <2>5. a \in serving => Registered(a)
    BY DEF IInv, Lists
  <2> HIDE DEF C
  <2> QED BY <2>3, <2>4, <2>5 DEF C, Registered
<1> QED BY Invariance, <1>1, PTL

(* A step from the fetch to a procedure runs the automate that the header  *)
(* of the message names, or one of its type that has no call.              *)
THEOREM Addressed == Spec => DeliveredToAddressee
<1> DEFINE A == (pc = "fetch" /\ pc' = "process") =>
                  LET m == Head(Rest) IN
                  /\ TypeOf[running'] = m.type
                  /\ m.object \in {AnyFree, ObjectId[running']}
                  /\ m.object = AnyFree => running' \notin serving
<1>1. IInv /\ [Next]_vars => [A]_vars
  <2> SUFFICES ASSUME IInv, [Next]_vars, pc = "fetch", pc' = "process"
               PROVE  /\ TypeOf[running'] = Head(Rest).type
                      /\ Head(Rest).object \in {AnyFree, ObjectId[running']}
                      /\ Head(Rest).object = AnyFree => running' \notin serving
    OBVIOUS
  <2>1. Call \/ Deliver
    BY DEF Next, SystemThread, AddFirst, AddNext, Remove, Start, While, FetchNothing, Discard,
           Process, Fault, Post, StopSystem, Exit, Advance, vars, thread
  <2>2. CASE Call
    <3> DEFINE t == Head(Rest).type
    <3>1. /\ Head(Rest).object = AnyFree /\ FreeAutomates[t] # <<>>
          /\ running' = Head(FreeAutomates[t])
      BY <2>2 DEF Call
    <3>2. t \in Type
      BY <2>2, Addressee DEF Call, IInv
    <3>3. FreeAutomates[t] \in Seq(Automate)
      BY <3>2 DEF IInv, Types
    <3> HIDE DEF t
    <3>4. 1 \in 1 .. Len(FreeAutomates[t]) /\ running' = FreeAutomates[t][1]
      BY <3>1, <3>3
    <3>5. TypeOf[running'] = t /\ running' \notin serving
      BY <3>2, <3>4 DEF IInv, Lists
    <3> QED BY <3>1, <3>5 DEF t
  <2>3. CASE Deliver
    <3> DEFINE m == Head(Rest)
    <3>1. /\ m.object # AnyFree /\ running' = At(m) /\ At(m) # NoAutomate
      BY <2>3 DEF Deliver
    <3>2. /\ m.type \in Type /\ m.object \in 0 .. Objects[m.type]
          /\ Automates[m.type] \in [1 .. Objects[m.type] -> Automate \cup {NoAutomate}]
          /\ NumberOfObjects[m.type] = Objects[m.type]
      BY <2>3, Addressee DEF Deliver, IInv
    <3>3. Array(m.type)
      BY <3>2, ArrayIsNoMark DEF Array
    <3>4. Objects[m.type] \in Nat
      BY <3>2, Sizes
    <3> HIDE DEF m
    <3>5. running' = Automates[m.type][m.object + 1] /\ m.object # Objects[m.type]
      BY <3>1, <3>2 DEF At
    <3>6. m.object + 1 \in 1 .. Objects[m.type] /\ (m.object + 1) - 1 = m.object
      BY <3>2, <3>4, <3>5
    <3>7. TypeOf[running'] = m.type /\ ObjectId[running'] = m.object
      BY <3>1, <3>2, <3>3, <3>5, <3>6 DEF IInv, Slots
    <3> QED BY <3>1, <3>7 DEF m
  <2> QED BY <2>1, <2>2, <2>3
<1>2. Spec => [][A]_vars
  BY Invariance, <1>1, PTL DEF Spec
<1> QED BY <1>2 DEF DeliveredToAddressee
=============================================================================
