------------------------------- MODULE FsmSystem -------------------------------
(***************************************************************************)
(* FSMSystem: the table of automates, the lists of free automates, and the *)
(* loop of the system thread that fetches a message, finds the automate it *)
(* is for and lets it process the message.  The main thread stops the      *)
(* system and exits without waiting for it.                                *)
(*                                                                         *)
(* The mailboxes are one queue (module PostOffice) and the buffers are     *)
(* counted (module Messages).  Only the system thread uses the lists here; *)
(* module NetServer has the threads that share them.  Assertions about the *)
(* order of registrations are obligations of the program and appear as     *)
(* guards.                                                                 *)
(***************************************************************************)
EXTENDS Integers, Sequences, FiniteSets, Functions

CONSTANTS
  NumberOfAutomates, \* the number of types
  NumberOfMbx,
  Automate,
  NoAutomate,        \* null pointer
  TypeOf,            \* TypeOf[a]: the type automate a is registered under
  Objects,           \* Objects[t]: the size of the array of type t
  UseFreeList,       \* UseFreeList[t]: is a list of free automates kept?
  Buffers,           \* bound: the number of buffers
  SemMax             \* the limit of a mailbox's semaphore

Type == 0 .. NumberOfAutomates - 1

ASSUME FsmSystemAssumption ==
  /\ NumberOfAutomates \in Nat \ {0} /\ NumberOfMbx \in Nat \ {0} /\ Buffers \in Nat
  /\ SemMax \in Nat /\ SemMax >= Buffers
  /\ NoAutomate \notin Automate
  /\ {"no array", "deleted"} \cap (Automate \cup {NoAutomate}) = {}
  /\ TypeOf \in [Automate -> Type]
  /\ Objects \in [Type -> Nat \ {0}] /\ UseFreeList \in [Type -> BOOLEAN]
  /\ \A t \in Type : Objects[t] >= Cardinality({a \in Automate : TypeOf[a] = t})

VARIABLES
  Automates,        \* Automates[t]: the array, NoArray, or Deleted
  NumberOfObjects,  \* with the entry behind the last type
  ObjectId,         \* ObjectId[a] once a is registered
  FreeAutomates,    \* FreeAutomates[t]: FSMList, first in first out
  SystemWorking,
  pc, i,            \* the system thread in Start, and its loop counter
  running,          \* the automate that processes a message
  mbx,              \* messages by their address
  sem,              \* signals of the mailbox
  free,             \* free buffers
  main,             \* what the main thread has done
  serving,          \* history: automates that were given a call
  late              \* history: messages fetched after StopSystem, counted up
                    \* to NumberOfMbx + 1

table  == <<Automates, NumberOfObjects, ObjectId>>
thread == <<SystemWorking, pc, i, running, main, late>>
mail   == <<mbx, sem, free>>
vars   == <<table, FreeAutomates, thread, mail, serving>>

NoArray == <<"no array">>
Deleted == <<"deleted">>

(* Object number 0xffffffff: any free automate of the type.                *)
AnyFree == -1

(* A stopped timer's expiry, which TMailBox::Get does not return.          *)
DISCARDED == [type |-> -1, object |-> 0]

(* What senders write into a header: an automate, an object number one too *)
(* large, any free automate, a type nobody registered.                     *)
Address ==
  {DISCARDED} \cup [type : {NumberOfAutomates}, object : {0}]
    \cup UNION {[type : {t}, object : {AnyFree} \cup 0 .. Objects[t]] : t \in Type}

Init ==
  /\ Automates = [t \in Type |-> NoArray]
  /\ NumberOfObjects = [t \in 0 .. NumberOfAutomates |-> 0]
  /\ ObjectId = [a \in Automate |-> AnyFree]
  /\ FreeAutomates = [t \in Type |-> <<>>]
  /\ SystemWorking = FALSE
  /\ pc = "setup" /\ i = 0 /\ running = NoAutomate
  /\ mbx = <<>> /\ sem = 0 /\ free = Buffers
  /\ main = "running"
  /\ serving = {} /\ late = 0

-----------------------------------------------------------------------------
(* Registration, before Start.                                             *)

ListIfUsed(a, t) ==
  FreeAutomates' = IF UseFreeList[t] THEN [FreeAutomates EXCEPT ![t] = Append(@, a)]
                   ELSE FreeAutomates

(* Faulty variant: object numbers start at one.                            *)
SetObjectIdFromOne(a, k) == ObjectId' = [ObjectId EXCEPT ![a] = k]
(* The k-th slot has object number k - 1.                                  *)
SetObjectId(a, k) == ObjectId' = [ObjectId EXCEPT ![a] = k - 1]

(* Add(object, automateType, numOfObjects, useFreeList): the first         *)
(* automate of its type.                                                   *)
AddFirst(a) ==
  LET t == TypeOf[a] IN
  /\ pc = "setup" /\ Automates[t] = NoArray
  /\ NumberOfObjects' = [NumberOfObjects EXCEPT ![t] = Objects[t]]
  /\ Automates' = [Automates EXCEPT ![t] =
                     [k \in 1 .. Objects[t] |-> IF k = 1 THEN a ELSE NoAutomate]]
  /\ SetObjectId(a, 1)
  /\ ListIfUsed(a, t)
  /\ UNCHANGED <<thread, mail, serving>>

(* The first empty slot of the array.                                      *)
EmptySlot(t) == CHOOSE k \in DOMAIN Automates[t] :
                  /\ Automates[t][k] = NoAutomate
                  /\ \A j \in 1 .. k - 1 : Automates[t][j] # NoAutomate

(* Add(object, automateType): one more.                                    *)
AddNext(a) ==
  LET t == TypeOf[a] IN
  /\ pc = "setup" /\ NumberOfObjects[t] # 0
  /\ a \notin Range(Automates[t]) /\ NoAutomate \in Range(Automates[t])
  /\ Automates' = [Automates EXCEPT ![t][EmptySlot(t)] = a]
  /\ SetObjectId(a, EmptySlot(t))
  /\ ListIfUsed(a, t)
  /\ UNCHANGED <<NumberOfObjects, thread, mail, serving>>

(* Remove(automateType) leaves the pointer to the deleted array and the    *)
(* list of free automates as they were.                                    *)
Remove(t) ==
  /\ pc = "setup" /\ NumberOfObjects[t] # 0
  /\ NumberOfObjects' = [NumberOfObjects EXCEPT ![t] = 0]
  /\ Automates' = [Automates EXCEPT ![t] = Deleted]
  /\ UNCHANGED <<ObjectId, FreeAutomates, thread, mail, serving>>

-----------------------------------------------------------------------------
(* The system thread.                                                      *)

(* Start.  A StopSystem before it has no effect.                           *)
Start ==
  /\ pc = "setup" /\ main # "exited"
  /\ SystemWorking' = TRUE
  /\ pc' = "while"
  /\ UNCHANGED <<table, FreeAutomates, i, running, main, late, mail, serving>>

While ==
  /\ pc = "while"
  /\ pc' = IF SystemWorking THEN "fetch" ELSE "ended"
  /\ i' = 0
  /\ UNCHANGED <<table, FreeAutomates, SystemWorking, running, main, late, mail, serving>>

(* Faulty variant: the loop over the mailboxes goes round once more.       *)
AdvanceTooFar ==
  /\ pc' = IF i = NumberOfMbx THEN "while" ELSE "fetch"
  /\ i' = i + 1
(* Faulty variant: the loop ends only when there was nothing to fetch.     *)
AdvanceForever == pc' = "fetch" /\ i' = i
(* The next turn of the loop over the mailboxes.                           *)
Advance ==
  /\ pc' = IF i + 1 = NumberOfMbx THEN "while" ELSE "fetch"
  /\ i' = i + 1

(* GetMsgSync: the messages TMailBox::Get passes over, and the rest.       *)
Live    == {k \in DOMAIN mbx : mbx[k] # DISCARDED}
Skipped == IF Live = {} THEN Len(mbx)
           ELSE (CHOOSE k \in Live : \A j \in Live : k <= j) - 1
Rest    == SubSeq(mbx, Skipped + 1, Len(mbx))

Fetch ==
  /\ pc = "fetch" /\ main # "exited" /\ sem > 0
  /\ sem' = sem - 1
  /\ late' = IF SystemWorking \/ late > NumberOfMbx THEN late ELSE late + 1

(* Only discarded messages: NULL, Sleep(10), continue.                     *)
FetchNothing ==
  /\ Fetch /\ Rest = <<>>
  /\ mbx' = <<>> /\ free' = free + Len(mbx)
  /\ Advance
  /\ UNCHANGED <<table, FreeAutomates, SystemWorking, running, main, serving>>

(* The comparisons are with > and not >=.                                  *)
Unknown(m)   == m.type > NumberOfAutomates \/ NumberOfObjects[m.type] = 0
TooLarge(m)  == m.object > NumberOfObjects[m.type]
Discarded(m) == Unknown(m) \/ (m.object # AnyFree /\ TooLarge(m))

(* Faulty variant: the buffer of a discarded message is not given back.    *)
NoDiscardMsg == free' = free + Skipped
DiscardMsg == free' = free + Skipped + 1

Discard ==
  /\ Fetch /\ Rest # <<>> /\ Discarded(Head(Rest))
  /\ mbx' = Tail(Rest)
  /\ DiscardMsg
  /\ Advance
  /\ UNCHANGED <<table, FreeAutomates, SystemWorking, running, main, serving>>

(* Faulty variant: GetFromHead returns the head and leaves it in the list. *)
GetLeaves(t) == FreeAutomates' = FreeAutomates
(* FSMList::Get.                                                           *)
Get(t) == FreeAutomates' = [FreeAutomates EXCEPT ![t] = Tail(@)]

(* A message for any free automate of a type.  An empty list throws, so    *)
(* NoFreeObjectProcedure is never called.                                  *)
Call ==
  LET t == Head(Rest).type IN
  /\ Fetch /\ Rest # <<>> /\ ~Discarded(Head(Rest)) /\ Head(Rest).object = AnyFree
  /\ mbx' = Tail(Rest) /\ free' = free + Skipped
  /\ IF FreeAutomates[t] = <<>>
       THEN pc' = "crashed" /\ UNCHANGED <<FreeAutomates, running, serving>>
       ELSE /\ Get(t)
            /\ running' = Head(FreeAutomates[t])
            /\ serving' = serving \cup {Head(FreeAutomates[t])}
            /\ pc' = "process"
  /\ UNCHANGED <<table, SystemWorking, i, main>>

(* The entry behind the array and an empty slot are no automates.          *)
At(m) == IF m.object = NumberOfObjects[m.type] THEN NoAutomate
         ELSE Automates[m.type][m.object + 1]

(* A message for one automate.                                             *)
Deliver ==
  LET m == Head(Rest) IN
  /\ Fetch /\ Rest # <<>> /\ ~Discarded(m) /\ m.object # AnyFree
  /\ mbx' = Tail(Rest) /\ free' = free + Skipped
  /\ running' = At(m)
  /\ pc' = IF At(m) = NoAutomate THEN "crashed" ELSE "process"
  /\ UNCHANGED <<table, FreeAutomates, SystemWorking, i, main, serving>>

(* FiniteStateMachine::Process: the procedure, which may end the call with *)
(* FreeFSM, and ClearMessage.                                              *)
Process(ends) ==
  /\ pc = "process" /\ main # "exited"
  /\ free' = free + 1
  /\ IF ends
       THEN /\ running \in serving
            /\ serving' = serving \ {running}
            /\ ListIfUsed(running, TypeOf[running])
       ELSE UNCHANGED <<serving, FreeAutomates>>
  /\ running' = NoAutomate
  /\ Advance
  /\ UNCHANGED <<table, SystemWorking, main, late, mbx, sem>>

(* The kernel is gone: the next use of it is a null pointer.               *)
Fault ==
  /\ pc \in {"fetch", "process"} /\ main = "exited"
  /\ pc' = "crashed"
  /\ UNCHANGED <<table, FreeAutomates, SystemWorking, i, running, main, late, mail, serving>>

-----------------------------------------------------------------------------
(* Automates, timers and receiving threads post messages.                  *)
Post(m) ==
  /\ pc # "crashed" /\ main # "exited" /\ free > 0
  /\ free' = free - 1
  /\ mbx' = Append(mbx, m)
  /\ sem' = IF sem < SemMax THEN sem + 1 ELSE sem
  /\ UNCHANGED <<table, FreeAutomates, thread, serving>>

(* mainProgram: StopSystem, then the end of the program, which destroys    *)
(* the static FSMSystem: Remove of every type, whose assertion fails for a *)
(* type that was removed before, and the kernel objects.                   *)
StopSystem ==
  /\ main = "running" /\ main' = "stopped"
  /\ SystemWorking' = FALSE
  /\ UNCHANGED <<table, FreeAutomates, pc, i, running, late, mail, serving>>

Exit ==
  /\ main = "stopped" /\ main' = "exited"
  /\ IF Deleted \in Range(Automates)
       THEN pc' = "crashed" /\ UNCHANGED <<NumberOfObjects, Automates>>
       ELSE /\ pc' = pc
            /\ Automates' = [t \in Type |-> IF Automates[t] = NoArray THEN NoArray ELSE Deleted]
            /\ NumberOfObjects' = [t \in 0 .. NumberOfAutomates |-> 0]
  /\ UNCHANGED <<ObjectId, FreeAutomates, SystemWorking, i, running, late, mail, serving>>

SystemThread ==
  \/ While
  \/ FetchNothing \/ Discard \/ Call \/ Deliver
  \/ \E ends \in BOOLEAN : Process(ends)
  \/ Fault

Next ==
  \/ \E a \in Automate : AddFirst(a)
  \/ \E a \in Automate : AddNext(a)
  \/ \E t \in Type : Remove(t)
  \/ Start \/ SystemThread
  \/ \E m \in Address : Post(m)
  \/ StopSystem \/ Exit

Spec == Init /\ [][Next]_vars

(* The system thread runs when it can; a procedure returns.                *)
FairSpec == Spec /\ WF_vars(SystemThread)

-----------------------------------------------------------------------------
(* Type invariant of the automate table, the lists and the loop.           *)
TypeOK ==
  /\ \A t \in Type :
       /\ Automates[t] \in {NoArray, Deleted} \/ Range(Automates[t]) \subseteq Automate \cup {NoAutomate}
       /\ NumberOfObjects[t] \in {0, Objects[t]}
       /\ NumberOfObjects[t] = (IF Automates[t] \in {NoArray, Deleted} THEN 0 ELSE Len(Automates[t]))
       /\ Range(FreeAutomates[t]) \subseteq Automate
  /\ ObjectId \in [Automate -> Int]
  /\ pc \in {"setup", "while", "fetch", "process", "ended", "crashed"}
  /\ pc \in {"fetch", "process"} => i \in 0 .. NumberOfMbx - 1
  /\ Range(mbx) \subseteq Address
  /\ running \in Automate \cup {NoAutomate}
  /\ SystemWorking \in BOOLEAN /\ serving \subseteq Automate

(* Every path of the loop in Start gives the buffer of its message back    *)
(* once, and there is a signal for every live message: no message is left  *)
(* in the mailbox with the system thread asleep.                           *)
EveryBufferOnce ==
  pc # "crashed" =>
    /\ free + Len(mbx) + (IF pc = "process" THEN 1 ELSE 0) = Buffers
    /\ Cardinality(Live) <= sem

(* FreeAutomates and FreeFSM: an automate of a type with a list is either  *)
(* in that list, once, or in a call; so no automate gets a second call,    *)
(* and none is lost for later ones, even after Remove.                     *)
CallsAreExclusive ==
  \A a \in Automate :
    LET list   == FreeAutomates[TypeOf[a]]
        copies == Cardinality({k \in DOMAIN list : list[k] = a})
    IN /\ ObjectId[a] # AnyFree /\ UseFreeList[TypeOf[a]] =>
            copies = (IF a \in serving THEN 0 ELSE 1)
       /\ ObjectId[a] = AnyFree => copies = 0 /\ a \notin serving

(* What a message's header names is what processes it: an automate's       *)
(* object number finds that automate, and a message for any free automate  *)
(* goes to one that has no call (Add and Start).                           *)
DeliveredToAddressee ==
  [][(pc = "fetch" /\ pc' = "process") =>
       LET m == Head(Rest) IN
       /\ TypeOf[running'] = m.type
       /\ m.object \in {AnyFree, ObjectId[running']}
       /\ m.object = AnyFree => running' \notin serving]_vars

(* After StopSystem the thread fetches at most one more round of messages: *)
(* the flag is read once in NumberOfMbx turns.                             *)
StopIsPrompt == late <= NumberOfMbx

(* StopSystem ends the system thread, or leaves it in the wait for a       *)
(* message that nobody may ever send (main.cpp:72 promises the end).       *)
StopEnds ==
  (pc # "setup" /\ ~SystemWorking)
    ~> (pc \in {"ended", "crashed"} \/ (pc = "fetch" /\ sem = 0))
=============================================================================
