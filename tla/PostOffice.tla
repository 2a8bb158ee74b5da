------------------------------ MODULE PostOffice ------------------------------
(***************************************************************************)
(* Message exchange of the Kernel library: TPostOffice, its TMailBox       *)
(* queues and the semaphore of each mailbox, at the granularity of the     *)
(* critical sections and semaphore calls of the code.  Any thread may post *)
(* (the timer callback, a socket listener, the system thread inside a      *)
(* handler); the system thread alone fetches, in FSMSystem::Start.         *)
(*                                                                         *)
(* A buffer is an opaque value.  Its MSG_CODE is kept as far as the post   *)
(* office looks at it: an ordinary message, a timer message that can still *)
(* be stopped, or DISCARDED.                                               *)
(***************************************************************************)
EXTENDS Integers, Sequences, FiniteSets

CONSTANTS
  Mbx,        \* mailbox identifiers: 0 .. MailBoxesNum-1
  Buffer,     \* the message buffers of TBuffers
  Poster,     \* all other posters: running timers, socket listeners
  System,     \* the system thread, which runs FSMSystem::Start
  NoBuffer,   \* NULL
  SemMax      \* maximum count of a mailbox semaphore (10000 in the code)

(* SemMax: CreateSemaphore is given 10000, the kernel of the client is     *)
(* initialised with 50 + 50 + 5000 + 10 buffers (main.cpp:30).             *)
ASSUME PostOfficeAssumption ==
  /\ Mbx \subseteq Nat
  /\ IsFiniteSet(Buffer)
  /\ NoBuffer \notin Buffer
  /\ IsFiniteSet(Poster)
  /\ System \notin Poster
  /\ SemMax \in Nat
  /\ Cardinality(Buffer) <= SemMax

Thread == Poster \cup {System}
Code   == {"message", "timer", "DISCARDED"}

VARIABLES
  box,      \* box[m]: messages queued in mailbox m, head first
  sem,      \* sem[m]: count of the semaphore of mailbox m
  code,     \* MSG_CODE of every buffer
  pool,     \* buffers held by TBuffers
  add,      \* add[t]: where thread t is in TPostOffice::Add
  get       \* where the system thread is in FSMSystem::Start

vars == <<box, sem, code, pool, add, get>>

-----------------------------------------------------------------------------
AddIdle == [pc |-> "idle", mbx |-> 0, buf |-> NoBuffer]
GetWait == [pc |-> "wait", mbx |-> 0, buf |-> NoBuffer]

Init ==
  /\ box  = [m \in Mbx |-> <<>>]
  /\ sem  = [m \in Mbx |-> 0]
  /\ code = [b \in Buffer |-> "message"]
  /\ pool = Buffer
  /\ add  = [t \in Thread |-> AddIdle]
  /\ get  = GetWait

(* A thread may start a post at any time; the system thread only inside a  *)
(* handler, that is while it processes a fetched message.                  *)
MayPost(t) == add[t].pc = "idle" /\ (t = System => get.pc = "handle")

(* GetBuffer and the header writes of a new message (MSG_CODE included).   *)
(* A timer is started by a handler; its buffer is in the hand of the timer *)
(* callback until it expires, so a poster stands for each running timer.   *)
GetBuffer(t, b, c) ==
  /\ MayPost(t)
  /\ c = "timer" => t # System /\ MayPost(System)
  /\ b \in pool
  /\ pool' = pool \ {b}
  /\ code' = [code EXCEPT ![b] = c]
  /\ add'  = [add EXCEPT ![t] = [pc |-> "new", mbx |-> 0, buf |-> b]]
  /\ UNCHANGED <<box, sem, get>>

(* Faulty variant of PutOnTail: the message is put at the head.            *)
PutOnHead(t, m) ==
  /\ add[t].pc = "new"
  /\ box' = [box EXCEPT ![m] = <<add[t].buf>> \o @]
  /\ add' = [add EXCEPT ![t] = [pc |-> "put", mbx |-> m, buf |-> NoBuffer]]
  /\ UNCHANGED <<sem, code, pool, get>>

(* TMailBox::Add: PutOnTail inside the mailbox's critical section.         *)
PutOnTail(t, m) ==
  /\ add[t].pc = "new"
  /\ box' = [box EXCEPT ![m] = Append(@, add[t].buf)]
  /\ add' = [add EXCEPT ![t] = [pc |-> "put", mbx |-> m, buf |-> NoBuffer]]
  /\ UNCHANGED <<sem, code, pool, get>>

(* Faulty variants of ReleaseSemaphore: only for the first message of a    *)
(* mailbox; beyond the maximum count.                                      *)
ReleaseIfFirst(t) ==
  /\ add[t].pc = "put"
  /\ sem' = [sem EXCEPT ![add[t].mbx] =
                 IF @ < SemMax /\ Len(box[add[t].mbx]) = 1 THEN @ + 1 ELSE @]
  /\ add' = [add EXCEPT ![t] = AddIdle]
  /\ UNCHANGED <<box, code, pool, get>>

ReleaseUnbounded(t) ==
  /\ add[t].pc = "put"
  /\ sem' = [sem EXCEPT ![add[t].mbx] = @ + 1]
  /\ add' = [add EXCEPT ![t] = AddIdle]
  /\ UNCHANGED <<box, code, pool, get>>

(* The second half of TPostOffice::Add.  ReleaseSemaphore fails without    *)
(* effect when the count is at its maximum; the result is not looked at.   *)
ReleaseSemaphore(t) ==
  /\ add[t].pc = "put"
  /\ sem' = [sem EXCEPT ![add[t].mbx] = IF @ < SemMax THEN @ + 1 ELSE @]
  /\ add' = [add EXCEPT ![t] = AddIdle]
  /\ UNCHANGED <<box, code, pool, get>>

(* Faulty variant of WaitForMailbox: the highest index is preferred.       *)
WaitForHighest(m) ==
  /\ get.pc = "wait"
  /\ sem[m] > 0
  /\ \A h \in Mbx : h > m => sem[h] = 0
  /\ sem' = [sem EXCEPT ![m] = @ - 1]
  /\ get' = [pc |-> "fetch", mbx |-> m, buf |-> NoBuffer]
  /\ UNCHANGED <<box, code, pool, add>>

(* WaitForMultipleObjects takes one unit from the signalled semaphore of   *)
(* lowest index.                                                           *)
WaitForMailbox(m) ==
  /\ get.pc = "wait"
  /\ sem[m] > 0
  /\ \A h \in Mbx : h < m => sem[h] = 0
  /\ sem' = [sem EXCEPT ![m] = @ - 1]
  /\ get' = [pc |-> "fetch", mbx |-> m, buf |-> NoBuffer]
  /\ UNCHANGED <<box, code, pool, add>>

(* Faulty variant of GetFromHead: every timer message counts as discarded. *)
GetFromHeadNoTimers ==
  /\ get.pc = "fetch"
  /\ IF box[get.mbx] = <<>>
       THEN /\ get' = [get EXCEPT !.pc = "sleep"]
            /\ UNCHANGED box
       ELSE LET b == Head(box[get.mbx]) IN
            /\ box' = [box EXCEPT ![get.mbx] = Tail(@)]
            /\ get' = [get EXCEPT
                         !.pc  = IF code[b] # "message" THEN "drop" ELSE "handle",
                         !.buf = b]
  /\ UNCHANGED <<sem, code, pool, add>>

(* One round of the loop of TMailBox::Get: GetFromHead inside the critical *)
(* section, then the look at MSG_CODE.  NULL makes the system thread sleep.*)
GetFromHead ==
  /\ get.pc = "fetch"
  /\ IF box[get.mbx] = <<>>
       THEN /\ get' = [get EXCEPT !.pc = "sleep"]
            /\ UNCHANGED box
       ELSE LET b == Head(box[get.mbx]) IN
            /\ box' = [box EXCEPT ![get.mbx] = Tail(@)]
            /\ get' = [get EXCEPT
                         !.pc  = IF code[b] = "DISCARDED" THEN "drop" ELSE "handle",
                         !.buf = b]
  /\ UNCHANGED <<sem, code, pool, add>>

(* A discarded message goes back to TBuffers and Get tries the next one.   *)
ReturnDiscarded ==
  /\ get.pc = "drop"
  /\ pool' = pool \cup {get.buf}
  /\ get'  = [get EXCEPT !.pc = "fetch", !.buf = NoBuffer]
  /\ UNCHANGED <<box, sem, code, add>>

(* Get returned NULL: Sleep(10), then wait again.                          *)
SleepAfterNull ==
  /\ get.pc = "sleep"
  /\ get' = GetWait
  /\ UNCHANGED <<box, sem, code, pool, add>>

(* Faulty variant of StopTimer: the timer's buffer is given back at once.  *)
StopAndReturn(b) ==
  /\ get.pc = "handle"
  /\ add[System].pc = "idle"
  /\ b \notin pool
  /\ code[b] = "timer"
  /\ code' = [code EXCEPT ![b] = "DISCARDED"]
  /\ pool' = pool \cup {b}
  /\ UNCHANGED <<box, sem, add, get>>

(* A handler stops a running timer, which may already be in a mailbox.     *)
StopTimer(b) ==
  /\ get.pc = "handle"
  /\ add[System].pc = "idle"
  /\ b \notin pool
  /\ code[b] = "timer"
  /\ code' = [code EXCEPT ![b] = "DISCARDED"]
  /\ UNCHANGED <<box, sem, pool, add, get>>

(* The handler returned: ClearMessage gives the message back.              *)
ClearMessage ==
  /\ get.pc = "handle"
  /\ add[System].pc = "idle"
  /\ pool' = pool \cup {get.buf}
  /\ get'  = GetWait
  /\ UNCHANGED <<box, sem, code, add>>

Next ==
  \/ \E t \in Thread, b \in Buffer, c \in {"message", "timer"} : GetBuffer(t, b, c)
  \/ \E t \in Thread, m \in Mbx : PutOnTail(t, m)
  \/ \E t \in Thread : ReleaseSemaphore(t)
  \/ \E m \in Mbx : WaitForMailbox(m)
  \/ GetFromHead
  \/ ReturnDiscarded
  \/ SleepAfterNull
  \/ \E b \in Buffer : StopTimer(b)
  \/ ClearMessage

Spec == Init /\ [][Next]_vars

(* Running threads make progress.  Handlers of the system thread are       *)
(* finite code, so one that keeps coming to an end does end: strong        *)
(* fairness of ClearMessage, which posts of the same handler interrupt.    *)
Fairness ==
  /\ \A t \in Thread : WF_vars(ReleaseSemaphore(t))
  /\ WF_vars(\E m \in Mbx : WaitForMailbox(m))
  /\ WF_vars(GetFromHead \/ ReturnDiscarded \/ SleepAfterNull)
  /\ WF_vars(\E m \in Mbx : PutOnTail(System, m))
  /\ SF_vars(ClearMessage)

FairSpec == Spec /\ Fairness

-----------------------------------------------------------------------------
(* Type invariant of the post office (postOffice.cpp, mailbox.cpp), with    *)
(* what each program point of Add and Get holds.                           *)
TypeOK ==
  /\ box  \in [Mbx -> Seq(Buffer)]
  /\ sem  \in [Mbx -> 0 .. SemMax]
  /\ code \in [Buffer -> Code]
  /\ pool \in SUBSET Buffer
  /\ add  \in [Thread -> [pc : {"idle", "new", "put"},
                          mbx : Mbx \cup {0}, buf : Buffer \cup {NoBuffer}]]
  /\ get  \in [pc : {"wait", "fetch", "drop", "sleep", "handle"},
               mbx : Mbx \cup {0}, buf : Buffer \cup {NoBuffer}]
  /\ \A t \in Thread : add[t].pc = "new" => add[t].buf \in Buffer
  /\ \A t \in Thread : add[t].pc = "put" => add[t].mbx \in Mbx
  /\ get.pc # "wait" => get.mbx \in Mbx
  /\ get.pc \in {"drop", "handle"} => get.buf \in Buffer

Queued(b)   == \E m \in Mbx : \E i \in DOMAIN box[m] : box[m][i] = b
InHand(t,b) == add[t].pc = "new" /\ add[t].buf = b
Current(b)  == get.pc \in {"drop", "handle"} /\ get.buf = b

QueuedOnce ==
  \A m, n \in Mbx : \A i \in DOMAIN box[m], j \in DOMAIN box[n] :
     box[m][i] = box[n][j] => m = n /\ i = j

InOnePlace ==
  \A b \in Buffer :
    /\ Queued(b)  => b \notin pool /\ ~Current(b) /\ \A t \in Thread : ~InHand(t, b)
    /\ Current(b) => b \notin pool /\ \A t \in Thread : ~InHand(t, b)
    /\ \A t \in Thread : InHand(t, b) =>
          b \notin pool /\ \A s \in Thread : InHand(s, b) => s = t

(* No buffer is ever in two places: twice in the mailboxes, in a mailbox   *)
(* and in the free pool, or in a mailbox and in a thread's hand.  This is  *)
(* what the BUFF_TRACKING_DATA checks of the protected build watch for.    *)
Ownership == QueuedOnce /\ InOnePlace

Posting(m)  == {t \in Thread : add[t].pc = "put" /\ add[t].mbx = m}
Fetching(m) == IF get.pc \in {"fetch", "drop"} /\ get.mbx = m THEN 1 ELSE 0

(* No wake-up is lost: every queued message is covered by a unit of its    *)
(* mailbox's semaphore, by a poster between PutOnTail and ReleaseSemaphore,*)
(* or by a Get in progress, whatever Get dropped before and even when the  *)
(* semaphore is at its maximum.                                            *)
NoLostWakeup ==
  \A m \in Mbx : Len(box[m]) <= sem[m] + Cardinality(Posting(m)) + Fetching(m)

(* No step takes a message out of a mailbox but its head, and what the     *)
(* step does with it is decided by its MSG_CODE: a live message goes to a  *)
(* handler, a discarded one back to the pool (TMailBox::Get).              *)
LiveMessageIsHandled ==
  [][\A m \in Mbx :
       (box[m] # <<>> /\ box'[m] # box[m] /\ Len(box'[m]) < Len(box[m]))
         => /\ box'[m] = Tail(box[m])
            /\ get'.buf = Head(box[m])
            /\ (get'.pc = "handle") <=> (code[Head(box[m])] # "DISCARDED")]_vars

(* Every message of a mailbox is fetched eventually, provided the          *)
(* mailboxes of lower index fall silent: WaitForMultipleObjects prefers    *)
(* them, so nothing is promised to a mailbox below one that stays busy.    *)
EventuallyFetched ==
  \A m \in Mbx :
    (<>[](\A h \in Mbx : h < m => sem[h] = 0))
      => \A b \in Buffer : (\E i \in DOMAIN box[m] : box[m][i] = b)
                              ~> ~(\E i \in DOMAIN box[m] : box[m][i] = b)

(* The mailboxes as the automates see them.                                *)
MQ == INSTANCE MailQueue WITH
        queue     <- box,
        cancelled <- {b \in Buffer : code[b] = "DISCARDED"},
        current   <- IF get.pc = "handle" THEN get.buf ELSE NoBuffer

(* The post office implements the FIFO mailboxes of MailQueue              *)
(* (TPostOffice::Add, TMailBox::Get): in-order delivery, at most once.     *)
ImplementsMailQueue == MQ!MSpec
=============================================================================
