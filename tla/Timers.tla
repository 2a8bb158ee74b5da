-------------------------------- MODULE Timers --------------------------------
(***************************************************************************)
(* The timers of the Kernel library: the delta list of CTimer, the tick    *)
(* callback, and the timer operations of FiniteStateMachine, with the      *)
(* buffers they live in.  A buffer is in the free queue, in the delta      *)
(* list, in the mailbox or being processed, and is recycled in the order   *)
(* in which it was freed.                                                  *)
(*                                                                         *)
(* The delta list is protected by CsTimer, so Add and a tick are atomic;   *)
(* everything else is done by the system thread, inside a handler.  The    *)
(* mailboxes are one FIFO queue here (module PostOffice).                  *)
(***************************************************************************)
EXTENDS Integers, Sequences, FiniteSets, Functions, Subsequences

CONSTANTS
  Timer,          \* the timer identifiers of the automates
  Buffer,         \* the buffers of TBuffers
  Queue,          \* the order in which the free queue is filled
  NoBuffer,       \* the null pointer
  Count,          \* Count[t]: the duration given to InitTimerBlock
  FsmResolution,  \* TimerResolution of the automates, in milliseconds
  KernelResolution, \* TimerResolution of CTimer
  Word,           \* TIMER_COUNT is a word of Word values (2^32)
  ResetsExpired   \* do handlers reset an expired timer before they return?

Ticks(t) == (Count[t] * (FsmResolution \div KernelResolution)) % Word

(* Main uses Timer1s for both resolutions.  A resolution finer than the    *)
(* kernel's would give zero ticks.                                         *)
ASSUME TimersAssumption ==
  /\ NoBuffer \notin Buffer
  /\ Queue \in Seq(Buffer) /\ Range(Queue) = Buffer /\ IsInjective(Queue)
  /\ Timer \cap {"message", "DISCARDED"} = {}
  /\ Word \in Nat \ {0} /\ \A t \in Timer : Ticks(t) \in 1 .. Word - 1
  /\ ResetsExpired \in BOOLEAN

VARIABLES
  list,         \* the delta list behind its dummy head
  count,        \* TIMER_COUNT of every buffer: ticks after its predecessor
  code,         \* MSG_CODE: a timer's signal, another message, or DISCARDED
  pool,         \* the free queue of TBufferQue
  mbx,          \* the mailbox
  current,      \* CurrentMessage of the running handler
  TimerBuffer,  \* TimerStore[t].TimerBuffer
  started       \* history: the timers of list in the order of their start

vars == <<list, count, code, pool, mbx, current, TimerBuffer, started>>

-----------------------------------------------------------------------------
(* Ticks until the i-th timer of a delta list expires.                     *)
DueIn(l, c) == LET sum[i \in 0 .. Len(l)] ==
                     IF i = 0 THEN 0 ELSE sum[i - 1] + c[l[i]]
               IN sum
Due == DueIn(list, count)

Init ==
  /\ list = <<>>
  /\ count = [b \in Buffer |-> 0]
  /\ code = [b \in Buffer |-> "message"]
  /\ pool = Queue
  /\ mbx = <<>>
  /\ current = NoBuffer
  /\ TimerBuffer = [t \in Timer |-> NoBuffer]
  /\ started = <<>>

(* Any thread posts an ordinary message.                                   *)
SendMessage ==
  /\ pool # <<>>
  /\ mbx' = Append(mbx, Head(pool))
  /\ code' = [code EXCEPT ![Head(pool)] = "message"]
  /\ pool' = Tail(pool)
  /\ UNCHANGED <<list, count, current, TimerBuffer, started>>

(* Faulty variant of Insert: the timer that follows keeps its count.       *)
InsertOnly(b, n) ==
  LET k == Cardinality({i \in DOMAIN list : Due[i] <= n})
  IN /\ list' = SubSeq(list, 1, k) \o <<b>> \o SubSeq(list, k + 1, Len(list))
     /\ count' = [count EXCEPT ![b] = n - Due[k]]

(* CTimer::Add: the new timer goes behind every timer due no later than    *)
(* itself, and the timer it goes before now counts from it.                *)
Insert(b, n) ==
  LET k == Cardinality({i \in DOMAIN list : Due[i] <= n})
      rest == n - Due[k]
  IN /\ list' = SubSeq(list, 1, k) \o <<b>> \o SubSeq(list, k + 1, Len(list))
     /\ count' = [x \in Buffer |->
                    CASE x = b -> rest
                      [] k < Len(list) /\ x = list[k + 1] -> count[x] - rest
                      [] OTHER -> count[x]]

(* FiniteStateMachine::StartTimer asserts that TimerBuffer is null.        *)
StartTimer(t) ==
  /\ current # NoBuffer
  /\ TimerBuffer[t] = NoBuffer
  /\ pool # <<>>
  /\ LET b == Head(pool) IN
       /\ pool' = Tail(pool)
       /\ code' = [code EXCEPT ![b] = t]
       /\ Insert(b, Ticks(t))
       /\ TimerBuffer' = [TimerBuffer EXCEPT ![t] = b]
       /\ started' = Append(started, b)
  /\ UNCHANGED <<mbx, current>>

(* Faulty variants of StopTimer: the buffer is given back at once; a timer *)
(* that expired into the mailbox is not marked.                            *)
StopAndReturn(t) ==
  /\ current # NoBuffer
  /\ TimerBuffer[t] # NoBuffer
  /\ code' = [code EXCEPT ![TimerBuffer[t]] = "DISCARDED"]
  /\ pool' = Append(pool, TimerBuffer[t])
  /\ TimerBuffer' = [TimerBuffer EXCEPT ![t] = NoBuffer]
  /\ UNCHANGED <<list, count, mbx, current, started>>

StopUnlessExpired(t) ==
  /\ current # NoBuffer
  /\ TimerBuffer[t] # NoBuffer
  /\ code' = IF TimerBuffer[t] \in Range(list)
               THEN [code EXCEPT ![TimerBuffer[t]] = "DISCARDED"] ELSE code
  /\ TimerBuffer' = [TimerBuffer EXCEPT ![t] = NoBuffer]
  /\ UNCHANGED <<list, count, pool, mbx, current, started>>

(* The timer stays in the delta list or in the mailbox, marked DISCARDED.  *)
StopTimer(t) ==
  /\ current # NoBuffer
  /\ TimerBuffer[t] # NoBuffer
  /\ code' = [code EXCEPT ![TimerBuffer[t]] = "DISCARDED"]
  /\ TimerBuffer' = [TimerBuffer EXCEPT ![t] = NoBuffer]
  /\ UNCHANGED <<list, count, pool, mbx, current, started>>

(* ResetTimer "is used after timer expiration [...] if timer not started   *)
(* again" (fsm.h:485): by the handler of the expiry.                       *)
ResetTimer(t) ==
  /\ current # NoBuffer
  /\ TimerBuffer[t] = current
  /\ TimerBuffer' = [TimerBuffer EXCEPT ![t] = NoBuffer]
  /\ UNCHANGED <<list, count, code, pool, mbx, current, started>>

(* The number of timers at the front that have nothing left.               *)
Expired(l, c) == CHOOSE i \in 0 .. Len(l) :
                   /\ \A j \in 1 .. i : c[l[j]] = 0
                   /\ i < Len(l) => c[l[i + 1]] # 0

(* TimerIntHandler: one tick off the first timer; then every timer at the  *)
(* front with nothing left is posted.                                      *)
Tick ==
  /\ list # <<>>
  /\ count' = [count EXCEPT ![list[1]] = (@ - 1 + Word) % Word]
  /\ LET k == Expired(list, count')
     IN /\ mbx' = mbx \o SubSeq(list, 1, k)
        /\ list' = SubSeq(list, k + 1, Len(list))
        /\ started' = Subsequence(started,
                         {i \in DOMAIN started : \A j \in 1 .. k : list[j] # started[i]})
  /\ UNCHANGED <<code, pool, current, TimerBuffer>>

(* Faulty variant of Get: the buffer of a discarded message is lost.       *)
GetLosesDiscarded ==
  /\ current = NoBuffer
  /\ mbx # <<>>
  /\ mbx' = Tail(mbx)
  /\ current' = IF code[Head(mbx)] = "DISCARDED" THEN NoBuffer ELSE Head(mbx)
  /\ UNCHANGED <<list, count, code, pool, TimerBuffer, started>>

(* TMailBox::Get drops a discarded message and tries the next.             *)
Get ==
  /\ current = NoBuffer
  /\ mbx # <<>>
  /\ mbx' = Tail(mbx)
  /\ IF code[Head(mbx)] = "DISCARDED"
       THEN pool' = Append(pool, Head(mbx)) /\ UNCHANGED current
       ELSE current' = Head(mbx) /\ UNCHANGED pool
  /\ UNCHANGED <<list, count, code, TimerBuffer, started>>

(* The end of FiniteStateMachine::Process.                                 *)
ClearMessage ==
  /\ current # NoBuffer
  /\ ResetsExpired => \A t \in Timer : TimerBuffer[t] # current
  /\ pool' = Append(pool, current)
  /\ current' = NoBuffer
  /\ UNCHANGED <<list, count, code, mbx, TimerBuffer, started>>

Next == \/ SendMessage
        \/ \E t \in Timer : StartTimer(t) \/ StopTimer(t) \/ ResetTimer(t)
        \/ Tick
        \/ Get
        \/ ClearMessage

Spec == Init /\ [][Next]_vars

(* The multimedia timer ticks, the system thread runs, handlers end, and   *)
(* an expiry handler resets its timer.                                     *)
Fairness == /\ WF_vars(Tick)
            /\ WF_vars(Get)
            /\ SF_vars(ClearMessage)
            /\ \A t \in Timer : WF_vars(ResetTimer(t))

FairSpec == Spec /\ Fairness

-----------------------------------------------------------------------------
Places == <<list, pool, mbx, IF current = NoBuffer THEN <<>> ELSE <<current>> >>

(* Type invariant; every buffer is in exactly one place, once.             *)
TypeOK ==
  /\ count \in [Buffer -> 0 .. Word - 1]
  /\ code \in [Buffer -> Timer \cup {"message", "DISCARDED"}]
  /\ TimerBuffer \in [Timer -> Buffer \cup {NoBuffer}]
  /\ \A p \in 1 .. 4 : Places[p] \in Seq(Buffer) /\ IsInjective(Places[p])
  /\ \A b \in Buffer : Cardinality({p \in 1 .. 4 : b \in Range(Places[p])}) = 1

Live(t, b) == code[b] = t /\ b \in Range(list) \cup Range(mbx)

(* A timer message that is not discarded is the one its automate waits     *)
(* for: a stopped or restarted timer never fires, whether it was still     *)
(* counting or had expired into the mailbox, and IsTimerRunning is exact.  *)
(* It relies on handlers that reset an expired timer.                      *)
StoppedNeverFires ==
  \A t \in Timer :
    /\ \A b \in Buffer : Live(t, b) => TimerBuffer[t] = b
    /\ TimerBuffer[t] # NoBuffer =>
          Live(t, TimerBuffer[t]) \/ (TimerBuffer[t] = current /\ code[current] = t)

(* Every timer comes to an end and its buffer back to the free queue: it   *)
(* expires, however many timers are started before and after it, and is    *)
(* handled or, when it was stopped, dropped.                               *)
EveryTimerEnds == \A b \in Buffer : b \in Range(list) ~> b \in Range(pool)

(* The running timers as countdowns, in the order of their starts.         *)
Running == [i \in DOMAIN started |->
              [buf  |-> started[i],
               left |-> Due[CHOOSE j \in DOMAIN list : list[j] = started[i]]]]

(* The delta list is a set of countdowns, whatever the order of starts,    *)
(* ticks and expiries.                                                     *)
TS == INSTANCE TimerService WITH
        Duration <- {Ticks(t) : t \in Timer}, armed <- Running, posted <- mbx
ImplementsTimerService == TS!TSpec

(* "If timer is already expired it does nothing" (fsm.cpp:227, spelling    *)
(* corrected): StopTimer can only mark the automate's own timer, never a   *)
(* message or a timer that got the buffer afterwards.                      *)
StopMarksOwnTimer ==
  \A t \in Timer : TimerBuffer[t] \in Range(list) \cup Range(mbx)
                     => code[TimerBuffer[t]] = t
=============================================================================
