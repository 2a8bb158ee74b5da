----------------------------- MODULE TimerService -----------------------------
(***************************************************************************)
(* What CTimer promises: a timer started with n ticks is put in the        *)
(* mailbox at the n-th tick from now, timers due at the same tick in the   *)
(* order in which they were started.                                       *)
(***************************************************************************)
EXTENDS Integers, Sequences, Subsequences

CONSTANTS
  Buffer,
  Duration   \* the tick counts timers may be started with

VARIABLES armed,   \* running timers in the order of their start: [buf, left]
          posted   \* the mailbox

tvars == <<armed, posted>>

TInit == armed = <<>> /\ posted = <<>>

Arm(b, n) == armed' = Append(armed, [buf |-> b, left |-> n]) /\ UNCHANGED posted

Elapse ==
  LET due  == {i \in DOMAIN armed : armed[i].left = 1}
      rest == DOMAIN armed \ due
  IN /\ posted' = posted \o Subsequence([i \in DOMAIN armed |-> armed[i].buf], due)
     /\ armed'  = Subsequence([i \in DOMAIN armed |->
                                 [buf |-> armed[i].buf, left |-> armed[i].left - 1]], rest)

Send(b) == posted' = Append(posted, b) /\ UNCHANGED armed

Fetch == posted # <<>> /\ posted' = Tail(posted) /\ UNCHANGED armed

TNext == \/ \E b \in Buffer, n \in Duration : Arm(b, n)
         \/ Elapse
         \/ \E b \in Buffer : Send(b)
         \/ Fetch

TSpec == TInit /\ [][TNext]_tvars
=============================================================================
