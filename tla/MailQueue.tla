------------------------------- MODULE MailQueue -------------------------------
(***************************************************************************)
(* What the post office promises the automates: each mailbox is a FIFO     *)
(* queue; a posted message is delivered at most once, in the order of      *)
(* posting, and only a message that was cancelled is skipped.              *)
(***************************************************************************)
EXTENDS Naturals, Sequences

CONSTANTS Mbx, Buffer, NoBuffer

VARIABLES queue,      \* queue[m]: posted and not yet delivered messages
          cancelled,  \* queued or running timer messages that were stopped
          current     \* the message being processed, NoBuffer if none

mvars == <<queue, cancelled, current>>

Elements(m) == {queue[m][i] : i \in DOMAIN queue[m]}

MInit == /\ queue = [m \in Mbx |-> <<>>]
         /\ cancelled = {}
         /\ current = NoBuffer

(* A buffer is posted in one mailbox at a time, and not while processed.   *)
Post(m, b) ==
  /\ b # current
  /\ \A n \in Mbx : b \notin Elements(n)
  /\ queue' = [queue EXCEPT ![m] = Append(@, b)]
  /\ UNCHANGED <<cancelled, current>>

Deliver(m) ==
  /\ current = NoBuffer
  /\ queue[m] # <<>>
  /\ Head(queue[m]) \notin cancelled
  /\ current' = Head(queue[m])
  /\ queue' = [queue EXCEPT ![m] = Tail(@)]
  /\ UNCHANGED cancelled

Skip(m) ==
  /\ queue[m] # <<>>
  /\ Head(queue[m]) \in cancelled
  /\ queue' = [queue EXCEPT ![m] = Tail(@)]
  /\ UNCHANGED <<cancelled, current>>

Processed == current # NoBuffer /\ current' = NoBuffer /\ UNCHANGED <<queue, cancelled>>

Cancel(b) == cancelled' = cancelled \cup {b} /\ UNCHANGED <<queue, current>>

(* A buffer may be used for a new message once it is nowhere.              *)
Renew(b) ==
  /\ b # current
  /\ \A m \in Mbx : b \notin Elements(m)
  /\ cancelled' = cancelled \ {b}
  /\ UNCHANGED <<queue, current>>

MNext == \/ \E m \in Mbx, b \in Buffer : Post(m, b)
         \/ \E m \in Mbx : Deliver(m) \/ Skip(m)
         \/ Processed
         \/ \E b \in Buffer : Cancel(b) \/ Renew(b)

MSpec == MInit /\ [][MNext]_mvars
=============================================================================
